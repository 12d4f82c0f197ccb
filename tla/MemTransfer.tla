----------------------------- MODULE MemTransfer -----------------------------
(***************************************************************************)
(* sift_device_read, sift_partition_read and their write counterparts,     *)
(* from the choice of the accessor (src/src/sift/capi.cc, device.cc,       *)
(* partition.cc) to the system calls of debugfs_vram_accessor.cc,          *)
(* debugfs_iomem_accessor.cc and sram_accessor.cc.                         *)
(*                                                                         *)
(* A transfer is an lseek and a read or write on a file whose offset is    *)
(* shared by all threads, without a lock.  Each handle, of a device or of  *)
(* a partition, has opened files of its own.  A device, and a partition of *)
(* a GPU that is in no hive, takes addresses in its own video memory; a    *)
(* partition of a hive takes hive-wide ones (HiveRouting) and may pass the *)
(* call on to the files of another partition.  What is modelled of the     *)
(* bytes is which cells of which memory a call touches.                    *)
(***************************************************************************)
EXTENDS HiveRouting, FiniteSets

CONSTANTS
  Threads,   \* threads that call the library
  Devices,   \* the handles of devices
  Parts,     \* those of partitions, in the order of the engine
  Gpus,      \* the GPUs
  GpuOf,     \* the GPU of each handle
  Hive,      \* those of the hive in physical order; the others are in none
  Sizes,     \* the VRAM sizes they may have
  MaxCount   \* the largest count a call may ask for

Handles == Devices \union ToSet(Parts)
System  == Nobody    \* the memory that is no GPU's
Regions == {"video", "system", "other"}
Kinds   == {"vram", "iomem", "devmem"}
Ops     == {"read", "write"}

ASSUME MemTransferAssumption ==
  /\ MaxCount \in Nat \ {0} /\ Handles # {} /\ Devices \cap ToSet(Parts) = {}
  /\ Parts \in Seq(Handles) /\ Hive \in Seq(Gpus) /\ Nobody \notin Gpus
  /\ GpuOf \in [Handles -> Gpus]
  /\ Sizes \subseteq [Gpus -> Nat] /\ \A s \in Sizes : Fits(Hive, s)

VARIABLES
  size,     \* the bytes of video memory of each GPU
  opened,   \* per handle, the regions whose accessor could be made
  offset,   \* the offset of each open file
  call,     \* the arguments of each thread's last call
  pc,       \* per thread: "idle", "seek", "transfer", "answered" or "crashed"
  serving,  \* the handle whose files serve the call, and the address in them
  kind,     \* the file at hand: that handle's amdgpu_vram, amdgpu_iomem or /dev/mem
  touched,  \* the cells of memory the call has transferred so far
  at,       \* where its last transfer started
  got,      \* what it returns
  alone     \* no other call on the same files ran at the same time

memvars == <<size, opened, offset, call, pc, serving, kind, touched, at, got, alone>>

Calls ==
  [h : Handles, region : Regions, op : Ops, addr : 0..Modulus - 1, count : 1..MaxCount]

Cells(a, k) == a .. a + k - 1

(* The constructors of Device and Partition: no accessor without debugfs,  *)
(* which a GPU has for all its handles or for none; none for system memory *)
(* without /dev/mem.                                                       *)
OpenedWith(dri, devmem) ==
  [h \in Handles |-> IF GpuOf[h] \notin dri THEN {}
                     ELSE IF devmem THEN {"video", "system"} ELSE {"video"}]

NoCall == [h |-> CHOOSE h \in Handles : TRUE, region |-> "other", op |-> "read",
           addr |-> 0, count |-> 1]

MemInit ==
  /\ size \in Sizes
  /\ \E dri \in SUBSET Gpus, devmem \in BOOLEAN : opened = OpenedWith(dri, devmem)
  /\ offset = [f \in Handles \X Kinds |-> 0]
  /\ call = [t \in Threads |-> NoCall]
  /\ pc = [t \in Threads |-> "idle"]
  /\ serving = [t \in Threads |-> [h |-> NoCall.h, addr |-> 0]]
  /\ kind = [t \in Threads |-> "vram"]
  /\ touched = [t \in Threads |-> {}]
  /\ at = [t \in Threads |-> 0]
  /\ got = [t \in Threads |-> 0]
  /\ alone = [t \in Threads |-> TRUE]

File(t) == <<serving[t].h, kind[t]>>
InCall(t) == pc[t] \in {"seek", "transfer"}

(* A null pointer that is followed ends the process. *)
Alive == \A t \in Threads : pc[t] # "crashed"

(* the first partition of a GPU, 0 when it has none *)
FirstPart(g) == SelectInSeq(Parts, LAMBDA h : GpuOf[h] = g)

(* The handles that take the address as one of their own video memory: a   *)
(* device, and a partition whose hive_id is 0.                             *)
Local(h) == h \in Devices \/ GpuOf[h] \notin ToSet(Hive)

(* Whose files serve a call, if anyone's: ReadVRAM keeps to the caller's   *)
(* own for the caller's own GPU, else the first partition of the GPU.      *)
Servers(c) ==
  LET found == Walk(Hive, size, c.addr)
      own   == c.op = "read" /\ GpuOf[c.h] = found.gpu
      first == FirstPart(found.gpu)
  IN  IF c.region # "video" \/ Local(c.h) THEN {[h |-> c.h, addr |-> c.addr]}
      ELSE IF found.gpu = Nobody \/ (~own /\ first = 0) THEN {}
      ELSE {[h |-> IF own THEN c.h ELSE Parts[first], addr |-> found.address]}

Rivals(t, s, region) ==
  {u \in Threads \ {t} : InCall(u) /\ serving[u].h = s.h /\ call[u].region = region}

Refuse(t) ==
  /\ pc' = [pc EXCEPT ![t] = "answered"]
  /\ got' = [got EXCEPT ![t] = -1]
  /\ UNCHANGED <<serving, kind, alone>>

Serve(t, s, region) ==
  /\ pc' = [pc EXCEPT ![t] = "seek"]
  /\ serving' = [serving EXCEPT ![t] = s]
  /\ kind' = [kind EXCEPT ![t] = IF region = "video" THEN "vram" ELSE "iomem"]
  /\ alone' = [u \in Threads |-> IF u = t THEN Rivals(t, s, region) = {}
                                 ELSE alone[u] /\ u \notin Rivals(t, s, region)]
  /\ UNCHANGED got

(* A call.  A region that is not there throws NOT_PRIVILEGED, an address   *)
(* nobody serves OUT_OF_RANGE: the C interface makes -1 of both, and of a  *)
(* region that does not exist.  The debugfs of another partition is used   *)
(* without a check.                                                        *)
Call(t, c) ==
  /\ pc[t] = "idle"
  /\ call' = [call EXCEPT ![t] = c]
  /\ IF c.region \notin opened[c.h] \/ Servers(c) = {} THEN Refuse(t)
     ELSE \E s \in Servers(c) :
            IF c.region \in opened[s.h] THEN Serve(t, s, c.region)
            ELSE /\ pc' = [pc EXCEPT ![t] = "crashed"]
                 /\ UNCHANGED <<serving, kind, alone, got>>
  /\ UNCHANGED <<size, opened, offset, touched, at>>

(* Mutant: /dev/mem is used from where the call before left it. *)
MutTryDevmem(t) ==
  kind' = [kind EXCEPT ![t] = "devmem"] /\ pc' = [pc EXCEPT ![t] = "transfer"]

(* SRAMAccessor: the same bytes through /dev/mem *)
TryDevmem(t) ==
  kind' = [kind EXCEPT ![t] = "devmem"] /\ pc' = [pc EXCEPT ![t] = "seek"]

(* A file answered -1: amdgpu_iomem is not the last resort. *)
Failed(t) ==
  \/ kind[t] = "iomem" /\ TryDevmem(t) /\ UNCHANGED got
  \/ /\ kind[t] # "iomem"
     /\ pc' = [pc EXCEPT ![t] = "answered"]
     /\ got' = [got EXCEPT ![t] = -1]
     /\ UNCHANGED kind

Seek(t) ==
  /\ pc[t] = "seek"
  /\ \/ /\ offset' = [offset EXCEPT ![File(t)] = serving[t].addr]
        /\ pc' = [pc EXCEPT ![t] = "transfer"]
        /\ UNCHANGED <<kind, got>>
     \/ /\ Failed(t)             \* lseek refuses the address
        /\ UNCHANGED offset
  /\ UNCHANGED <<size, opened, call, serving, touched, at, alone>>

(* The memory behind the file at hand, and what of it the driver lets a    *)
(* transfer touch: amdgpu_vram ends where the GPU's video memory does.     *)
Memory(t) == IF kind[t] = "vram" THEN GpuOf[serving[t].h] ELSE System
Room(t)   == IF kind[t] # "vram" THEN call[t].count
             ELSE IF offset[File(t)] >= size[Memory(t)] THEN 0
             ELSE size[Memory(t)] - offset[File(t)]

(* The system call transfers k bytes.  It returns k, which may be fewer    *)
(* than asked for and even none, and moves the offset, or it fails after   *)
(* them, and does not.                                                     *)
Transfer(t) ==
  /\ pc[t] = "transfer"
  /\ at' = [at EXCEPT ![t] = offset[File(t)]]
  /\ \E k \in 0 .. call[t].count :
       /\ k <= Room(t)
       /\ touched' = [touched EXCEPT ![t] = @ \cup ({Memory(t)} \X Cells(at'[t], k))]
       /\ \/ /\ offset' = [offset EXCEPT ![File(t)] = @ + k]
             /\ got' = [got EXCEPT ![t] = k]
             /\ pc' = [pc EXCEPT ![t] = "answered"]
             /\ UNCHANGED kind
          \/ /\ Failed(t)
             /\ UNCHANGED offset
  /\ UNCHANGED <<size, opened, call, serving, alone>>

FileStep(t) == Seek(t) \/ Transfer(t)

(* The client takes the answer; what the call had on its stack is gone. *)
Answered(t) ==
  /\ pc[t] = "answered"
  /\ pc' = [pc EXCEPT ![t] = "idle"]
  /\ call' = [call EXCEPT ![t] = NoCall]
  /\ serving' = [serving EXCEPT ![t] = [h |-> NoCall.h, addr |-> 0]]
  /\ kind' = [kind EXCEPT ![t] = "vram"]
  /\ touched' = [touched EXCEPT ![t] = {}]
  /\ at' = [at EXCEPT ![t] = 0]
  /\ got' = [got EXCEPT ![t] = 0]
  /\ alone' = [alone EXCEPT ![t] = TRUE]
  /\ UNCHANGED <<size, opened, offset>>

(* A process whose threads make any calls at any time *)
MemNext ==
  Alive /\ \E t \in Threads : FileStep(t) \/ Answered(t) \/ \E c \in Calls : Call(t, c)

MemSpec == MemInit /\ [][MemNext]_memvars

-----------------------------------------------------------------------------
MemTypeOK ==
  /\ opened \in [Handles -> SUBSET Regions]
  /\ DOMAIN offset = Handles \X Kinds /\ \A f \in DOMAIN offset : offset[f] \in Nat
  /\ pc \in [Threads -> {"idle", "seek", "transfer", "answered", "crashed"}]
  /\ kind \in [Threads -> Kinds]
  /\ \A t \in Threads : call[t] \in Calls
  /\ \A t \in Threads : serving[t].h \in Handles /\ serving[t].addr \in Nat
  /\ got \in [Threads -> -1 .. MaxCount]

(* The cells that an address names: of system memory, of the handle's own  *)
(* video memory, or of that of the GPU that owns it in the hive.           *)
CellsAt(h, region, a) ==
  IF region # "video" THEN {<<System, a>>}
  ELSE IF Local(h) THEN {<<GpuOf[h], a>>}
  ELSE {<<x.gpu, x.address>> : x \in Homes(Hive, size, a)}

Named(c, k) == UNION {CellsAt(c.h, c.region, a) : a \in Cells(c.addr, k)}

(* Every call that no other call on the same files overlaps touches the    *)
(* memory it names and no other, also on files whose offset an earlier     *)
(* call or a failed attempt left elsewhere, also when the call is passed   *)
(* on to another partition, when it fails, or when it reaches over the end *)
(* of a GPU's memory; what it says it has transferred starts at its        *)
(* address, without a gap.  Calls on other files may run at any time.      *)
TouchesWhatItNames ==
  \A t \in Threads :
    pc[t] = "answered" /\ alone[t] =>
      /\ touched[t] \subseteq Named(call[t], call[t].count)
      /\ Cardinality(Named(call[t], got[t])) = IF got[t] < 0 THEN 0 ELSE got[t]
      /\ Named(call[t], got[t]) \subseteq touched[t]
=============================================================================
