------------------------------- MODULE ReadMem -------------------------------
(***************************************************************************)
(* The command src/cmd/read_mem.cc on top of the library's memory calls:   *)
(* it prints a range of physical memory, or translates a range of virtual  *)
(* addresses and prints what it is mapped to, fragment by fragment.        *)
(*                                                                         *)
(* A process is either this command, which has one thread, or another      *)
(* program whose threads make calls as they like.  An address is counted   *)
(* in cells, of which a page has a power of two.  Requests come with the   *)
(* list that sift_xlator_translate_range returns for them.                 *)
(***************************************************************************)
EXTENDS MemTransfer, Words

CONSTANTS
  Main,      \* the thread of the command
  Part,      \* the partition it reads
  Requests,  \* what it may be asked for, with the fragments the range has
  BufSize,   \* BUF_SIZE
  AnyCalls,  \* what another program may call
  MaxCalls   \* calls that its threads make

FragmentType ==
  [va : Nat, size : Nat \ {0}, pa : Nat, region : {"video", "system"}, valid : BOOLEAN]

(* The fragments follow each other and have the range in them              *)
(* (Xlator!CoversRequest), and what is to be read has physical addresses.  *)
ListOK(r) ==
  LET n == Len(r.list)
  IN  /\ r.list \in Seq(FragmentType) /\ n > 0
      /\ \A i \in 1 .. n - 1 : r.list[i + 1].va = r.list[i].va + r.list[i].size
      /\ r.list[1].va <= r.addr /\ r.addr < r.list[1].va + r.list[1].size
      /\ r.addr + r.size <= r.list[n].va + r.list[n].size
      /\ \A i \in 1 .. n : r.list[i].pa + r.list[i].size <= Modulus

RequestOK(r) ==
  /\ r.physical \in BOOLEAN /\ r.addr \in Nat /\ r.size \in Nat \ {0}
  /\ IF r.physical
     THEN r.region \in {"video", "system"} /\ r.addr + r.size <= Modulus
     ELSE ListOK(r)

ASSUME ReadMemAssumption ==
  /\ Main \in Threads /\ Part \in Handles /\ BufSize \in 1..MaxCount
  /\ AnyCalls \subseteq Calls /\ MaxCalls \in Nat
  /\ Requests # {} /\ \A r \in Requests : RequestOK(r)

VARIABLES
  tool,      \* the process is the command
  req,       \* its request
  line,      \* "start", "translate", "walk", "copy" or "ended"
  current,   \* index of the fragment: 0 before there is a list
  virt,      \* virt_addr
  left,      \* size, of read_virt_addr
  phys,      \* addr of read_phys_addr and the region it is in
  todo,      \* size, of read_phys_addr
  out,       \* the cells printed, in order
  ret,       \* what main returns, or "exit"
  made       \* calls that the threads of another program have made

toolvars == <<line, current, virt, left, phys, todo, out, ret>>
readvars == <<memvars, tool, req, toolvars, made>>

NoPhys == [region |-> "other", addr |-> 0]

ReadInit ==
  /\ MemInit
  /\ \/ tool = TRUE /\ req \in Requests
     \/ tool = FALSE /\ req = CHOOSE r \in Requests : TRUE
  /\ line = "start"
  /\ current = 0
  /\ virt = req.addr
  /\ left = req.size
  /\ phys = NoPhys
  /\ todo = 0
  /\ out = << >>
  /\ ret = "none"
  /\ made = 0

(* Another program: any call at any time. *)
AnyCall(t) ==
  /\ ~tool /\ made < MaxCalls
  /\ \E c \in AnyCalls : Call(t, c)
  /\ made' = made + 1
  /\ UNCHANGED <<tool, req, toolvars>>

AnyAnswer(t) == ~tool /\ Answered(t) /\ UNCHANGED <<tool, req, toolvars, made>>

Kernel(t) == FileStep(t) /\ UNCHANGED <<tool, req, toolvars, made>>

-----------------------------------------------------------------------------
At(l) == tool /\ line = l

End(r) == line' = "ended" /\ ret' = r

Same == UNCHANGED <<memvars, tool, req, made>>

(* read_phys_addr for the request itself *)
ReadPhysical ==
  /\ At("start") /\ req.physical
  /\ line' = "copy"
  /\ phys' = [region |-> req.region, addr |-> req.addr]
  /\ todo' = req.size
  /\ UNCHANGED <<current, virt, left, out, ret>> /\ Same

(* sift_xlator_create_for_process *)
CreateXlator ==
  /\ At("start") /\ ~req.physical
  /\ \/ line' = "translate" /\ ret' = ret
     \/ End("-1")
  /\ UNCHANGED <<current, virt, left, phys, todo, out>> /\ Same

(* sift_xlator_translate_range, with combine_fragments *)
Translate ==
  /\ At("translate")
  /\ \/ line' = "walk" /\ ret' = ret /\ current' = 1
     \/ End("-1") /\ current' = current
  /\ UNCHANGED <<virt, left, phys, todo, out>> /\ Same

Fragment == req.list[current]

(* Mutant: the offset is taken off neither size. *)
MutCurrentSize == IF Fragment.size < left THEN Fragment.size ELSE left

(* virt_addr_lower_bits and current_size *)
LowerBits == And(virt, Fragment.size - 1)
CurrentSize ==
  LET n == Fragment.size - LowerBits IN IF n < left THEN n ELSE left

MoreToRead == current <= Len(req.list) /\ left > 0

(* Mutant: the offset in the page is left out. *)
MutPhysOf == [region |-> Fragment.region, addr |-> Fragment.pa]

PhysOf == [region |-> Fragment.region, addr |-> Or(Fragment.pa, LowerBits)]

NextFragment ==
  /\ At("walk") /\ MoreToRead
  /\ IF Fragment.valid
     THEN /\ line' = "copy" /\ ret' = ret
          /\ phys' = PhysOf
          /\ todo' = CurrentSize
     ELSE End("-1") /\ UNCHANGED <<phys, todo>>
  /\ UNCHANGED <<current, virt, left, out>> /\ Same

WalkEnds ==
  /\ At("walk") /\ ~MoreToRead
  /\ End("0")
  /\ UNCHANGED <<current, virt, left, phys, todo, out>> /\ Same

(* Mutant: a buffer is filled even when less is left to read. *)
MutChunk == BufSize

(* num_to_read *)
Chunk == IF todo < BufSize THEN todo ELSE BufSize

(* read_phys_addr: one turn of its loop calls the library ... *)
ReadChunk ==
  /\ At("copy") /\ todo > 0
  /\ Call(Main, [h |-> Part, region |-> phys.region, op |-> "read",
                 addr |-> phys.addr, count |-> Chunk])
  /\ UNCHANGED <<tool, req, toolvars, made>>

Taken == [i \in 1 .. got[Main] |-> <<Memory(Main), at[Main] + i - 1>>]

(* ... and prints what it got: a failed write to stdout ends the process *)
PrintChunk ==
  /\ At("copy") /\ got[Main] >= 0
  /\ Answered(Main)
  /\ \/ /\ out' = out \o Taken
        /\ todo' = todo - got[Main]
        /\ phys' = [phys EXCEPT !.addr = @ + got[Main]]
        /\ UNCHANGED <<line, ret>>
     \/ /\ got[Main] > 0 /\ End("exit")
        /\ UNCHANGED <<out, todo, phys>>
  /\ UNCHANGED <<tool, req, made, current, virt, left>>

(* Mutant: a failed read is tried again. *)
MutReadFailed ==
  /\ At("copy") /\ got[Main] < 0
  /\ Answered(Main)
  /\ UNCHANGED <<tool, req, made, toolvars>>

ReadFailed ==
  /\ At("copy") /\ got[Main] < 0
  /\ Answered(Main)
  /\ End("-1")
  /\ UNCHANGED <<tool, req, made, current, virt, left, phys, todo, out>>

(* read_phys_addr is done: with the command, or with a fragment *)
Copied ==
  /\ At("copy") /\ todo = 0 /\ pc[Main] = "idle"
  /\ IF req.physical
     THEN End("0") /\ UNCHANGED <<current, virt, left>>
     ELSE /\ line' = "walk" /\ ret' = ret
          /\ left' = left - CurrentSize
          /\ virt' = virt + CurrentSize
          /\ current' = current + 1
  /\ UNCHANGED <<phys, todo, out>> /\ Same

Tool ==
  \/ ReadPhysical \/ CreateXlator \/ Translate \/ NextFragment \/ WalkEnds
  \/ ReadChunk \/ PrintChunk \/ ReadFailed \/ Copied

ReadNext ==
  Alive /\ (Tool \/ \E t \in Threads : AnyCall(t) \/ AnyAnswer(t) \/ Kernel(t))

(* The command's thread runs, and the kernel answers its system calls. *)
ReadSpec == ReadInit /\ [][ReadNext]_readvars /\ WF_readvars(Alive /\ (Tool \/ Kernel(Main)))

-----------------------------------------------------------------------------
ReadTypeOK ==
  /\ MemTypeOK
  /\ line \in {"start", "translate", "walk", "copy", "ended"}
  /\ ret \in {"none", "0", "-1", "exit"}
  /\ left \in Nat /\ todo \in Nat /\ current \in Nat
  /\ phys.region \in Regions /\ phys.addr \in Nat

CellsOf(f) == UNION {CellsAt(Part, f.region, a) : a \in Cells(f.pa, f.size)}

(* The masks of read_virt_addr may take the offset in a fragment made of   *)
(* several pages for another one (see the README); but never does it print *)
(* memory that is not the process's: whatever the sizes of the fragments   *)
(* and wherever they lie, all that it prints is in valid fragments, and no *)
(* more is printed than was asked for.                                     *)
PrintsOnlyMapped ==
  ~req.physical =>
    /\ ToSet(out) \subseteq UNION {CellsOf(f) : f \in {g \in ToSet(req.list) : g.valid}}
    /\ Len(out) <= req.size

(* The cells of the range in order, as far as it is mapped, up to the first *)
(* address that no GPU owns.                                                *)
Expected ==
  LET holds(f, a) == a \in Cells(f.va, f.size)
      home(a)  == CHOOSE f \in ToSet(req.list) : holds(f, a)
      cells(a) == IF req.physical THEN CellsAt(Part, req.region, a)
                  ELSE CellsAt(Part, home(a).region, home(a).pa + (a - home(a).va))
      range    == [i \in 1 .. req.size |-> cells(req.addr + i - 1)]
      owned    == SelectInSeq(range, LAMBDA x : x = {})
  IN  [i \in 1 .. IF owned = 0 THEN req.size ELSE owned - 1 |-> CHOOSE x \in range[i] : TRUE]

Aligned(f) == PowerOfTwo(f.size) /\ f.va % f.size = 0 /\ f.pa % f.size = 0

(* Reads `size' bytes and writes them to stdout (read_mem.cc:24 and :45),  *)
(* as long as every fragment is a power of two in size and lies on a       *)
(* multiple of it: what was printed is the start of the range, in order,   *)
(* with nothing twice and nothing left out where short reads, buffers,     *)
(* fragments and the memory of GPUs end; and 0 is returned only after all  *)
(* of a range that has memory everywhere.                                  *)
PrintsTheRange ==
  (\A f \in ToSet(req.list) : Aligned(f)) =>
    /\ IsPrefix(out, Expected)
    /\ ret = "0" => out = Expected /\ Len(out) = req.size

(* The command ends, unless reads that return 0 bytes, which it takes for  *)
(* progress, go on for ever, or another partition's debugfs is missing     *)
(* that it would have to read through.                                     *)
ReadMemEnds ==
  tool => \/ <>(line = "ended")
          \/ []<>(pc[Main] = "answered" /\ got[Main] = 0)
          \/ <>(~Alive /\ \E h \in ToSet(Parts) : opened[h] = {})
=============================================================================
