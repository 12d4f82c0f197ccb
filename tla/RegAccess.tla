----------------------------- MODULE RegAccess -----------------------------
(***************************************************************************)
(* Register access to one GPU through debugfs, system call by system call  *)
(* (src/src/sift/debugfs_mmio_accessor.cc, debugfs_smn_accessor.cc).       *)
(*                                                                         *)
(* An MMIO access is an lseek and then a 4-byte read or write at the file  *)
(* offset.  An SMN access is three MMIO accesses, to the RSMU index-high,  *)
(* index and data registers.  Nothing is locked: threads that use the same *)
(* partition or device share a file and its offset, and all of them share  *)
(* the index registers of the GPU.                                         *)
(*                                                                         *)
(* Registers are counted in units of 4 bytes, from the RSMU index register *)
(* (amdgpu_debugfs.cc:9-11): index, data and index-high follow each other. *)
(***************************************************************************)
EXTENDS Integers, Sequences

CONSTANTS
  Threads,
  Files,    \* open amdgpu_regs2 files of this GPU: its device, its partitions
  NumRegs,  \* MMIO registers 0..NumRegs-1
  Lo, Hi,   \* an SMN address is split into one of Lo and one of Hi values
  Values,   \* what registers hold; index values have to fit
  NoValue,  \* no value, in a request to read
  SmnRegs   \* the SMN registers that clients ask for

RSMU_INDEX    == 0
RSMU_DATA     == 1
RSMU_INDEX_HI == 2

ASSUME SizesAssumption ==
  /\ NumRegs \in Nat /\ NumRegs > 3
  /\ Lo \in Nat \ {0} /\ Hi \in Nat \ {0}
ASSUME ValuesAssumption == 0..(Lo - 1) \subseteq Values /\ 0..(Hi - 1) \subseteq Values
ASSUME SmnAssumption == SmnRegs \subseteq 0..(Lo * Hi - 1)

VARIABLES
  mmio,    \* the MMIO registers; that of RSMU_DATA is not used
  smn,     \* the SMN registers
  offset,  \* the offset of each file
  call,    \* the call of each thread, with the file it goes through
  step,    \* which of its MMIO accesses it is at
  seeked   \* the lseek of that access is done

vars == <<mmio, smn, offset, call, step, seeked>>

MmioRegs == 3..(NumRegs - 1)
AllSmn   == 0..(Lo * Hi - 1)

(* A call as its client sees it: without the file. *)
Seen(c) == IF c.st = "idle" THEN c
           ELSE [st |-> c.st, req |-> c.req, result |-> c.result]

SeenMmio  == [r \in MmioRegs |-> mmio[r]]
SeenCalls == [t \in Threads |-> Seen(call[t])]

Atomic == INSTANCE AtomicRegs WITH
            mmio <- SeenMmio,
            call <- SeenCalls

Init ==
  /\ mmio = [r \in 0..(NumRegs - 1) |-> 0]
  /\ smn = [r \in AllSmn |-> 0]
  /\ offset = [f \in Files |-> 0]
  /\ call = [t \in Threads |-> Atomic!Idle]
  /\ step = [t \in Threads |-> 1]
  /\ seeked = [t \in Threads |-> FALSE]

-----------------------------------------------------------------------------
To(reg, v) == [op |-> "write", reg |-> reg, val |-> v]
From(reg)  == [op |-> "read", reg |-> reg, val |-> NoValue]

(* Mutant: index-high is written only when it is not zero. *)
MutAccesses(r) ==
  LET last(reg) == IF r.op = "read" THEN From(reg) ELSE To(reg, r.val)
  IN  IF r.ap = "MMIO"
      THEN <<last(r.reg)>>
      ELSE <<IF r.reg >= Lo THEN To(RSMU_INDEX_HI, (r.reg \div Lo) % Hi)
                            ELSE To(RSMU_INDEX, r.reg % Lo),
             To(RSMU_INDEX, r.reg % Lo),
             last(RSMU_DATA)>>

(* The MMIO accesses a request is made of *)
Accesses(r) ==
  LET last(reg) == IF r.op = "read" THEN From(reg) ELSE To(reg, r.val)
  IN  IF r.ap = "MMIO"
      THEN <<last(r.reg)>>
      ELSE <<To(RSMU_INDEX_HI, (r.reg \div Lo) % Hi),
             To(RSMU_INDEX, r.reg % Lo),
             last(RSMU_DATA)>>

Pending(t) == call[t].st = "pending"
Current(t) == Accesses(call[t].req)[step[t]]

(* What the client keeps apart, because the library does not: calls on the *)
(* same file, and SMN calls on the same GPU.                               *)
MayJoin(t, f, r) ==
  \A u \in Threads \ {t} :
    Pending(u) => /\ call[u].file # f
                  /\ ~(r.ap = "SMN" /\ call[u].req.ap = "SMN")

(* A call of sift_device_* or sift_partition_* starts. *)
Invoke(t) ==
  /\ call[t].st = "idle"
  /\ \E f \in Files, r \in Atomic!Requests :
       /\ MayJoin(t, f, r)
       /\ call' = [call EXCEPT ![t] = [st |-> "pending", req |-> r,
                                       result |-> r.val, file |-> f]]
  /\ UNCHANGED <<mmio, smn, offset, step, seeked>>

(* Mutant: lseek(fd, reg, SEEK_CUR) *)
MutSeek(t) ==
  /\ Pending(t)
  /\ ~seeked[t]
  /\ offset' = [offset EXCEPT ![call[t].file] = @ + Current(t).reg]
  /\ seeked' = [seeked EXCEPT ![t] = TRUE]
  /\ UNCHANGED <<mmio, smn, call, step>>

(* lseek(fd, reg, SEEK_SET) *)
Seek(t) ==
  /\ Pending(t)
  /\ ~seeked[t]
  /\ offset' = [offset EXCEPT ![call[t].file] = Current(t).reg]
  /\ seeked' = [seeked EXCEPT ![t] = TRUE]
  /\ UNCHANGED <<mmio, smn, call, step>>

Selected == mmio[RSMU_INDEX_HI] * Lo + mmio[RSMU_INDEX]

(* The hardware's side of a 4-byte transfer at register at. *)
Stored(at, v) ==
  IF at = RSMU_DATA
  THEN /\ smn' = [smn EXCEPT ![Selected] = v]
       /\ UNCHANGED mmio
  ELSE /\ mmio' = [mmio EXCEPT ![at] = v]
       /\ UNCHANGED smn

Loaded(at) == IF at = RSMU_DATA THEN smn[Selected] ELSE mmio[at]

(* The transfer is done, at the offset the file has by now. *)
Advance(t, result) ==
  /\ IF step[t] = Len(Accesses(call[t].req))
     THEN /\ call' = [call EXCEPT ![t].st = "done", ![t].result = result]
          /\ UNCHANGED step
     ELSE /\ step' = [step EXCEPT ![t] = @ + 1]
          /\ UNCHANGED call
  /\ seeked' = [seeked EXCEPT ![t] = FALSE]
  /\ offset' = [offset EXCEPT ![call[t].file] = @ + 1]

(* write(fd, &value, 4) *)
Write(t) ==
  /\ Pending(t)
  /\ seeked[t]
  /\ Current(t).op = "write"
  /\ offset[call[t].file] < NumRegs
  /\ Stored(offset[call[t].file], Current(t).val)
  /\ Advance(t, call[t].req.val)

(* read(fd, &value, 4) *)
Read(t) ==
  /\ Pending(t)
  /\ seeked[t]
  /\ Current(t).op = "read"
  /\ offset[call[t].file] < NumRegs
  /\ Advance(t, Loaded(offset[call[t].file]))
  /\ UNCHANGED <<mmio, smn>>

(* The device or partition was built without debugfs: its wrapper throws   *)
(* before the first access.  Which handles have it is left open.           *)
NotPrivileged(t) ==
  /\ Pending(t)
  /\ step[t] = 1 /\ ~seeked[t]
  /\ call' = [call EXCEPT ![t].st = "failed"]
  /\ UNCHANGED <<mmio, smn, offset, step, seeked>>

(* lseek, read or write fails: StatusError, whichever access it was.  A    *)
(* failed transfer moved nothing.                                          *)
Throw(t) ==
  /\ Pending(t)
  /\ call' = [call EXCEPT ![t].st = "failed"]
  /\ seeked' = [seeked EXCEPT ![t] = FALSE]
  /\ UNCHANGED <<mmio, smn, offset, step>>

(* The offset is dead once nobody is using the file, because every access  *)
(* starts with an lseek; setting it back to 0 keeps the states few.        *)
Return(t) ==
  /\ call[t].st \in {"done", "failed"}
  /\ call' = [call EXCEPT ![t] = Atomic!Idle]
  /\ step' = [step EXCEPT ![t] = 1]
  /\ offset' = IF \E u \in Threads : Pending(u) /\ call[u].file = call[t].file
               THEN offset
               ELSE [offset EXCEPT ![call[t].file] = 0]
  /\ UNCHANGED <<mmio, smn, seeked>>

Next ==
  \E t \in Threads :
    \/ Invoke(t) \/ NotPrivileged(t)
    \/ Seek(t) \/ Write(t) \/ Read(t) \/ Throw(t)
    \/ Return(t)

Spec == Init /\ [][Next]_vars

-----------------------------------------------------------------------------
TypeOK ==
  /\ mmio \in [0..(NumRegs - 1) -> Values]
  /\ smn \in [AllSmn -> Values]
  /\ offset \in [Files -> 0..NumRegs]
  /\ \A t \in Threads : /\ Seen(call[t]) \in Atomic!Calls
                         /\ call[t].st # "idle" => call[t].file \in Files
  /\ step \in [Threads -> 1..3]
  /\ seeked \in [Threads -> BOOLEAN]

(* Between its lseek and its transfer, a thread's file stays where the     *)
(* thread put it.                                                          *)
OffsetKept ==
  \A t \in Threads :
    Pending(t) /\ seeked[t] => offset[call[t].file] = Current(t).reg

(* When an SMN call comes to its data register, the index registers select *)
(* the register it asked for: no other call moved either half.             *)
IndexKept ==
  \A t \in Threads :
    Pending(t) /\ call[t].req.ap = "SMN" /\ step[t] = 3
      => Selected = call[t].req.reg

(* No call is disturbed between its system calls: neither the file offset   *)
(* it set nor the SMN register it selected is moved by another thread.     *)
Undisturbed == OffsetKept /\ IndexKept

(* Each call is atomic on the register it names, although it is up to six  *)
(* system calls; and a call that fails half way leaves only the index      *)
(* registers changed, which no other call depends on.                      *)
CallsAtomic == Atomic!Spec
=============================================================================
