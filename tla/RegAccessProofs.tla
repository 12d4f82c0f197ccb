-------------------------- MODULE RegAccessProofs --------------------------
(***************************************************************************)
(* Theorems of RegAccess, for any threads, files, registers and sizes of   *)
(* the index registers: the invariants, and that RegAccess implements      *)
(* AtomicRegs.                                                             *)
(***************************************************************************)
EXTENDS RegAccess, TLAPS

(* A call with all it carries; Seen is less, for it leaves out the file.   *)
Calls == [st : {"pending", "done", "failed"}, req : Atomic!Requests,
          result : Values \union {NoValue}, file : Files]

StateType ==
  /\ mmio \in [0..(NumRegs - 1) -> Values]
  /\ smn \in [AllSmn -> Values]
  /\ offset \in [Files -> 0..NumRegs]
  /\ call \in [Threads -> {Atomic!Idle} \union Calls]
  /\ step \in [Threads -> 1..3]
  /\ seeked \in [Threads -> BOOLEAN]

(* Only a pending call has done part of an access, an MMIO call has one    *)
(* access, and a call starts with its first.                               *)
StepInv ==
  \A t \in Threads :
    /\ seeked[t] => Pending(t)
    /\ Pending(t) /\ call[t].req.ap = "MMIO" => step[t] = 1
    /\ call[t] = Atomic!Idle => step[t] = 1

(* What the clients keep apart stays apart until the calls end.            *)
Apart ==
  \A t, u \in Threads :
    t # u /\ Pending(t) /\ Pending(u) =>
      /\ call[t].file # call[u].file
      /\ ~(call[t].req.ap = "SMN" /\ call[u].req.ap = "SMN")

(* Which index registers an SMN call has written by now                    *)
IndexInv ==
  \A t \in Threads :
    Pending(t) /\ call[t].req.ap = "SMN" =>
      /\ step[t] >= 2 => mmio[RSMU_INDEX_HI] = (call[t].req.reg \div Lo) % Hi
      /\ step[t] >= 3 => mmio[RSMU_INDEX] = call[t].req.reg % Lo

IInv == StateType /\ StepInv /\ Apart /\ OffsetKept /\ IndexInv

-----------------------------------------------------------------------------
(* The two halves of an SMN address make it up again. *)
LEMMA DivMod ==
  ASSUME NEW a \in Nat, NEW n \in Nat \ {0}
  PROVE  /\ a = (a \div n) * n + (a % n)
         /\ a % n \in 0..(n - 1)
         /\ a \div n \in Nat
OBVIOUS

LEMMA SmnSplit ==
  ASSUME NEW a \in AllSmn
  PROVE  /\ (a \div Lo) % Hi \in 0..(Hi - 1)
         /\ a % Lo \in 0..(Lo - 1)
         /\ ((a \div Lo) % Hi) * Lo + (a % Lo) = a
<1>1. a \in Nat /\ a < Lo * Hi /\ Lo \in Nat \ {0} /\ Hi \in Nat \ {0}
  BY SizesAssumption DEF AllSmn
<1>2. a = (a \div Lo) * Lo + (a % Lo) /\ a % Lo \in 0..(Lo - 1) /\ a \div Lo \in Nat
  BY <1>1, DivMod
<1>3. a \div Lo < Hi
  BY <1>1, <1>2
<1>4. (a \div Lo) % Hi = a \div Lo
  BY <1>1, <1>2, <1>3
<1> QED
  BY <1>1, <1>2, <1>3, <1>4

LEMMA RequestFields ==
  ASSUME NEW r \in Atomic!Requests
  PROVE  /\ r.ap \in {"MMIO", "SMN"} /\ r.op \in {"read", "write"}
         /\ r.ap = "MMIO" => r.reg \in MmioRegs
         /\ r.ap = "SMN" => r.reg \in SmnRegs
         /\ r.op = "read" => r.val = NoValue
         /\ r.op = "write" => r.val \in Values
         /\ r.val \in Values \union {NoValue}
BY DEF Atomic!Requests, Atomic!Targets

(* The accesses of a request, one by one *)
LEMMA AccessList ==
  ASSUME NEW r \in Atomic!Requests
  PROVE  /\ r.ap = "MMIO" =>
              /\ Len(Accesses(r)) = 1
              /\ Accesses(r)[1] = [op |-> r.op, reg |-> r.reg, val |-> r.val]
         /\ r.ap = "SMN" =>
              /\ Len(Accesses(r)) = 3
              /\ Accesses(r)[1] = To(RSMU_INDEX_HI, (r.reg \div Lo) % Hi)
              /\ Accesses(r)[2] = To(RSMU_INDEX, r.reg % Lo)
              /\ Accesses(r)[3] = [op |-> r.op, reg |-> RSMU_DATA, val |-> r.val]
<1> USE RequestFields DEF Accesses, To, From
<1>1. CASE r.op = "read"
  BY <1>1
<1>2. CASE r.op = "write"
  BY <1>2
<1> QED
  BY <1>1, <1>2

(* The access a pending call is at: which register of the files it names,  *)
(* and whether it is the last of the call                                  *)
LEMMA CurrentAccess ==
  ASSUME IInv, NEW t \in Threads, Pending(t)
  PROVE  /\ call[t] \in Calls /\ call[t].req \in Atomic!Requests
         /\ Current(t).reg \in 0..(NumRegs - 1)
         /\ Current(t).op = "write" => Current(t).val \in Values
         /\ call[t].req.ap = "MMIO" =>
              /\ step[t] = 1 /\ Len(Accesses(call[t].req)) = 1
              /\ Current(t) = [op |-> call[t].req.op, reg |-> call[t].req.reg,
                               val |-> call[t].req.val]
         /\ call[t].req.ap = "SMN" =>
              /\ Len(Accesses(call[t].req)) = 3
              /\ step[t] = 1 => Current(t) = To(RSMU_INDEX_HI, (call[t].req.reg \div Lo) % Hi)
              /\ step[t] = 2 => Current(t) = To(RSMU_INDEX, call[t].req.reg % Lo)
              /\ step[t] = 3 => Current(t) = [op |-> call[t].req.op, reg |-> RSMU_DATA,
                                             val |-> call[t].req.val]
<1> DEFINE r == call[t].req
<1>1. call[t] \in Calls /\ step[t] \in 1..3
  BY DEF IInv, StateType, Pending, Atomic!Idle
<1>2. r \in Atomic!Requests
  BY <1>1 DEF Calls
<1>3. r.ap = "MMIO" =>
        /\ step[t] = 1 /\ Len(Accesses(r)) = 1
        /\ Current(t) = [op |-> r.op, reg |-> r.reg, val |-> r.val]
  BY <1>2, AccessList DEF IInv, StepInv, Current
<1>4. r.ap = "SMN" =>
        /\ Len(Accesses(r)) = 3
        /\ step[t] = 1 => Current(t) = To(RSMU_INDEX_HI, (r.reg \div Lo) % Hi)
        /\ step[t] = 2 => Current(t) = To(RSMU_INDEX, r.reg % Lo)
        /\ step[t] = 3 => Current(t) = [op |-> r.op, reg |-> RSMU_DATA, val |-> r.val]
  BY <1>2, AccessList DEF Current
<1>5. Current(t).reg \in 0..(NumRegs - 1) /\ (Current(t).op = "write" => Current(t).val \in Values)
  <2>1. CASE r.ap = "MMIO"
    BY <1>2, <1>3, <2>1, RequestFields, SizesAssumption DEF MmioRegs
  <2>2. CASE r.ap = "SMN"
    <3>1. (r.reg \div Lo) % Hi \in Values /\ r.reg % Lo \in Values
      BY <1>2, <2>2, RequestFields, SmnAssumption, SmnSplit, ValuesAssumption DEF AllSmn
    <3> QED
      BY <1>1, <1>2, <1>4, <2>2, <3>1, RequestFields, SizesAssumption
      DEF To, RSMU_INDEX, RSMU_INDEX_HI, RSMU_DATA
  <2> QED
    BY <1>2, <2>1, <2>2, RequestFields
<1> QED
  BY <1>1, <1>2, <1>3, <1>4, <1>5

(* At its data register, an SMN call finds the register it named.          *)
LEMMA Selects ==
  ASSUME IInv, NEW t \in Threads, Pending(t), call[t].req.ap = "SMN", step[t] = 3
  PROVE  Selected = call[t].req.reg /\ Selected \in AllSmn
<1>1. call[t].req.reg \in AllSmn
  BY CurrentAccess, RequestFields, SmnAssumption DEF AllSmn
<1> QED
  BY <1>1, SmnSplit DEF IInv, IndexInv, Selected

-----------------------------------------------------------------------------
LEMMA InitInv == Init => IInv
<1> SUFFICES ASSUME Init PROVE IInv
  OBVIOUS
<1>1. 0 \in Values /\ NumRegs \in Nat
  BY SizesAssumption, ValuesAssumption
<1>2. StateType
  BY <1>1 DEF Init, StateType
<1>3. \A t \in Threads : ~Pending(t)
  BY DEF Init, Pending, Atomic!Idle
<1> QED
  BY <1>2, <1>3 DEF IInv, Init, StepInv, Apart, OffsetKept, IndexInv

LEMMA InvokeStep ==
  ASSUME IInv, NEW t \in Threads, Invoke(t) PROVE IInv'
<1>1. PICK f \in Files, r \in Atomic!Requests :
        /\ MayJoin(t, f, r)
        /\ call' = [call EXCEPT ![t] = [st |-> "pending", req |-> r,
                                       result |-> r.val, file |-> f]]
  BY DEF Invoke
<1>2. call[t] = Atomic!Idle
  BY DEF IInv, StateType, Calls, Invoke
<1>3. [st |-> "pending", req |-> r, result |-> r.val, file |-> f] \in Calls
  BY RequestFields DEF Calls
<1>4. StateType'
  BY <1>1, <1>3 DEF IInv, StateType, Invoke
<1>5. /\ call'[t] = [st |-> "pending", req |-> r, result |-> r.val, file |-> f]
      /\ \A u \in Threads \ {t} : call'[u] = call[u]
  BY <1>1 DEF IInv, StateType
<1>6. ~seeked[t] /\ step[t] = 1
  BY <1>2 DEF IInv, StepInv, Pending, Atomic!Idle
<1>7. StepInv'
  BY <1>5, <1>6 DEF IInv, StepInv, Invoke, Pending, Atomic!Idle
<1>8. Apart'
  BY <1>1, <1>5 DEF IInv, Apart, Pending, MayJoin
<1>9. OffsetKept'
  BY <1>5, <1>6 DEF IInv, OffsetKept, Invoke, Pending, Current
<1>10. IndexInv'
  BY <1>5, <1>6 DEF IInv, IndexInv, Invoke, Pending
<1> QED
  BY <1>4, <1>7, <1>8, <1>9, <1>10 DEF IInv

LEMMA SeekStep ==
  ASSUME IInv, NEW t \in Threads, Seek(t) PROVE IInv'
<1>1. call[t].file \in Files /\ Current(t).reg \in 0..NumRegs
  BY CurrentAccess, SizesAssumption DEF Seek, Calls
<1>2. StateType'
  BY <1>1 DEF IInv, StateType, Seek
<1>3. \A u \in Threads : (Pending(u) <=> Pending(u)') /\ Current(u)' = Current(u)
  BY DEF Seek, Pending, Current
<1>4. StepInv' /\ Apart' /\ IndexInv'
  BY <1>3 DEF IInv, StateType, StepInv, Apart, IndexInv, Seek, Pending
<1>5. ASSUME NEW u \in Threads, Pending(u)', seeked'[u]
      PROVE  offset'[call'[u].file] = (Current(u).reg)'
  <2>1. CASE u = t
    BY <1>1, <1>3, <2>1 DEF IInv, StateType, Seek
  <2>2. CASE u # t
    <3>1. call[u].file # call[t].file /\ seeked[u]
      BY <1>3, <1>5, <2>2 DEF IInv, StateType, Apart, Seek
    <3> QED
      BY <1>1, <1>3, <1>5, <3>1 DEF IInv, StateType, OffsetKept, Seek
  <2> QED
    BY <2>1, <2>2
<1> QED
  BY <1>2, <1>4, <1>5 DEF IInv, OffsetKept

(* A transfer that is done, with what it wrote to the index registers      *)
LEMMA AdvanceStep ==
  ASSUME IInv, NEW t \in Threads, Pending(t), seeked[t],
         NEW result \in Values \union {NoValue}, Advance(t, result),
         mmio' \in [0..(NumRegs - 1) -> Values], smn' \in [AllSmn -> Values],
         \A i \in {RSMU_INDEX, RSMU_INDEX_HI} :
           mmio'[i] = IF Current(t).op = "write" /\ Current(t).reg = i
                      THEN Current(t).val ELSE mmio[i]
  PROVE  IInv'
<1>1. call[t] \in Calls /\ step[t] \in 1..3
  BY CurrentAccess DEF IInv, StateType
<1>2. offset[call[t].file] = Current(t).reg /\ Current(t).reg \in 0..(NumRegs - 1)
  BY CurrentAccess DEF IInv, OffsetKept
<1>3. /\ \A u \in Threads \ {t} :
           call'[u] = call[u] /\ step'[u] = step[u] /\ seeked'[u] = seeked[u]
      /\ ~seeked'[t]
      /\ \A f \in Files : f # call[t].file => offset'[f] = offset[f]
  BY DEF IInv, StateType, Advance
<1>4. \/ /\ call' = [call EXCEPT ![t].st = "done", ![t].result = result]
         /\ call'[t] \in Calls /\ call'[t].st = "done" /\ step' = step
      \/ /\ call' = call /\ call[t].req.ap = "SMN" /\ step[t] \in 1..2
         /\ step' = [step EXCEPT ![t] = @ + 1]
  <2>1. CASE step[t] = Len(Accesses(call[t].req))
    <3>1. call' = [call EXCEPT ![t].st = "done", ![t].result = result] /\ step' = step
      BY <2>1 DEF Advance
    <3> QED
      BY <1>1, <3>1 DEF IInv, StateType, Calls
  <2>2. CASE step[t] # Len(Accesses(call[t].req))
    <3>1. call[t].req.ap = "SMN" /\ step[t] # 3
      BY <2>2, CurrentAccess, RequestFields
    <3>2. call' = call /\ step' = [step EXCEPT ![t] = @ + 1]
      BY <2>2 DEF Advance
    <3> QED
      BY <1>1, <3>1, <3>2
  <2> QED
    BY <2>1, <2>2
<1>5. StateType'
  <2>1. call' \in [Threads -> {Atomic!Idle} \union Calls]
    BY <1>4 DEF IInv, StateType
  <2>2. step' \in [Threads -> 1..3]
    <3>1. step \in [Threads -> 1..3]
      BY DEF IInv, StateType
    <3> QED
      BY <1>4, <3>1
  <2>3. offset' \in [Files -> 0..NumRegs]
    <3>1. offset[call[t].file] + 1 \in 0..NumRegs
      BY <1>2, SizesAssumption
    <3> QED
      BY <3>1 DEF IInv, StateType, Advance
  <2>4. seeked' \in [Threads -> BOOLEAN]
    BY DEF Advance, IInv, StateType
  <2> QED
    BY <2>1, <2>2, <2>3, <2>4 DEF StateType
<1>6. StepInv'
  BY <1>1, <1>3, <1>4 DEF IInv, StateType, StepInv, Pending, Atomic!Idle, Calls
<1>7. Apart'
  BY <1>1, <1>3, <1>4 DEF IInv, Apart, Pending
<1>8. OffsetKept'
  <2> SUFFICES ASSUME NEW u \in Threads, Pending(u)', seeked'[u]
               PROVE  (offset[call[u].file] = Current(u).reg)'
    BY DEF OffsetKept
  <2>1. u # t /\ call'[u] = call[u] /\ Pending(u) /\ seeked[u]
    BY <1>3 DEF Pending
  <2>2. call[u].file # call[t].file /\ call[u].file \in Files
    BY <2>1, CurrentAccess DEF IInv, Apart, Calls
  <2>3. (Current(u).reg)' = Current(u).reg
    BY <1>3, <2>1 DEF Current
  <2> QED
    BY <1>3, <2>1, <2>2, <2>3 DEF IInv, OffsetKept
<1>9. IndexInv'
  <2> SUFFICES ASSUME NEW u \in Threads, Pending(u)', call'[u].req.ap = "SMN"
               PROVE  /\ step'[u] >= 2 =>
                           mmio'[RSMU_INDEX_HI] = (call'[u].req.reg \div Lo) % Hi
                      /\ step'[u] >= 3 => mmio'[RSMU_INDEX] = call'[u].req.reg % Lo
    BY DEF IndexInv
  <2>1. CASE u = t
    <3>1. /\ call' = call /\ step[t] \in 1..2 /\ step'[t] = step[t] + 1
      BY <1>4, <2>1 DEF Pending, IInv, StateType
    <3>2. CASE step[t] = 1
      BY <2>1, <3>1, <3>2, CurrentAccess DEF To, RSMU_INDEX, RSMU_INDEX_HI
    <3>3. CASE step[t] = 2
      <4>1. mmio[RSMU_INDEX_HI] = (call[t].req.reg \div Lo) % Hi
        BY <2>1, <3>1, <3>3 DEF IInv, IndexInv
      <4> QED
        BY <2>1, <3>1, <3>3, <4>1, CurrentAccess DEF To, RSMU_INDEX, RSMU_INDEX_HI
    <3> QED
      BY <3>1, <3>2, <3>3
  <2>2. CASE u # t
    <3>1. Pending(u) /\ call'[u] = call[u] /\ step'[u] = step[u]
      BY <1>3, <2>2 DEF Pending
    <3>2. call[t].req.ap = "MMIO"
      BY <2>2, <3>1, CurrentAccess, RequestFields DEF IInv, Apart
    <3>3. Current(t).reg \notin {RSMU_INDEX, RSMU_INDEX_HI}
      BY <3>2, CurrentAccess, RequestFields, SizesAssumption
      DEF MmioRegs, RSMU_INDEX, RSMU_INDEX_HI
    <3> QED
      BY <3>1, <3>3 DEF IInv, IndexInv
  <2> QED
    BY <2>1, <2>2
<1> QED
  BY <1>5, <1>6, <1>7, <1>8, <1>9 DEF IInv

LEMMA WriteStep ==
  ASSUME IInv, NEW t \in Threads, Write(t) PROVE IInv'
<1>1. /\ Pending(t) /\ seeked[t] /\ Current(t).op = "write"
      /\ Stored(Current(t).reg, Current(t).val) /\ Advance(t, call[t].req.val)
  BY DEF Write, IInv, OffsetKept
<1>2. Current(t).reg \in 0..(NumRegs - 1) /\ Current(t).val \in Values
  BY <1>1, CurrentAccess
<1>3. call[t].req.val \in Values \union {NoValue}
  BY <1>1, CurrentAccess, RequestFields
<1>4. mmio' \in [0..(NumRegs - 1) -> Values] /\ smn' \in [AllSmn -> Values]
  BY <1>1, <1>2 DEF Stored, IInv, StateType
<1>5. \A i \in {RSMU_INDEX, RSMU_INDEX_HI} :
        mmio'[i] = IF Current(t).op = "write" /\ Current(t).reg = i
                   THEN Current(t).val ELSE mmio[i]
  BY <1>1, <1>2, SizesAssumption
  DEF Stored, IInv, StateType, RSMU_DATA, RSMU_INDEX, RSMU_INDEX_HI
<1> QED
  BY <1>1, <1>3, <1>4, <1>5, AdvanceStep

(* What a transfer loads *)
LEMMA LoadedType ==
  ASSUME IInv, NEW t \in Threads, Pending(t)
  PROVE  Loaded(Current(t).reg) \in Values
<1>1. CASE call[t].req.ap = "MMIO"
  BY <1>1, CurrentAccess, RequestFields
  DEF Loaded, IInv, StateType, MmioRegs, RSMU_DATA
<1>2. CASE call[t].req.ap = "SMN"
  BY <1>2, CurrentAccess, Selects, SizesAssumption
  DEF Loaded, IInv, StateType, RSMU_DATA, RSMU_INDEX, RSMU_INDEX_HI, To
<1> QED
  BY <1>1, <1>2, CurrentAccess, RequestFields

LEMMA ReadStep ==
  ASSUME IInv, NEW t \in Threads, Read(t) PROVE IInv'
<1>1. /\ Pending(t) /\ seeked[t] /\ Current(t).op = "read"
      /\ Advance(t, Loaded(Current(t).reg)) /\ UNCHANGED <<mmio, smn>>
  BY DEF Read, IInv, OffsetKept
<1>2. Loaded(Current(t).reg) \in Values
  BY <1>1, LoadedType
<1> QED
  BY <1>1, <1>2, AdvanceStep DEF IInv, StateType

LEMMA ThrowStep ==
  ASSUME IInv, NEW t \in Threads, Throw(t) PROVE IInv'
<1>1. call[t] \in Calls
  BY CurrentAccess DEF Throw
<1>2. call' = [call EXCEPT ![t].st = "failed"] /\ call'[t] \in Calls
      /\ call'[t].st = "failed" /\ \A u \in Threads \ {t} : call'[u] = call[u]
  BY <1>1 DEF IInv, StateType, Calls, Throw
<1>3. StateType'
  BY <1>2 DEF IInv, StateType, Throw
<1>4. ~Pending(t)' /\ ~seeked'[t] /\ call'[t] # Atomic!Idle
      /\ \A u \in Threads \ {t} : seeked'[u] = seeked[u]
  BY <1>2 DEF Pending, Throw, IInv, StateType, Atomic!Idle
<1>5. StepInv' /\ Apart' /\ IndexInv'
  BY <1>2, <1>4 DEF IInv, StepInv, Apart, IndexInv, Pending, Throw
<1>6. OffsetKept'
  BY <1>2, <1>4 DEF IInv, OffsetKept, Pending, Throw, Current
<1> QED
  BY <1>3, <1>5, <1>6 DEF IInv

(* A call without debugfs ends like one whose first lseek fails.           *)
LEMMA NotPrivilegedThrows ==
  ASSUME IInv, NEW t \in Threads, NotPrivileged(t) PROVE Throw(t)
<1>1. seeked \in [Threads -> BOOLEAN] /\ ~seeked[t]
  BY DEF IInv, StateType, NotPrivileged
<1>2. seeked = [seeked EXCEPT ![t] = FALSE]
  BY <1>1
<1> QED
  BY <1>2 DEF NotPrivileged, Throw

LEMMA ReturnStep ==
  ASSUME IInv, NEW t \in Threads, Return(t) PROVE IInv'
<1>1. call[t] \in Calls /\ ~Pending(t) /\ ~seeked[t]
  BY DEF IInv, StateType, StepInv, Return, Pending, Atomic!Idle
<1>2. /\ call'[t] = Atomic!Idle /\ step'[t] = 1 /\ ~seeked'[t]
      /\ \A u \in Threads \ {t} : /\ call'[u] = call[u] /\ step'[u] = step[u]
                                  /\ seeked'[u] = seeked[u]
  BY <1>1 DEF IInv, StateType, Return
<1>3. StateType'
  <2>1. offset' \in [Files -> 0..NumRegs]
    <3>1. offset \in [Files -> 0..NumRegs] /\ 0 \in 0..NumRegs
      BY SizesAssumption DEF IInv, StateType
    <3> QED
      BY <3>1 DEF Return
  <2>2. /\ call' \in [Threads -> {Atomic!Idle} \union Calls]
        /\ step' \in [Threads -> 1..3]
    BY DEF IInv, StateType, Return
  <2>3. UNCHANGED <<mmio, smn, seeked>>
    BY DEF Return
  <2> QED
    BY <2>1, <2>2, <2>3 DEF IInv, StateType
<1>4. ~Pending(t)'
  BY <1>2 DEF Pending, Atomic!Idle
<1>5. StepInv' /\ Apart' /\ IndexInv'
  BY <1>2, <1>4 DEF IInv, StepInv, Apart, IndexInv, Pending, Return
<1>6. OffsetKept'
  <2> SUFFICES ASSUME NEW u \in Threads, Pending(u)', seeked'[u]
               PROVE  (offset[call[u].file] = Current(u).reg)'
    BY DEF OffsetKept
  <2>1. u # t /\ call'[u] = call[u] /\ Pending(u) /\ seeked[u]
    BY <1>2, <1>4 DEF Pending
  <2>2. offset'[call[u].file] = offset[call[u].file]
    BY <2>1, CurrentAccess DEF Return, IInv, StateType, Calls
  <2>3. (Current(u).reg)' = Current(u).reg
    BY <1>2, <2>1 DEF Current
  <2> QED
    BY <2>1, <2>2, <2>3 DEF IInv, OffsetKept
<1> QED
  BY <1>3, <1>5, <1>6 DEF IInv

LEMMA InvStep == ASSUME IInv, [Next]_vars PROVE IInv'
<1>1. CASE UNCHANGED vars
  BY <1>1 DEF vars, IInv, StateType, StepInv, Apart, OffsetKept, IndexInv, Pending, Current
<1>2. CASE Next
  BY <1>2, InvokeStep, NotPrivilegedThrows, SeekStep, WriteStep, ReadStep, ThrowStep,
     ReturnStep DEF Next
<1> QED
  BY <1>1, <1>2

(* The files, the index registers and the calls, at every moment           *)
THEOREM Invariant == Spec => []IInv
<1>1. Init => IInv
  BY InitInv
<1>2. IInv /\ [Next]_vars => IInv'
  BY InvStep
<1> QED
  BY <1>1, <1>2, PTL DEF Spec

(* Registers, files and calls keep their types.                            *)
THEOREM TypeCorrect == Spec => []TypeOK
<1>1. ASSUME IInv, NEW t \in Threads
      PROVE  Seen(call[t]) \in Atomic!Calls /\ (call[t].st # "idle" => call[t].file \in Files)
  BY <1>1 DEF IInv, StateType, Seen, Calls, Atomic!Calls, Atomic!Idle
<1>2. IInv => TypeOK
  BY <1>1 DEF IInv, StateType, TypeOK
<1> QED
  BY <1>2, Invariant, PTL

(* Between the system calls of one register access nothing moves the file  *)
(* offset or the SMN register it selected, as long as the clients keep the *)
(* accesses of one file, and the SMN accesses of one GPU, apart.           *)
THEOREM NotDisturbed == Spec => []Undisturbed
<1>1. IInv => IndexKept
  BY Selects DEF IndexKept
<1>2. IInv => Undisturbed
  BY <1>1 DEF IInv, Undisturbed
<1> QED
  BY <1>2, Invariant, PTL

-----------------------------------------------------------------------------
(* The refinement: a call takes effect at its last transfer.               *)

LEMMA InitAtomic == Init => Atomic!Init
<1> SUFFICES ASSUME Init PROVE Atomic!Init
  OBVIOUS
<1>1. 0 \in Values /\ MmioRegs \subseteq 0..(NumRegs - 1)
  BY SizesAssumption, ValuesAssumption DEF MmioRegs
<1>2. SeenMmio \in [MmioRegs -> Values] /\ smn \in [AllSmn -> Values]
  BY <1>1 DEF Init, SeenMmio
<1>3. SeenCalls = [t \in Threads |-> Atomic!Idle]
  BY DEF Init, SeenCalls, Seen, Atomic!Idle
<1> QED
  BY <1>2, <1>3 DEF Atomic!Init

(* What a step of one thread leaves alone of the others' calls             *)
LEMMA SeenUpdate ==
  ASSUME IInv, NEW t \in Threads, NEW c, call' = [call EXCEPT ![t] = c]
  PROVE  SeenCalls' = [SeenCalls EXCEPT ![t] = Seen(c)]
BY DEF IInv, StateType, SeenCalls

LEMMA SeenPending ==
  ASSUME IInv, NEW t \in Threads, Pending(t)
  PROVE  /\ SeenCalls[t] = [st |-> "pending", req |-> call[t].req, result |-> call[t].result]
         /\ \A s \in {"done", "failed"} : \A x :
              Seen([call[t] EXCEPT !.st = s, !.result = x])
                = [SeenCalls[t] EXCEPT !.st = s, !.result = x]
         /\ Seen([call[t] EXCEPT !.st = "failed"]) = [SeenCalls[t] EXCEPT !.st = "failed"]
<1> DEFINE c == call[t]
           a == [st |-> "pending", req |-> c.req, result |-> c.result]
<1>1. c \in Calls /\ c.st = "pending"
  BY CurrentAccess DEF Pending
<1>2. SeenCalls[t] = a
  BY <1>1 DEF SeenCalls, Seen
<1>3. ASSUME NEW s \in {"done", "failed"}, NEW x
      PROVE  Seen([c EXCEPT !.st = s, !.result = x]) = [a EXCEPT !.st = s, !.result = x]
  <2> DEFINE d == [c EXCEPT !.st = s, !.result = x]
  <2>1. d.st = s /\ d.req = c.req /\ d.result = x
    BY <1>1 DEF Calls
  <2>2. Seen(d) = [st |-> s, req |-> c.req, result |-> x]
    BY <1>3, <2>1 DEF Seen
  <2>3. [a EXCEPT !.st = s, !.result = x] = [st |-> s, req |-> c.req, result |-> x]
    <3> HIDE DEF c
    <3>1. [a EXCEPT !.st = s] = [st |-> s, req |-> c.req, result |-> c.result]
      OBVIOUS
    <3>2. [[st |-> s, req |-> c.req, result |-> c.result] EXCEPT !.result = x]
            = [st |-> s, req |-> c.req, result |-> x]
      OBVIOUS
    <3>3. [[a EXCEPT !.st = s] EXCEPT !.result = x] = [st |-> s, req |-> c.req, result |-> x]
      BY <3>1, <3>2, Zenon
    <3> QED
      BY <3>3
  <2> QED
    BY <2>2, <2>3
<1>4. Seen([c EXCEPT !.st = "failed"]) = [a EXCEPT !.st = "failed"]
  <2> DEFINE d == [c EXCEPT !.st = "failed"]
  <2>1. d.st = "failed" /\ d.req = c.req /\ d.result = c.result
    BY <1>1 DEF Calls
  <2>2. Seen(d) = [st |-> "failed", req |-> c.req, result |-> c.result]
    BY <2>1 DEF Seen
  <2> QED
    BY <2>2
<1> QED
  BY <1>2, <1>3, <1>4

LEMMA InvokeAtomic ==
  ASSUME IInv, NEW t \in Threads, Invoke(t) PROVE Atomic!Invoke(t)
<1>1. PICK f \in Files, r \in Atomic!Requests :
        call' = [call EXCEPT ![t] = [st |-> "pending", req |-> r,
                                   result |-> r.val, file |-> f]]
  BY DEF Invoke
<1>2. SeenCalls' = [SeenCalls EXCEPT ![t] = [st |-> "pending", req |-> r, result |-> r.val]]
  BY <1>1, SeenUpdate DEF Seen
<1>3. SeenCalls[t] = Atomic!Idle
  BY DEF IInv, StateType, Invoke, SeenCalls, Seen, Calls
<1>4. UNCHANGED <<SeenMmio, smn>>
  BY DEF Invoke, SeenMmio
<1> QED
  BY <1>2, <1>3, <1>4 DEF Atomic!Invoke

LEMMA ThrowAtomic ==
  ASSUME IInv, NEW t \in Threads, Throw(t) PROVE Atomic!Fail(t)
<1>1. call' = [call EXCEPT ![t] = [call[t] EXCEPT !.st = "failed"]]
  BY DEF Throw
<1>2. /\ SeenCalls' = [SeenCalls EXCEPT ![t] = [SeenCalls[t] EXCEPT !.st = "failed"]]
      /\ SeenCalls[t].st = "pending"
  <2>1. SeenCalls' = [SeenCalls EXCEPT ![t] = Seen([call[t] EXCEPT !.st = "failed"])]
    BY <1>1, SeenUpdate
  <2>2. Seen([call[t] EXCEPT !.st = "failed"]) = [SeenCalls[t] EXCEPT !.st = "failed"]
    BY SeenPending DEF Throw
  <2>3. SeenCalls[t].st = "pending"
    BY DEF Throw, SeenCalls, Seen, Pending
  <2> QED
    BY <2>1, <2>2, <2>3
<1>3. SeenCalls' = [SeenCalls EXCEPT ![t].st = "failed"]
  BY <1>2
<1>4. UNCHANGED <<SeenMmio, smn>>
  BY DEF Throw, SeenMmio
<1> QED
  BY <1>2, <1>3, <1>4 DEF Atomic!Fail

LEMMA ReturnAtomic ==
  ASSUME IInv, NEW t \in Threads, Return(t) PROVE Atomic!Return(t)
<1>1. SeenCalls' = [SeenCalls EXCEPT ![t] = Atomic!Idle]
  BY SeenUpdate DEF Return, Seen, Atomic!Idle
<1>2. SeenCalls[t].st \in {"done", "failed"}
  BY DEF Return, SeenCalls, Seen
<1>3. UNCHANGED <<SeenMmio, smn>>
  BY DEF Return, SeenMmio
<1> QED
  BY <1>1, <1>2, <1>3 DEF Atomic!Return

(* The last transfer of a call completes it, and no other shows.           *)
LEMMA AdvanceSeen ==
  ASSUME IInv, NEW t \in Threads, Pending(t), NEW result, Advance(t, result)
  PROVE  IF step[t] = Len(Accesses(call[t].req))
         THEN SeenCalls' = [SeenCalls EXCEPT ![t].st = "done", ![t].result = result]
         ELSE SeenCalls' = SeenCalls
<1>1. CASE step[t] = Len(Accesses(call[t].req))
  <2> DEFINE c == [call[t] EXCEPT !.st = "done", !.result = result]
  <2>1. call' = [call EXCEPT ![t].st = "done", ![t].result = result]
    BY <1>1 DEF Advance
  <2>2. call' = [call EXCEPT ![t] = c]
    BY <2>1 DEF IInv, StateType
  <2>3. Seen(c) = [SeenCalls[t] EXCEPT !.st = "done", !.result = result]
    BY SeenPending
  <2>4. SeenCalls' = [SeenCalls EXCEPT ![t] = Seen(c)]
    BY <2>2, SeenUpdate, Zenon
  <2>5. SeenCalls' = [SeenCalls EXCEPT ![t] =
                        [SeenCalls[t] EXCEPT !.st = "done", !.result = result]]
    BY <2>3, <2>4, Zenon
  <2>6. SeenCalls' = [SeenCalls EXCEPT ![t].st = "done", ![t].result = result]
    BY <2>5 DEF SeenCalls
  <2> QED
    BY <1>1, <2>6
<1>2. CASE step[t] # Len(Accesses(call[t].req))
  BY <1>2 DEF Advance, SeenCalls
<1> QED
  BY <1>1, <1>2

(* Perform, told with the result *)
LEMMA PerformIs ==
  ASSUME NEW t \in Threads, NEW r, NEW result,
         SeenCalls[t].st = "pending", SeenCalls[t].req = r,
         result = IF r.op = "read"
                  THEN IF r.ap = "MMIO" THEN SeenMmio[r.reg] ELSE smn[r.reg]
                  ELSE r.val,
         SeenCalls' = [SeenCalls EXCEPT ![t].st = "done", ![t].result = result],
         SeenMmio' = IF r.ap = "MMIO" /\ r.op = "write"
                     THEN [SeenMmio EXCEPT ![r.reg] = r.val] ELSE SeenMmio,
         smn' = IF r.ap = "SMN" /\ r.op = "write"
                THEN [smn EXCEPT ![r.reg] = r.val] ELSE smn
  PROVE  Atomic!Perform(t)
BY Zenon DEF Atomic!Perform

LEMMA WriteAtomic ==
  ASSUME IInv, NEW t \in Threads, Write(t)
  PROVE  Atomic!Perform(t) \/ UNCHANGED <<SeenMmio, smn, SeenCalls>>
<1> DEFINE r == call[t].req
<1>1. /\ Pending(t) /\ Current(t).op = "write" /\ r \in Atomic!Requests
      /\ Stored(Current(t).reg, Current(t).val) /\ Advance(t, r.val)
  BY CurrentAccess DEF Write, IInv, OffsetKept
<1>2. SeenCalls[t].st = "pending" /\ SeenCalls[t].req = r
  BY <1>1 DEF SeenCalls, Seen, Pending
<1>3. CASE r.ap = "MMIO"
  <2>1. SeenCalls' = [SeenCalls EXCEPT ![t].st = "done", ![t].result = r.val]
    BY <1>1, <1>3, AdvanceSeen, CurrentAccess
  <2>2. r.op = "write" /\ r.reg \in MmioRegs
        /\ Current(t).reg = r.reg /\ Current(t).val = r.val
    BY <1>1, <1>3, CurrentAccess, RequestFields
  <2>3. mmio' = [mmio EXCEPT ![r.reg] = r.val] /\ smn' = smn
    BY <1>1, <2>2 DEF Stored, MmioRegs, RSMU_DATA
  <2>4. SeenMmio' = [SeenMmio EXCEPT ![r.reg] = r.val]
    <3>1. MmioRegs \subseteq 0..(NumRegs - 1)
      BY SizesAssumption DEF MmioRegs
    <3> QED
      BY <2>2, <2>3, <3>1 DEF SeenMmio, IInv, StateType
  <2> QED
    BY <1>2, <1>3, <2>1, <2>2, <2>3, <2>4, PerformIs
<1>4. CASE r.ap = "SMN" /\ step[t] = 3
  <2>1. SeenCalls' = [SeenCalls EXCEPT ![t].st = "done", ![t].result = r.val]
    BY <1>1, <1>4, AdvanceSeen, CurrentAccess
  <2>2. r.op = "write" /\ Current(t).reg = RSMU_DATA /\ Current(t).val = r.val
    BY <1>1, <1>4, CurrentAccess
  <2>3. smn' = [smn EXCEPT ![r.reg] = r.val] /\ mmio' = mmio
    BY <1>1, <1>4, <2>2, Selects DEF Stored
  <2>4. SeenMmio' = SeenMmio
    BY <2>3 DEF SeenMmio
  <2> QED
    BY <1>2, <1>4, <2>1, <2>2, <2>3, <2>4, PerformIs
<1>5. CASE r.ap = "SMN" /\ step[t] # 3
  <2>1. SeenCalls' = SeenCalls
    BY <1>1, <1>5, AdvanceSeen, CurrentAccess
  <2>2. Current(t).reg \in {RSMU_INDEX, RSMU_INDEX_HI}
    BY <1>1, <1>5, CurrentAccess DEF IInv, StateType, To
  <2>3. mmio' = [mmio EXCEPT ![Current(t).reg] = Current(t).val] /\ smn' = smn
    BY <1>1, <2>2 DEF Stored, RSMU_INDEX, RSMU_INDEX_HI, RSMU_DATA
  <2>4. \A i \in MmioRegs : mmio'[i] = mmio[i]
    BY <2>2, <2>3, SizesAssumption
    DEF MmioRegs, IInv, StateType, RSMU_INDEX, RSMU_INDEX_HI
  <2>5. SeenMmio' = SeenMmio
    BY <2>4 DEF SeenMmio
  <2> QED
    BY <2>1, <2>3, <2>5
<1> QED
  BY <1>1, <1>3, <1>4, <1>5, RequestFields

LEMMA ReadAtomic ==
  ASSUME IInv, NEW t \in Threads, Read(t)
  PROVE  Atomic!Perform(t)
<1> DEFINE r == call[t].req
<1>1. /\ Pending(t) /\ Current(t).op = "read" /\ r \in Atomic!Requests
      /\ Advance(t, Loaded(Current(t).reg)) /\ UNCHANGED <<mmio, smn>>
  BY CurrentAccess DEF Read, IInv, OffsetKept
<1>2. SeenCalls[t].st = "pending" /\ SeenCalls[t].req = r
  BY <1>1 DEF SeenCalls, Seen, Pending
<1>3. UNCHANGED <<SeenMmio, smn>>
  BY <1>1 DEF SeenMmio
<1>4. CASE r.ap = "MMIO"
  <2>1. r.op = "read" /\ r.reg \in MmioRegs /\ Current(t).reg = r.reg
    BY <1>1, <1>4, CurrentAccess, RequestFields
  <2>2. Loaded(Current(t).reg) = SeenMmio[r.reg]
    BY <2>1 DEF Loaded, SeenMmio, MmioRegs, RSMU_DATA
  <2>3. SeenCalls' = [SeenCalls EXCEPT ![t].st = "done", ![t].result = SeenMmio[r.reg]]
    <3>1. SeenCalls' = [SeenCalls EXCEPT ![t].st = "done", ![t].result = Loaded(Current(t).reg)]
      BY <1>1, <1>4, AdvanceSeen, CurrentAccess
    <3> QED
      BY <2>2, <3>1, Zenon
  <2> QED
    BY <1>2, <1>3, <1>4, <2>1, <2>3, PerformIs
<1>5. CASE r.ap = "SMN"
  <2>1. r.op = "read" /\ step[t] = 3 /\ Current(t).reg = RSMU_DATA
    BY <1>1, <1>5, CurrentAccess DEF IInv, StateType, To
  <2>2. Loaded(Current(t).reg) = smn[r.reg]
    BY <1>1, <1>5, <2>1, Selects DEF Loaded
  <2>3. SeenCalls' = [SeenCalls EXCEPT ![t].st = "done", ![t].result = smn[r.reg]]
    <3>1. SeenCalls' = [SeenCalls EXCEPT ![t].st = "done", ![t].result = Loaded(Current(t).reg)]
      BY <1>1, <1>5, <2>1, AdvanceSeen, CurrentAccess
    <3> QED
      BY <2>2, <3>1, Zenon
  <2> QED
    BY <1>2, <1>3, <1>5, <2>1, <2>3, PerformIs
<1> QED
  BY <1>1, <1>4, <1>5, RequestFields

LEMMA StepAtomic == ASSUME IInv, [Next]_vars PROVE [Atomic!Next]_(Atomic!vars)
<1>1. CASE UNCHANGED vars
  BY <1>1 DEF vars, Atomic!vars, SeenMmio, SeenCalls
<1>2. ASSUME NEW t \in Threads, Seek(t)
      PROVE  UNCHANGED <<SeenMmio, smn, SeenCalls>>
  BY <1>2 DEF Seek, SeenMmio, SeenCalls
<1>3. CASE Next
  BY <1>2, <1>3, InvokeAtomic, NotPrivilegedThrows, WriteAtomic, ReadAtomic, ThrowAtomic,
     ReturnAtomic
  DEF Next, Atomic!Next, Atomic!vars
<1> QED
  BY <1>1, <1>3

(* Every register access is atomic on the register it names, or fails and  *)
(* changes no register, although it is up to six system calls: the         *)
(* interleaved accesses implement AtomicRegs.                              *)
THEOREM Implements == Spec => CallsAtomic
<1>1. Init => Atomic!Init
  BY InitAtomic
<1>2. IInv /\ [Next]_vars => [Atomic!Next]_(Atomic!vars)
  BY StepAtomic
<1> QED
  BY <1>1, <1>2, Invariant, PTL DEF Spec, CallsAtomic, Atomic!Spec
=============================================================================
