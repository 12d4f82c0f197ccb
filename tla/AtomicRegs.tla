----------------------------- MODULE AtomicRegs -----------------------------
(***************************************************************************)
(* What sift_*_read_reg32 and sift_*_write_reg32 promise for one GPU: a    *)
(* call takes effect at one instant between its start and its return, on   *)
(* the one register it names, or fails and has no effect.                  *)
(***************************************************************************)
CONSTANTS
  Threads,
  MmioRegs, \* the MMIO registers that calls name
  SmnRegs,  \* the SMN registers that calls name,
  AllSmn,   \* of all there are
  Values, NoValue

VARIABLES
  mmio,  \* the plain MMIO registers
  smn,   \* the registers behind the SMN aperture
  call   \* the call of each thread

vars == <<mmio, smn, call>>

Targets == ({"MMIO"} \X MmioRegs) \union ({"SMN"} \X SmnRegs)

Requests ==
  {[ap |-> x[1], op |-> "read", reg |-> x[2], val |-> NoValue] : x \in Targets}
    \union
  {[ap |-> x[1], op |-> "write", reg |-> x[2], val |-> v] :
     x \in Targets, v \in Values}

Idle == [st |-> "idle"]

Calls == {Idle} \union
         [st : {"pending", "done", "failed"}, req : Requests,
          result : Values \union {NoValue}]

Init ==
  /\ mmio \in [MmioRegs -> Values]
  /\ smn \in [AllSmn -> Values]
  /\ call = [t \in Threads |-> Idle]

Invoke(t) ==
  /\ call[t] = Idle
  /\ \E r \in Requests :
       call' = [call EXCEPT ![t] = [st |-> "pending", req |-> r, result |-> r.val]]
  /\ UNCHANGED <<mmio, smn>>

Perform(t) ==
  /\ call[t].st = "pending"
  /\ LET r   == call[t].req
         old == IF r.ap = "MMIO" THEN mmio[r.reg] ELSE smn[r.reg]
     IN  /\ call' = [call EXCEPT ![t].st = "done",
                       ![t].result = IF r.op = "read" THEN old ELSE r.val]
         /\ mmio' = IF r.ap = "MMIO" /\ r.op = "write"
                    THEN [mmio EXCEPT ![r.reg] = r.val] ELSE mmio
         /\ smn'  = IF r.ap = "SMN" /\ r.op = "write"
                    THEN [smn EXCEPT ![r.reg] = r.val] ELSE smn

Fail(t) ==
  /\ call[t].st = "pending"
  /\ call' = [call EXCEPT ![t].st = "failed"]
  /\ UNCHANGED <<mmio, smn>>

Return(t) ==
  /\ call[t].st \in {"done", "failed"}
  /\ call' = [call EXCEPT ![t] = Idle]
  /\ UNCHANGED <<mmio, smn>>

Next == \E t \in Threads : Invoke(t) \/ Perform(t) \/ Fail(t) \/ Return(t)

Spec == Init /\ [][Next]_vars
=============================================================================
