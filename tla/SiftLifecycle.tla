--------------------------- MODULE SiftLifecycle ---------------------------
(***************************************************************************)
(* The lifetime of the one global engine of the library: sift_init,        *)
(* sift_destroy, and every other entry point, which dereferences the       *)
(* global pointer without a check (src/src/sift/capi.cc).                  *)
(*                                                                         *)
(* engref is a std::atomic<int>, eng a plain pointer.  A call is therefore *)
(* split where another thread can get in: the fetch-and-add or             *)
(* fetch-and-sub, and the work done on its result.  The constructor of the *)
(* engine is a window of its own: it registers a logger by name, in a      *)
(* registry of the process that nothing is ever taken out of and that has  *)
(* a lock of its own, and then scans sysfs (src/src/sift/engine.cc).       *)
(*                                                                         *)
(* A client is a part of the process that pairs one sift_init with one     *)
(* sift_destroy, also when the init failed (README.md:80-85).  Clients run *)
(* concurrently.  ExtraDestroys calls to sift_destroy come on top.         *)
(***************************************************************************)
EXTENDS Integers, FiniteSets

CONSTANTS
  Clients,       \* who calls the library
  Engines,       \* the addresses operator new can return, each used once
  NoEngine,      \* the null pointer
  ExtraDestroys  \* bound on unpaired sift_destroy calls; 0: all are paired

ASSUME ClientsAssumption == IsFiniteSet(Clients)
ASSUME EnginesAssumption == NoEngine \notin Engines
ASSUME ExtraAssumption   == ExtraDestroys \in Nat

VARIABLES
  engref,   \* std::atomic<int> engref
  eng,      \* sift::Engine *eng
  heap,     \* what stands at each address
  logger,   \* spdlog has a logger with the name "sift"
  pc,       \* where a client is inside a call
  local,    \* the counter value its fetch-and-add or fetch-and-sub returned
  result,   \* the status its last sift_init or sift_destroy returned
  ub,       \* the undefined behaviour the process ran into, if any
  holds,    \* ghost: it called sift_init and did not yet call sift_destroy
  extra,    \* ghost: number of unpaired sift_destroy calls so far
  reused    \* ghost: sift_init was called after an unpaired sift_destroy

ghosts == <<holds, extra, reused>>
vars   == <<engref, eng, heap, logger, pc, local, result, ub, ghosts>>

PCs      == {"idle", "init", "constructing", "scanning", "destroy"}
Constructing == {"constructing", "scanning"}
Statuses == {"none", "SUCCESS", "ERROR", "CODE_BUG"}
Faults   == {"null_deref", "use_after_free", "double_delete"}
Cells    == {"unused", "live", "freed"}

TypeOK ==
  /\ engref \in Int
  /\ eng \in Engines \union {NoEngine}
  /\ heap \in [Engines -> Cells]
  /\ logger \in BOOLEAN
  /\ pc \in [Clients -> PCs]
  /\ local \in [Clients -> Int]
  /\ result \in [Clients -> Statuses]
  /\ ub \in Faults \union {"none"}
  /\ holds \in [Clients -> BOOLEAN]
  /\ extra \in 0..ExtraDestroys
  /\ reused \in BOOLEAN

Init ==
  /\ engref = 0
  /\ eng = NoEngine
  /\ heap = [e \in Engines |-> "unused"]
  /\ logger = FALSE
  /\ pc = [c \in Clients |-> "idle"]
  /\ local = [c \in Clients |-> 0]
  /\ result = [c \in Clients |-> "none"]
  /\ ub = "none"
  /\ holds = [c \in Clients |-> FALSE]
  /\ extra = 0
  /\ reused = FALSE

-----------------------------------------------------------------------------
Goto(c, from, to) ==
  /\ pc[c] = from
  /\ pc' = [pc EXCEPT ![c] = to]

Return(c, from, status) ==
  /\ Goto(c, from, "idle")
  /\ result' = [result EXCEPT ![c] = status]

(* sift_init: auto val = engref++ *)
InitFetch(c) ==
  /\ ~holds[c]
  /\ Goto(c, "idle", "init")
  /\ local' = [local EXCEPT ![c] = engref]
  /\ engref' = engref + 1
  /\ holds' = [holds EXCEPT ![c] = TRUE]
  /\ reused' = (reused \/ extra > 0)
  /\ UNCHANGED <<eng, heap, logger, result, ub, extra>>

(* sift_init, val # 0: somebody else initialised, or is about to *)
InitJoin(c) ==
  /\ local[c] # 0
  /\ Return(c, "init", "SUCCESS")
  /\ UNCHANGED <<engref, eng, heap, logger, local, ub, ghosts>>

(* sift_init: if (eng) return SIFT_STATUS_CODE_BUG; the count stays raised *)
InitCodeBug(c) ==
  /\ local[c] = 0
  /\ eng # NoEngine
  /\ Return(c, "init", "CODE_BUG")
  /\ UNCHANGED <<engref, eng, heap, logger, local, ub, ghosts>>

(* sift_init: the test of eng passed and the constructor starts *)
InitConstruct(c) ==
  /\ local[c] = 0
  /\ eng = NoEngine
  /\ Goto(c, "init", "constructing")
  /\ UNCHANGED <<engref, eng, heap, logger, local, result, ub, ghosts>>

(* Mutant: the name may be registered twice. *)
MutRegisterLogger(c) ==
  /\ Goto(c, "constructing", "scanning")
  /\ logger' = TRUE
  /\ UNCHANGED <<engref, eng, heap, local, result, ub, ghosts>>

(* LoggerManager: register_logger throws if the name is there already *)
RegisterLogger(c) ==
  /\ ~logger
  /\ Goto(c, "constructing", "scanning")
  /\ logger' = TRUE
  /\ UNCHANGED <<engref, eng, heap, local, result, ub, ghosts>>

(* sift_init: eng = new Engine() *)
ConstructDone(c) ==
  /\ Return(c, "scanning", "SUCCESS")
  /\ \E e \in Engines :
       /\ heap[e] = "unused"
       /\ heap' = [heap EXCEPT ![e] = "live"]
       /\ eng' = e
  /\ UNCHANGED <<engref, logger, local, ub, ghosts>>

(* Mutant: the failed path gives the reference back, and so does the       *)
(* client's paired sift_destroy.                                           *)
MutConstructThrows(c) ==
  /\ \E from \in Constructing : Return(c, from, "ERROR")
  /\ engref' = engref - 1
  /\ UNCHANGED <<eng, heap, logger, local, ub, ghosts>>

(* Mutant: no second catch clause, the exception reaches the C caller.     *)
MutConstructEscapes(c) ==
  /\ \E from \in Constructing : Return(c, from, "escaped")
  /\ UNCHANGED <<engref, eng, heap, logger, local, ub, ghosts>>

(* sift_init: the constructor throws, before or after it registered the    *)
(* logger; neither engref nor eng is touched                               *)
ConstructThrows(c) ==
  /\ \E from \in Constructing : Return(c, from, "ERROR")
  /\ UNCHANGED <<engref, eng, heap, logger, local, ub, ghosts>>

(* Mutant: int alive = --engref *)
MutDestroyFetch(c) ==
  /\ \/ holds[c] /\ extra' = extra
     \/ ~holds[c] /\ extra < ExtraDestroys /\ extra' = extra + 1
  /\ Goto(c, "idle", "destroy")
  /\ engref' = engref - 1
  /\ local' = [local EXCEPT ![c] = engref']
  /\ holds' = [holds EXCEPT ![c] = FALSE]
  /\ UNCHANGED <<eng, heap, logger, result, ub, reused>>

(* sift_destroy: int alive = engref-- *)
DestroyFetch(c) ==
  /\ \/ holds[c] /\ extra' = extra
     \/ ~holds[c] /\ extra < ExtraDestroys /\ extra' = extra + 1
  /\ Goto(c, "idle", "destroy")
  /\ local' = [local EXCEPT ![c] = engref]
  /\ engref' = engref - 1
  /\ holds' = [holds EXCEPT ![c] = FALSE]
  /\ UNCHANGED <<eng, heap, logger, result, ub, reused>>

(* delete eng: nothing for a null pointer, and eng keeps its value. *)
DeleteEngine ==
  \/ /\ eng = NoEngine
     /\ UNCHANGED <<heap, ub>>
  \/ /\ eng # NoEngine
     /\ heap[eng] = "live"
     /\ heap' = [heap EXCEPT ![eng] = "freed"]
     /\ UNCHANGED ub
  \/ /\ eng # NoEngine
     /\ heap[eng] = "freed"
     /\ ub' = "double_delete"
     /\ UNCHANGED heap

(* sift_destroy: if (!alive) delete eng *)
DestroyDelete(c) ==
  /\ local[c] = 0
  /\ Return(c, "destroy", "SUCCESS")
  /\ DeleteEngine
  /\ UNCHANGED <<engref, eng, logger, local, ghosts>>

(* sift_destroy, alive # 0: nothing is deleted *)
DestroySkip(c) ==
  /\ local[c] # 0
  /\ Return(c, "destroy", "SUCCESS")
  /\ UNCHANGED <<engref, eng, heap, logger, local, ub, ghosts>>

(* What eng->... does in the present state, if it goes wrong. *)
DerefFault ==
  IF eng = NoEngine THEN "null_deref"
  ELSE IF heap[eng] = "freed" THEN "use_after_free" ELSE "none"

(* Any other entry point: eng->... with no check.  A client calls one only *)
(* between an init that returned SUCCESS and its destroy.                  *)
ApiCall(c) ==
  /\ pc[c] = "idle"
  /\ holds[c]
  /\ result[c] = "SUCCESS"
  /\ ub' = DerefFault
  /\ UNCHANGED <<engref, eng, heap, logger, pc, local, result, ghosts>>

Step(c) ==
  \/ InitFetch(c) \/ InitJoin(c) \/ InitCodeBug(c)
  \/ InitConstruct(c) \/ RegisterLogger(c) \/ ConstructDone(c) \/ ConstructThrows(c)
  \/ DestroyFetch(c) \/ DestroyDelete(c) \/ DestroySkip(c)
  \/ ApiCall(c)

(* Undefined behaviour ends the process. *)
Next == ub = "none" /\ \E c \in Clients : Step(c)

Spec == Init /\ [][Next]_vars

-----------------------------------------------------------------------------
Holders == {c \in Clients : holds[c]}

(* c saw the counter at zero and is the one to build the engine. *)
Builder(c) == pc[c] \in {"init"} \union Constructing /\ local[c] = 0

Used == {e \in Engines : heap[e] # "unused"}

(* The reference count is the number of clients between sift_init and     *)
(* sift_destroy, less the unpaired destroys: no error path of sift_init    *)
(* (CODE_BUG, an exception) and no interleaving makes it drift.            *)
CountsHolders == engref = Cardinality(Holders) - extra

(* At most one sift_destroy too many, and no sift_init after it.  One is   *)
(* what it takes to get the engine deleted at all: see DestroyShutsDown.   *)
Orderly == extra <= 1 /\ ~reused

(* At most one client is ever between the zero test of sift_init and the   *)
(* assignment of eng, although no lock is held there.                      *)
OneBuilder == Orderly => \A c, d \in Clients : Builder(c) /\ Builder(d) => c = d

(* Whatever the clients do, however many destroys are unpaired and however *)
(* many builders there are, at most one engine is ever built, eng is that  *)
(* one from then on, and a null pointer is followed only if none was ever  *)
(* built: while a constructor runs that another client's sift_init did not *)
(* wait for, or after one threw.                                           *)
OneEngine ==
  /\ \A e \in Used : e = eng
  /\ ub = "null_deref" => Used = {}

HeldAndFreed ==
  \E c \in Clients :
    /\ holds[c] /\ pc[c] = "idle" /\ result[c] = "SUCCESS"
    /\ eng # NoEngine /\ heap[eng] = "freed"

(* The engine is never deleted under a client that was told SUCCESS and    *)
(* did not yet destroy, and never deleted twice, wherever the unpaired     *)
(* sift_destroy comes between the calls of the others.                     *)
NoFreeFault ==
  Orderly =>
    /\ ~HeldAndFreed
    /\ ub \notin {"use_after_free", "double_delete"}

(* The engine is deleted only when no client holds it: the decision was    *)
(* taken at the fetch-and-sub, and nobody came in between.                 *)
DeletedWhenUnheld ==
  [][Orderly' /\ (\E e \in Engines : heap[e] = "live" /\ heap'[e] = "freed")
       => Holders = {}]_vars

(* sift.h:51: sift_destroy shuts down the runtime: when every init has     *)
(* been paired and no call runs, no engine is left.                        *)
DestroyShutsDown ==
  (\A c \in Clients : ~holds[c] /\ pc[c] = "idle")
    => \A e \in Engines : heap[e] # "live"
=============================================================================
