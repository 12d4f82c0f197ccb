------------------------ MODULE SiftLifecycleProofs ------------------------
(***************************************************************************)
(* Theorems of SiftLifecycle, for any finite set of clients and any set of *)
(* addresses.  The reference count and the one engine are proved for any   *)
(* number of unpaired sift_destroy calls, the latter from BuiltOnce; the   *)
(* rest holds as long as at most one was unpaired and no sift_init came    *)
(* after it, and rests on IInv.                                            *)
(***************************************************************************)
EXTENDS SiftLifecycle, FiniteSetTheorems, TLAPS

(* A step of any client, or none, keeps every variable in its type. *)
LEMMA TypeStep == ASSUME TypeOK, [Next]_vars PROVE TypeOK'
<1> USE ExtraAssumption
<1> USE DEF TypeOK, PCs, Constructing, Statuses, Faults, Cells, Goto, Return, ghosts
<1>1. CASE UNCHANGED vars
  BY <1>1 DEF vars
<1>2. ASSUME NEW c \in Clients, InitFetch(c) PROVE TypeOK'
  BY <1>2 DEF InitFetch
<1>3. ASSUME NEW c \in Clients, InitJoin(c) PROVE TypeOK'
  BY <1>3 DEF InitJoin
<1>4. ASSUME NEW c \in Clients, InitCodeBug(c) PROVE TypeOK'
  BY <1>4 DEF InitCodeBug
<1>5. ASSUME NEW c \in Clients, InitConstruct(c) PROVE TypeOK'
  BY <1>5 DEF InitConstruct
<1>6. ASSUME NEW c \in Clients, ConstructDone(c) PROVE TypeOK'
  BY <1>6 DEF ConstructDone
<1>7. ASSUME NEW c \in Clients, ConstructThrows(c) PROVE TypeOK'
  BY <1>7 DEF ConstructThrows
<1>8. ASSUME NEW c \in Clients, DestroyFetch(c) PROVE TypeOK'
  BY <1>8 DEF DestroyFetch
<1>9. ASSUME NEW c \in Clients, DestroyDelete(c) PROVE TypeOK'
  BY <1>9 DEF DestroyDelete, DeleteEngine
<1>10. ASSUME NEW c \in Clients, DestroySkip(c) PROVE TypeOK'
  BY <1>10 DEF DestroySkip
<1>11. ASSUME NEW c \in Clients, ApiCall(c) PROVE TypeOK'
  BY <1>11 DEF ApiCall, DerefFault
<1>12. ASSUME NEW c \in Clients, RegisterLogger(c) PROVE TypeOK'
  BY <1>12 DEF RegisterLogger
<1> QED
  BY <1>1, <1>2, <1>3, <1>4, <1>5, <1>6, <1>7, <1>8, <1>9, <1>10, <1>11, <1>12
  DEF Next, Step

LEMMA InitType == Init => TypeOK
<1> SUFFICES ASSUME Init PROVE TypeOK
  OBVIOUS
<1>1. extra \in 0..ExtraDestroys /\ engref \in Int
  BY ExtraAssumption DEF Init
<1>2. eng \in Engines \union {NoEngine} /\ heap \in [Engines -> Cells]
  BY DEF Init, Cells
<1>3. pc \in [Clients -> PCs] /\ result \in [Clients -> Statuses]
  BY DEF Init, PCs, Statuses
<1>4. local \in [Clients -> Int] /\ holds \in [Clients -> BOOLEAN]
  BY DEF Init
<1>5. logger \in BOOLEAN
  BY DEF Init
<1> QED
  BY <1>1, <1>2, <1>3, <1>4, <1>5 DEF Init, TypeOK

(* The type invariant of the lifecycle of capi.cc. *)
THEOREM TypeCorrect == Spec => []TypeOK
<1>1. Init => TypeOK
  BY InitType
<1>2. TypeOK /\ [Next]_vars => TypeOK'
  BY TypeStep
<1> QED
  BY <1>1, <1>2, PTL DEF Spec

-----------------------------------------------------------------------------
(* The set of holders is finite, so it has a cardinality to count with. *)
LEMMA HoldersFinite == IsFiniteSet(Holders) /\ Cardinality(Holders) \in Nat
<1>1. IsFiniteSet(Holders)
  BY ClientsAssumption, FS_Subset DEF Holders
<1> QED
  BY <1>1, FS_CardinalityType

(* Every step changes the counter and the set of holders together. *)
LEMMA CountStep ==
  ASSUME TypeOK, CountsHolders, [Next]_vars PROVE CountsHolders'
<1> USE HoldersFinite, ExtraAssumption
<1>1. ASSUME UNCHANGED <<engref, holds, extra>> PROVE CountsHolders'
  BY <1>1 DEF CountsHolders, Holders
<1>2. ASSUME NEW c \in Clients, InitFetch(c) PROVE CountsHolders'
  <2>1. Holders' = Holders \union {c} /\ c \notin Holders
    BY <1>2 DEF InitFetch, Holders, TypeOK
  <2>2. Cardinality(Holders') = Cardinality(Holders) + 1
    BY <2>1, FS_AddElement
  <2> QED
    BY <1>2, <2>2 DEF InitFetch, CountsHolders, TypeOK
<1>3. ASSUME NEW c \in Clients, DestroyFetch(c) PROVE CountsHolders'
  <2>1. CASE holds[c] /\ extra' = extra
    <3>1. Holders' = Holders \ {c} /\ c \in Holders
      BY <1>3, <2>1 DEF DestroyFetch, Holders, TypeOK
    <3>2. Cardinality(Holders') = Cardinality(Holders) - 1
      BY <3>1, FS_RemoveElement
    <3> QED
      BY <1>3, <2>1, <3>2 DEF DestroyFetch, CountsHolders, TypeOK
  <2>2. CASE ~holds[c] /\ extra' = extra + 1
    <3>1. Holders' = Holders
      BY <1>3, <2>2 DEF DestroyFetch, Holders, TypeOK
    <3> QED
      BY <1>3, <2>2, <3>1 DEF DestroyFetch, CountsHolders, TypeOK
  <2> QED
    BY <1>3, <2>1, <2>2 DEF DestroyFetch
<1> QED
  BY <1>1, <1>2, <1>3
  DEF Next, Step, vars, ghosts, InitJoin, InitCodeBug, InitConstruct,
      RegisterLogger, ConstructDone, ConstructThrows, DestroyDelete, DestroySkip,
      ApiCall

(* engref counts the holders, whatever the interleaving, whichever calls   *)
(* fail and however many unpaired sift_destroy calls there are.            *)
THEOREM CounterCorrect == Spec => []CountsHolders
<1>1. Init => CountsHolders
  <2> SUFFICES ASSUME Init PROVE CountsHolders
    OBVIOUS
  <2>1. Holders = {}
    BY DEF Init, Holders
  <2> QED
    BY <2>1, FS_EmptySet DEF Init, CountsHolders
<1>2. TypeOK /\ CountsHolders /\ [Next]_vars => CountsHolders'
  BY CountStep
<1> QED
  BY <1>1, <1>2, TypeCorrect, PTL DEF Spec

-----------------------------------------------------------------------------
(* Nobody scans, and nothing is built, before the logger is registered; it *)
(* is registered once, so one client scans, once, and builds one engine.   *)
BuiltOnce ==
  /\ ~logger => Used = {} /\ \A c \in Clients : pc[c] # "scanning"
  /\ \A c \in Clients : pc[c] = "scanning" =>
       Used = {} /\ \A d \in Clients : pc[d] = "scanning" => d = c
  /\ OneEngine

LEMMA BuiltOnceStep ==
  ASSUME TypeOK, BuiltOnce, [Next]_vars PROVE BuiltOnce'
<1> USE EnginesAssumption
<1> USE DEF TypeOK, BuiltOnce, OneEngine, Used, Goto, Return, ghosts
<1>1. CASE UNCHANGED vars
  BY <1>1 DEF vars
<1>2. ASSUME ub = "none", NEW c \in Clients, RegisterLogger(c) PROVE BuiltOnce'
  BY <1>2 DEF RegisterLogger
<1>3. ASSUME ub = "none", NEW c \in Clients, ConstructDone(c) PROVE BuiltOnce'
  <2>1. PICK e \in Engines : /\ heap' = [heap EXCEPT ![e] = "live"] /\ eng' = e
    BY <1>3 DEF ConstructDone
  <2>2. Used = {} /\ logger /\ pc[c] = "scanning"
    BY <1>3 DEF ConstructDone
  <2>3. Used' = {e}
    BY <2>1, <2>2
  <2>4. \A d \in Clients : pc'[d] # "scanning"
    BY <1>3, <2>2 DEF ConstructDone
  <2> QED
    BY <1>3, <2>1, <2>2, <2>3, <2>4 DEF ConstructDone
<1>4. ASSUME ub = "none", NEW c \in Clients, DestroyDelete(c) PROVE BuiltOnce'
  <2>1. Used' = Used /\ ub' # "null_deref"
    BY <1>4 DEF DestroyDelete, DeleteEngine
  <2> QED
    BY <1>4, <2>1 DEF DestroyDelete
<1>5. ASSUME ub = "none", NEW c \in Clients, ApiCall(c) PROVE BuiltOnce'
  <2>1. eng = NoEngine => Used = {}
    OBVIOUS
  <2> QED
    BY <1>5, <2>1 DEF ApiCall, DerefFault
<1>6. ASSUME ub = "none", NEW c \in Clients,
             \/ InitFetch(c) \/ InitJoin(c) \/ InitCodeBug(c) \/ InitConstruct(c)
             \/ ConstructThrows(c) \/ DestroyFetch(c) \/ DestroySkip(c)
      PROVE  BuiltOnce'
  BY <1>6 DEF InitFetch, InitJoin, InitCodeBug, InitConstruct, ConstructThrows,
              DestroyFetch, DestroySkip
<1> QED
  BY <1>1, <1>2, <1>3, <1>4, <1>5, <1>6 DEF Next, Step

(* However the calls of sift_init and sift_destroy interleave, one engine  *)
(* is ever built, and a null pointer is followed only while there is none. *)
THEOREM UniqueEngine == Spec => []OneEngine
<1>1. Init => BuiltOnce
  BY DEF Init, BuiltOnce, OneEngine, Used
<1>2. TypeOK /\ BuiltOnce /\ [Next]_vars => BuiltOnce'
  BY BuiltOnceStep
<1>3. BuiltOnce => OneEngine
  BY DEF BuiltOnce
<1> QED
  BY <1>1, <1>2, <1>3, TypeCorrect, PTL DEF Spec

-----------------------------------------------------------------------------
(* The inductive invariant.  A client inside sift_init is a holder, so no   *)
(* second one can read zero there.  The engine being built is the first     *)
(* and only one.  A client that read zero in sift_destroy and is about to   *)
(* delete is alone: nobody holds the engine, the one unpaired call is       *)
(* spent, and the counter is below zero, so nobody will read zero again.    *)
InitHolds  == \A c \in Clients : pc[c] \in {"init"} \union Constructing => holds[c]
BuildFirst == \A c \in Clients :
                pc[c] \in Constructing => eng = NoEngine /\ local[c] = 0
OnlyEngine == \A e \in Engines : heap[e] # "unused" => e = eng

Deleter(c) == pc[c] = "destroy" /\ local[c] = 0
Deleted    == eng # NoEngine /\ heap[eng] = "freed"
Abandoned  == extra = 1 /\ \A c \in Clients : ~holds[c]

DeleterAlone ==
  \A c \in Clients :
    Deleter(c) => Abandoned /\ ~Deleted /\ \A d \in Clients : Deleter(d) => d = c
DeletedLast == Deleted => Abandoned
NoDelete    == ub \notin {"use_after_free", "double_delete"}

Ordered == /\ BuildFirst /\ OneBuilder /\ OnlyEngine
           /\ DeleterAlone /\ DeletedLast /\ NoDelete

IInv == TypeOK /\ CountsHolders /\ InitHolds /\ (Orderly => Ordered)

(* What the counter says of the holders while at most one call is unpaired. *)
LEMMA CountMeans ==
  ASSUME TypeOK, CountsHolders, extra <= 1
  PROVE  /\ extra = 0 /\ engref = 0 => \A c \in Clients : ~holds[c]
         /\ Abandoned => engref < 0
         /\ engref = 0 => \A c, d \in Clients : holds[c] /\ holds[d] => c = d
         /\ \A c \in Clients : engref = 0 /\ holds[c] => extra = 1
<1>1. engref = Cardinality(Holders) - extra /\ Cardinality(Holders) \in Nat
  BY HoldersFinite DEF CountsHolders
<1>2. extra \in {0, 1}
  BY ExtraAssumption DEF TypeOK
<1>3. Cardinality(Holders) = 0 <=> Holders = {}
  BY HoldersFinite, FS_EmptySet
<1>4. Cardinality(Holders) = 1 => \E x : Holders = {x}
  BY HoldersFinite, FS_Singleton
<1>5. extra = 0 /\ engref = 0 => Holders = {}
  BY <1>1, <1>3
<1>6. Holders = {} /\ extra = 1 => engref < 0
  BY <1>1, <1>3
<1>7. engref = 0 => Holders = {} \/ \E x : Holders = {x}
  BY <1>1, <1>2, <1>3, <1>4
<1>8. engref = 0 /\ Holders # {} => extra = 1
  BY <1>1, <1>2, <1>3
<1> QED
  BY <1>5, <1>6, <1>7, <1>8 DEF Holders, Abandoned

(* Neither condition of Orderly comes back once it is lost. *)
LEMMA OrderlyBefore == ASSUME TypeOK, [Next]_vars, Orderly' PROVE Orderly
<1>1. extra \in Nat
  BY ExtraAssumption DEF TypeOK
<1>2. (reused => reused') /\ (extra' = extra \/ extra' = extra + 1)
  BY DEF Next, Step, vars, ghosts, TypeOK, InitFetch, InitJoin, InitCodeBug,
     InitConstruct, RegisterLogger, ConstructDone, ConstructThrows,
     DestroyFetch, DestroyDelete, DestroySkip, ApiCall
<1>3. extra' <= 1 => extra <= 1
  BY <1>1, <1>2
<1> QED
  BY <1>2, <1>3 DEF Orderly

LEMMA InitHoldsStep ==
  ASSUME TypeOK, InitHolds, [Next]_vars PROVE InitHolds'
<1> USE DEF TypeOK, InitHolds, Constructing, Goto, Return, ghosts
<1>1. CASE UNCHANGED vars
  BY <1>1 DEF vars
<1>2. ASSUME NEW c \in Clients, InitFetch(c) PROVE InitHolds'
  BY <1>2 DEF InitFetch
<1>3. ASSUME NEW c \in Clients, DestroyFetch(c) PROVE InitHolds'
  BY <1>3 DEF DestroyFetch
<1>4. ASSUME NEW c \in Clients, InitConstruct(c) PROVE InitHolds'
  BY <1>4 DEF InitConstruct
<1>5. ASSUME NEW c \in Clients,
             \/ InitJoin(c) \/ InitCodeBug(c) \/ RegisterLogger(c)
             \/ ConstructDone(c) \/ ConstructThrows(c) \/ DestroyDelete(c) \/ DestroySkip(c)
             \/ ApiCall(c)
      PROVE  InitHolds'
  BY <1>5 DEF InitJoin, InitCodeBug, RegisterLogger, ConstructDone,
              ConstructThrows, DestroyDelete, DestroySkip, ApiCall
<1> QED
  BY <1>1, <1>2, <1>3, <1>4, <1>5 DEF Next, Step

(* Orderly steps keep the strengthening. *)
LEMMA OrderedStep ==
  ASSUME IInv, TypeOK', CountsHolders', [Next]_vars, Orderly' PROVE Ordered'
<1>1. Orderly /\ Ordered
  BY OrderlyBefore DEF IInv
<1>2. extra <= 1
  BY <1>1 DEF Orderly
<1> USE <1>1, <1>2, EnginesAssumption
<1> USE DEF IInv, TypeOK, InitHolds, Ordered, BuildFirst, OneBuilder, Builder,
            OnlyEngine, Deleter, Deleted, Abandoned, DeleterAlone, DeletedLast,
            NoDelete, Constructing, Goto, Return, ghosts
<1>3. CASE UNCHANGED vars
  BY <1>3 DEF vars
<1>4. ASSUME NEW c \in Clients, InitFetch(c) PROVE Ordered'
  <2>1. extra = 0
    <3>1. reused' = (reused \/ extra > 0) /\ ~reused'
      BY <1>4, Zenon DEF InitFetch, Orderly
    <3>2. ~(extra > 0)
      BY <3>1, Zenon
    <3> QED
      BY <3>2, ExtraAssumption
  <2>2. local'[c] = 0 => \A d \in Clients : ~holds[d]
    BY <1>4, <2>1, CountMeans DEF InitFetch
  <2>3. OneBuilder'
    BY <1>4, <2>2 DEF InitFetch
  <2>4. (DeleterAlone /\ DeletedLast)'
    BY <1>4, <2>1 DEF InitFetch
  <2>5. (BuildFirst /\ OnlyEngine /\ NoDelete)'
    BY <1>4 DEF InitFetch
  <2> QED
    BY <2>3, <2>4, <2>5
<1>5. ASSUME NEW c \in Clients, InitJoin(c) PROVE Ordered'
  BY <1>5 DEF InitJoin
<1>6. ASSUME NEW c \in Clients, InitCodeBug(c) PROVE Ordered'
  BY <1>6 DEF InitCodeBug
<1>7. ASSUME NEW c \in Clients, InitConstruct(c) PROVE Ordered'
  BY <1>7 DEF InitConstruct
<1>8. ASSUME NEW c \in Clients, ConstructDone(c) PROVE Ordered'
  <2>1. eng = NoEngine /\ local[c] = 0 /\ holds[c]
    BY <1>8 DEF ConstructDone
  <2>2. PICK e \in Engines : /\ heap' = [heap EXCEPT ![e] = "live"] /\ eng' = e
    BY <1>8 DEF ConstructDone
  <2>3. (BuildFirst /\ OneBuilder)'
    BY <1>8, <2>1 DEF ConstructDone
  <2>4. OnlyEngine'
    BY <2>1, <2>2
  <2>5. (DeleterAlone /\ DeletedLast)'
    BY <1>8, <2>1, <2>2 DEF ConstructDone
  <2> QED
    BY <1>8, <2>3, <2>4, <2>5 DEF ConstructDone
<1>9. ASSUME NEW c \in Clients, ConstructThrows(c) PROVE Ordered'
  BY <1>9 DEF ConstructThrows
<1>10. ASSUME NEW c \in Clients, DestroyFetch(c) PROVE Ordered'
  <2>1. (BuildFirst /\ OneBuilder /\ OnlyEngine /\ NoDelete)'
    BY <1>10 DEF DestroyFetch
  <2>2. CASE holds[c] /\ extra' = extra
    <3>1. ~Deleted /\ \A d \in Clients : ~Deleter(d)
      BY <2>2
    <3>2. engref = 0 => Abandoned'
      BY <1>10, <2>2, CountMeans DEF DestroyFetch
    <3> QED
      BY <1>10, <2>1, <3>1, <3>2 DEF DestroyFetch
  <2>3. CASE ~holds[c] /\ extra' = extra + 1
    <3>1. extra = 0
      BY <2>3, ExtraAssumption DEF Orderly
    <3>2. ~Deleted /\ \A d \in Clients : ~Deleter(d)
      BY <3>1
    <3>3. engref = 0 => Abandoned'
      BY <1>10, <2>3, <3>1, CountMeans DEF DestroyFetch
    <3> QED
      BY <1>10, <2>1, <3>2, <3>3 DEF DestroyFetch
  <2> QED
    BY <1>10, <2>2, <2>3 DEF DestroyFetch
<1>11. ASSUME NEW c \in Clients, DestroyDelete(c) PROVE Ordered'
  <2>1. Deleter(c) /\ Abandoned /\ ~Deleted
    BY <1>11 DEF DestroyDelete
  <2>2. \A d \in Clients : ~Deleter(d)'
    BY <1>11, <2>1 DEF DestroyDelete
  <2>3. Abandoned'
    BY <1>11, <2>1 DEF DestroyDelete
  <2>4. (OnlyEngine /\ NoDelete)'
    BY <1>11, <2>1 DEF DestroyDelete, DeleteEngine
  <2>5. (BuildFirst /\ OneBuilder)'
    BY <1>11 DEF DestroyDelete
  <2> QED
    BY <2>2, <2>3, <2>4, <2>5
<1>12. ASSUME NEW c \in Clients, DestroySkip(c) PROVE Ordered'
  BY <1>12 DEF DestroySkip
<1>13. ASSUME NEW c \in Clients, ApiCall(c) PROVE Ordered'
  <2>1. DerefFault # "use_after_free" /\ DerefFault # "double_delete"
    BY <1>13 DEF ApiCall, DerefFault
  <2> QED
    BY <1>13, <2>1 DEF ApiCall
<1>14. ASSUME NEW c \in Clients, RegisterLogger(c) PROVE Ordered'
  BY <1>14 DEF RegisterLogger
<1> QED
  BY <1>3, <1>4, <1>5, <1>6, <1>7, <1>8, <1>9, <1>10, <1>11, <1>12, <1>13, <1>14
  DEF Next, Step

LEMMA InvStep == ASSUME IInv, [Next]_vars PROVE IInv'
<1>1. TypeOK' /\ CountsHolders' /\ InitHolds'
  BY TypeStep, CountStep, InitHoldsStep DEF IInv
<1>2. Orderly' => Ordered'
  BY <1>1, OrderedStep
<1> QED
  BY <1>1, <1>2 DEF IInv

(* IInv holds in every reachable state, for any bound on unpaired calls. *)
THEOREM Inductive == Spec => []IInv
<1>1. Init => IInv
  <2> SUFFICES ASSUME Init PROVE IInv
    OBVIOUS
  <2>1. TypeOK
    BY InitType
  <2>2. CountsHolders
    <3>1. Holders = {}
      BY DEF Init, Holders
    <3> QED
      BY <3>1, FS_EmptySet DEF Init, CountsHolders
  <2>3. InitHolds /\ Ordered
    BY EnginesAssumption
    DEF Init, InitHolds, Ordered, BuildFirst, OneBuilder, Builder, OnlyEngine,
        DeleterAlone, Deleter, DeletedLast, Deleted, NoDelete, Constructing
  <2> QED
    BY <2>1, <2>2, <2>3 DEF IInv
<1>2. IInv /\ [Next]_vars => IInv'
  BY InvStep
<1> QED
  BY <1>1, <1>2, PTL DEF Spec

(* No lock is held between the zero test of sift_init and eng = new        *)
(* Engine(), and still only one client can be there.                       *)
THEOREM UniqueBuilder == Spec => []OneBuilder
<1>1. IInv => OneBuilder
  BY DEF IInv, Ordered, OneBuilder
<1> QED
  BY <1>1, Inductive, PTL

(* sift_destroy never frees the engine under a client, nor twice. *)
THEOREM FreeSafe == Spec => []NoFreeFault
<1>1. IInv => NoFreeFault
  BY DEF IInv, Ordered, DeletedLast, Deleted, Abandoned, NoDelete, NoFreeFault,
         HeldAndFreed
<1> QED
  BY <1>1, Inductive, PTL

(* Between the fetch-and-sub that decides on the deletion and the deletion *)
(* nobody takes hold of the engine.                                        *)
THEOREM DeleteUnheld == Spec => DeletedWhenUnheld
<1> DEFINE Frees == \E e \in Engines : heap[e] = "live" /\ heap'[e] = "freed"
<1>1. IInv /\ [Next]_vars => [Orderly' /\ Frees => Holders = {}]_vars
  <2> SUFFICES ASSUME IInv, Next, Orderly', Frees PROVE Holders = {}
    BY DEF Next
  <2>1. DeleterAlone
    BY OrderlyBefore DEF IInv, Ordered
  <2>2. PICK c \in Clients : DestroyDelete(c)
    BY DEF IInv, TypeOK, Cells, Next, Step, ghosts, Goto, Return,
         InitFetch, InitJoin, InitCodeBug, InitConstruct, RegisterLogger, ConstructDone,
         ConstructThrows, DestroyFetch, DestroySkip, ApiCall
  <2>3. Deleter(c)
    BY <2>2 DEF DestroyDelete, Return, Goto, Deleter
  <2> QED
    BY <2>1, <2>3 DEF DeleterAlone, Abandoned, Holders
<1> QED
  BY <1>1, Inductive, PTL DEF Spec, DeletedWhenUnheld
=============================================================================
