------------------------ MODULE RunlistSeriesProofs ------------------------
(***************************************************************************)
(* Theorems of RunlistSeries, for texts of any number of runlists.  The    *)
(* invariant IInv says at every point of the call, of its catch clause and *)
(* of the destroyer what state each heap block is in.                      *)
(***************************************************************************)
EXTENDS RunlistSeries, TLAPS

(* The variable prev counts the runlists that are complete and linked.     *)
Linked == prev

(* What the parser and the call have allocated so far *)
Allocated(part, n) ==
  \/ part = "bodies" /\ n <= parsed
  \/ part = "node" /\ (n <= Linked \/ n = current)
  \/ part = "runlist" /\ runlist[n] # 0
  \/ part = "entries" /\ entries[n] # 0

(* The node the first call of the destroyer is for has been taken apart:   *)
(* it stops at once at a node without a runlist.                           *)
FirstGone(n) ==
  /\ caller \in {"catch", "catch2"}
  /\ n = current /\ runlist[n] # 0
  /\ ~(caller = "catch" /\ pc = "destroy" /\ walk = current)

(* A walk from the head has passed the node. *)
Passed(n) ==
  /\ caller \in {"catch2", "client"}
  /\ n <= Linked
  /\ walk = 0 \/ n < walk

(* The bodies of a runlist whose array of entries is missing stay. *)
Released(part, n) ==
  /\ FirstGone(n) \/ Passed(n)
  /\ part = "bodies" => entries[n] # 0

Cell(part, n) ==
  IF ~Allocated(part, n) THEN "unused"
  ELSE IF Released(part, n) THEN "freed" ELSE "live"

HeapInv == \A part \in Parts, n \in Ids : heap[<<part, n>>] = Cell(part, n)

(* The pointers in the blocks: the nodes up to Linked are a list, and only *)
(* the runlist at hand may be without entries.                             *)
ListInv ==
  /\ Linked <= parsed /\ parsed <= Linked + 1
  /\ \A n \in Ids :
       /\ next[n] = IF n < Linked THEN n + 1 ELSE 0
       /\ n <= Linked => runlist[n] = n /\ entries[n] = n
       /\ n > Linked => runlist[n] \in {0, n} /\ entries[n] = 0
       /\ n > parsed => runlist[n] = 0
  /\ head = IF Linked = 0 /\ current = 0 THEN 0 ELSE 1

Untouched == caller = "none" /\ walk = 0 /\ ~fault

BuildInv ==
  pc \in {"parse", "node", "runlist", "entries"} =>
    /\ Untouched /\ ~threw /\ status = "none"
    /\ parsed = IF pc = "parse" THEN Linked ELSE Linked + 1
    /\ current = IF pc \in {"parse", "node"} THEN Linked ELSE parsed
    /\ pc \in {"node", "runlist"} => runlist[parsed] = 0
    /\ pc = "entries" => runlist[parsed] = parsed

(* Where the call was when it failed *)
Failed ==
  \/ threw /\ current = Linked /\ parsed = Linked
  \/ ~threw /\ parsed = Linked + 1 /\ current \in {0, parsed}

Complete == ~threw /\ parsed = Linked /\ current = Linked

CatchInv ==
  /\ pc = "catch" => Untouched /\ status = "none" /\ Failed
  /\ pc = "catch2" => caller = "catch" /\ ~fault /\ Failed
  /\ pc = "lost" => caller = "catch2" /\ threw /\ parsed >= 2

DestroyInv ==
  pc = "destroy" =>
    /\ ~fault
    /\ \/ caller = "catch" /\ Failed /\ current # 0 /\ walk \in {0, current}
       \/ /\ caller = "catch2" /\ Failed /\ status = "ERROR"
          /\ current # head /\ walk <= Linked
       \/ caller = "client" /\ Complete /\ walk <= Linked

ReturnInv ==
  pc = "returned" =>
    /\ ~fault
    /\ \/ caller = "none" /\ walk = 0 /\ Complete /\ status = "SUCCESS"
       \/ caller = "catch2" /\ Failed /\ (walk = 0 \/ current = head) /\ status = "ERROR"
       \/ caller = "client" /\ Complete /\ walk = 0

IInv ==
  TypeOK /\ ListInv /\ HeapInv /\ BuildInv /\ CatchInv /\ DestroyInv /\ ReturnInv

-----------------------------------------------------------------------------
(* An assignment to an element keeps an array in its type. *)
LEMMA AssignType ==
  ASSUME NEW S, NEW T, NEW f \in [S -> T], NEW a, NEW v \in T
  PROVE  [f EXCEPT ![a] = v] \in [S -> T]
OBVIOUS

(* One step keeps every variable in its type. *)
LEMMA TypeStep == ASSUME TypeOK, [Next]_vars PROVE TypeOK'
<1> USE MaxAssumption DEF TypeOK, Goto, Back, list
<1> DEFINE HeapType == heap \in [Blocks -> {"unused", "live", "freed"}]
<1>1. CASE UNCHANGED vars
  BY <1>1 DEF vars
<1>2. CASE Parse
  <2>1. HeapType'
    BY <1>2, AssignType DEF Parse, Alloc
  <2> QED
    BY <1>2, <2>1 DEF Parse
<1>3. CASE ParseEnds \/ ParseThrows
  BY <1>3 DEF ParseEnds, ParseThrows
<1>4. CASE AllocNode
  <2>1. HeapType'
    BY <1>4, AssignType DEF AllocNode, Alloc
  <2>2. next' \in [Ids -> 0..MaxRunlists]
    BY <1>4, AssignType DEF AllocNode
  <2> QED
    BY <1>4, <2>1, <2>2 DEF AllocNode
<1>5. CASE AllocRunlist
  <2>1. HeapType'
    BY <1>5, AssignType DEF AllocRunlist, Alloc
  <2>2. runlist' \in [Ids -> 0..MaxRunlists] /\ entries' \in [Ids -> 0..MaxRunlists]
    BY <1>5, AssignType DEF AllocRunlist
  <2> QED
    BY <1>5, <2>1, <2>2 DEF AllocRunlist
<1>6. CASE AllocEntries
  <2>1. HeapType'
    BY <1>6, AssignType DEF AllocEntries, Alloc
  <2>2. next' \in [Ids -> 0..MaxRunlists] /\ entries' \in [Ids -> 0..MaxRunlists]
    BY <1>6 DEF AllocEntries
  <2> QED
    BY <1>6, <2>1, <2>2 DEF AllocEntries
<1>7. CASE NoNode \/ NoRunlist \/ NoEntries
  BY <1>7 DEF NoNode, NoRunlist, NoEntries
<1>8. CASE CatchCurrent \/ CatchHead \/ ClientDestroys
  BY <1>8 DEF CatchCurrent, CatchHead, ClientDestroys
<1>9. CASE DestroyOne
  <2>1. HeapType' /\ fault' \in BOOLEAN
    BY <1>9 DEF DestroyOne
  <2>2. walk' \in 0..MaxRunlists
    BY <1>9 DEF DestroyOne, Ids
  <2> QED
    BY <1>9, <2>1, <2>2 DEF DestroyOne
<1>10. CASE DestroyNull \/ DestroyFreed \/ DestroyDone
  BY <1>10 DEF DestroyNull, DestroyFreed, DestroyDone
<1> QED
  BY <1>1, <1>2, <1>3, <1>4, <1>5, <1>6, <1>7, <1>8, <1>9, <1>10 DEF Next

(* What Alloc writes *)
LEMMA AllocWrites ==
  ASSUME TypeOK, NEW at \in Parts, NEW id \in Ids, Alloc(at, id),
         NEW part \in Parts, NEW n \in Ids
  PROVE  heap'[<<part, n>>] =
           IF part = at /\ n = id THEN "live" ELSE heap[<<part, n>>]
BY DEF TypeOK, Alloc, Blocks

-----------------------------------------------------------------------------
LEMMA ListStep == ASSUME IInv, [Next]_vars PROVE ListInv'
<1> USE MaxAssumption DEF IInv, TypeOK, ListInv, Linked, Goto, list, Ids
<1>1. CASE UNCHANGED vars
  BY <1>1 DEF vars
<1>2. CASE Parse \/ ParseEnds \/ ParseThrows
  BY <1>2 DEF BuildInv, Parse, ParseEnds, ParseThrows
<1>3. CASE AllocNode \/ NoNode
  BY <1>3 DEF BuildInv, AllocNode, NoNode
<1>4. CASE AllocRunlist \/ NoRunlist
  BY <1>4 DEF BuildInv, AllocRunlist, NoRunlist
<1>5. CASE AllocEntries
  BY <1>5 DEF BuildInv, AllocEntries
<1>6. CASE NoEntries
  BY <1>6 DEF NoEntries
<1>7. CASE CatchCurrent \/ CatchHead \/ ClientDestroys
  BY <1>7 DEF CatchCurrent, CatchHead, ClientDestroys
<1>8. CASE DestroyOne \/ DestroyNull \/ DestroyFreed \/ DestroyDone
  BY <1>8 DEF DestroyOne, DestroyNull, DestroyFreed, DestroyDone
<1> QED
  BY <1>1, <1>2, <1>3, <1>4, <1>5, <1>6, <1>7, <1>8 DEF Next

(* An iteration of the destroyer, at a node that is live, frees what is    *)
(* allocated of it, once; the bodies go with the array of entries.         *)
LEMMA DestroyFrees ==
  ASSUME IInv, DestroyOne
  PROVE  /\ ~fault'
         /\ walk \in Ids
         /\ \A part \in Parts, n \in Ids :
              heap'[<<part, n>>] =
                IF /\ n = walk
                   /\ part \in {"bodies", "entries"} => entries[n] # 0
                THEN "freed" ELSE heap[<<part, n>>]
<1>1. walk \in Ids /\ runlist[walk] = walk /\ entries[walk] \in {0, walk}
  BY MaxAssumption DEF IInv, TypeOK, ListInv, DestroyOne, Ids, Linked
<1>2. Freed(walk) = {<<part, walk>> : part \in
        {p \in Parts : p \in {"bodies", "entries"} => entries[walk] # 0}}
  BY <1>1 DEF Freed, Parts, Ids
<1>3. ASSUME NEW part \in Parts, part \in {"bodies", "entries"} => entries[walk] # 0
      PROVE  heap[<<part, walk>>] = "live"
  <2>1. heap[<<"node", walk>>] = Cell("node", walk) /\ heap[<<part, walk>>] = Cell(part, walk)
    BY <1>1 DEF IInv, HeapInv, Parts
  <2>2. ~FirstGone(walk) /\ ~Passed(walk)
    BY <2>1 DEF DestroyOne, Cell, Allocated, Released
  <2>3. Allocated(part, walk)
    BY <1>1, <1>3, <2>1 DEF IInv, TypeOK, ListInv, DestroyOne, DestroyInv, Cell,
         Allocated, Parts, Ids, Linked
  <2> QED
    BY <2>1, <2>2, <2>3 DEF Cell, Released
<1>4. ~fault'
  BY <1>2, <1>3 DEF DestroyOne
<1>5. ASSUME NEW part \in Parts, NEW n \in Ids
      PROVE  heap'[<<part, n>>] =
               IF /\ n = walk
                  /\ part \in {"bodies", "entries"} => entries[n] # 0
               THEN "freed" ELSE heap[<<part, n>>]
  <2>1. <<part, n>> \in Freed(walk)
          <=> n = walk /\ (part \in {"bodies", "entries"} => entries[n] # 0)
    BY <1>2
  <2> QED
    BY <2>1 DEF DestroyOne, Blocks
<1> QED
  BY <1>1, <1>4, <1>5

(* A walk meets a node that is gone only from the head, after the parser   *)
(* threw with two runlists or more in the list.                            *)
LEMMA LostOnlyLate ==
  ASSUME IInv, DestroyFreed PROVE caller = "catch2" /\ threw /\ parsed >= 2
<1> USE MaxAssumption DEF IInv, TypeOK, ListInv, Linked, Ids
<1>1. heap[<<"node", walk>>] = Cell("node", walk) /\ walk \in Ids
  BY DEF DestroyFreed, HeapInv, Parts
<1>2. FirstGone(walk) \/ Passed(walk)
  BY <1>1 DEF DestroyFreed, Cell, Released
<1>3. caller = "catch2" /\ walk = current
  BY <1>2 DEF DestroyFreed, DestroyInv, FirstGone, Passed
<1> QED
  BY <1>3 DEF DestroyFreed, DestroyInv, Failed

LEMMA HeapStep == ASSUME IInv, [Next]_vars PROVE HeapInv'
<1> SUFFICES ASSUME NEW part \in Parts, NEW n \in Ids
             PROVE  heap'[<<part, n>>] = Cell(part, n)'
  BY DEF HeapInv
<1>1. heap[<<part, n>>] = Cell(part, n)
  BY DEF IInv, HeapInv
<1>2. ASSUME Parse
      PROVE  heap'[<<part, n>>] =
               IF part = "bodies" /\ n = parsed + 1 THEN "live" ELSE heap[<<part, n>>]
  <2>1. parsed + 1 \in Ids
    BY <1>2, MaxAssumption DEF Parse, IInv, TypeOK, Ids
  <2> QED
    BY <1>2, <2>1, AllocWrites DEF Parse, IInv, Parts
<1>3. ASSUME AllocNode
      PROVE  heap'[<<part, n>>] =
               IF part = "node" /\ n = parsed THEN "live" ELSE heap[<<part, n>>]
  <2>1. parsed \in Ids
    BY <1>3, MaxAssumption DEF AllocNode, Goto, IInv, TypeOK, BuildInv, Linked, Ids
  <2> QED
    BY <1>3, <2>1, AllocWrites DEF AllocNode, IInv, Parts
<1>4. ASSUME DestroyOne
      PROVE  /\ walk \in Ids
             /\ heap'[<<part, n>>] =
                  IF /\ n = walk
                     /\ part \in {"bodies", "entries"} => entries[n] # 0
                  THEN "freed" ELSE heap[<<part, n>>]
  BY <1>4, DestroyFrees
<1> USE MaxAssumption DEF IInv, TypeOK, ListInv, Linked, Goto, list, Ids,
                          Cell, Allocated, Released, FirstGone, Passed
<1>5. CASE UNCHANGED vars
  BY <1>1, <1>5 DEF vars
<1>6. CASE Parse
  BY <1>1, <1>6, <1>2 DEF BuildInv, Untouched, Parse
<1>7. CASE ParseEnds \/ ParseThrows
  BY <1>1, <1>7 DEF BuildInv, Untouched, ParseEnds, ParseThrows
<1>8. CASE AllocNode
  BY <1>1, <1>8, <1>3 DEF BuildInv, Untouched, AllocNode
<1>9. CASE NoNode
  BY <1>1, <1>9 DEF BuildInv, Untouched, NoNode
<1>10. CASE AllocRunlist
  <2>1. heap'[<<part, n>>] =
          IF part = "runlist" /\ n = current THEN "live" ELSE heap[<<part, n>>]
    BY <1>10, AllocWrites DEF AllocRunlist, Parts, BuildInv
  <2> QED
    BY <1>1, <1>10, <2>1 DEF BuildInv, Untouched, AllocRunlist
<1>11. CASE NoRunlist
  BY <1>1, <1>11 DEF BuildInv, Untouched, NoRunlist
<1>12. CASE AllocEntries
  BY <1>1, <1>12, AllocWrites DEF BuildInv, Untouched, AllocEntries, Parts
<1>13. CASE NoEntries
  BY <1>1, <1>13 DEF NoEntries
<1>14. CASE CatchCurrent
  BY <1>1, <1>14 DEF CatchCurrent, CatchInv, Untouched, Failed
<1>15. CASE CatchHead
  BY <1>1, <1>15 DEF CatchHead, CatchInv, Failed
<1>16. CASE ClientDestroys
  BY <1>1, <1>16 DEF ClientDestroys, ReturnInv, Complete
<1>17. CASE DestroyOne
  <2>1. walk' = IF walk < Linked THEN walk + 1 ELSE 0
    BY <1>17, <1>4 DEF DestroyOne
  <2>2. FirstGone(n)' \/ Passed(n)' <=> FirstGone(n) \/ Passed(n) \/ n = walk
    <3>1. CASE caller = "catch"
      BY <1>17, <1>4, <2>1, <3>1 DEF DestroyOne, DestroyInv, Failed
    <3>2. CASE caller = "catch2"
      BY <1>17, <1>4, <2>1, <3>2 DEF DestroyOne, DestroyInv, Failed
    <3>3. CASE caller = "client"
      BY <1>17, <1>4, <2>1, <3>3 DEF DestroyOne, DestroyInv, Complete
    <3> QED
      BY <1>17, <3>1, <3>2, <3>3 DEF DestroyOne, DestroyInv
  <2>3. Allocated(part, n)' <=> Allocated(part, n)
    BY <1>17 DEF DestroyOne
  <2>4. Released(part, n)' <=>
          Released(part, n) \/ (n = walk /\ (part = "bodies" => entries[n] # 0))
    BY <1>17, <2>2 DEF DestroyOne
  <2>5. n = walk /\ (part \in {"bodies", "entries"} => entries[n] # 0)
          => Allocated(part, n)
    BY <1>1, <1>17 DEF DestroyOne, Parts
  <2>6. part = "entries" /\ entries[n] = 0 => ~Allocated(part, n)
    OBVIOUS
  <2>7. heap'[<<part, n>>] =
          IF n = walk /\ (part \in {"bodies", "entries"} => entries[n] # 0)
          THEN "freed" ELSE heap[<<part, n>>]
    BY <1>17, <1>4
  <2> HIDE DEF IInv, TypeOK, ListInv
  <2> QED
    BY <1>1, <2>3, <2>4, <2>5, <2>6, <2>7
<1>18. CASE DestroyNull
  BY <1>1, <1>18 DEF DestroyNull, DestroyInv, Failed, Complete, Back
<1>19. CASE DestroyFreed
  BY <1>1, <1>19, LostOnlyLate DEF DestroyFreed
<1>20. CASE DestroyDone
  BY <1>1, <1>20 DEF DestroyDone, DestroyInv, Failed, Complete, Back
<1> QED
  BY <1>5, <1>6, <1>8, <1>10, <1>12, <1>13, <1>14, <1>15, <1>16, <1>17, <1>18, <1>7,
     <1>9, <1>11, <1>19, <1>20 DEF Next

LEMMA ControlStep ==
  ASSUME IInv, [Next]_vars PROVE (BuildInv /\ CatchInv /\ DestroyInv /\ ReturnInv)'
<1> USE MaxAssumption DEF IInv, TypeOK, ListInv, Linked, Goto, list, Ids, BuildInv, CatchInv,
                          DestroyInv, ReturnInv, Untouched, Failed, Complete
<1>1. CASE UNCHANGED vars
  BY <1>1 DEF vars
<1>2. CASE Parse \/ ParseEnds \/ ParseThrows
  BY <1>2 DEF Parse, ParseEnds, ParseThrows
<1>3. CASE AllocNode \/ NoNode
  BY <1>3 DEF AllocNode, NoNode
<1>4. CASE AllocRunlist \/ NoRunlist
  BY <1>4 DEF AllocRunlist, NoRunlist
<1>5. CASE AllocEntries \/ NoEntries
  BY <1>5 DEF AllocEntries, NoEntries
<1>6. CASE CatchCurrent
  BY <1>6 DEF CatchCurrent
<1>7. CASE CatchHead
  BY <1>7 DEF CatchHead
<1>8. CASE ClientDestroys
  BY <1>8 DEF ClientDestroys
<1>9. CASE DestroyOne
  BY <1>9, DestroyFrees DEF DestroyOne
<1>10. CASE DestroyNull
  BY <1>10 DEF DestroyNull, Back
<1>11. CASE DestroyFreed
  BY <1>11, LostOnlyLate DEF DestroyFreed
<1>12. CASE DestroyDone
  BY <1>12 DEF DestroyDone, Back
<1> QED
  BY <1>1, <1>2, <1>3, <1>4, <1>5, <1>6, <1>7, <1>8, <1>9, <1>10, <1>11, <1>12 DEF Next

LEMMA InitInv == Init => IInv
<1> SUFFICES ASSUME Init PROVE IInv
  OBVIOUS
<1> USE MaxAssumption DEF Init
<1>1. TypeOK
  <2>1. heap \in [Blocks -> {"unused", "live", "freed"}]
    OBVIOUS
  <2>2. /\ next \in [Ids -> 0..MaxRunlists] /\ runlist \in [Ids -> 0..MaxRunlists]
        /\ entries \in [Ids -> 0..MaxRunlists]
    OBVIOUS
  <2>3. /\ pc = "parse" /\ threw \in BOOLEAN /\ fault \in BOOLEAN
        /\ parsed = 0 /\ head = 0 /\ current = 0 /\ prev = 0 /\ walk = 0
        /\ caller = "none" /\ status = "none"
    OBVIOUS
  <2> HIDE DEF Init
  <2> QED
    BY <2>1, <2>2, <2>3 DEF TypeOK
<1>2. ListInv
  BY DEF ListInv, Linked, Ids
<1>3. HeapInv
  BY DEF HeapInv, Cell, Allocated, Linked, Blocks, Ids
<1>4. BuildInv /\ CatchInv /\ DestroyInv /\ ReturnInv
  BY DEF BuildInv, CatchInv, DestroyInv, ReturnInv, Untouched, Linked
<1> QED
  BY <1>1, <1>2, <1>3, <1>4 DEF IInv

(* Every step keeps the state of each block, of the list and of the walk.  *)
THEOREM Invariant == Spec => []IInv
<1>1. Init => IInv
  BY InitInv
<1>2. IInv /\ [Next]_vars => IInv'
  BY TypeStep, ListStep, HeapStep, ControlStep DEF IInv
<1> QED
  BY <1>1, <1>2, PTL DEF Spec

(* The type invariant, for a text of any number of runlists.               *)
THEOREM TypeCorrect == Spec => []TypeOK
<1>1. IInv => TypeOK
  BY DEF IInv
<1> QED
  BY <1>1, Invariant, PTL

(* sift_pm4_parse_runlists returns the runlists it parsed, in order, and   *)
(* nothing that it allocated is outside that list.                         *)
THEOREM SuccessOwns == Spec => []SuccessOwnsAll
<1>1. IInv => SuccessOwnsAll
  <2> SUFFICES ASSUME IInv, pc = "returned", status = "SUCCESS", caller = "none"
               PROVE  /\ head = IF parsed = 0 THEN 0 ELSE 1
                      /\ \A n \in 1..parsed :
                           /\ next[n] = IF n = parsed THEN 0 ELSE n + 1
                           /\ runlist[n] = n /\ entries[n] = n
                      /\ Live = Parts \X (1..parsed)
    BY DEF SuccessOwnsAll
  <2> USE MaxAssumption DEF IInv, TypeOK, ListInv, Linked, Ids
  <2>1. parsed = Linked /\ current = Linked
    BY DEF ReturnInv, Complete
  <2>2. head = IF parsed = 0 THEN 0 ELSE 1
    BY <2>1
  <2>3. ASSUME NEW n \in 1..parsed
        PROVE  /\ next[n] = IF n = parsed THEN 0 ELSE n + 1
               /\ runlist[n] = n /\ entries[n] = n
    BY <2>1
  <2>4. ASSUME NEW part \in Parts, NEW n \in Ids
        PROVE  heap[<<part, n>>] = "live" <=> n <= parsed
    <3>1. heap[<<part, n>>] = Cell(part, n)
      BY DEF HeapInv
    <3>2. ~Released(part, n)
      BY DEF Released, FirstGone, Passed
    <3>3. Allocated(part, n) <=> n <= parsed
      BY <2>1 DEF Allocated, Parts
    <3> QED
      BY <3>1, <3>2, <3>3 DEF Cell
  <2>5. Live = Parts \X (1..parsed)
    BY <2>4 DEF Live, Blocks
  <2> QED
    BY <2>2, <2>3, <2>5
<1> QED
  BY <1>1, Invariant, PTL

(* What is given back: all of a list that the client destroys; and when    *)
(* the call fails, all but the blocks of the runlist it failed on.         *)
THEOREM Frees == Spec => []FreesWhatItMade
<1>1. IInv => DestroyFreesAll
  <2> SUFFICES ASSUME IInv, pc = "returned", caller = "client",
                      NEW part \in Parts, NEW n \in Ids
               PROVE  heap[<<part, n>>] # "live"
    BY DEF DestroyFreesAll, Live, Blocks
  <2> USE MaxAssumption DEF IInv, TypeOK, ListInv, Linked, Ids
  <2>1. heap[<<part, n>>] = Cell(part, n)
    BY DEF HeapInv
  <2>2. parsed = Linked /\ current = Linked /\ walk = 0
    BY DEF ReturnInv, Complete
  <2>3. Allocated(part, n) => n <= Linked
    BY <2>2 DEF Allocated
  <2>4. n <= Linked => Released(part, n)
    BY <2>2 DEF Released, Passed
  <2> QED
    BY <2>1, <2>3, <2>4 DEF Cell
<1>2. IInv => FailureLeaksOneRunlist
  <2> SUFFICES ASSUME IInv, pc = "returned", caller = "catch2",
                      NEW part \in Parts, NEW n \in Ids, n # parsed
               PROVE  heap[<<part, n>>] # "live"
    BY DEF FailureLeaksOneRunlist, Live, Blocks
  <2> USE MaxAssumption DEF IInv, TypeOK, ListInv, Linked, Ids
  <2>1. heap[<<part, n>>] = Cell(part, n)
    BY DEF HeapInv
  <2>2. Failed /\ (walk = 0 \/ current = head)
    BY DEF ReturnInv
  <2>3. Allocated(part, n) => n <= Linked
    BY <2>2 DEF Allocated, Failed
  <2>4. n <= Linked => Released(part, n)
    BY <2>2 DEF Released, Passed, FirstGone, Failed
  <2> QED
    BY <2>1, <2>3, <2>4 DEF Cell
<1>3. IInv => FreesWhatItMade
  BY <1>1, <1>2 DEF FreesWhatItMade
<1> QED
  BY <1>3, Invariant, PTL

(* The catch clause and the destroyer use no block that is freed, unless   *)
(* the parser throws with two runlists or more in the list.                *)
THEOREM FaultsLate == Spec => []FaultOnlyAfterLateThrow
<1>1. IInv => FaultOnlyAfterLateThrow
  BY DEF IInv, TypeOK, BuildInv, CatchInv, DestroyInv, ReturnInv, Untouched,
         FaultOnlyAfterLateThrow
<1> QED
  BY <1>1, Invariant, PTL
=============================================================================
