---------------------------- MODULE RunlistSeries ----------------------------
(***************************************************************************)
(* The linked list of runlists that sift_pm4_parse_runlists builds and     *)
(* sift_pm4_destroy_runlists takes apart (src/src/pm4/pm4.cc): which heap  *)
(* blocks it owns at every point, and what its catch clause frees when an  *)
(* allocation fails or the parser throws half way.                         *)
(*                                                                         *)
(* The n-th runlist is made of four blocks: the list node, the runlist,    *)
(* the array of entries, and the bodies of the packets, which the parser   *)
(* allocates and which are freed together.  Blocks are named by n, so an   *)
(* address is never used twice and a use after free shows.  0 is null.     *)
(***************************************************************************)
EXTENDS Integers, Sequences, FiniteSets

CONSTANTS MaxRunlists  \* bound on the runlists the text holds

ASSUME MaxAssumption == MaxRunlists \in Nat

Ids    == 1..MaxRunlists
Parts  == {"node", "runlist", "entries", "bodies"}
Blocks == Parts \X Ids

VARIABLES
  pc,       \* where the call in progress is
  parsed,   \* ghost: the number of runlists Parse returned
  threw,    \* ghost: Parse threw
  heap,     \* each block: "unused", "live" or "freed"
  next,     \* node->next
  runlist,  \* node->runlist
  entries,  \* runlist->entries, with runlist->num_entries: 0 is (null, 0)
  head,     \* *runlists
  current,
  prev,
  walk,     \* current of sift_pm4_destroy_runlists
  caller,   \* who called it: the catch clause, first or second call, the client
  status,   \* what the last call of the client returned
  fault     \* undefined behaviour: a freed block was used or freed again

list == <<next, runlist, entries>>
vars == <<pc, parsed, threw, heap, list, head, current, prev, walk, caller,
          status, fault>>

Init ==
  /\ pc = "parse"
  /\ parsed = 0
  /\ threw = FALSE
  /\ heap = [b \in Blocks |-> "unused"]
  /\ next = [n \in Ids |-> 0]
  /\ runlist = [n \in Ids |-> 0]
  /\ entries = [n \in Ids |-> 0]
  /\ head = 0
  /\ current = 0
  /\ prev = 0
  /\ walk = 0
  /\ caller = "none"
  /\ status = "none"
  /\ fault = FALSE

Goto(from, to) ==
  /\ pc = from
  /\ pc' = to

Alloc(part, n) == heap' = [heap EXCEPT ![<<part, n>>] = "live"]

-----------------------------------------------------------------------------
(* sift_pm4_parse_runlists: result = parser.Parse(), with its bodies *)
Parse ==
  /\ Goto("parse", "node")
  /\ parsed < MaxRunlists
  /\ parsed' = parsed + 1
  /\ Alloc("bodies", parsed + 1)
  /\ UNCHANGED <<threw, list, head, current, prev, walk, caller, status, fault>>

(* Parse returns nothing: the list is complete. *)
ParseEnds ==
  /\ Goto("parse", "returned")
  /\ status' = "SUCCESS"
  /\ UNCHANGED <<parsed, threw, heap, list, head, current, prev, walk, caller, fault>>

(* Parse throws *)
ParseThrows ==
  /\ Goto("parse", "catch")
  /\ threw' = TRUE
  /\ UNCHANGED <<parsed, heap, list, head, current, prev, walk, caller, status, fault>>

(* Mutant: next is left as malloc found it, some address. *)
MutAllocNode ==
  /\ Goto("node", "runlist")
  /\ Alloc("node", parsed)
  /\ current' = parsed
  /\ head' = IF head = 0 THEN parsed ELSE head
  /\ next' = [next EXCEPT ![parsed] = -1]
  /\ UNCHANGED <<parsed, threw, runlist, entries, prev, walk, caller, status, fault>>

(* current = malloc(...); the head is set if it is null; next = nullptr *)
AllocNode ==
  /\ Goto("node", "runlist")
  /\ Alloc("node", parsed)
  /\ current' = parsed
  /\ head' = IF head = 0 THEN parsed ELSE head
  /\ next' = [next EXCEPT ![parsed] = 0]
  /\ UNCHANGED <<parsed, threw, runlist, entries, prev, walk, caller, status, fault>>

(* malloc returns null into current, and it throws *)
NoNode ==
  /\ Goto("node", "catch")
  /\ current' = 0
  /\ UNCHANGED <<parsed, threw, heap, list, head, prev, walk, caller, status, fault>>

(* current->runlist = malloc(...), with no entries yet *)
AllocRunlist ==
  /\ Goto("runlist", "entries")
  /\ Alloc("runlist", current)
  /\ runlist' = [runlist EXCEPT ![current] = current]
  /\ entries' = [entries EXCEPT ![current] = 0]
  /\ UNCHANGED <<parsed, threw, next, head, current, prev, walk, caller, status, fault>>

NoRunlist ==
  /\ Goto("runlist", "catch")
  /\ runlist' = [runlist EXCEPT ![current] = 0]
  /\ UNCHANGED <<parsed, threw, heap, next, entries, head, current, prev, walk,
                 caller, status, fault>>

(* Mutant: prev = current is missing. *)
MutAllocEntries ==
  /\ Goto("entries", "parse")
  /\ Alloc("entries", current)
  /\ entries' = [entries EXCEPT ![current] = current]
  /\ next' = IF prev = 0 THEN next ELSE [next EXCEPT ![prev] = current]
  /\ UNCHANGED <<parsed, threw, runlist, head, current, prev, walk, caller, status, fault>>

(* allocateEntries; the node is linked *)
AllocEntries ==
  /\ Goto("entries", "parse")
  /\ Alloc("entries", current)
  /\ entries' = [entries EXCEPT ![current] = current]
  /\ next' = IF prev = 0 THEN next ELSE [next EXCEPT ![prev] = current]
  /\ prev' = current
  /\ UNCHANGED <<parsed, threw, runlist, head, current, walk, caller, status, fault>>

NoEntries ==
  /\ Goto("entries", "catch")
  /\ UNCHANGED <<parsed, threw, heap, list, head, current, prev, walk, caller,
                 status, fault>>

-----------------------------------------------------------------------------
(* catch: if (current != nullptr) sift_pm4_destroy_runlists(current) *)
CatchCurrent ==
  /\ Goto("catch", IF current # 0 THEN "destroy" ELSE "catch2")
  /\ walk' = current
  /\ caller' = "catch"
  /\ UNCHANGED <<parsed, threw, heap, list, head, current, prev, status, fault>>

(* Mutant: the second call does not depend on the first. *)
MutCatchHead ==
  /\ Goto("catch2", IF head # 0 THEN "destroy" ELSE "returned")
  /\ walk' = head
  /\ caller' = "catch2"
  /\ status' = "ERROR"
  /\ UNCHANGED <<parsed, threw, heap, list, head, current, prev, fault>>

(* if the head is not null and current is not the head: destroy the head   *)
CatchHead ==
  /\ Goto("catch2", IF head # 0 /\ current # head THEN "destroy" ELSE "returned")
  /\ walk' = head
  /\ caller' = "catch2"
  /\ status' = "ERROR"
  /\ UNCHANGED <<parsed, threw, heap, list, head, current, prev, fault>>

(* The client destroys a list it was given, unless it is null, which only *)
(* is an error.                                                            *)
ClientDestroys ==
  /\ pc = "returned"
  /\ caller = "none"
  /\ status = "SUCCESS"
  /\ caller' = "client"
  /\ walk' = head
  /\ IF head = 0 THEN /\ status' = "ERROR"
                      /\ UNCHANGED pc
                 ELSE /\ pc' = "destroy"
                      /\ UNCHANGED status
  /\ UNCHANGED <<parsed, threw, heap, list, head, current, prev, fault>>

(* Where sift_pm4_destroy_runlists returns to *)
Back == IF caller = "catch" THEN "catch2" ELSE "returned"

(* Mutant: the array of entries is freed, the bodies are not. *)
MutFreed(n) ==
  LET r == runlist[n]
      e == entries[r]
  IN  (IF e = 0 THEN {} ELSE {<<"entries", e>>})
        \union {<<"runlist", r>>, <<"node", n>>}

(* The blocks one iteration of the loop frees, in order *)
Freed(n) ==
  LET r == runlist[n]
      e == entries[r]
  IN  (IF e = 0 THEN {} ELSE {<<"bodies", e>>, <<"entries", e>>})
        \union {<<"runlist", r>>, <<"node", n>>}

(* One iteration: destroy_runlist, free the runlist, free the node *)
DestroyOne ==
  /\ pc = "destroy"
  /\ walk # 0
  /\ heap[<<"node", walk>>] = "live"
  /\ runlist[walk] # 0
  /\ heap' = [b \in Blocks |-> IF b \in Freed(walk) THEN "freed" ELSE heap[b]]
  /\ fault' = (\E b \in Freed(walk) : heap[b] # "live")
  /\ walk' = next[walk]
  /\ UNCHANGED <<pc, parsed, threw, list, head, current, prev, caller, status>>

(* current->runlist is null: the loop returns with an error *)
DestroyNull ==
  /\ pc = "destroy"
  /\ walk # 0
  /\ heap[<<"node", walk>>] = "live"
  /\ runlist[walk] = 0
  /\ pc' = Back
  /\ UNCHANGED <<parsed, threw, heap, list, head, current, prev, walk, caller,
                 status, fault>>

(* next = current->next of a node that was freed: the process is lost *)
DestroyFreed ==
  /\ pc = "destroy"
  /\ walk # 0
  /\ heap[<<"node", walk>>] = "freed"
  /\ fault' = TRUE
  /\ pc' = "lost"
  /\ UNCHANGED <<parsed, threw, heap, list, head, current, prev, walk, caller, status>>

DestroyDone ==
  /\ pc = "destroy"
  /\ walk = 0
  /\ pc' = Back
  /\ UNCHANGED <<parsed, threw, heap, list, head, current, prev, walk, caller,
                 status, fault>>

Next ==
  \/ Parse \/ ParseEnds \/ ParseThrows
  \/ AllocNode \/ NoNode \/ AllocRunlist \/ NoRunlist \/ AllocEntries \/ NoEntries
  \/ CatchCurrent \/ CatchHead \/ ClientDestroys
  \/ DestroyOne \/ DestroyNull \/ DestroyFreed \/ DestroyDone

Spec == Init /\ [][Next]_vars

-----------------------------------------------------------------------------
TypeOK ==
  /\ pc \in {"parse", "node", "runlist", "entries", "catch", "catch2", "destroy",
             "returned", "lost"}
  /\ parsed \in 0..MaxRunlists
  /\ threw \in BOOLEAN /\ fault \in BOOLEAN
  /\ heap \in [Blocks -> {"unused", "live", "freed"}]
  /\ next \in [Ids -> 0..MaxRunlists]
  /\ runlist \in [Ids -> 0..MaxRunlists] /\ entries \in [Ids -> 0..MaxRunlists]
  /\ head \in 0..MaxRunlists /\ current \in 0..MaxRunlists
  /\ prev \in 0..MaxRunlists /\ walk \in 0..MaxRunlists
  /\ caller \in {"none", "catch", "catch2", "client"}
  /\ status \in {"none", "SUCCESS", "ERROR"}

Live == {b \in Blocks : heap[b] = "live"}

(* The list that SUCCESS returns has every runlist the parser returned, in *)
(* order, each with its blocks, and nothing else is allocated.             *)
SuccessOwnsAll ==
  pc = "returned" /\ status = "SUCCESS" /\ caller = "none" =>
    /\ head = IF parsed = 0 THEN 0 ELSE 1
    /\ \A n \in 1..parsed :
         /\ next[n] = IF n = parsed THEN 0 ELSE n + 1
         /\ runlist[n] = n /\ entries[n] = n
    /\ Live = Parts \X (1..parsed)

(* sift_pm4_destroy_runlists gives back all that sift_pm4_parse_runlists   *)
(* and the parser below it allocated.                                      *)
DestroyFreesAll == pc = "returned" /\ caller = "client" => Live = {}

(* When an allocation fails, all that is lost is what was allocated for    *)
(* the runlist it was for; the runlists before it are freed, whether or    *)
(* not the failed one was linked.                                          *)
FailureLeaksOneRunlist ==
  pc = "returned" /\ caller = "catch2" => Live \subseteq Parts \X {parsed}

(* Whichever way the call ends, what it does not return is freed, but for   *)
(* the runlist that could not be completed.                                *)
FreesWhatItMade == DestroyFreesAll /\ FailureLeaksOneRunlist

(* No failure makes the catch clause touch freed memory, except a parser   *)
(* that throws after two runlists or more.                                 *)
FaultOnlyAfterLateThrow == fault => threw /\ parsed >= 2

(* pm4.cc:396: "Current was not the head node, so free the rest of the     *)
(* list": the second call of the catch clause frees what the first did not.*)
CatchFreesOnce == ~fault
=============================================================================
