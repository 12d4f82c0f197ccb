----------------------------- MODULE Pm4Packets -----------------------------
(***************************************************************************)
(* The PM4 packets of a runlist: how sift cuts an array of dwords into     *)
(* packets (src/src/pm4/pm4.cc, parseRunlistEntries, parseRunlistEntry).   *)
(*                                                                         *)
(* A dword is the record of the header fields it would have as a header;   *)
(* the dwords of a body are dwords like any other.                         *)
(***************************************************************************)
EXTENDS Naturals, FiniteSets, Sequences, SequencesExt, Ordering

CONSTANTS
  ProcessWords, \* dwords that the body of a MAP_PROCESS is read from
  QueuesWords   \* dwords that the body of a MAP_QUEUES is read from

ASSUME WordsAssumption == ProcessWords \in Nat \ {0} /\ QueuesWords \in Nat \ {0}

Ops  == {"MAP_PROCESS", "MAP_QUEUES", "other"}
Word == [op : Ops, count : Nat, type : 0..3]

(* Dwords of a packet: the header, and the count field holds N-1. *)
EntrySize(word) == word.count + 2

(* Mutant: the header is not counted. *)
MutStarts(words) ==
  LET start[i \in 1..(Len(words) + 1)] ==
        i = 1 \/ \E j \in 1..(i - 1) : start[j] /\ j + words[j].count + 1 = i
  IN  {i \in 1..(Len(words) + 1) : start[i]}

(* Where packets start; the end of the array counts as a start if the last *)
(* packet ends there.                                                      *)
Starts(words) ==
  LET start[i \in 1..(Len(words) + 1)] ==
        i = 1 \/ \E j \in 1..(i - 1) : start[j] /\ j + EntrySize(words[j]) = i
  IN  {i \in 1..(Len(words) + 1) : start[i]}

Headers(words) == Starts(words) \ {Len(words) + 1}

(* total_entries_size is exactly the size of the array. *)
Fits(words) == Len(words) + 1 \in Starts(words)

(* parseRunlistEntry fails: type 0 wraps to more than 2, unsupported op *)
BadHeader(word) == word.type = 0 \/ word.op = "other"

BodyWords(word) == IF word.op = "MAP_PROCESS" THEN ProcessWords ELSE QueuesWords

(* The entry at i.  The body is read over its fixed length, whatever the   *)
(* count says; what lies past the array is left out here.                  *)
Entry(words, i) ==
  [op |-> words[i].op, count |-> words[i].count + 1, type |-> words[i].type - 1,
   body |-> SubSeq(words, i + 1,
              IF i + BodyWords(words[i]) <= Len(words)
              THEN i + BodyWords(words[i]) ELSE Len(words))]

(* parseRunlistEntries returns SUCCESS. *)
Parses(words) ==
  /\ words # << >>
  /\ Fits(words)
  /\ \A i \in Headers(words) : ~BadHeader(words[i])

(* What it returns then *)
Entries(words) ==
  LET order == InOrder(Headers(words))
  IN  [n \in DOMAIN order |-> Entry(words, order[n])]
=============================================================================
