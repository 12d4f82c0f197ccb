---------------------------- MODULE IpDiscovery ----------------------------
(***************************************************************************)
(* The IP discovery table of a device as sysfs shows it, a tree of         *)
(* directories (src/src/sift/ip_discovery.cc).  The entries of a directory *)
(* come in any order.                                                      *)
(*                                                                         *)
(* A table is a sequence of dies [id, fault, blocks], a block one of       *)
(* instances [num, harvest, fault].  fault is the status that the reading  *)
(* of the directory's own files ends with: SUCCESS, ERROR if one of them   *)
(* does not begin with a number, OUT_OF_RANGE if an instance has not as    *)
(* many base addresses as it says.                                         *)
(***************************************************************************)
EXTENDS Integers, Sequences, SequencesExt, Ordering

(* The names of blocks, sorted.  One stands for all but GC. *)
BlockNames == <<"GC", "MP0">>

(* Instances are numbered with 8 bits. *)
Instance ==
  [num : 0..255, harvest : BOOLEAN, fault : {"SUCCESS", "ERROR", "OUT_OF_RANGE"}]

(* The dies of a table and the instances of a block have different numbers, *)
(* which name their directories.                                            *)
TableOK(table) ==
  /\ table \in Seq(ToSet(table))
  /\ \A i, j \in DOMAIN table : table[i].id = table[j].id => i = j
  /\ \A die \in ToSet(table) :
       /\ die.id \in Nat
       /\ die.fault \in {"SUCCESS", "ERROR"}
       /\ \A name \in DOMAIN die.blocks :
            /\ die.blocks[name] \in Seq(Instance)
            /\ \A g, h \in ToSet(die.blocks[name]) : g.num = h.num => g = h

(* Dies are read as they are listed, their blocks in the order of names,   *)
(* and the instances of a block as they are listed.                        *)
Block(die, name) == IF name \in DOMAIN die.blocks THEN die.blocks[name] ELSE << >>

Faults(die) ==
  <<die.fault>> \o
  FlattenSeq([b \in DOMAIN BlockNames |->
    [i \in DOMAIN Block(die, BlockNames[b]) |-> Block(die, BlockNames[b])[i].fault]])

(* The first fault ends the reading of the table. *)
ReadStatus(table) ==
  LET all == FlattenSeq([d \in DOMAIN table |-> Faults(table[d])])
      i   == SelectInSeq(all, LAMBDA fault : fault # "SUCCESS")
  IN  IF i = 0 THEN "SUCCESS" ELSE all[i]

(* The dies, sorted *)
Dies(table) ==
  LET ids == InOrder({die.id : die \in ToSet(table)})
  IN  [n \in DOMAIN ids |-> CHOOSE die \in ToSet(table) : die.id = ids[n]]

(* The numbers of the instances of a block, sorted, without the harvested *)
LiveInstances(block) == InOrder({g.num : g \in {x \in ToSet(block) : ~x.harvest}})

(* Die::LookupIP throws for a block that is not there. *)
Lacks(table, name) == \E die \in ToSet(table) : name \notin DOMAIN die.blocks
=============================================================================
