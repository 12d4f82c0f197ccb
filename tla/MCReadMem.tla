------------------------------ MODULE MCReadMem ------------------------------
(* Pages of two cells; buffers of two.  Ranges that start and end anywhere  *)
(* in lists of one or two fragments of up to three pages, as                *)
(* sift_xlator_translate_range returns them (Xlator!CoversRequest).         *)
EXTENDS ReadMem

Bits == INSTANCE Bitwise

(* The operators of Words are those of the numbers, and its powers of two  *)
(* are powers of two.                                                      *)
ASSUME WordsAgree ==
  /\ \A a, b \in 0 .. 20 : And(a, b) = Bits!&(a, b) /\ Or(a, b) = Bits!|(a, b)
  /\ {n \in 0 .. 70 : PowerOfTwo(n)} = {2^k : k \in 0 .. 6}

MCThreads == {"main", "other"}
MCParts == <<"p1", "p1b", "p2", "p3">>
MCDevices == {"device"}
MCGpus == 1 .. 3
MCGpuOf ==
  [h \in {"device", "p1", "p1b", "p2", "p3"} |-> CASE h = "p2" -> 2 [] h = "p3" -> 3 [] OTHER -> 1]
MCHive == <<2, 1>>

(* GPU 2 comes first: without and with a gap behind it.  GPU 3 is in no    *)
(* hive.                                                                   *)
MCSizes == {<<6, 4, 3>>, <<6, 3, 3>>}

MCAnyCalls ==
  [h : Handles, region : {"video"}, op : Ops, addr : {0, 3}, count : {2}]
    \cup [h : Handles, region : {"system"}, op : {"write"}, addr : {3}, count : {2}]
    \cup [h : {"p1"}, region : {"other"}, op : Ops, addr : {0}, count : {1}]

Fragments ==
  [va : {2}, size : {2, 4, 6}, pa : {0, 2, 4}, region : {"video"}, valid : {TRUE}]

Seconds(f) ==
  {[va |-> f.va + f.size, size |-> n, pa |-> pa, region |-> "system", valid |-> v] :
     n \in {2, 4}, pa \in {4}, v \in BOOLEAN}

Lists == {<<f>> : f \in Fragments} \cup
         UNION {{<<f, g>> : g \in Seconds(f)} : f \in Fragments}

Length(l) == l[1].size + (IF Len(l) = 1 THEN 0 ELSE l[2].size)

Asked(l) ==
  {r \in [physical : {FALSE}, region : {"other"}, addr : {2, 3, 4, 6},
          size : {1, 3, 5}, list : {l}] :
     /\ r.addr < 2 + l[1].size
     /\ r.addr + r.size <= 2 + Length(l)
     /\ Len(l) = 2 => r.addr + r.size > 2 + l[1].size}

MCRequests ==
  UNION {Asked(l) : l \in Lists} \cup
  [physical : {TRUE}, region : {"video", "system"}, addr : {1, 2}, size : {1, 3, 4},
   list : {<< >>}]
=============================================================================
