------------------------------ MODULE XgmiVram ------------------------------
(***************************************************************************)
(* VRAM of GPUs joined in an XGMI hive.  The DRM singleton learns who is   *)
(* in a hive and in what order (src/src/drm/drm.cc); a partition then maps *)
(* a hive-wide address to a GPU and an offset in that GPU's own debugfs    *)
(* VRAM file (src/src/sift/partition.cc).                                  *)
(*                                                                         *)
(* Each GPU has two DRM nodes, cardN and renderDN.  They are initialised   *)
(* in the order of their names, so every card before every render node,    *)
(* and one node's hive list is sorted by ids other nodes may not have read *)
(* yet.  The files of a GPU may be missing from some point on: each is     *)
(* read only if the one before it is there.                                *)
(***************************************************************************)
EXTENDS HiveRouting, FiniteSets

CONSTANT
  Machines   \* the machines to look at, a set of Machine records

(* the GPUs of a hive in the order of their physical ids *)
PhysicalOrder(hive, phys) ==
  CHOOSE s \in SetToSeqs(hive) :
    \A i, j \in DOMAIN s : i < j => phys[s[i]] < phys[s[j]]

(* A machine.  hive: the GPUs of the hive.  size, phys: VRAM bytes and     *)
(* xgmi_physical_id.  files: how many of xgmi_device_id, xgmi_physical_id  *)
(* and xgmi_hive_info each GPU has.  drm: the GPUs with DRM nodes, in name *)
(* order.  parts: the GPU of each partition of the engine.  open: the      *)
(* partitions whose debugfs directory could be opened.  A GPU is named by  *)
(* its xgmi_device_id, and all of the hive's memory has 64-bit addresses.  *)
MachineOK(m) ==
  /\ IsFiniteSet(m.gpus) /\ m.gpus # {} /\ m.gpus \subseteq Nat \ {Nobody}
  /\ m.hive \subseteq m.gpus
  /\ m.size \in [m.gpus -> Nat]
  /\ m.phys \in [m.gpus -> Nat]
  /\ \A g, h \in m.hive : m.phys[g] = m.phys[h] => g = h
  /\ m.files \in [m.gpus -> 0..3]
  /\ \A g \in m.gpus \ m.hive : m.files[g] < 3
  /\ m.drm \in Seq(m.gpus) /\ IsInjective(m.drm)
  /\ m.parts \in Seq(ToSet(m.drm))
  /\ m.open \subseteq DOMAIN m.parts
  /\ Fits(PhysicalOrder(m.hive, m.phys), m.size)

ASSUME MachinesAssumption == \A m \in Machines : MachineOK(m)

VARIABLES
  m,        \* the machine
  elided,   \* the compiler builds DRM::nodes_ in place
  info,     \* what InitXGMIInfo stored, for the DRM nodes done so far
  stage,       \* "init", "idle" or "done"
  access,   \* the VRAM access being carried out
  outcome   \* of the access, once it is done

vars == <<m, elided, info, stage, access, outcome>>

NodeKinds == {"card", "render"}

(* The DRM nodes in the order of their names: all cards, then all renders. *)
DrmNodes ==
  [i \in 1..Len(m.drm) |-> <<"card", m.drm[i]>>]
    \o [i \in 1..Len(m.drm) |-> <<"render", m.drm[i]>>]

(* What the constructor of DRMNode leaves: ids that are not read are 0. *)
NoInfo == [hive |-> FALSE, device |-> 0, phys |-> 0, nodes |-> << >>]
None   == [op |-> "none", part |-> 0, orig |-> 0]

Failure(status)   == [status |-> status, gpu |-> 0, offset |-> 0]
Access(part, off) == [status |-> "OK", gpu |-> m.parts[part], offset |-> off]

Init ==
  /\ m \in Machines
  /\ elided \in BOOLEAN
  /\ info = << >>
  /\ stage = "init"
  /\ access = None
  /\ outcome = Failure("NONE")

-----------------------------------------------------------------------------
InfoOf(node) == IF node \in DOMAIN info THEN info[node] ELSE NoInfo

(* the ids that the files of g give *)
DeviceId(g) == IF m.files[g] >= 1 THEN g ELSE 0
PhysId(g)   == IF m.files[g] >= 2 THEN m.phys[g] ELSE 0

(* xgmi_.physical_id of the card of g as stored now: 0 until it is read *)
StoredPhys(g, own) ==
  IF own = <<"card", g>> THEN PhysId(g) ELSE InfoOf(<<"card", g>>).phys

(* Mutant: the list is left in the order of the hive's directory. *)
MutSortedHives(own) == {SetToSeq(m.hive)}

(* What std::sort can make of the hive list: any order that respects the   *)
(* ids stored at that moment.                                              *)
SortedHives(own) ==
  {s \in SetToSeqs(m.hive) :
     \A i, j \in DOMAIN s : i < j => StoredPhys(s[i], own) <= StoredPhys(s[j], own)}

(* drm_->NodeByName looks in nodes_.  That is the vector being built if    *)
(* the compiler constructs it in place; else it is still empty.            *)
AllFound == elided /\ m.hive \subseteq ToSet(m.drm)

(* DRMNode::InitXGMIInfo of the next DRM node *)
InitXGMIInfo ==
  /\ stage = "init"
  /\ Cardinality(DOMAIN info) < Len(DrmNodes)
  /\ LET node == DrmNodes[Cardinality(DOMAIN info) + 1]
         g    == node[2]
     IN  \E list \in IF m.files[g] = 3 /\ AllFound THEN SortedHives(node)
                                                   ELSE {<< >>} :
           info' = [x \in DOMAIN info \union {node} |->
                      IF x # node THEN info[x]
                      ELSE [hive |-> m.files[g] = 3, device |-> DeviceId(g),
                            phys |-> PhysId(g), nodes |-> list]]
  /\ UNCHANGED <<m, elided, stage, access, outcome>>

InitDone ==
  /\ stage = "init"
  /\ Cardinality(DOMAIN info) = Len(DrmNodes)
  /\ stage' = "idle"
  /\ UNCHANGED <<m, elided, info, access, outcome>>

-----------------------------------------------------------------------------
Xgmi(part) == info[<<"render", m.parts[part]>>]

(* The partitions found for GPU g, by the XGMI device id of its card *)
PartsOf(g) == {p \in DOMAIN m.parts : Xgmi(p).device = info[<<"card", g>>].device}

(* The partitions whose debugfs may serve GPU g, of which the engine's     *)
(* first one does: ReadVRAM keeps to its own for its own card.             *)
Candidates(op, part, g) ==
  IF op = "read" /\ m.parts[part] = g THEN {part} ELSE PartsOf(g)

(* Where the walk over the hive list ends for a partition of a hive *)
Routed(op, part, a) ==
  LET found   == Walk(Xgmi(part).nodes, m.size, a)
      servers == Candidates(op, part, found.gpu)
      server  == CHOOSE p \in servers : \A q \in servers : p <= q
  IN  IF found.gpu = Nobody \/ servers = {}
      THEN Failure("OUT_OF_RANGE")
      ELSE IF server \in m.open THEN Access(server, found.address)
                                ELSE Failure("NULL_DEREF")

(* What a call ends in: no debugfs; not in a hive; or the walk *)
Outcome(op, part, a) ==
  IF part \notin m.open THEN Failure("NOT_PRIVILEGED")
  ELSE IF ~Xgmi(part).hive THEN Access(part, a)
  ELSE Routed(op, part, a)

(* ReadVRAM, WriteVRAM *)
Begin(op, part, a) ==
  /\ stage = "idle"
  /\ stage' = "done"
  /\ access' = [op |-> op, part |-> part, orig |-> a]
  /\ outcome' = Outcome(op, part, a)
  /\ UNCHANGED <<m, elided, info>>

(* The call returns to its caller, which keeps nothing the model looks at. *)
(* A null dereference ends the process instead.                            *)
Return ==
  /\ stage = "done"
  /\ outcome.status # "NULL_DEREF"
  /\ stage' = "idle"
  /\ access' = None
  /\ outcome' = Failure("NONE")
  /\ UNCHANGED <<m, elided, info>>

Next ==
  \/ InitXGMIInfo \/ InitDone
  \/ \E op \in {"read", "write"}, part \in DOMAIN m.parts, a \in 0..(Modulus - 1) :
       Begin(op, part, a)
  \/ Return

Spec == Init /\ [][Next]_vars
-----------------------------------------------------------------------------
TypeOK ==
  /\ m \in Machines
  /\ elided \in BOOLEAN
  /\ DOMAIN info \subseteq NodeKinds \X m.gpus
  /\ \A x \in DOMAIN info :
       info[x] \in [hive : BOOLEAN, device : Nat, phys : Nat, nodes : Seq(m.gpus)]
  /\ stage \in {"init", "idle", "done"}
  /\ access.op \in {"none", "read", "write"}
  /\ outcome.status \in
       {"NONE", "OK", "NOT_PRIVILEGED", "OUT_OF_RANGE", "NULL_DEREF"}
  /\ outcome.offset \in 0..(Modulus - 1)

(* the hive in physical order, and who owns an address *)
Ordered == PhysicalOrder(m.hive, m.phys)
Home(a) == Homes(Ordered, m.size, a)

(* Every GPU of the hive has the files that say who it is. *)
AllNamed == \A g \in m.hive : m.files[g] >= 2

HiveAccess ==
  stage = "done" /\ m.parts[access.part] \in m.hive /\ m.files[m.parts[access.part]] = 3

(* The list a partition walks is complete and in physical order, although  *)
(* lists are sorted while ids are still being read: the lists of the       *)
(* render nodes are made after every card has its id.                      *)
RenderListsSorted ==
  stage # "init" /\ AllFound /\ AllNamed =>
    \A g \in m.hive : m.files[g] = 3 => info[<<"render", g>>].nodes = Ordered

(* Whichever partition of the hive is asked, for a read or a write, an     *)
(* access that succeeds goes to the GPU that owns the address, at the      *)
(* offset it has there; unsigned wrap-around in a gap between two GPUs     *)
(* never ends in somebody's VRAM, and neither does a GPU outside the hive, *)
(* nor a member whose own hive directory is missing, lead astray.          *)
RoutedByHiveAddress ==
  HiveAccess /\ AllNamed /\ outcome.status = "OK" =>
    Home(access.orig) = {[gpu |-> outcome.gpu, address |-> outcome.offset]}

(* An access is out of range only if no GPU owns the address, as long as   *)
(* the hive is complete: all its GPUs have DRM nodes and partitions, and   *)
(* the DRM nodes are found while they are being built.                     *)
OutOfRangeOnlyOutside ==
  HiveAccess /\ AllNamed /\ outcome.status = "OUT_OF_RANGE" /\ AllFound
    /\ m.hive \subseteq ToSet(m.parts)
    => Home(access.orig) = {}

(* The null pointer that partition.cc:147 and :183 follow without a check  *)
(* is met only at addresses of a GPU that has a partition without debugfs: *)
(* the other GPUs of the hive can be read and written all the same.        *)
NullOnlyAtUnopened ==
  AllNamed /\ outcome.status = "NULL_DEREF" =>
    \E x \in Home(access.orig), p \in DOMAIN m.parts :
      m.parts[p] = x.gpu /\ p \notin m.open

(* No access fails for want of anything but what it needs: a GPU that owns *)
(* the address, and debugfs for that GPU.                                  *)
FailsForCause == OutOfRangeOnlyOutside /\ NullOnlyAtUnopened
=============================================================================
