---------------------------- MODULE Enumeration ----------------------------
(***************************************************************************)
(* How the engine turns the KFD topology into devices and partitions, and  *)
(* what the handles of the C API refer to afterwards                       *)
(* (src/src/kfd/kfdtop.cc, src/src/sift/engine.cc, device.cc, partition.cc *)
(* and capi.cc).                                                           *)
(*                                                                         *)
(* One KFD node is one GPU partition or a CPU; GPU nodes with the same PCI *)
(* address form a device.  Directories are listed in any order.  Three     *)
(* numberings come out of one scan: the order of the KFD nodes, the order  *)
(* in which addresses are first met, and the order of the addresses        *)
(* themselves.  The handles mix them.                                      *)
(***************************************************************************)
EXTENDS KfdTopology, IpDiscovery, FiniteSets

CONSTANTS
  Machines,   \* what sysfs, debugfs and the environment may show
  NoTopology, \* there is no directory of KFD nodes
  NoTable     \* the device has no ip_discovery directory

(* The bits of a printed location_id between the 16 of bus, device and     *)
(* function and the partition's four are 0                                 *)
Addressed(dir) ==
  \A line \in ToSet(dir.lines) :
    line.name = "location_id" => line.value % 268435456 < 65536

(* A machine.  listing: the directories of the topology, as listed.        *)
(* override: the entries of ROCSIFT_DEVID_OVERRIDE.  tables: the discovery *)
(* tables by full PCI address.  minors: of the DRM render nodes.  debugfs: *)
(* the devices that have a directory there.  root: debugfs may be read.    *)
MachineOK(m) ==
  /\ m.listing # NoTopology =>
       /\ m.listing \in Seq([instance : Nat, readable : BOOLEAN,
                            lines : Seq([name : Names, value : Nat])])
       /\ \A i, j \in DOMAIN m.listing :
            m.listing[i].instance = m.listing[j].instance => i = j
       /\ \A i \in DOMAIN m.listing : \A k, l \in DOMAIN m.listing[i].lines :
            m.listing[i].lines[k].name = m.listing[i].lines[l].name => k = l
       /\ \A i \in DOMAIN m.listing : Addressed(m.listing[i])
  /\ m.override \in Seq([fits : BOOLEAN, domain : Nat, bus : Nat, device : Nat,
                         function : Nat, id : Nat])
  /\ \A address \in DOMAIN m.tables : TableOK(m.tables[address])
  /\ m.root \in BOOLEAN

ASSUME MachinesAssumption == \A m \in Machines : MachineOK(m)

VARIABLES
  m,           \* the machine
  nodes,       \* KFDHandle::nodes_
  phase,       \* how far the constructor of Engine is
  next,        \* the directory or the node the loop looks at
  globalId,    \* global_partition_id
  builders,    \* std::map<bdf, DeviceBuilder>
  devices,     \* Engine::devices_
  partitions,  \* Engine::partitions_
  status       \* what sift_init will return

vars == <<m, nodes, phase, next, globalId, builders, devices, partitions, status>>

NumNodes == Len(nodes)

Phases   == {"kfd", "scan", "build", "ready", "failed"}
Statuses == {"SUCCESS", "ERROR", "OUT_OF_RANGE", "CODE_BUG"}

Init ==
  /\ m \in Machines
  /\ nodes = << >>
  /\ phase = "kfd"
  /\ next = 1
  /\ globalId = 0
  /\ builders = << >>
  /\ devices = << >>
  /\ partitions = << >>
  /\ status = "SUCCESS"

-----------------------------------------------------------------------------
(* KFDHandle::KFDHandle: one directory is read ... *)
ReadNode ==
  /\ phase = "kfd"
  /\ m.listing # NoTopology /\ next <= Len(m.listing)
  /\ ~Refused(m.listing[next], m.override)
  /\ nodes' = Append(nodes, KFDNode(m.listing[next], m.override))
  /\ next' = next + 1
  /\ UNCHANGED <<m, phase, globalId, builders, devices, partitions, status>>

(* ... or ends the construction of the engine, as does a topology that is  *)
(* not there.                                                              *)
ReadThrows ==
  /\ phase = "kfd"
  /\ IF m.listing = NoTopology THEN TRUE
     ELSE next <= Len(m.listing) /\ Refused(m.listing[next], m.override)
  /\ phase' = "failed"
  /\ status' = "ERROR"
  /\ nodes' = << >>
  /\ UNCHANGED <<m, next, globalId, builders, devices, partitions>>

(* No two nodes have the same instance. *)
Sorted(list) ==
  CHOOSE s \in SetToSeqs(ToSet(list)) :
    \A i, j \in DOMAIN s : i < j => s[i].instance < s[j].instance

NodesRead ==
  /\ phase = "kfd"
  /\ m.listing # NoTopology /\ next > Len(m.listing)
  /\ nodes' = Sorted(nodes)
  /\ phase' = "scan"
  /\ next' = 1
  /\ UNCHANGED <<m, globalId, builders, devices, partitions, status>>

-----------------------------------------------------------------------------
Props(n) == nodes[n].props
IsGpu(n) == Props(n).simd_count # 0

(* The key of the builders: domain << 16 | location_id & 0xffffff8.  That  *)
(* leaves out the partition, which the driver puts into the lowest three   *)
(* bits or, later, into the highest four: 268435456 is 2^28.  Bus, device  *)
(* and function are the 16 bits below (MachineOK), so the OR is the sum.   *)
Key(props) ==
  65536 * props.domain + (props.location_id % 268435456) - (props.location_id % 8)

(* Where the device looks for its discovery table: location_id, function   *)
(* bits included, in 16 bits                                               *)
Address(props) == 65536 * props.domain + (props.location_id % 65536)

(* DeviceBuilder::AddPartition, after making the builder if there is none. *)
(* The instance number of a device is the count of builders before it, its *)
(* address that of the node it was met with.                               *)
WithPartition(b, entry) ==
  LET mine == IF b \in DOMAIN builders
              THEN builders[b]
              ELSE [instance |-> Cardinality(DOMAIN builders),
                    address |-> Address(Props(entry.node)), nodes |-> << >>]
  IN  [k \in DOMAIN builders \union {b} |->
         IF k = b THEN [mine EXCEPT !.nodes = Append(@, entry)]
                  ELSE builders[k]]

(* One iteration of the scan over the KFD nodes, in the order of instances *)
ScanNode ==
  /\ phase = "scan"
  /\ next <= NumNodes
  /\ next' = next + 1
  /\ \/ /\ ~IsGpu(next)
        /\ UNCHANGED <<builders, globalId>>
     \/ /\ IsGpu(next)
        /\ builders' = WithPartition(Key(Props(next)), [node |-> next, id |-> globalId])
        /\ globalId' = globalId + 1
  /\ UNCHANGED <<m, nodes, phase, devices, partitions, status>>

ScanDone ==
  /\ phase = "scan"
  /\ next > NumNodes
  /\ phase' = "build"
  /\ UNCHANGED <<m, nodes, next, globalId, builders, devices, partitions, status>>

-----------------------------------------------------------------------------
Smallest(S) == CHOOSE x \in S : \A y \in S : x <= y

(* The GC instances that are not harvested, die after die. *)
LiveXccs(table) ==
  FlattenSeq([n \in DOMAIN Dies(table) |-> LiveInstances(Dies(table)[n].blocks["GC"])])

(* ipdiscovery_table_ of a device *)
TableOf(address) ==
  IF address \in DOMAIN m.tables THEN m.tables[address] ELSE NoTable

(* Mutant: the cursor moves on after every instance. *)
MutPlaceXcc(want, st, xcc) ==
  LET room == {i \in st.cur..Len(want) : Len(st.ids[i]) < want[i]}
  IN  IF room = {}
      THEN [st EXCEPT !.cur = Len(want) + 1]
      ELSE [cur |-> Smallest(room) + 1,
            ids |-> [st.ids EXCEPT ![Smallest(room)] = Append(@, xcc)]]

(* One GC instance goes to the first node at or after the cursor that has  *)
(* room.  The loop variable is a reference to the cursor: if no node has   *)
(* room the cursor is left past the end, and the rest find no node either. *)
PlaceXcc(want, st, xcc) ==
  LET room == {i \in st.cur..Len(want) : Len(st.ids[i]) < want[i]}
  IN  IF room = {}
      THEN [st EXCEPT !.cur = Len(want) + 1]
      ELSE [cur |-> Smallest(room),
            ids |-> [st.ids EXCEPT ![Smallest(room)] = Append(@, xcc)]]

(* xcc_die_ids of the nodes of one device that has a table *)
AssignXccs(want, table) ==
  LET live == LiveXccs(table)
      placed[k \in 0..Len(live)] ==
        IF k = 0 THEN [cur |-> 1, ids |-> [i \in DOMAIN want |-> << >>]]
        ELSE PlaceXcc(want, placed[k - 1], live[k])
  IN  placed[Len(live)].ids

Wanted(list) == [i \in DOMAIN list |-> Props(list[i].node).num_xcc]

(* Without a table a node of several XCCs makes the device give up: it is  *)
(* kept, with no partition at all.                                         *)
GivesUp(list, table) ==
  table = NoTable /\ \E i \in DOMAIN list : Wanted(list)[i] > 1

XccDieIds(list, table) ==
  IF table = NoTable THEN [i \in DOMAIN list |-> <<0>>]
                     ELSE AssignXccs(Wanted(list), table)

(* Mutant: the nodes are counted from 0. *)
MutPartitionsFromNodes(b) ==
  LET list  == builders[b].nodes
      table == TableOf(builders[b].address)
      ids   == XccDieIds(list, table)
  IN  IF GivesUp(list, table)
      THEN << >>
      ELSE [i \in DOMAIN list |->
              [node |-> list[i].node - 1, global |-> list[i].id, xcc |-> ids[i]]]

(* Device::PartitionsFromNodes when nothing throws *)
PartitionsFromNodes(b) ==
  LET list  == builders[b].nodes
      table == TableOf(builders[b].address)
      ids   == XccDieIds(list, table)
  IN  IF GivesUp(list, table)
      THEN << >>
      ELSE [i \in DOMAIN list |->
              [node |-> list[i].node, global |-> list[i].id, xcc |-> ids[i]]]

(* What ResolveDebugFS looks for: domain, bus and device *)
HasDebugfs(n) == ~m.root \/ Key(Props(n)) \in m.debugfs

(* The exception the constructor of the device at b ends with, if any: a   *)
(* table that cannot be read, a die without a GC block, then the first     *)
(* partition that has no DRM node or no debugfs directory.  A debugfs that *)
(* may not be read is no exception: partitions go without.                 *)
Thrown(b) ==
  LET list  == builders[b].nodes
      table == TableOf(builders[b].address)
      found(i) == Props(list[i].node).drm_render_minor \in m.minors
      bad   == {i \in DOMAIN list : ~found(i) \/ ~HasDebugfs(list[i].node)}
  IN  IF table # NoTable /\ ReadStatus(table) # "SUCCESS" THEN ReadStatus(table)
      ELSE IF table # NoTable /\ Lacks(table, "GC") THEN "ERROR"
      ELSE IF bad = {} \/ GivesUp(list, table) THEN "SUCCESS"
      ELSE IF found(Smallest(bad)) THEN "CODE_BUG" ELSE "OUT_OF_RANGE"

Pending == DOMAIN builders \ {devices[i].bdf : i \in DOMAIN devices}

(* Mutant: a device that throws is skipped, the engine goes on. *)
MutBuildThrows ==
  /\ phase = "build"
  /\ Pending # {}
  /\ Thrown(Smallest(Pending)) # "SUCCESS"
  /\ builders' = [k \in DOMAIN builders \ {Smallest(Pending)} |-> builders[k]]
  /\ UNCHANGED <<m, nodes, phase, next, globalId, devices, partitions, status>>

(* One iteration over the map of builders, in the order of the addresses *)
BuildDevice ==
  /\ phase = "build"
  /\ Pending # {}
  /\ LET b == Smallest(Pending)
     IN  /\ Thrown(b) = "SUCCESS"
         /\ devices' = Append(devices,
                         [bdf |-> b, address |-> builders[b].address,
                          instance |-> builders[b].instance,
                          partitions |-> PartitionsFromNodes(b)])
  /\ UNCHANGED <<m, nodes, phase, next, globalId, builders, partitions, status>>

(* An exception unwinds the engine: no device and no builder is left. *)
BuildThrows ==
  /\ phase = "build"
  /\ Pending # {}
  /\ Thrown(Smallest(Pending)) # "SUCCESS"
  /\ phase' = "failed"
  /\ status' = Thrown(Smallest(Pending))
  /\ builders' = << >>
  /\ devices' = << >>
  /\ UNCHANGED <<m, nodes, next, globalId, partitions>>

(* Engine::EnumeratePartitions: the partitions, device after device *)
EnumeratePartitions ==
  /\ phase = "build"
  /\ Pending = {}
  /\ partitions' = FlattenSeq([i \in DOMAIN devices |-> devices[i].partitions])
  /\ builders' = << >>
  /\ phase' = "ready"
  /\ UNCHANGED <<m, nodes, next, globalId, devices, status>>

Next ==
  \/ ReadNode \/ ReadThrows \/ NodesRead
  \/ ScanNode \/ ScanDone \/ BuildDevice \/ BuildThrows \/ EnumeratePartitions

Spec == Init /\ [][Next]_vars

-----------------------------------------------------------------------------
(* The handles.  vector::operator[] does not check: a handle that is not   *)
(* an index is undefined behaviour, so the accessors are used only on      *)
(* valid ones, and validity is a property.                                 *)
ValidPartition(h) == h \in 0..(Len(partitions) - 1)

(* Mutant: the handle is the position in the device's own list. *)
MutDevicePartition(h, n) == n

(* sift_device_get_partition(dev, &part, n): part.handle *)
DevicePartition(h, n) == devices[h + 1].partitions[n + 1].global

(* sift_partition_get_device: dev.handle, the instance of the device that  *)
(* Engine::Partitions()[h] belongs to                                      *)
PartitionDevice(h) ==
  (CHOOSE d \in ToSet(devices) : partitions[h + 1] \in ToSet(d.partitions)).instance

(* sift_partition_get_kfd_node: the position of the node, from 0 *)
PartitionNode(h) == partitions[h + 1].node - 1

(* sift_kfd_node_get_id of such a handle *)
NodeId(h) == nodes[h + 1].instance

DevicePairs ==
  {p \in (0..(Len(devices) - 1)) \X (0..(NumNodes - 1)) :
     p[2] < Len(devices[p[1] + 1].partitions)}

-----------------------------------------------------------------------------
DeviceType ==
  [bdf : Nat, address : Nat, instance : 0..NumNodes,
   partitions : Seq([node : 1..NumNodes, global : 0..NumNodes, xcc : Seq(Nat)])]

TypeOK ==
  /\ m.root \in BOOLEAN
  /\ \A n \in DOMAIN nodes : nodes[n].instance \in Nat
  /\ phase \in Phases
  /\ next \in Nat \ {0}
  /\ globalId \in 0..NumNodes
  /\ DOMAIN builders \subseteq Nat
  /\ devices \in Seq(DeviceType)
  /\ status \in Statuses

(* What the directory of a node says, if its files may be read *)
Printed(dir, name) ==
  LET i == SelectInSeq(dir.lines, LAMBDA l : l.name = name)
  IN  IF i = 0 THEN 0 ELSE dir.lines[i].value

(* The entries of the override for exactly the PCI address of a node,      *)
(* function included (README.md:134-145)                                   *)
EntriesFor(dir) ==
  LET bits(name, unit, values) == (Printed(dir, name) \div unit) % values
  IN  {i \in DOMAIN m.override :
         LET e == m.override[i]
         IN  <<e.domain, e.bus, e.device, e.function>> =
             <<Printed(dir, "domain"), bits("location_id", 256, 256),
               bits("location_id", 8, 32), bits("location_id", 1, 8)>>}

(* The device id of a node: the last of them replaces the one printed.     *)
Replaced(dir) ==
  LET hits == EntriesFor(dir)
  IN  IF hits = {} THEN Printed(dir, "device_id")
      ELSE m.override[CHOOSE i \in hits : \A j \in hits : j <= i].id

(* Every node has the values of its own directory, in the order of the     *)
(* directories' numbers and whatever their order on disk: no line is taken *)
(* for another field's, but for the firmware versions and num_gws (see the *)
(* README), and a replaced device id reaches no node but those it is for.  *)
NodesAsPrinted ==
  phase \in {"scan", "build", "ready"} =>
    /\ \A i, j \in DOMAIN nodes : i < j => nodes[i].instance < nodes[j].instance
    /\ {d.instance : d \in ToSet(m.listing)} = {x.instance : x \in ToSet(nodes)}
    /\ \A d \in ToSet(m.listing), x \in ToSet(nodes) : d.instance = x.instance =>
         /\ \A name \in Names \ {"device_id", "fw_version", "sdma_fw_version", "num_gws"} :
              x.props[name] = Printed(d, name)
         /\ x.props.fw_version \in
              {Printed(d, "fw_version"), Printed(d, "sdma_fw_version")}
         /\ x.props.device_id = Replaced(d)

GpuNodes == {n \in 1..NumNodes : IsGpu(n)}
NodesAt(b) == {n \in GpuNodes : Key(Props(n)) = b}

(* The table of the device at b: its address is that of its first node. *)
TableAt(b) == TableOf(Address(Props(Smallest(NodesAt(b)))))

(* The device at b exists without partitions: see GivesUp. *)
GaveUp(b) == TableAt(b) = NoTable /\ \E n \in NodesAt(b) : Props(n).num_xcc > 1

NobodyGaveUp == \A n \in GpuNodes : ~GaveUp(Key(Props(n)))

(* KFD lists the GPUs in the order of their PCI addresses. *)
Ascending ==
  \A k, n \in GpuNodes : k < n => Key(Props(k)) <= Key(Props(n))

(* An engine that was constructed lost no GPU: every GPU node is a         *)
(* partition of exactly one device, the one with its address, unless that  *)
(* device gave up; one bad partition fails the whole sift_init instead.    *)
NoPartitionLost ==
  phase = "ready" =>
    \A n \in GpuNodes :
      LET homes == {p \in DevicePairs :
                      devices[p[1] + 1].partitions[p[2] + 1].node = n}
      IN  /\ Cardinality(homes) = IF GaveUp(Key(Props(n))) THEN 0 ELSE 1
          /\ \A p \in homes : devices[p[1] + 1].bdf = Key(Props(n))

(* tests/enumerate.cc:22-38: going through every device and every one of   *)
(* its partitions reaches each KFD node of a GPU, and none twice, if no    *)
(* device gave up -- although it may reach them out of place.              *)
EveryNodeReachedOnce ==
  phase = "ready" /\ NobodyGaveUp =>
    /\ \A p \in DevicePairs : ValidPartition(DevicePartition(p[1], p[2]))
    /\ \A p, q \in DevicePairs :
         PartitionNode(DevicePartition(p[1], p[2]))
           = PartitionNode(DevicePartition(q[1], q[2])) => p = q
    /\ {NodeId(PartitionNode(DevicePartition(p[1], p[2]))) : p \in DevicePairs}
         = {d.instance : d \in {x \in ToSet(m.listing) : Printed(x, "simd_count") # 0}}

(* From device h through its n-th partition to the KFD node and back.      *)
RoundTrips ==
  \A p \in DevicePairs :
    LET h == DevicePartition(p[1], p[2])
    IN  /\ ValidPartition(h)
        /\ PartitionNode(h) = devices[p[1] + 1].partitions[p[2] + 1].node - 1
        /\ PartitionDevice(h) = p[1]

(* The three numberings agree, and handles can be followed in every        *)
(* direction, on a machine whose KFD order is the order of PCI addresses.  *)
AscendingRoundTrips ==
  phase = "ready" /\ NobodyGaveUp /\ Ascending => RoundTrips

(* sift.h:142: sift_partition_get_device "gets device handle from          *)
(* partition", so going from a device to one of its partitions and back    *)
(* ends at the device where it started.                                    *)
PartitionLeadsToItsDevice ==
  phase = "ready" /\ NobodyGaveUp =>
    \A p \in DevicePairs :
      LET h == DevicePartition(p[1], p[2])
      IN  ValidPartition(h) /\ PartitionDevice(h) = p[1]

(* The live XCCs of a table by die and number, however sysfs lists them: a *)
(* number has 8 bits.                                                      *)
ByDieAndNumber(table) ==
  LET codes(die) == {256 * die.id + g.num : g \in {x \in ToSet(die.blocks["GC"]) : ~x.harvest}}
      all == InOrder(UNION {codes(die) : die \in ToSet(table)})
  IN  [i \in DOMAIN all |-> all[i] % 256]

(* What the cursor of PartitionsFromNodes computes: read one after the     *)
(* other, in the order of the nodes, the lists of a device are the live    *)
(* XCCs in order, as many as the nodes want; a node gets fewer than it     *)
(* wants only when none are left.                                          *)
XccsHandedOutInOrder ==
  \A d \in ToSet(devices) :
    TableAt(d.bdf) # NoTable =>
      LET live == ByDieAndNumber(TableAt(d.bdf))
          ids  == [i \in DOMAIN d.partitions |-> d.partitions[i].xcc]
          want == [i \in DOMAIN d.partitions |-> Props(d.partitions[i].node).num_xcc]
      IN  /\ \A i, j \in DOMAIN ids : i < j => NodeId(d.partitions[i].node - 1)
                                                 < NodeId(d.partitions[j].node - 1)
          /\ IsPrefix(FlattenSeq(ids), live)
          /\ \A i \in DOMAIN ids :
               /\ Len(ids[i]) <= want[i]
               /\ Len(ids[i]) < want[i] => FlattenSeq(ids) = live
=============================================================================
