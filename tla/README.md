# TLA+ models of rocsift

rocsift ("sift") reads and writes the registers and the memory of AMD GPUs through
debugfs, decodes the runlists of the KFD driver and walks GPU page tables. It is a
library used in-process by tools; nothing is persisted, there is no server and there
are no messages. What is hard about it is what several threads do at once without a
lock, what the kernel and the firmware change under a call, what remains after an
exception, and numberings, sizes and cursors that must agree across files.

Paths below are relative to `src/`.

## The system

| Component | State | Operations | Code |
|---|---|---|---|
| engine lifecycle | `engref` (atomic), `eng` (plain pointer), the logger's registration | `sift_init`, `sift_destroy`; every other entry point uses `eng` unchecked | `src/sift/capi.cc` |
| enumeration | builders, devices, partitions, three numberings | constructor of `Engine`; handle functions of the C API | `src/sift/engine.cc`, `device.cc`, `partition.cc`, `capi.cc` |
| DRM nodes, XGMI routing | DRM singleton with hive lists | `InitXGMIInfo`; `Partition::ReadVRAM`, `WriteVRAM` | `src/drm/drm.cc`, `src/sift/partition.cc` |
| register accessors | one file offset per device and partition, the RSMU index registers of the GPU | MMIO and SMN reads and writes | `src/sift/debugfs_mmio_accessor.cc`, `debugfs_smn_accessor.cc` |
| PM4 packets | none | cutting dwords into packets, header checks | `src/pm4/pm4.cc` |
| runlist text parser | state machine, cursor kept between calls, dword buffer | `RlsParser::Parse` | `src/pm4/rls_parser.cc` |
| runlist series | linked list of heap blocks | `sift_pm4_parse_runlists`, `sift_pm4_destroy_runlists` | `src/pm4/pm4.cc` |
| address translation | one call's walk, entry cache, list of fragments | `sift_xlator_translate_range`, `walk_pt` | `src/xlator/xlator.c` |
| process to VMID | the context's VMID, registers owned by the firmware | `sift_xlator_create_for_process` | `src/xlator/xlator.c`, `src/kfd/kfdcapi.cc` |
| KFD topology | property files of the nodes, the override of device ids | constructors of `KFDHandle`, `KFDNode` | `src/kfd/kfdtop.cc`, `kfdnode.cc` |
| IP discovery | a tree of directories per device | reading it, looking a block up | `src/sift/ip_discovery.cc` |
| process list | the directory of processes, one pasid file each | `sift_kfd_get_proc_list` | `src/kfd/kfdtop.cc`, `kfdcapi.cc` |
| memory accessors | three file offsets per device and partition | `sift_device_read`, `sift_partition_write`, ... | `src/sift/debugfs_vram_accessor.cc`, `sram_accessor.cc`, `debugfs_iomem_accessor.cc` |
| read_mem | the range still to print | loops over fragments and buffers | `cmd/read_mem.cc` |
| pskfd | the rows still to print | a loop over the process list and one over each command line | `cmd/pskfd.cc` |
| PCI MMIO, file descriptors, logging, other tools | see "Not modelled" | | |

How they interact: `sift_init` constructs the engine, which asks the KFD topology for
nodes, the DRM singleton for DRM nodes and hives, and opens accessors for every device and
partition. The C API turns handles into devices and partitions of the engine and forwards
to their accessors. The translator is a client of the C API: it gets pasids (one file per
process, read one after the other) and runlist text from the KFD functions, packets from
the runlist parser, and reads registers and VRAM through a partition.

What must be right, by component:

* lifecycle: the count never drifts, one engine is ever built, none used or deleted after
  deletion;
* enumeration: nodes say what their files say, no GPU lost, handles lead where the client
  came from, whatever the order in which directories are listed;
* XGMI: an address reaches the GPU that owns it at the offset it has there;
* registers: a call is atomic on the register it names;
* parser: the runlists in the text, no more, no fewer, none mixed with its neighbour;
* series: each block has one owner on every path out of the function;
* memory: a call touches what its address names, on the GPU that owns it, and nothing
  else;
* translator: the list says what the tables say and covers the range; the tables are those
  of the process that was asked for.

## Modules

`X.tla` is the specification, `MCX.tla` the instance for TLC, `XProofs.tla` what is proved.

### SiftLifecycle, SiftLifecycleProofs

`sift_init` is cut after its `engref++`, before and after the constructor; `sift_destroy`
after its `engref--`. `InitFetch`, `InitJoin`, `InitCodeBug`, `InitConstruct`,
`ConstructDone` and `ConstructThrows` are the paths of `sift_init`; `DestroyFetch`,
`DestroySkip` and `DestroyDelete` those of `sift_destroy`; `ApiCall` is any other entry
point. `RegisterLogger` is the first thing the constructor of `Engine` does: spdlog keeps
the name, so a second construction in one process throws (`engine.cc:30`), and a
`sift_init` that failed can never be retried with success. Clients pair one destroy with
each init, also a failed one, as the example in `README.md` (usage section) does;
`ExtraDestroys` more calls come on top. `holds`, `extra` and `reused` are ghosts.
`Orderly` says that at most one destroy was unpaired and that no init came after it. One
unpaired destroy is what it takes to get the engine deleted at all, since `sift_destroy`
tests the count before its decrement; with two of them, or with an init afterwards, the
engine *is* deleted under clients or twice. `ApiCall` is one step: the pointer is loaded
and followed at once.

### Enumeration, KfdTopology, IpDiscovery, Ordering, EnumerationProofs

`Enumeration` is the constructor of `Engine`. `ReadNode`, `ReadThrows` and `NodesRead`
read the directories of the KFD topology in the order in which they are listed and sort
them; `ScanNode` is the loop that fills the map of builders, `BuildDevice` and
`BuildThrows` the loop that constructs devices from it, `EnumeratePartitions` the
flattening. The dealing-out of XCC ids (`PlaceXcc`) keeps the loop variable that is a
reference to the cursor. `DevicePartition`, `PartitionDevice` and `PartitionNode` are the
handle functions. What sysfs, debugfs and the environment show is a machine, chosen in the
initial state.

`KfdTopology` is one node's directory: lines that are searched with one unanchored
regular expression per field (`Finds`, `FieldOf`; names are data, and a name that ends like
another is two parts), and the entries of `ROCSIFT_DEVID_OVERRIDE` (`Overridden`). `Refused`
says when the constructor throws. The key of a device is a sum where `engine.cc:72` has an
OR: the same number as long as bus, device and function are the 16 bits they have in a PCI
address, which `MachineOK` asks of every `location_id`. `IpDiscovery` is a device's tree of dies, blocks and
instances: the order in which they are read decides which fault ends the reading
(`ReadStatus`), the sorts (`Dies`, `LiveInstances`, over `InOrder` of `Ordering`) decide
what the XCC ids are.

### HiveRouting, XgmiVram, VramProofs

`HiveRouting` is the walk over the GPUs of a hive (`Walk`), an operator because it reads
nothing that changes, with the unsigned wrap-around of `Past` at `Modulus`; `Homes` is the
layout that the comment in `partition.cc` describes. `XgmiVram` is where the lists come
from: `InitXGMIInfo` runs for every card node and then for every render node; `StoredPhys`
is what a list can be sorted by at that moment, and `SortedHives` any order `std::sort` may
leave. The files of a GPU may stop after any of the three that are read one after the other
(`files`). Whether `NodeByName` sees the vector under construction depends on copy elision:
`elided` is chosen in the initial state. `Begin` is one read or write by a partition:
`Candidates` are the partitions whose files may serve it, `Routed` the result, which may be
the null pointer of a partition without debugfs.

### RegAccess, AtomicRegs, RegAccessProofs

`AtomicRegs` promises that a register call takes effect in one step or throws.
`RegAccess` is what the code does: one to three MMIO accesses, each an `lseek` and a
transfer, on files shared by threads and index registers shared by files. The transfer
and the registers themselves (`Selected`, `Stored`, `Loaded`) are the driver's and the
GPU's: external. Every system call may fail, and so may the wrapper of a handle that was
built without debugfs, before the first of them (`NotPrivileged`). `RegAccess` implements `AtomicRegs` under a
discipline that the code leaves to its clients (`MayJoin`): calls through one file do not
overlap, and SMN calls to one GPU do not overlap. Without it neither holds.

### Pm4Packets, RlsParser, RlsParserProofs, RunlistSeries, RunlistSeriesProofs

`Pm4Packets` has no state: where packets start, whether they fit, what they hold. A dword
is a record of the header fields it would have. `RlsParser` is the machine of `Parse`
over lines that are classified as the regular expressions classify them; a call that ends
rewinds `end_`, and the next one starts there. `ParseData` goes to its state ERROR only when a
dword cannot be converted or the regular expression itself throws; `data_format` matches
eight hexadecimal digits, which `std::stoul` always converts, so no text leads there and the
model has no such step. `RunlistSeries` has an action per
allocation of `sift_pm4_parse_runlists`, each with its failure, and the catch clause and the
destroyer with the pointers they have. Blocks are never reused, so a use after free shows.

### Xlator, XlatorProofs

One action per step of the loops of `sift_xlator_translate_range` and `walk_pt`: a level
down by the cache or by memory, the leaf with its F bit, the alignment of the fragment,
and the list (`First`, `Aliased`, `CodeBug`, `Combine`, `Push`, `Finish`, `NoMemory`).
`Translation` is the reference: what the tables give for one page, walked from the root
without cache or list. Like the code it follows an entry on the way whether or not the
entry is valid, where the hardware would fault: for such addresses it says what the memory
holds, not what a GPU does. The unit is the 4 KiB page; a table has `Fan` entries instead of
512. The top table's number of entries (`topPdes`) and `Fan` are powers of two
(`TablesAssumption`): the code masks with `num_pdes - 1` (`xlator.c:306`), which is the
remainder only then, and other ranges of the registers, a `num_pdes` of 0 among them, are
not modelled. `pt_base` is decoded as a PDE (`Root`), so the top table is in system or in
video memory; its P bit is not modelled. The context, the memory and the call are chosen together in the initial state.
`sift_xlator_translate` is a call with one page.

Page tables lie in system or in video memory, and video memory starts at any MC address:
`fb_offset` is kept in as many bits as the code keeps it in (`FbWidth`, `xlator.c:585`).
Huge pages occur at every level. The properties about contents are stated for cases that
are `Regular`, where the code takes no measure of its own; the other cases are run too, for
the type invariant and for `CallReturns`, which has no precondition:

* `SizesFit`: the page size of a PDE is the context's. `pde.valid` is never tested and the
  walk of an unmapped address reads any memory as a table, whose sizes may be anything;
  there the exit marked "CODE BUG" in `is_contiguous` is reachable;
* `StartFits`: the page tables start at a multiple of what a table of PTEs maps. Entries are
  found with addresses relative to the start, fragments are aligned without it
  (`xlator.c:289`, `:696`);
* `OffsetFits`: video memory starts below 4 GiB of MC addresses.

Four kinds of pages are excepted by name, with everything around them still checked.
`SharedKey`: an entry on the page's way is at address 0 or at the address of an entry in the
other memory (the cache is keyed by the address alone, and 0 is empty, `xlator.c:308`).
`OtherSize`: the PDE of the page's table gives another page size than the context's.
`HighHuge`: a P bit above the lowest level of PDEs is taken for pages of 4 KiB at one
physical address (`xlator.c:328`); that the pages are all there, with the right flags, is
checked. `MovedBlock`: the block behind an F bit is read without making its address
relative to video memory (`xlator.c:358`). Physical page numbers of system and video memory
are compared with each other (`fragments_overlap`), so an "alias" may be two different
pages. Tables lie at page boundaries and pages at multiples of their size.

### XlatorContext, Pskfd, XlatorContextProofs

`sift_xlator_create_for_process` lists the processes (`ListProcs`), looks for each one's
directory (`CheckDir`: a process that is gone is skipped) and then reads its pasid
(`ReadPasid`), in any order of processes, then reads the runlists, then a VMID's base address
word by word (`ReadLo`, `ReadHi`), while the kernel ends and starts processes and the firmware
maps them (`Exit`, `Start`, `Map`: external, at most `MaxChanges` steps). A later translation
reads the registers of the VMID that was chosen, again word by word (`WalkLo`, `WalkHi`). A
process that ends between the look at its directory and the reading of its pasid fails the
list for everybody (`nolist`): `std::stoi` gets an empty string.

Three history variables say what happened meanwhile: `gone`, which processes did not run all
the time since the list was begun; `held`, the page tables a VMID has had since its low word
was read; `disturbed`, that the process ended after its pasid was read or that its VMID was
given another table after it was chosen. `ScanDecides` has four parts, all of them while
processes come and go and VMIDs are remapped, also between the two words:

* `WalksItsProcess`: a translation walks the process's page table. A VMID that is remapped
  between its two words is still right if its high word at the second read can only be that
  of the process's table; what is left out is another table with the same high word that came
  or went just then, a process that ended, a VMID given away after it was chosen (the code
  never looks again), and runlists without the GPU (`listed`: `xlator.c:429` then looks for
  another GPU's table);
* `NoPhantom`: a VMID that never had the page table is not taken for it, unless the halves of
  two other tables, both of which it had, match by chance. Such a torn match is reachable in
  the model;
* `OverlooksNone`: the scan does not pass a VMID that has had the page table since its turn;
* `ListKeeps`: the list fails, or lacks the process, only because of a process that did not run
  all the time.

`Pskfd` is the other client of the list: the tool that prints a command line per process,
over the same kernel. A behaviour has one of the two clients; with `pskfd` the page tables
and registers are one arbitrary choice, since it never looks at them.

### MemTransfer, ReadMem, Words, VramProofs

`MemTransfer`: a call on a handle, of a device or of a partition, is a `Call`, which picks
the file, then `Seek` and `Transfer`, two system calls on an offset that all threads of
the process share. A device, and a partition whose GPU is in no hive (`hive_id` 0), take
addresses in their own video memory (`Local`); a partition of the hive takes hive-wide ones,
and `Servers` (over `HiveRouting`) says whose files serve the call: threads on different
partitions meet on the files of a third. A partition without debugfs ends the
process (`crashed`) when it has to serve. A transfer may be short, empty, or fail after a
part; a failure of `amdgpu_iomem` leads to the same transfer on `/dev/mem` (`TryDevmem`).
`Memory` and `Room` are the driver's: a GPU's file ends where its video memory does
(without that, a transfer over the end is seen to touch what the call does not name).
Memory contents are abstracted to which cells of which memory a call touches, so reads and
writes are one action. `alone` records that another call on the same files overlapped:
there is no lock in the code, and what such calls touch is not promised by anything
(without the condition TLC shows one thread reading at the other's address).

`ReadMem` is the command on top of it: `NextFragment` is a turn of the loop over
fragments, `ReadChunk` and `PrintChunk` of the loop over the buffer. The process is either
the command or another program that makes any calls (`AnyCall`); the command has one
thread. `Requests` gives ranges with the lists that `Xlator` shows to be returned for them
(`CoversRequest`): their addresses are hive-wide ones, and a fragment may cross the end of
a GPU, after which the rest must be asked for again or end the output. `Expected` is the
range up to the first address nobody owns. A cell stands for half a page. `RequestOK` is
what the model takes for granted of a request: the list is one that `CoversRequest` allows,
with fragments of one page or many, and the range, or the memory behind its fragments, does
not wrap around at the end of the address space; TLC evaluates it for the requests of the run.

`Words` has the `&` and `|` of the two lines that mask the offset, as functions that halve
their arguments, so that they can be proved about. `PowerOfTwo` says of a size that no odd
number but 1 divides it. `WordsAgree` in `MCReadMem` compares all three with the operators
of `Bitwise` and the powers, on small numbers.

## Runs

| Run | Expect | What it shows |
|---|---|---|
| Lifecycle | pass | three threads, two engine addresses, up to two unpaired destroys; the constructor fails before or after the registration of the logger |
| LifecycleDestroyDoc | violation | after the last paired `sift_destroy` an engine is left (`sift.h:51`) |
| Enumerate | pass | five nodes over three addresses, listed in two orders; three nodes with up to two XCCs each and five kinds of tables; three ways in which a driver numbers partitions, with up to two of six override entries; three nodes with every failure |
| EnumRoundTripDoc | violation | from device 0 to its second partition and back is device 1 (`sift.h:142`): two devices, the nodes of the first on both sides of the other's |
| XgmiRouting | pass | three GPUs, sizes 0, 3, 4, 5 with a unit of 4, all physical orders, GPUs outside the hive, without DRM node, without partition, with two partitions, without debugfs, with some of its files |
| RegAtomic | pass | two threads, two files, one MMIO register besides the three index and data registers, four SMN registers |
| RlsTexts | pass | all texts of up to five lines of packets broken over lines, and of up to four with broken lines |
| SeriesOwnership | pass | up to six runlists, each allocation failing or not, the parser throwing or not |
| SeriesCatchDoc | violation | the catch clause frees twice (`pm4.cc:396`) |
| XlatorCalls | pass | one and two levels, tables of two entries in both memories, huge pages at every level, offsets beyond `FbWidth`; every content of a few pages, see the module |
| MemoryReads | pass | two threads and two calls of any kind on a device, three partitions of a hive of two GPUs and one of a GPU outside it, with and without a gap between the GPUs; `read_mem` with every opening of the accessors, lists of one or two fragments of up to three pages, ranges of up to five cells, buffers of two |
| XlatorProcess | pass | two processes, two GPUs, two VMIDs, three steps of kernel and firmware, against `create_for_process` or `pskfd` |

Why the bounds are enough. Lifecycle: a race needs one thread in each window of
`sift_init` and `sift_destroy`; three cover a constructor, a joiner and a destroyer, and a
second engine address shows a second construction. Enumeration: the directories are
listed in two orders per family of machines, ascending or not (the theorems hold for every
order); three addresses can be met in an order that differs from theirs in every way, and five nodes let one address be met
twice; the tables list dies and instances out of order, and XCC ids run out, are left
over, or are short of a node's wish; two override entries for one node show which wins.
XGMI: with a unit of 4, sizes of nothing, below, at and above a unit put gaps before,
between and after GPUs, and all 32 addresses are asked for. Registers: one thread
interrupting another is the hazard; a third adds no new window. Parser: five lines hold
two runlists with something between and after them, and packets broken over two lines.
Translator: a fragment of several pages, two fragments before and after a table's end, and
a third to combine fit in tables of two entries; two levels are enough for a cached entry
to go stale at one and be right at the other, and for a P bit above the lowest level; one
page beyond `FbWidth` shows the lost bits. Process: three changes are an exit, a start and
a map, what it takes to give a VMID away and take it back; a torn match needs two maps and an
exit between any two steps of the list or of the rows one. Memory: three partitions on two GPUs are one that is
served by its own files, one by its neighbour's and one by the other GPU's; two calls are
enough for one to start on the offset the other left or to come between its seek and its
transfer; a fragment of three pages is the smallest whose size is no power of two, and
ranges of five cells end in the middle of a buffer, a page and a fragment.

`CHECK_DEADLOCK FALSE` is set where the modelled call or process ends; `RegAccess` never
stops and is checked for deadlock.

Fairness. `RlsParser` and `Xlator` state weak fairness of their next-state relation: one
thread runs the call, and nothing in it waits. `ReadMem` states it of the command's steps
and of the system calls it makes, which the kernel answers; `Pskfd` of the tool's steps,
with none of the processes that start and end. Termination is the only liveness there is
to ask for; the other modules state no fairness and check safety only.

### Disagreements with the documentation

`LifecycleDestroyDoc`, `EnumRoundTripDoc` and `SeriesCatchDoc` are the
findings of `PROJECT.json`. The models also reach states which no run singles out:

* `sift_init` returns success while another thread still constructs the engine, or after
  that constructor threw; the next call follows a null pointer (`ub = "null_deref"`);
* a `sift_init` that threw can never succeed later: the name of the logger stays
  registered (`engine.cc:30`), whatever the count says (`MutRegisterLogger` shows what
  would follow otherwise: a second engine);
* `sdma_fw_version` is stored in `fw_version`, whose unanchored expression is tried first
  (`kfdnode.cc:218`), and stays 0 itself; `num_gws` is never read, its expression wants
  two blanks (`kfdnode.cc:61`). `NodesAsPrinted` leaves these three out, `fw_version`
  being one of the two numbers printed;
* one directory of the topology whose `gpu_id` is no number, or one entry of
  `ROCSIFT_DEVID_OVERRIDE` without the right form, also for another GPU, ends `sift_init`;
* the discovery table of a device is looked for at the address of the node that was met
  first, function bits included (`device.cc:89`): where a driver puts the partition there,
  another listing finds no table;
* a device that gives up (no discovery table, several XCCs) keeps the ids its nodes used,
  so partition handles of later devices can lie past the end of the vector
  (`EveryNodeReachedOnce` is stated for machines where no device gave up);
* a node line whose data is empty or no packets makes `Parse` return nothing, which
  `sift_pm4_parse_runlists` takes for the end of the text: it succeeds without the nodes
  after it, although `pm4.h:191` speaks of all nodes (`RunlistsInOrder` says which are
  returned);
* `read_mem` on a virtual range whose first fragment was combined from several pages:
  `virt_addr & (size - 1)` is not the offset in it when the size is no power of two or the
  fragment lies on no multiple of it, so other pages of the fragment are printed than
  asked for, or fewer with return value 0 (`read_mem.cc:72`, against the comment at
  `:45`). `PrintsTheRange` is stated for aligned fragments, `PrintsOnlyMapped` for all;
* `read_mem` never ends when reads keep returning 0 (`read_mem.cc:31`);
* one process that ends while the processes are listed, after its directory was seen, fails
  the list for all (`kfdtop.cc:18`);
* a VMID that is remapped between its two words, or between a match and its use, can be taken
  for the process's (`xlator.c:487`); nothing checks it again;
* `pskfd` never ends, and its memory grows, when a process is gone before its command line
  is read: `eof` never comes on a file that was not opened (`pskfd.cc:21`);
* a table in one memory is taken for the one at the same address in the other, or for an
  empty cache (`xlator.c:308`); an `fb_offset` of 4 GiB or more loses its high bits
  (`:585`); a P bit above the lowest level gives pages with one physical address (`:328`);
* page tables that start at no multiple of what a table of PTEs maps: entries are found
  relative to the start, fragments are aligned without it (`xlator.c:289`, `:696`), and the
  list then has gaps or pages twice (`StartFits`);
* an access routed to a partition without debugfs follows a null pointer
  (`NullOnlyAtUnopened` says where);
* a PTE with the F bit whose table does not span 2 MiB makes the walk fail although the
  comment at `xlator.c:353` names 64 KiB native pages.

## Proofs

`SiftLifecycleProofs` holds for any finite set of clients, any set of addresses and any
`ExtraDestroys`; it rests on the three assumptions named in `SiftLifecycle`.

* `TypeCorrect`, `CounterCorrect`: the type invariant, and that `engref` is the number of
  holders less the unpaired destroys, in every interleaving and on every error path.
* `Inductive`: the invariant `IInv`. `CountsHolders` is inductive alone; the others are
  not. That a second thread cannot read zero inside `sift_init` needs the first to be
  counted (`InitHolds`); that the deletion, which comes a step after the fetch-and-sub it
  depends on, harms nobody needs that the one unpaired call is spent and nobody holds the
  engine (`DeleterAlone`), so that the counter is below zero and nobody else reads zero;
  and after the deletion that stays so (`DeletedLast`). `CountMeans` turns cardinalities
  into these facts; `OrderlyBefore` says that `Orderly`, once lost, is lost.
* `UniqueBuilder`, `FreeSafe`, `DeleteUnheld`: the properties of the run `Lifecycle`,
  from `IInv`.
* `UniqueEngine`: `OneEngine` has no condition on the clients. Its invariant is `BuiltOnce`:
  no engine exists before the logger is registered, at most one thread is past the
  registration with no engine built yet, and none can pass it again.

`EnumerationProofs` holds for any set of machines that are `MachineOK`: the directories of
the topology have different numbers, no name stands on two lines of one directory, and bus,
device and function of a `location_id` are 16 bits, as the kernel writes them. Nothing is assumed about how many directories there are, how they
are listed, or which addresses they share.

* `Printing` (`NodesAsPrinted`). What a constructor of `KFDNode` leaves is a recursive
  function over the lines, then over the entries of the override; `ParsesFrom` and
  `OverridesFrom` say what it computes, by the least line at which it would not. `SortExists`
  shows that there is a sorted sequence at all, so that `Sorted` is one (`SortedNodes`).
* `Invariant`: `NodesInv`, what has been read; `ScanInv`, that each builder has the nodes at
  its address up to the loop's variable, in order, with the ids that `Rank` gives them, and
  the instance and the address of the first of them; `BuildInv`, that the devices are
  `Finished`, in ascending order of their keys, and below every key still to come. None of
  the properties is inductive: they say nothing before the engine is ready.
* `NothingLost` (`NoPartitionLost`), `ReachedOnce` (`EveryNodeReachedOnce`) and
  `AscendingRoundTrip` (`AscendingRoundTrips`). `FlattenJoins` says where in the engine's
  list the partitions of each device are; `EachOnce` that it has each GPU node once; then the
  handle of a partition, the rank of its node, is an index of that list because there are as
  many ranks as GPU nodes (`RanksAll`). With ascending addresses the place in the list is the
  rank (`RankIsPlace`) and the place of a device its instance (`InstanceIsPlace`).
* `TypeCorrect` and `DealtInOrder` (`XccsHandedOutInOrder`). `HandedInv` adds to `IInv` what
  an engine that failed leaves, and that each device is `Typed` and `Dealt`: its partitions
  have the lists that `AssignXccs` returns for their nodes' wishes. `Dealing` is the
  invariant of the loop with the cursor: nodes before it have all they want, nodes behind
  it nothing, and while it is at a node every XCC looked at was dealt out (`DealingStep`,
  `Assigned`); from it follows that a node is short only when all were (`AllDealt`). The
  order of dies and numbers is that of 256 times the die plus the number (`LiveOrdered`),
  for which `InOrderIs` and `InOrderOf` say that `InOrder`, which sorts by ranks, is the one
  ascending sequence of a set. `TableRead` and `ThrownIs` say which fault of a table ends
  the constructor.

`VramProofs` is about three modules. `WalkGoesHome` is of `HiveRouting`: the loop of `ReadVRAM` against the layout, for any
list of GPUs of any sizes, any unit and any width of addresses, under `Fits`: the hive as a
whole has no more bytes than there are addresses, which for 2^64 of them is no restriction.
The argument is that a turn either finds the GPU, or leaves the address less the bases
passed, or, once that would be negative, an address behind the last GPU from which no turn
comes back. The theorems about `XgmiVram` put it to use for any machines that are `MachineOK`.

* `RenderLists` (`RenderListsSorted`): the invariant says of each DRM node done so far what
  is stored in it, and of the render nodes that their lists are in physical order. It needs
  that all cards come before them (`OrderInv`), since a list is sorted by what the cards
  have stored.
* `Routing`, `Failures` (`RoutedByHiveAddress`, `FailsForCause`): from these lists, that
  there is one physical order (`OneOrder`), and `WalkGoesHome`.

`RegAccessProofs`, for any threads, files, registers and split of the SMN address:

* `NotDisturbed` (`Undisturbed`): `OffsetKept` and the index registers are inductive only
  together with `Apart`, that what the clients keep apart when a call starts stays apart
  until it ends, and `StepInv`.
* `Implements`: `CallsAtomic`, step by step. A seek, and the writes that select, are
  stutters; the last access of a call is the step of `AtomicRegs`, with the value that the
  undisturbed offset and index name (`CurrentAccess`, `Selects`).

`RlsParserProofs`, for texts of any length, packets of any sizes and any nodes:

* `Tiles` and `Rejoined` are of `Pm4Packets`: the packets follow each other from the first
  dword to the last, none is cut off, and put together they are the array again.
* `Invariant`, `TypeCorrect`, `ReturnedInOrder` (`RunlistsInOrder`) and `PacketsAreTheWords`
  (`PacketsTile`). The two properties say nothing of a call under way, so neither is
  inductive. `Collected` says what is behind the cursor: runlists that are good and were
  all returned, in order, and no broken node line; `Looking` that a call for one node has
  met none yet; `Filling` that the buffer has the lines since the node line. `Stopped` says
  where calls end, and `StoppedAt` that this is the first node that has no runlist.

`RunlistSeriesProofs`, for series of any length: `HeapInv` gives the state of every block as
a function of how far the call, the catch clause and the destroyer are (`Allocated`,
`Released`); `ListInv` the pointers. From it come `SuccessOwns`, `Frees` and `FaultsLate`.
`FaultOnlyAfterLateThrow` alone is not inductive: that the second call of the catch clause
meets freed memory depends on which blocks the first one left.

`XlatorContextProofs`, for any sets of processes, pasids, page tables and VMIDs and any
number of changes: `ScanCorrect` (`ScanDecides`). The pasid that was read stays the
process's (`ProcInv`), and the base the scan compares with stays its table's (`BaseInv`). A
VMID has one of the tables it has had since its low word was read, and the low word is of one
of them (`HeldInv`); so a match with the process's own high word is the process's table, and
stays it until the VMID is lost (`ChosenInv`). No VMID behind the scan has had that table and
no other (`ScanInv`), and on the list the process is to come, found or gone (`ListInv`).
`PskfdIsClient` shows the steps
of `pskfd` to be steps of the same kernel, so the invariant holds of it too.

Also in `VramProofs` is `MemSpec`: any number of threads, each making any call at any
time, on a hive that `Fits` and GPUs outside it. `Touches` (`TouchesWhatItNames`) covers more calls than the
run, which checks a small set of them and those of `read_mem`. Its invariant says of each
call in flight that was not overlapped: the offset of its file is where the call left it,
and the cells touched so far are those it named (`Progress`); that another call's steps keep
this (`OthersProgress`) needs `Overlap`.

The last part of `VramProofs` is about `ReadMem`, for any request that is `RequestOK`, any
list, any `BufSize` up to `MaxCount` and any sizes of GPUs:

* `ReadUsesTheLibrary`: `ReadSpec` implies `MemSpec`, since `read_phys_addr` only ever asks
  for an address below the end of the address space and for at least one byte
  (`ChunkIsCall`). So `MemInv` holds of the command, with `Answers`, which says of an answered
  call what each single cell is, and where it came from.
* `OnlyMapped` (`PrintsOnlyMapped`). `And` is never above either side's bits (`AndType`), so
  the offset is inside the fragment however the mask came out, and the address and the size
  made of it stay in the fragment's memory (`InFragment`); `Copying` keeps that through the
  loop over the buffer, `OutInv` in what was printed.
* `RangePrinted` (`PrintsTheRange`). If a fragment's size is a power of two, the mask is the
  remainder (`AndRemainder`), and if it is aligned the `|` adds (`AndApart`): then the loop is
  in the fragment that has the address (`Walking`), of which there is one
  (`OneFragment`), and what is printed next is the cell the next address stands for
  (`PrintFacts`). `Exact` is the condition that all fragments are such.
* `ReadTypeCorrect` (`ReadTypeOK`): neither `left` nor `todo` goes below 0, which in the code
  would be an unsigned wrap-around.

All of it rests on the command having one thread, so that no call overlaps its own
(`OneThread`). `ReadInvariant` is the invariant of which these are parts.

`XlatorProofs`, for contexts, memories and calls of any size, tables of any depth with any
number of entries, and any order of fragments:

* `TypeCorrect`, from `Types` and `WalkInv`: the level passes 0 only after the descent.
* `Covers` (`CoversRequest`), where `SizesFit` and `StartFits`. A fragment ends where the
  next one starts because the cache still has the path of the last page walked (`Kept`:
  `Traces` says down to which level, `Ended` that the fragment has the size that goes with
  what is there), or the walk is past a level of which a table ends at the address (`Parted`).
  This needs that the sizes of the levels divide one another (`Finer`, `Larger`) and that the
  tables start at a multiple of the largest (`StartMultiple`). Powers are a recursive
  function, since the provers know nothing of `^`.
* `Agreement` (`AgreesWithTables`). What is in the cache is an entry of a memory (`Held`), so
  a walk through it follows the tables as the reference does (`Follows`, over `Way`), unless
  it meets a `SharedKey`; `LeafAgrees` is the step from the leaf to the fragment,
  `CombinedAgrees` what `Combine` keeps.
* `OnlyOnAlias` (`FailsOnlyOnAlias`): two neighbours that overlap have a physical page number
  in common (`OverlapAliases`), and both agree with the tables.

Only model-checked: the termination properties (`Terminates`, `CallReturns`, `ReadMemEnds`,
`PskfdEnds`), since liveness under fairness and ENABLED are outside what TLAPS proves here.
Every invariant and action property of the passing runs is also a theorem.
Recursive functions over data are proved about where a theorem needs them, by the least
counterexample (`LeastExists`) and after showing that the function exists (`Loop` in
`EnumerationProofs`, `TurnsUnfold` and `MasksExist` in `VramProofs`, `WayExists` and `PowersExist` in
`XlatorProofs`).

## Not modelled, and why

* The constructor of `DRMNode` (the search for its directories) is a constant: which of its
  files are there. Files of different handles that lead to one memory are told apart per
  call only; contents of memory and registers are compared nowhere across calls.
* `GetMQDs`, `GetHQDs`: nothing calls them. The text `GetRunlists` returns is the input of
  `RlsParser` and of `XlatorContext`.
* `PCIMMIOAccessor`: nothing constructs it. `SetGRBMBank`, `ApplyGRBMBank`: nothing calls
  them.
* File descriptor ownership, logging, status strings: no state a property looks at.
* The tools `va2pa`, `dumprls`, `cpc_scratch` and `rocsift_tools`: sequential clients that
  print what a few calls return.
* CLI11, spdlog, Catch2: third-party.

## Plan

1. Done: lifecycle with proofs, enumeration with the KFD topology and the discovery
   tables, XGMI routing, registers, packets, parser, series, translator in both memories,
   process resolution, memory accessors through the routing, `read_mem`, `pskfd`.
2. Done: proofs for lifecycle, enumeration with the XCC ids, XGMI routing, registers,
   parser and packets, series, translator, process resolution, memory accessors and
   `read_mem`.
3. Left: nothing of the safety properties; that the calls and the tools end stays with TLC.
