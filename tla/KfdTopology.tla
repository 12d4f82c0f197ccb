---------------------------- MODULE KfdTopology ----------------------------
(***************************************************************************)
(* What the library makes of one directory of the KFD topology             *)
(* (src/src/kfd/kfdnode.cc): the lines of its "properties" file, searched  *)
(* with one regular expression per field, and the device ids that the      *)
(* environment variable ROCSIFT_DEVID_OVERRIDE replaces.                   *)
(*                                                                         *)
(* A directory is [instance, readable, lines]: the number that is its      *)
(* name, whether its files may be read, and the lines [name, value] of     *)
(* "properties".  An entry of the variable is [fits, domain, bus, device,  *)
(* function, id]; fits: it has the form the library wants.                 *)
(***************************************************************************)
EXTENDS Integers, Sequences, SequencesExt

(* The fields of sift_kfd_node_properties_t by the names the driver prints *)
(* them under, in the order in which the expressions are tried.            *)
Fields ==
  << "cpu_cores_count", "simd_count", "mem_banks_count", "caches_count",
     "io_links_count", "p2p_links_count", "cpu_core_id_base", "simd_id_base",
     "max_waves_per_simd", "lds_size_in_kb", "gds_size_in_kb", "num_gws",
     "wave_front_size", "array_count", "simd_arrays_per_engine",
     "cu_per_simd_array", "simd_per_cu", "max_slots_scratch_cu",
     "gfx_target_version", "vendor_id", "device_id", "location_id", "domain",
     "drm_render_minor", "hive_id", "num_sdma_engines",
     "num_sdma_xgmi_engines", "num_sdma_queues_per_engine", "num_cp_queues",
     "max_engine_clk_fcompute", "local_mem_size", "fw_version", "capability",
     "debug_prop", "sdma_fw_version", "unique_id", "num_xcc",
     "max_engine_clk_ccompute" >>

Names == ToSet(Fields)

(* One name ends like another. *)
Parts(name) ==
  IF name = "sdma_fw_version" THEN <<"sdma_", "fw_version">> ELSE <<name>>

(* The expression of a field is not anchored, so it is found where a name  *)
(* ends like it.  The one of num_gws wants two blanks, and the driver      *)
(* prints one.                                                             *)
Finds(field, name) == field # "num_gws" /\ IsSuffix(Parts(field), Parts(name))

(* The field that a line with that name is stored in *)
FieldOf ==
  [name \in Names |->
     LET i == SelectInSeq(Fields, LAMBDA field : Finds(field, name))
     IN  IF i = 0 THEN "none" ELSE Fields[i]]

(* A line stores its value over the one an earlier line has stored. *)
Stored(props, l) ==
  IF FieldOf[l.name] = "none" THEN props ELSE [props EXCEPT ![FieldOf[l.name]] = l.value]

(* The properties after each line *)
Parses(lines) ==
  LET props[n \in 0..Len(lines)] ==
        IF n = 0 THEN [field \in Names |-> 0] ELSE Stored(props[n - 1], lines[n])
  IN  props

Parsed(lines) == Parses(lines)[Len(lines)]

(* Mutant: a device id is replaced in all functions of a device. *)
MutNames(entry, props) ==
  /\ entry.domain = props.domain
  /\ entry.bus = (props.location_id \div 256) % 256
  /\ entry.device = (props.location_id \div 8) % 32

(* the PCI address an entry gives is the node's *)
NamesNode(entry, props) ==
  /\ entry.domain = props.domain
  /\ entry.bus = (props.location_id \div 256) % 256
  /\ entry.device = (props.location_id \div 8) % 32
  /\ entry.function = props.location_id % 8

Override(props, entry) ==
  IF NamesNode(entry, props) THEN [props EXCEPT !.device_id = entry.id] ELSE props

(* The properties of a node after each entry *)
Overrides(props, entries) ==
  LET after[n \in 0..Len(entries)] ==
        IF n = 0 THEN props ELSE Override(after[n - 1], entries[n])
  IN  after

Overridden(props, entries) == Overrides(props, entries)[Len(entries)]

(* KFDNode::KFDNode, when it does not throw ... *)
KFDNode(dir, entries) ==
  [instance |-> dir.instance, props |-> Overridden(Parsed(dir.lines), entries)]

(* ... which it does for an entry without the form, for this node or not,  *)
(* and for a gpu_id that cannot be read: std::stoi wants a number.         *)
Refused(dir, entries) ==
  ~dir.readable \/ \E entry \in ToSet(entries) : ~entry.fits
=============================================================================
