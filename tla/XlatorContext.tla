---------------------------- MODULE XlatorContext ----------------------------
(***************************************************************************)
(* From a process to the page tables it runs on: create_for_process,       *)
(* pt_base_from_pasid and vmid_from_pt_base of src/src/xlator/xlator.c,    *)
(* with the process list and the runlists they read through                *)
(* src/src/kfd/kfdcapi.cc.                                                 *)
(*                                                                         *)
(* The call lists the processes and reads the pasid of one after the       *)
(* other, then the runlists, then two registers of one VMID after the      *)
(* other, and every later translation reads the registers of the VMID it   *)
(* settled on.  None of the reads excludes the kernel and the scheduler    *)
(* firmware, which go on meanwhile.  Three history variables (gone, held,  *)
(* disturbed) record what they did, for the properties to speak of.        *)
(***************************************************************************)
EXTENDS Integers, Sequences, FiniteSets, SequencesExt

CONSTANTS
  Pids,        \* process ids, numbers: the order of processes in a runlist
  Asked,       \* the process to translate for
  Gpus,        \* the GPUs in the order in which the kernel prints runlists
  Gpu,         \* the GPU of the partition
  Pasids,      \* process address space ids
  Bases,       \* page table base addresses: pairs of their low and high word
  NumVmids,    \* VMIDs of a GPU: 16
  MaxChanges   \* bound on the steps of the kernel and the firmware

ASSUME ContextAssumption ==
  /\ Pids \subseteq Nat /\ Asked \in Pids /\ 0 \notin Pasids
  /\ Gpus \in Seq(Nat) /\ Gpu \in ToSet(Gpus)
  /\ Bases \subseteq Nat \X Nat
  /\ NumVmids \in Nat \ {0} /\ MaxChanges \in Nat

VARIABLES
  pasidOf,    \* the processes that run, and their pasids
  table,      \* the page table of each process on each GPU
  active,     \* the processes with queues, on each GPU
  regs,       \* VM_CONTEXTn_PAGE_TABLE_BASE_ADDR_LO32/HI32 of Gpu
  changes,    \* steps of the environment so far
  pc,         \* "procs", "pasids", "pasid", "rls", "lo", "hi", "create",
              \* "made", "walkhi", "walked"; "nolist", "noproc", "failed":
              \* -1 is returned
  left,       \* listed processes still to be looked at
  dir,        \* the one whose directory was found, its pasid to be read
  pasid,      \* the pasid of Asked, once it is read
  ptBase,     \* what the runlists said
  v,          \* the VMID the scan is at; the one chosen, after it
  low,        \* its pt_base_lo, page_table_base_addr_lo
  walked,     \* the page table the translation used
  listed,     \* the runlists had one of Gpu
  gone,       \* history: did not run all the time since the list was begun
  held,       \* history: the tables of a VMID since its low word was read
  disturbed   \* history: "exit", Asked ended after its pasid was read;
              \* "lost", the chosen VMID was given another page table

kernel == <<pasidOf, table, active, regs, changes>>
call   == <<pc, left, dir, pasid, ptBase, v, low, walked, listed>>
past   == <<gone, held, disturbed>>
vars   == <<kernel, call, past>>

Vmids   == 0 .. NumVmids - 1
Running == DOMAIN pasidOf
NoBase  == <<0, 0>>
NoPasid == 0

InUse(g) == {table[p][g] : p \in Running}

Init ==
  /\ pasidOf \in {f \in [Pids -> Pasids] : IsInjective(f)}
  /\ table \in {t \in [Pids -> [ToSet(Gpus) -> Bases]] :
                  \A p, q \in Pids : p # q => \A g \in ToSet(Gpus) : t[p][g] # t[q][g]}
  /\ active \in [ToSet(Gpus) -> SUBSET Pids]
  /\ regs \in [Vmids -> Bases]
  /\ changes = 0
  /\ pc = "procs"
  /\ left = {}
  /\ dir = {}
  /\ pasid = NoPasid
  /\ ptBase = NoBase
  /\ v = 0
  /\ low = 0
  /\ walked = NoBase
  /\ listed = FALSE
  /\ gone = {}
  /\ held = [w \in Vmids |-> {}]
  /\ disturbed = {}

-----------------------------------------------------------------------------
(* The kernel and the firmware. *)
Change == changes < MaxChanges /\ changes' = changes + 1

(* A process ends: no runlist has it any more.  Registers keep its table.  *)
Exit(p) ==
  /\ Change
  /\ p \in Running
  /\ pasidOf' = [q \in Running \ {p} |-> pasidOf[q]]
  /\ active' = [g \in ToSet(Gpus) |-> active[g] \ {p}]
  /\ disturbed' = IF p = Asked /\ pasid # NoPasid
                  THEN disturbed \union {"exit"} ELSE disturbed
  /\ gone' = IF pc \in {"pasids", "pasid"} THEN gone \union {p} ELSE gone
  /\ UNCHANGED <<table, regs, call, held>>

(* A process starts with a pasid and page tables that are free, and with   *)
(* queues on every GPU.                                                    *)
Start(p, id, base) ==
  /\ Change
  /\ p \notin Running
  /\ id \notin {pasidOf[q] : q \in Running}
  /\ \A g \in ToSet(Gpus) : base \notin InUse(g)
  /\ pasidOf' = [q \in Running \union {p} |-> IF q = p THEN id ELSE pasidOf[q]]
  /\ table' = [table EXCEPT ![p] = [g \in ToSet(Gpus) |-> base]]
  /\ active' = [g \in ToSet(Gpus) |-> active[g] \union {p}]
  /\ UNCHANGED <<regs, call, past>>

(* The firmware gives VMID w to a process on Gpu. *)
Map(w, p) ==
  /\ Change
  /\ p \in active[Gpu]
  /\ regs' = [regs EXCEPT ![w] = table[p][Gpu]]
  /\ held' = [held EXCEPT ![w] = IF @ = {} THEN {} ELSE @ \union {table[p][Gpu]}]
  /\ disturbed' = IF w = v /\ pc \in {"create", "made", "walkhi"} /\ regs' # regs
                  THEN disturbed \union {"lost"} ELSE disturbed
  /\ UNCHANGED <<pasidOf, table, active, call, gone>>

-----------------------------------------------------------------------------
Fail == pc' = "failed" /\ UNCHANGED <<left, dir, pasid, ptBase, v, low, walked, listed>>

(* KFDHandle::Processes begins: the directory of the processes is listed.  *)
ListProcs ==
  /\ pc = "procs"
  /\ pc' = "pasids"
  /\ left' = Running
  /\ gone' = Pids \ Running
  /\ UNCHANGED <<kernel, dir, pasid, ptBase, v, low, walked, listed, held, disturbed>>

(* The next process listed: skipped when its directory is not there now.   *)
CheckDir(p) ==
  /\ pc = "pasids" /\ p \in left
  /\ left' = left \ {p}
  /\ IF p \in Running
     THEN pc' = "pasid" /\ dir' = {p}
     ELSE UNCHANGED <<pc, dir>>
  /\ UNCHANGED <<kernel, pasid, ptBase, v, low, walked, listed, past>>

(* create_for_process keeps one of the pasids that are read. *)
PasidRead(p) == IF p = Asked THEN pasidOf[p] ELSE pasid

(* The constructor of KFDProc: the file of a process that ended meanwhile  *)
(* reads as nothing, and stoi throws out of the whole list.                *)
ReadPasid(p) ==
  /\ pc = "pasid" /\ p \in dir
  /\ IF p \in Running
     THEN pc' = "pasids" /\ dir' = {} /\ pasid' = PasidRead(p)
     ELSE pc' = "nolist" /\ UNCHANGED <<dir, pasid>>
  /\ UNCHANGED <<kernel, left, ptBase, v, low, walked, listed, past>>

(* The list is complete: the search for the process, and for the GPU.  The *)
(* list or the node may also not be had.                                   *)
FindProc ==
  /\ pc = "pasids" /\ left = {}
  /\ \/ Fail
     \/ /\ pc' = IF pasid = NoPasid THEN "noproc" ELSE "rls"
        /\ UNCHANGED <<left, dir, pasid, ptBase, v, low, walked, listed>>
  /\ UNCHANGED <<kernel, past>>

(* The series sift_kfd_get_runlists makes: a GPU without queues has no     *)
(* data, and ends it (module RlsParser).                                   *)
Runlists ==
  LET idle == {i \in DOMAIN Gpus : active[Gpus[i]] = {}}
  IN  IF idle = {} THEN Gpus
      ELSE SubSeq(Gpus, 1, (CHOOSE i \in idle : \A j \in idle : i <= j) - 1)

(* Mutant: the first runlist is taken whatever its GPU. *)
MutChosen == IF Gpu \in ToSet(Runlists) THEN Runlists[1] ELSE Last(Runlists)

(* The loop over the series ends at the runlist of Gpu, or with the last.  *)
Chosen == IF Gpu \in ToSet(Runlists) THEN Gpu ELSE Last(Runlists)

(* the MAP_PROCESS packets of the chosen runlist with the pasid *)
Packets ==
  IF Runlists = << >> THEN {} ELSE {p \in active[Chosen] : pasidOf[p] = pasid}

FirstVmid == 0

(* sift_xlator_pt_base_from_pasid, and the start of the scan; the file may *)
(* be missing, or not parse.                                               *)
ReadRunlists ==
  /\ pc = "rls"
  /\ \/ Fail
     \/ /\ \E p \in Packets : ptBase' = table[p][Chosen]
        /\ pc' = "lo"
        /\ v' = FirstVmid
        /\ listed' = (Gpu \in ToSet(Runlists))
        /\ UNCHANGED <<left, dir, pasid, low, walked>>
  /\ UNCHANGED <<kernel, past>>

(* sift_xlator_vmid_from_pt_base: the low word of one VMID *)
ReadLo ==
  /\ pc = "lo"
  /\ pc' = "hi"
  /\ low' = regs[v][1]
  /\ held' = [held EXCEPT ![v] = {regs[v]}]
  /\ UNCHANGED <<kernel, left, dir, pasid, ptBase, v, walked, listed, gone, disturbed>>

(* Mutant: only the high words are compared. *)
MutMatches == regs[v][2] = ptBase[2]

Matches == <<low, regs[v][2]>> = ptBase

(* Mutant: the scan goes one VMID too far. *)
MutVmidsLeft == v < NumVmids

VmidsLeft == v + 1 < NumVmids

(* ... then its high word: found, next VMID, or none left *)
ReadHi ==
  /\ pc = "hi"
  /\ \/ /\ Matches
        /\ pc' = "create"
        /\ UNCHANGED v
     \/ /\ ~Matches /\ VmidsLeft
        /\ pc' = "lo"
        /\ v' = v + 1
     \/ /\ ~Matches /\ ~VmidsLeft
        /\ pc' = "failed"
        /\ UNCHANGED v
  /\ UNCHANGED <<kernel, left, dir, pasid, ptBase, low, walked, listed, past>>

(* a register that cannot be read, in the scan or in a translation *)
ReadFails ==
  /\ pc \in {"lo", "hi", "made", "walkhi"}
  /\ Fail
  /\ UNCHANGED <<kernel, past>>

(* sift_xlator_create: the addresses of the registers of VMID v *)
Create ==
  /\ pc = "create"
  /\ \/ pc' = "made" /\ UNCHANGED <<left, dir, pasid, ptBase, v, low, walked, listed>>
     \/ Fail
  /\ UNCHANGED <<kernel, past>>

(* populate_walk_helper, at a later translation: the low word ... *)
WalkLo ==
  /\ pc = "made"
  /\ pc' = "walkhi"
  /\ low' = regs[v][1]
  /\ UNCHANGED <<kernel, left, dir, pasid, ptBase, v, walked, listed, past>>

(* ... and the high word of the table that is walked *)
WalkHi ==
  /\ pc = "walkhi"
  /\ pc' = "walked"
  /\ walked' = <<low, regs[v][2]>>
  /\ UNCHANGED <<kernel, left, dir, pasid, ptBase, v, low, listed, past>>

(* processes that end and start *)
Processes ==
  \/ \E p \in Pids : Exit(p)
  \/ \E p \in Pids, id \in Pasids, base \in Bases : Start(p, id, base)

Next ==
  \/ Processes
  \/ \E w \in Vmids, p \in Pids : Map(w, p)
  \/ \E p \in Pids : CheckDir(p) \/ ReadPasid(p)
  \/ ListProcs \/ FindProc \/ ReadRunlists \/ ReadLo \/ ReadHi \/ ReadFails
  \/ Create \/ WalkLo \/ WalkHi

Spec == Init /\ [][Next]_vars

-----------------------------------------------------------------------------
TypeOK ==
  /\ Running \subseteq Pids /\ pasidOf \in [Running -> Pasids]
  /\ table \in [Pids -> [ToSet(Gpus) -> Bases]]
  /\ active \in [ToSet(Gpus) -> SUBSET Pids]
  /\ regs \in [Vmids -> Bases]
  /\ changes \in 0 .. MaxChanges
  /\ pc \in {"procs", "pasids", "pasid", "rls", "lo", "hi", "create", "made", "walkhi",
             "walked", "nolist", "noproc", "failed"}
  /\ left \subseteq Pids /\ dir \subseteq Pids
  /\ pasid \in Pasids \union {NoPasid}
  /\ ptBase \in Bases \union {NoBase} /\ walked \in Nat \X Nat
  /\ v \in Vmids /\ low \in Nat
  /\ listed \in BOOLEAN
  /\ gone \subseteq Pids
  /\ held \in [Vmids -> SUBSET Bases]
  /\ disturbed \subseteq {"exit", "lost"}

(* VMID v kept one page table since its low word was read.                 *)
Steady == \E b \in Bases : held[v] = {b}

(* Among the tables VMID v had since then, only the one looked for has     *)
(* that low (1) or high (2) word.                                          *)
OwnWord(i) == \A b \in held[v] : b[i] = ptBase[i] => b = ptBase

(* A translation walks the page table of the process that was asked for    *)
(* (the runlists had the GPU, the process did not end, the chosen VMID was *)
(* not given away since).  A remapping between the two words of the match  *)
(* does not change that, nor does one that brings another table with the   *)
(* same low word: the high word is read last.  Only a table with the same  *)
(* high word that came or went just then is excepted.                      *)
WalksItsProcess ==
  pc = "walked" /\ listed /\ disturbed = {} /\ (Steady \/ OwnWord(2)) =>
    walked = table[Asked][Gpu]

(* A VMID that never had the page table is not taken for the one that has  *)
(* it, though it may be remapped between the two words: the halves match   *)
(* by chance only when it had one table with the same low word and another *)
(* with the same high word.                                                *)
NoPhantom ==
  pc = "hi" /\ Matches /\ (Steady \/ OwnWord(1) \/ OwnWord(2)) => ptBase \in held[v]

(* The scan passes no VMID that has the page table and has had it ever     *)
(* since its own turn, whatever happens to the others.                     *)
Overlooks == \E w \in 0 .. v : held[w] = {ptBase}
OverlooksNone == pc = "hi" /\ ~Matches => ~Overlooks

(* A process is missing on the list, and the list fails for one, only when *)
(* that process did not run all the time.                                  *)
ListKeeps ==
  /\ pc = "noproc" => Asked \in gone
  /\ pc = "nolist" => \E p \in dir : p \in gone

(* The list and the scan find the process, and the VMID that has its page  *)
(* table and no other, while processes come and go and VMIDs are remapped. *)
ScanDecides == WalksItsProcess /\ NoPhantom /\ OverlooksNone /\ ListKeeps
=============================================================================
