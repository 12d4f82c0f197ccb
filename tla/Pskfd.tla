------------------------------- MODULE Pskfd -------------------------------
(***************************************************************************)
(* The tool src/cmd/pskfd.cc, the other client of the process list: it     *)
(* prints the command line of every process listed, one after the other,   *)
(* while processes end and start.  The kernel, and the steps of            *)
(* sift_kfd_get_proc_list, are those of module XlatorContext; a behaviour  *)
(* has either pskfd or the address translation as its client.              *)
(***************************************************************************)
EXTENDS XlatorContext

VARIABLES
  ps,    \* "off", "list", "rows", "spin"; "printed", "failed" when it ended
  rows   \* listed processes not printed yet

pskfd == <<ps, rows>>

(* Page tables, queues and registers are nothing to pskfd: one state of    *)
(* each is enough.                                                         *)
Untouched ==
  /\ \A p \in Pids, g, h \in ToSet(Gpus) : table[p][g] = table[p][h]
  /\ \A g \in ToSet(Gpus) : active[g] = Pids
  /\ \A w \in Vmids : regs[w] = regs[FirstVmid]

PskfdInit == Init /\ rows = {} /\ (ps = "off" \/ (ps = "list" /\ Untouched))

Listing == ps = "list" /\ pc = "procs" /\ ListProcs /\ rows' = Running /\ UNCHANGED ps

Reading ==
  ps = "list" /\ (\E p \in Pids : CheckDir(p) \/ ReadPasid(p)) /\ UNCHANGED pskfd

(* sift_kfd_get_proc_list returns; pskfd has no use for the pasid of Asked. *)
Listed ==
  /\ ps = "list"
  /\ \/ pc = "nolist" /\ ps' = "failed"
     \/ pc = "pasids" /\ left = {} /\ ps' \in {"rows", "failed"}
  /\ UNCHANGED <<vars, rows>>

(* Mutant: the loop does not advance. *)
MutRest(p) == rows

Rest(p) == rows \ {p}

(* get_cmdline: a file that cannot be opened sets failbit and never eofbit, *)
(* and the loop reads until eof.                                            *)
PrintRow(p) ==
  /\ ps = "rows" /\ p \in rows
  /\ IF p \in Running THEN rows' = Rest(p) /\ UNCHANGED ps
                      ELSE ps' = "spin" /\ UNCHANGED rows
  /\ UNCHANGED vars

(* The list is freed and sift_destroy called. *)
Printed == ps = "rows" /\ rows = {} /\ ps' = "printed" /\ UNCHANGED <<vars, rows>>

PskfdStep == Listing \/ Reading \/ Listed \/ (\E p \in Pids : PrintRow(p)) \/ Printed

PskfdNext ==
  \/ ps = "off" /\ Next /\ UNCHANGED pskfd
  \/ ps # "off" /\ Processes /\ UNCHANGED pskfd
  \/ PskfdStep

(* The tool is one thread of a process that goes on running. *)
PskfdSpec ==
  PskfdInit /\ [][PskfdNext]_<<vars, pskfd>> /\ WF_<<vars, pskfd>>(PskfdStep)

-----------------------------------------------------------------------------
(* pskfd: it prints every process and ends, or reports an error, whatever  *)
(* processes start and end, but for one case: a listed process is gone     *)
(* when its command line is read (after its pasid was), and then the loop  *)
(* of get_cmdline goes on for ever.                                        *)
PskfdEnds ==
  ps = "list" ~> \/ ps \in {"printed", "failed"}
                 \/ ps = "spin" /\ (\E p \in rows : p \notin Running)
=============================================================================
