------------------------ MODULE XlatorContextProofs ------------------------
(***************************************************************************)
(* Theorems of XlatorContext and of Pskfd, for any processes, GPUs, page   *)
(* tables and VMIDs, and any number of steps of the kernel and the         *)
(* firmware in between.                                                    *)
(***************************************************************************)
EXTENDS Pskfd, WellFoundedInduction, SequenceTheorems, TLAPS

(* Where the process has been found                                        *)
Found == pc \in {"rls", "lo", "hi", "create", "made", "walkhi", "walked"}

(* The pasid belongs to the process as long as that did not end.           *)
ProcInv ==
  /\ IsInjective(pasidOf)
  /\ \A g \in ToSet(Gpus) : active[g] \subseteq Running
  /\ Found => pasid # NoPasid
  /\ pasid # NoPasid /\ "exit" \notin disturbed =>
       Asked \in Running /\ pasidOf[Asked] = pasid

(* What is looked for, once the runlists were read                         *)
BaseInv ==
  Found /\ pc # "rls" /\ listed /\ "exit" \notin disturbed =>
    ptBase = table[Asked][Gpu]

(* A VMID has one of the tables it had since its low word was read, and    *)
(* the low word is of one of them.                                         *)
HeldInv ==
  /\ pc \in {"hi", "create", "made", "walkhi"} => regs[v] \in held[v]
  /\ pc = "hi" => \E b \in held[v] : low = b[1]
  /\ pc = "walked" => held[v] # {}

(* The VMID that was chosen has the page table until it is given another.  *)
ChosenInv ==
  "lost" \notin disturbed /\ (Steady \/ OwnWord(2)) =>
    /\ pc \in {"create", "made", "walkhi"} => regs[v] = ptBase
    /\ pc = "walkhi" => low = ptBase[1]
    /\ pc = "walked" => walked = ptBase

(* No VMID behind the scan had the page table and no other.                *)
ScanInv ==
  pc \in {"lo", "hi"} =>
    \A w \in Vmids : w < v => held[w] # {} /\ held[w] # {ptBase}

(* The process asked for is still to come, or was found, or was not there. *)
ListInv ==
  /\ pc \in {"pasids", "pasid"} =>
       /\ Pids \ Running \subseteq gone
       /\ Asked \in left \/ Asked \in dir \/ pasid # NoPasid \/ Asked \in gone
  /\ pc \in {"procs", "pasids"} => dir = {}
  /\ pc = "pasid" => \A p, q \in dir : p = q
  /\ ListKeeps

IInv == TypeOK /\ ProcInv /\ BaseInv /\ HeldInv /\ ChosenInv /\ ScanInv /\ ListInv

-----------------------------------------------------------------------------
(* A set of natural numbers that is not empty has a least one.             *)
LEMMA LeastExists ==
  ASSUME NEW S \in SUBSET Nat, S # {} PROVE \E i \in S : \A j \in S : i <= j
<1>1. PICK i \in S : \A j \in S : ~(<<j, i>> \in OpToRel(<, Nat))
  BY NatLessThanWellFounded, WFMin
<1>2. \A j \in S : ~(j < i)
  BY <1>1 DEF OpToRel
<1> QED
  BY <1>2

(* The runlist that is looked at is of one of the GPUs.                    *)
LEMMA ChosenGpu ==
  ASSUME Runlists # << >> PROVE Chosen \in ToSet(Gpus)
<1> DEFINE idle == {i \in DOMAIN Gpus : active[Gpus[i]] = {}}
           k == CHOOSE i \in idle : \A j \in idle : i <= j
<1>1. Gpus \in Seq(Nat) /\ DOMAIN Gpus = 1..Len(Gpus) /\ Len(Gpus) \in Nat
  BY ContextAssumption
<1>2. CASE Gpu \in ToSet(Runlists)
  BY <1>2, ContextAssumption DEF Chosen
<1>3. CASE Gpu \notin ToSet(Runlists) /\ idle = {}
  <2>1. Chosen = Gpus[Len(Gpus)] /\ Gpus # << >>
    BY <1>3 DEF Chosen, Runlists, Last
  <2> QED
    BY <1>1, <2>1 DEF ToSet
<1>4. CASE Gpu \notin ToSet(Runlists) /\ idle # {}
  <2>1. idle \in SUBSET Nat
    BY <1>1
  <2>2. \E i \in idle : \A j \in idle : i <= j
    BY <1>4, <2>1, LeastExists
  <2>3. k \in 1..Len(Gpus)
    BY <1>1, <2>2
  <2>4. Runlists = SubSeq(Gpus, 1, k - 1)
    BY <1>4 DEF Runlists
  <2> HIDE DEF k, idle
  <2>5. k - 1 \in Int /\ \A i \in 1..(k - 1) : Gpus[i] \in Nat
    BY <1>1, <2>3
  <2>6. /\ Len(Runlists) = IF 1 <= k - 1 THEN k - 1 ELSE 0
        /\ \A i \in 1..(k - 1) : Runlists[i] = Gpus[i]
    <3>1. /\ Len(SubSeq(Gpus, 1, k - 1)) = IF 1 <= k - 1 THEN (k - 1) - 1 + 1 ELSE 0
          /\ \A i \in 1..((k - 1) - 1 + 1) : SubSeq(Gpus, 1, k - 1)[i] = Gpus[1 + i - 1]
      BY <2>5, SubSeqProperties
    <3> QED
      BY <2>3, <2>4, <3>1
  <2>7. k - 1 >= 1
    BY <2>3, <2>4, <2>5, SubSeqEmpty
  <2>8. Last(Runlists) = Gpus[k - 1]
    BY <2>3, <2>6, <2>7 DEF Last
  <2> QED
    BY <1>1, <1>4, <2>3, <2>7, <2>8 DEF Chosen, ToSet
<1> QED
  BY <1>2, <1>3, <1>4

-----------------------------------------------------------------------------
(* An assignment to an element keeps an array in its type. *)
LEMMA AssignType ==
  ASSUME NEW S, NEW T, NEW f \in [S -> T], NEW a, NEW e \in T
  PROVE  [f EXCEPT ![a] = e] \in [S -> T]
OBVIOUS

LEMMA TypeStep == ASSUME IInv, [Next]_vars PROVE TypeOK'
<1> USE ContextAssumption DEF IInv, TypeOK, kernel, call, past
<1>1. CASE UNCHANGED vars
  BY <1>1 DEF vars, Running
<1>2. ASSUME NEW p \in Pids, Exit(p) PROVE TypeOK'
  <2>1. Running' = Running \ {p} /\ pasidOf' \in [Running' -> Pasids]
    BY <1>2 DEF Exit, Running
  <2>2. active' \in [ToSet(Gpus) -> SUBSET Pids]
    BY <1>2 DEF Exit
  <2>3. /\ changes' \in 0 .. MaxChanges /\ disturbed' \subseteq {"exit", "lost"}
        /\ gone' \subseteq Pids /\ UNCHANGED <<table, regs, call, held>>
    BY <1>2 DEF Exit, Change
  <2> QED
    BY <2>1, <2>2, <2>3
<1>3. ASSUME NEW p \in Pids, NEW id \in Pasids, NEW base \in Bases, Start(p, id, base)
      PROVE  TypeOK'
  <2>1. Running' = Running \union {p} /\ pasidOf' \in [Running' -> Pasids]
    BY <1>3 DEF Start, Running
  <2>2. active' \in [ToSet(Gpus) -> SUBSET Pids]
    BY <1>3 DEF Start
  <2>3. table' \in [Pids -> [ToSet(Gpus) -> Bases]]
    <3>1. [g \in ToSet(Gpus) |-> base] \in [ToSet(Gpus) -> Bases]
      OBVIOUS
    <3>2. table \in [Pids -> [ToSet(Gpus) -> Bases]]
      OBVIOUS
    <3>3. table' = [table EXCEPT ![p] = [g \in ToSet(Gpus) |-> base]]
      BY <1>3 DEF Start
    <3> HIDE DEF IInv, TypeOK
    <3> QED
      BY <3>1, <3>2, <3>3, AssignType
  <2>4. changes < MaxChanges /\ changes' = changes + 1 /\ UNCHANGED <<regs, call, past>>
    BY <1>3 DEF Start, Change
  <2>5. changes' \in 0 .. MaxChanges
    BY <2>4
  <2> QED
    BY <2>1, <2>2, <2>3, <2>4, <2>5
<1>4. ASSUME NEW w \in Vmids, NEW p \in Pids, Map(w, p) PROVE TypeOK'
  <2>1. regs' \in [Vmids -> Bases]
    <3>1. table[p][Gpu] \in Bases /\ regs \in [Vmids -> Bases]
      OBVIOUS
    <3>2. regs' = [regs EXCEPT ![w] = table[p][Gpu]]
      BY <1>4 DEF Map
    <3> HIDE DEF IInv, TypeOK
    <3> QED
      BY <3>1, <3>2, AssignType
  <2>2. /\ changes' \in 0 .. MaxChanges /\ disturbed' \subseteq {"exit", "lost"}
        /\ UNCHANGED <<pasidOf, table, active, call, gone>>
    BY <1>4 DEF Map, Change
  <2>3. held' \in [Vmids -> SUBSET Bases]
    <3> DEFINE H == IF held[w] = {} THEN {} ELSE held[w] \union {table[p][Gpu]}
    <3>1. H \in SUBSET Bases /\ held \in [Vmids -> SUBSET Bases]
      OBVIOUS
    <3>2. held' = [held EXCEPT ![w] = H]
      BY <1>4 DEF Map
    <3> HIDE DEF IInv, TypeOK, H
    <3> QED
      BY <3>1, <3>2, AssignType
  <2> QED
    BY <2>1, <2>2, <2>3 DEF Running
<1>5. ASSUME NEW p \in Pids, CheckDir(p) PROVE TypeOK'
  BY <1>5 DEF CheckDir, Running
<1>13. ASSUME NEW p \in Pids, ReadPasid(p) PROVE TypeOK'
  <2>1. PasidRead(p) \in Pasids \union {NoPasid} \/ p \notin Running
    BY DEF PasidRead
  <2> QED
    BY <1>13, <2>1 DEF ReadPasid, Running
<1>6. CASE ListProcs
  BY <1>6 DEF ListProcs, Running
<1>7. CASE FindProc
  BY <1>7 DEF FindProc, Fail, Running
<1>8. CASE ReadRunlists
  <2>1. CASE Fail
    BY <1>8, <2>1 DEF ReadRunlists, Fail, Running
  <2>2. CASE ~Fail
    <3>1. PICK p \in Packets : ptBase' = table[p][Chosen]
      BY <1>8, <2>2 DEF ReadRunlists
    <3>2. /\ pc' = "lo" /\ v' = 0 /\ listed' = (Gpu \in ToSet(Runlists))
          /\ UNCHANGED <<kernel, past, left, dir, pasid, low, walked>>
      BY <1>8, <2>2 DEF ReadRunlists, FirstVmid
    <3>3. 0 \in Vmids
      BY DEF Vmids
    <3>4. Runlists # << >> /\ p \in active[Chosen]
      BY <3>1 DEF Packets
    <3>5. Chosen \in ToSet(Gpus)
      BY <3>4, ChosenGpu
    <3>6. p \in Pids /\ table[p][Chosen] \in Bases
      BY <3>4, <3>5
    <3> QED
      BY <3>6, <3>1, <3>2, <3>3, (Gpu \in ToSet(Runlists)) \in BOOLEAN DEF Running
  <2> QED
    BY <2>1, <2>2
<1>9. CASE ReadLo
  <2>1. regs[v][1] \in Nat /\ {regs[v]} \in SUBSET Bases
    OBVIOUS
  <2>2. held' = [held EXCEPT ![v] = {regs[v]}] /\ held \in [Vmids -> SUBSET Bases]
    BY <1>9 DEF ReadLo
  <2>3. held' \in [Vmids -> SUBSET Bases]
    <3> HIDE DEF IInv, TypeOK
    <3> QED
      BY <2>1, <2>2, AssignType
  <2> QED
    BY <1>9, <2>1, <2>3 DEF ReadLo, Running
<1>10. CASE ReadHi
  <2>1. v' = v \/ (v + 1 < NumVmids /\ v' = v + 1)
    <3> HIDE DEF IInv, TypeOK, call, kernel
    <3> QED
      BY <1>10 DEF ReadHi, VmidsLeft
  <2>2. /\ pc' \in {"create", "lo", "failed"} /\ Running' = Running
        /\ UNCHANGED <<kernel, left, dir, pasid, ptBase, low, walked, listed, past>>
    BY <1>10 DEF ReadHi, Running
  <2>3. v' \in Vmids
    <3>1. v \in Vmids
      OBVIOUS
    <3> HIDE DEF IInv, TypeOK, call, kernel
    <3> QED
      BY <2>1, <3>1 DEF Vmids
  <2> QED
    BY <2>2, <2>3
<1>11. CASE ReadFails \/ Create
  BY <1>11 DEF ReadFails, Create, Fail, Running
<1>12. CASE WalkLo \/ WalkHi
  <2>1. regs[v][1] \in Nat /\ <<low, regs[v][2]>> \in Nat \X Nat
    OBVIOUS
  <2> QED
    BY <1>12, <2>1 DEF WalkLo, WalkHi, Running
<1> QED
  BY <1>1, <1>2, <1>3, <1>4, <1>5, <1>6, <1>7, <1>8, <1>9, <1>10, <1>11, <1>12, <1>13
  DEF Next, Processes

(* Only processes that end and start change what ProcInv says of them.     *)
LEMMA ProcStep == ASSUME IInv, [Next]_vars PROVE ProcInv'
<1> USE ContextAssumption DEF IInv, TypeOK, ProcInv, Found, IsInjective, kernel, call, past, NoPasid
<1>1. CASE UNCHANGED vars
  BY <1>1 DEF vars, Running
<1>2. ASSUME NEW p \in Pids, Exit(p) PROVE ProcInv'
  <2>1. Running' = Running \ {p} /\ \A q \in Running' : pasidOf'[q] = pasidOf[q]
    BY <1>2 DEF Exit, Running
  <2>2. \A g \in ToSet(Gpus) : active'[g] \subseteq Running'
    BY <1>2, <2>1 DEF Exit
  <2>3. IsInjective(pasidOf')
    BY <2>1 DEF Running
  <2>4. pasid # NoPasid /\ "exit" \notin disturbed' => p # Asked /\ "exit" \notin disturbed
    BY <1>2 DEF Exit
  <2> QED
    BY <1>2, <2>1, <2>2, <2>3, <2>4 DEF Exit
<1>3. ASSUME NEW p \in Pids, NEW id \in Pasids, NEW base \in Bases, Start(p, id, base)
      PROVE  ProcInv'
  <2>1. /\ Running' = Running \union {p} /\ pasidOf'[p] = id
        /\ \A q \in Running : pasidOf'[q] = pasidOf[q] /\ q # p
    BY <1>3 DEF Start, Running
  <2>2. \A g \in ToSet(Gpus) : active'[g] \subseteq Running'
    BY <1>3, <2>1 DEF Start
  <2>3. IsInjective(pasidOf')
    BY <1>3, <2>1 DEF Running, Start
  <2> QED
    BY <1>3, <2>1, <2>2, <2>3 DEF Start
<1>4. ASSUME NEW w \in Vmids, NEW p \in Pids, Map(w, p) PROVE ProcInv'
  BY <1>4 DEF Map, Running
<1>5. ASSUME NEW p \in Pids, CheckDir(p) \/ ReadPasid(p) PROVE ProcInv'
  BY <1>5 DEF CheckDir, ReadPasid, PasidRead, Running
<1>6. CASE ListProcs
  BY <1>6 DEF ListProcs, Running
<1>7. CASE FindProc
  BY <1>7 DEF FindProc, Fail, Running
<1>8. CASE ReadRunlists
  BY <1>8 DEF ReadRunlists, Fail, Running
<1>9. CASE ReadLo
  BY <1>9 DEF ReadLo, Running
<1>10. CASE ReadHi
  BY <1>10 DEF ReadHi, Running
<1>11. CASE ReadFails \/ Create
  BY <1>11 DEF ReadFails, Create, Fail, Running
<1>12. CASE WalkLo \/ WalkHi
  BY <1>12 DEF WalkLo, WalkHi, Running
<1> QED
  BY <1>1, <1>2, <1>3, <1>4, <1>5, <1>6, <1>7, <1>8, <1>9, <1>10, <1>11, <1>12
  DEF Next, Processes

(* The runlists have one process with the pasid, the one asked for, unless *)
(* that ended.                                                             *)
LEMMA OnePacket ==
  ASSUME IInv, pc = "rls", Gpu \in ToSet(Runlists), "exit" \notin disturbed,
         NEW p \in Packets
  PROVE  Chosen = Gpu /\ p = Asked
<1>1. Chosen = Gpu
  BY DEF Chosen
<1>2. p \in Running /\ pasidOf[p] = pasid
  BY <1>1, ContextAssumption DEF Packets, IInv, ProcInv
<1>3. Asked \in Running /\ pasidOf[Asked] = pasid
  BY DEF IInv, ProcInv, Found
<1> QED
  BY <1>1, <1>2, <1>3 DEF IInv, ProcInv, IsInjective, Running

LEMMA BaseStep == ASSUME IInv, [Next]_vars PROVE BaseInv'
<1> USE DEF BaseInv, Found, kernel, call, past
<1>1. CASE UNCHANGED vars
  BY <1>1 DEF vars, IInv
<1>2. ASSUME NEW p \in Pids, Exit(p) PROVE BaseInv'
  BY <1>2 DEF Exit, IInv
<1>3. ASSUME NEW p \in Pids, NEW id \in Pasids, NEW base \in Bases, Start(p, id, base)
      PROVE  BaseInv'
  <2>1. "exit" \notin disturbed /\ Found => p # Asked
    BY <1>3 DEF Start, IInv, ProcInv
  <2>2. "exit" \notin disturbed /\ Found => table'[Asked] = table[Asked]
    BY <1>3, <2>1, ContextAssumption DEF Start, IInv, TypeOK
  <2> QED
    BY <1>3, <2>2 DEF Start, IInv
<1>4. ASSUME NEW w \in Vmids, NEW p \in Pids, Map(w, p) PROVE BaseInv'
  BY <1>4 DEF Map, IInv
<1>5. ASSUME NEW p \in Pids, CheckDir(p) \/ ReadPasid(p) PROVE BaseInv'
  BY <1>5 DEF CheckDir, ReadPasid, IInv
<1>6. CASE ListProcs
  BY <1>6 DEF ListProcs, IInv
<1>7. CASE FindProc
  BY <1>7 DEF FindProc, Fail, IInv
<1>8. CASE ReadRunlists
  <2>1. CASE Fail
    BY <1>8, <2>1 DEF ReadRunlists, Fail, IInv
  <2>2. CASE ~Fail
    <3>1. PICK p \in Packets : ptBase' = table[p][Chosen]
      BY <1>8, <2>2 DEF ReadRunlists
    <3>2. pc = "rls" /\ pc' = "lo" /\ listed' = (Gpu \in ToSet(Runlists))
      BY <1>8, <2>2 DEF ReadRunlists
    <3>3. UNCHANGED <<table, disturbed>>
      BY <1>8 DEF ReadRunlists
    <3>4. listed' /\ "exit" \notin disturbed' => ptBase' = table'[Asked][Gpu]
      BY <3>1, <3>2, <3>3, OnePacket
    <3> QED
      BY <3>2, <3>4
  <2> QED
    BY <2>1, <2>2
<1>9. CASE ReadLo \/ ReadHi
  BY <1>9 DEF ReadLo, ReadHi, IInv
<1>10. CASE ReadFails \/ Create
  BY <1>10 DEF ReadFails, Create, Fail, IInv
<1>11. CASE WalkLo \/ WalkHi
  BY <1>11 DEF WalkLo, WalkHi, IInv
<1> QED
  BY <1>1, <1>2, <1>3, <1>4, <1>5, <1>6, <1>7, <1>8, <1>9, <1>10, <1>11
  DEF Next, Processes

-----------------------------------------------------------------------------
(* The tables a VMID had only grow in number while it is not read again.   *)
LEMMA HeldGrows ==
  ASSUME IInv, NEW w \in Vmids, NEW p \in Pids, Map(w, p), NEW u \in Vmids
  PROVE  /\ held[u] \subseteq held'[u]
         /\ held[u] = {} => held'[u] = {}
         /\ regs[u] \in held[u] => regs'[u] \in held'[u]
<1>1. /\ held' = [held EXCEPT ![w] = IF @ = {} THEN {} ELSE @ \union {table[p][Gpu]}]
      /\ regs' = [regs EXCEPT ![w] = table[p][Gpu]]
  BY DEF Map
<1>2. held \in [Vmids -> SUBSET Bases] /\ regs \in [Vmids -> Bases]
  BY DEF IInv, TypeOK
<1>3. CASE u = w
  <2>1. /\ held'[u] = IF held[u] = {} THEN {} ELSE held[u] \union {table[p][Gpu]}
        /\ regs'[u] = table[p][Gpu]
    BY <1>1, <1>2, <1>3
  <2> QED
    BY <2>1
<1>4. CASE u # w
  <2>1. held'[u] = held[u] /\ regs'[u] = regs[u]
    BY <1>1, <1>2, <1>4
  <2> QED
    BY <2>1
<1> QED
  BY <1>3, <1>4

(* A match is one of the page table when no other word came in between.    *)
LEMMA Match ==
  ASSUME IInv, pc = "hi", Matches, Steady \/ OwnWord(2)
  PROVE  regs[v] = ptBase
<1>1. regs[v] = <<regs[v][1], regs[v][2]>> /\ regs[v] \in Bases
  BY ContextAssumption DEF IInv, TypeOK
<1>2. ptBase = <<low, regs[v][2]>> /\ regs[v][2] = ptBase[2]
  BY DEF Matches
<1>3. regs[v] \in held[v] /\ \E b \in held[v] : low = b[1]
  BY DEF IInv, HeldInv
<1>4. CASE Steady
  BY <1>1, <1>2, <1>3, <1>4 DEF Steady
<1>5. CASE OwnWord(2)
  BY <1>2, <1>3, <1>5 DEF OwnWord
<1> QED
  BY <1>4, <1>5

(* A VMID that had the page table and no other matches. *)
LEMMA NoMatch ==
  ASSUME IInv, pc = "hi", ~Matches
  PROVE  held[v] # {} /\ held[v] # {ptBase}
<1>1. regs[v] = <<regs[v][1], regs[v][2]>>
  BY ContextAssumption DEF IInv, TypeOK
<1>2. regs[v] \in held[v] /\ \E b \in held[v] : low = b[1]
  BY DEF IInv, HeldInv
<1>3. held[v] = {ptBase} => regs[v] = ptBase /\ low = ptBase[1]
  BY <1>2
<1> QED
  BY <1>1, <1>2, <1>3 DEF Matches

LEMMA HeldStep == ASSUME IInv, [Next]_vars PROVE HeldInv'
<1> USE DEF HeldInv, kernel, call, past
<1>0. HeldInv /\ v \in Vmids
  BY DEF IInv, TypeOK
<1>1. CASE UNCHANGED vars
  BY <1>0, <1>1 DEF vars
<1>2. CASE Processes
  BY <1>0, <1>2 DEF Processes, Exit, Start
<1>3. ASSUME NEW w \in Vmids, NEW p \in Pids, Map(w, p) PROVE HeldInv'
  <2>1. UNCHANGED call
    BY <1>3 DEF Map
  <2>2. held[v] \subseteq held'[v] /\ (regs[v] \in held[v] => regs'[v] \in held'[v])
    BY <1>0, <1>3, HeldGrows
  <2> QED
    BY <1>0, <2>1, <2>2
<1>4. ASSUME NEW p \in Pids, CheckDir(p) \/ ReadPasid(p) PROVE HeldInv'
  BY <1>0, <1>4 DEF CheckDir, ReadPasid
<1>5. CASE ListProcs \/ FindProc \/ ReadRunlists
  BY <1>0, <1>5 DEF ListProcs, FindProc, ReadRunlists, Fail
<1>6. CASE ReadLo
  <2>1. held'[v'] = {regs[v]} /\ regs'[v'] = regs[v] /\ low' = regs[v][1] /\ pc' = "hi"
    BY <1>0, <1>6 DEF ReadLo, IInv, TypeOK
  <2> QED
    BY <2>1
<1>7. CASE ReadHi
  BY <1>0, <1>7 DEF ReadHi
<1>8. CASE ReadFails \/ Create
  BY <1>0, <1>8 DEF ReadFails, Create, Fail
<1>9. CASE WalkLo \/ WalkHi
  BY <1>0, <1>9 DEF WalkLo, WalkHi
<1> QED
  BY <1>1, <1>2, <1>3, <1>4, <1>5, <1>6, <1>7, <1>8, <1>9 DEF Next

LEMMA ChosenStep == ASSUME IInv, [Next]_vars PROVE ChosenInv'
<1> USE DEF kernel, call, past
<1>0. ChosenInv /\ v \in Vmids
  BY DEF IInv, TypeOK
<1>1. ASSUME UNCHANGED <<regs, pc, ptBase, v, low, walked, past>> PROVE ChosenInv'
  BY <1>0, <1>1 DEF ChosenInv, Steady, OwnWord
<1>2. ASSUME pc' \notin {"create", "made", "walkhi", "walked"} PROVE ChosenInv'
  BY <1>2 DEF ChosenInv
<1>3. CASE UNCHANGED vars
  BY <1>1, <1>3 DEF vars
<1>4. CASE Processes
  <2>1. "lost" \notin disturbed' => "lost" \notin disturbed
    BY <1>4 DEF Processes, Exit, Start
  <2>2. UNCHANGED <<regs, call, held>>
    BY <1>4 DEF Processes, Exit, Start
  <2> QED
    BY <1>0, <2>1, <2>2 DEF ChosenInv, Steady, OwnWord
<1>5. ASSUME NEW w \in Vmids, NEW p \in Pids, Map(w, p) PROVE ChosenInv'
  <2>1. UNCHANGED call
    BY <1>5 DEF Map
  <2>2. CASE pc \in {"create", "made", "walkhi", "walked"}
    <3>1. held[v] # {} /\ held[v] \subseteq held'[v]
      BY <1>0, <1>5, <2>2, HeldGrows DEF IInv, HeldInv
    <3>2. (Steady \/ OwnWord(2))' => Steady \/ OwnWord(2)
      <4>1. ASSUME Steady' PROVE Steady
        BY <2>1, <3>1, <4>1, ContextAssumption DEF Steady
      <4>2. ASSUME OwnWord(2)' PROVE OwnWord(2)
        BY <2>1, <3>1, <4>2 DEF OwnWord
      <4> QED
        BY <4>1, <4>2
    <3>3. "lost" \notin disturbed' => "lost" \notin disturbed
      BY <1>5 DEF Map
    <3>4. "lost" \notin disturbed' /\ pc # "walked" => regs'[v] = regs[v]
      BY <1>0, <1>5, <2>2 DEF Map, IInv, TypeOK
    <3> QED
      BY <1>0, <2>1, <3>2, <3>3, <3>4 DEF ChosenInv
  <2>3. CASE pc \notin {"create", "made", "walkhi", "walked"}
    BY <1>2, <2>1, <2>3
  <2> QED
    BY <2>2, <2>3
<1>6. ASSUME NEW p \in Pids, CheckDir(p) \/ ReadPasid(p) PROVE ChosenInv'
  BY <1>2, <1>6 DEF CheckDir, ReadPasid
<1>7. CASE ListProcs \/ FindProc \/ ReadRunlists \/ ReadLo \/ ReadFails
  BY <1>2, <1>7 DEF ListProcs, FindProc, ReadRunlists, ReadLo, ReadFails, Fail
<1>8. CASE ReadHi
  <2>1. CASE pc' = "create"
    <3>1. pc = "hi" /\ Matches /\ UNCHANGED <<regs, ptBase, v, held>>
      BY <1>8, <2>1 DEF ReadHi
    <3>2. (Steady \/ OwnWord(2))' <=> (Steady \/ OwnWord(2))
      BY <3>1 DEF Steady, OwnWord
    <3> QED
      BY <2>1, <3>1, <3>2, Match DEF ChosenInv
  <2>2. CASE pc' # "create"
    BY <1>2, <1>8, <2>2 DEF ReadHi
  <2> QED
    BY <2>1, <2>2
<1>9. CASE Create
  <2>1. CASE pc' = "made"
    BY <1>0, <1>9, <2>1 DEF Create, ChosenInv, Steady, OwnWord, Fail
  <2>2. CASE pc' # "made"
    BY <1>2, <1>9, <2>2 DEF Create, Fail
  <2> QED
    BY <2>1, <2>2
<1>10. CASE WalkLo \/ WalkHi
  <2>1. regs[v] = <<regs[v][1], regs[v][2]>>
    BY ContextAssumption DEF IInv, TypeOK
  <2>2. UNCHANGED <<regs, ptBase, v, held, disturbed>>
    BY <1>10 DEF WalkLo, WalkHi
  <2>3. (Steady \/ OwnWord(2))' <=> (Steady \/ OwnWord(2))
    BY <2>2 DEF Steady, OwnWord
  <2> QED
    BY <1>0, <1>10, <2>1, <2>2, <2>3 DEF WalkLo, WalkHi, ChosenInv
<1> QED
  BY <1>3, <1>4, <1>5, <1>6, <1>7, <1>8, <1>9, <1>10 DEF Next

LEMMA ScanStep == ASSUME IInv, [Next]_vars PROVE ScanInv'
<1> USE DEF ScanInv, kernel, call, past
<1>0. ScanInv /\ v \in Vmids
  BY DEF IInv, TypeOK
<1>1. CASE UNCHANGED vars
  BY <1>0, <1>1 DEF vars
<1>2. CASE Processes
  BY <1>0, <1>2 DEF Processes, Exit, Start
<1>3. ASSUME NEW w \in Vmids, NEW p \in Pids, Map(w, p) PROVE ScanInv'
  <2>1. UNCHANGED call
    BY <1>3 DEF Map
  <2>2. \A u \in Vmids : held[u] \subseteq held'[u] /\ (held[u] = {} => held'[u] = {})
    BY <1>3, HeldGrows
  <2>3. \A u \in Vmids : held[u] # {} /\ held[u] # {ptBase}
                         => held'[u] # {} /\ held'[u] # {ptBase}
    BY <2>2
  <2> QED
    BY <1>0, <2>1, <2>3
<1>4. ASSUME NEW p \in Pids, CheckDir(p) \/ ReadPasid(p) PROVE ScanInv'
  BY <1>0, <1>4 DEF CheckDir, ReadPasid
<1>5. CASE ListProcs \/ FindProc
  BY <1>0, <1>5 DEF ListProcs, FindProc, Fail
<1>6. CASE ReadRunlists
  BY <1>0, <1>6 DEF ReadRunlists, Fail, FirstVmid, Vmids
<1>7. CASE ReadLo
  <2>1. pc = "lo" /\ UNCHANGED <<v, ptBase>>
    BY <1>7 DEF ReadLo
  <2>2. \A w \in Vmids : w < v => held'[w] = held[w]
    BY <1>0, <1>7 DEF ReadLo, IInv, TypeOK, Vmids
  <2> QED
    BY <1>0, <2>1, <2>2
<1>8. CASE ReadHi
  <2>1. CASE pc' = "lo"
    <3>1. pc = "hi" /\ ~Matches /\ v' = v + 1 /\ UNCHANGED <<ptBase, held>>
      BY <1>8, <2>1 DEF ReadHi
    <3>2. held[v] # {} /\ held[v] # {ptBase}
      BY <3>1, NoMatch
    <3>3. \A w \in Vmids : w < v + 1 => w < v \/ w = v
      BY <1>0, ContextAssumption DEF Vmids
    <3> QED
      BY <1>0, <3>1, <3>2, <3>3
  <2>2. CASE pc' # "lo"
    BY <1>8, <2>2 DEF ReadHi
  <2> QED
    BY <2>1, <2>2
<1>9. CASE ReadFails \/ Create
  BY <1>0, <1>9 DEF ReadFails, Create, Fail
<1>10. CASE WalkLo \/ WalkHi
  BY <1>0, <1>10 DEF WalkLo, WalkHi
<1> QED
  BY <1>1, <1>2, <1>3, <1>4, <1>5, <1>6, <1>7, <1>8, <1>9, <1>10 DEF Next

LEMMA ListStep == ASSUME IInv, [Next]_vars PROVE ListInv'
<1> USE DEF ListInv, ListKeeps, kernel, call, past
<1>0. ListInv
  BY DEF IInv
<1>1. CASE UNCHANGED vars
  BY <1>0, <1>1 DEF vars, Running
<1>2. ASSUME NEW p \in Pids, Exit(p) PROVE ListInv'
  <2>1. Running' = Running \ {p}
    BY <1>2 DEF Exit, Running
  <2>2. UNCHANGED call
    BY <1>2 DEF Exit
  <2>3. gone' = IF pc \in {"pasids", "pasid"} THEN gone \union {p} ELSE gone
    BY <1>2 DEF Exit
  <2> QED
    BY <1>0, <2>1, <2>2, <2>3
<1>3. ASSUME NEW p \in Pids, NEW id \in Pasids, NEW base \in Bases, Start(p, id, base)
      PROVE  ListInv'
  <2>1. Running' = Running \union {p}
    BY <1>3 DEF Start, Running
  <2>2. UNCHANGED <<call, past>>
    BY <1>3 DEF Start
  <2> QED
    BY <1>0, <2>1, <2>2
<1>4. ASSUME NEW w \in Vmids, NEW p \in Pids, Map(w, p) PROVE ListInv'
  BY <1>0, <1>4 DEF Map, Running
<1>5. CASE ListProcs
  BY <1>0, <1>5, ContextAssumption DEF ListProcs, Running
<1>6. ASSUME NEW p \in Pids, CheckDir(p) PROVE ListInv'
  <2>1. Running' = Running /\ UNCHANGED <<pasid, past>>
    BY <1>6 DEF CheckDir, Running
  <2>2. pc = "pasids" /\ left' = left \ {p}
    BY <1>6 DEF CheckDir
  <2>3. CASE p \in Running
    <3>1. pc' = "pasid" /\ dir' = {p}
      BY <1>6, <2>3 DEF CheckDir
    <3> QED
      BY <1>0, <2>1, <2>2, <3>1
  <2>4. CASE p \notin Running
    <3>1. UNCHANGED <<pc, dir>> /\ p \in gone
      BY <1>0, <1>6, <2>2, <2>4 DEF CheckDir
    <3> QED
      BY <1>0, <2>1, <2>2, <3>1
  <2> QED
    BY <2>3, <2>4
<1>7. ASSUME NEW p \in Pids, ReadPasid(p) PROVE ListInv'
  <2>1. Running' = Running /\ UNCHANGED <<left, past>> /\ pc = "pasid" /\ p \in dir
    BY <1>7 DEF ReadPasid, Running
  <2>2. dir = {p}
    BY <2>1 DEF IInv, ListInv
  <2>3. CASE p \in Running
    <3>1. pc' = "pasids" /\ dir' = {} /\ pasid' = PasidRead(p)
      BY <1>7, <2>3 DEF ReadPasid
    <3>2. p = Asked => pasid' # NoPasid
      BY <2>3, <3>1, ContextAssumption DEF PasidRead, IInv, TypeOK, NoPasid
    <3>3. p # Asked => pasid' = pasid
      BY <3>1 DEF PasidRead
    <3> QED
      BY <1>0, <2>1, <2>2, <3>1, <3>2, <3>3
  <2>4. CASE p \notin Running
    <3>1. pc' = "nolist" /\ dir' = dir
      BY <1>7, <2>4 DEF ReadPasid
    <3> QED
      BY <1>0, <2>1, <2>4, <3>1
  <2> QED
    BY <2>3, <2>4
<1>8. CASE FindProc
  BY <1>0, <1>8, ContextAssumption DEF FindProc, Fail, Running
<1>9. CASE ReadRunlists \/ ReadLo \/ ReadHi
  BY <1>0, <1>9 DEF ReadRunlists, ReadLo, ReadHi, Fail, Running
<1>10. CASE ReadFails \/ Create
  BY <1>0, <1>10 DEF ReadFails, Create, Fail, Running
<1>11. CASE WalkLo \/ WalkHi
  BY <1>0, <1>11 DEF WalkLo, WalkHi, Running
<1> QED
  BY <1>1, <1>2, <1>3, <1>4, <1>5, <1>6, <1>7, <1>8, <1>9, <1>10, <1>11
  DEF Next, Processes

LEMMA InitInv == Init => IInv
<1> SUFFICES ASSUME Init PROVE IInv
  OBVIOUS
<1>1. Running = Pids /\ pasidOf \in [Pids -> Pasids] /\ IsInjective(pasidOf)
  BY DEF Init, Running
<1>2. table \in [Pids -> [ToSet(Gpus) -> Bases]]
  BY DEF Init
<1>3. TypeOK
  <2>1. /\ changes \in 0 .. MaxChanges /\ v \in Vmids /\ low \in Nat
        /\ active \in [ToSet(Gpus) -> SUBSET Pids] /\ regs \in [Vmids -> Bases]
    BY ContextAssumption DEF Init, Vmids
  <2>2. /\ pc = "procs" /\ left = {} /\ pasid = NoPasid /\ ptBase = NoBase
        /\ dir = {} /\ walked = NoBase /\ walked \in Nat \X Nat /\ listed = FALSE
        /\ disturbed = {} /\ gone = {} /\ held \in [Vmids -> SUBSET Bases]
    BY DEF Init, NoBase
  <2> QED
    BY <1>1, <1>2, <2>1, <2>2 DEF TypeOK
<1>4. ProcInv /\ BaseInv /\ HeldInv /\ ChosenInv /\ ScanInv /\ ListInv
  BY <1>1 DEF Init, ProcInv, BaseInv, HeldInv, ChosenInv, ScanInv, ListInv, ListKeeps, Found
<1> QED
  BY <1>3, <1>4 DEF IInv

(* What the call knows of the process, of its page table and of the VMIDs, *)
(* whatever the kernel and the firmware do in between                      *)
THEOREM Invariant == Spec => []IInv
<1>1. Init => IInv
  BY InitInv
<1>2. IInv /\ [Next]_vars => IInv'
  BY TypeStep, ProcStep, BaseStep, HeldStep, ChosenStep, ScanStep, ListStep DEF IInv
<1> QED
  BY <1>1, <1>2, PTL DEF Spec

(* The types of the kernel's tables, the registers and the call            *)
THEOREM TypeCorrect == Spec => []TypeOK
<1>1. IInv => TypeOK
  BY DEF IInv
<1> QED
  BY <1>1, Invariant, PTL

LEMMA Decides == IInv => ScanDecides
<1> SUFFICES ASSUME IInv PROVE ScanDecides
  OBVIOUS
<1>1. WalksItsProcess
  BY DEF IInv, BaseInv, ChosenInv, Found, WalksItsProcess
<1>2. NoPhantom
  <2> SUFFICES ASSUME pc = "hi", Matches, Steady \/ OwnWord(1) \/ OwnWord(2)
               PROVE  ptBase \in held[v]
    BY DEF NoPhantom
  <2>1. regs[v] \in held[v]
    BY DEF IInv, HeldInv
  <2>2. CASE Steady \/ OwnWord(2)
    BY <2>1, <2>2, Match
  <2>3. CASE OwnWord(1)
    <3>1. PICK b \in held[v] : low = b[1]
      BY DEF IInv, HeldInv
    <3>2. ptBase[1] = low
      BY DEF Matches
    <3> QED
      BY <2>3, <3>1, <3>2 DEF OwnWord
  <2> QED
    BY <2>2, <2>3
<1>3. OverlooksNone
  <2> SUFFICES ASSUME pc = "hi", ~Matches, NEW w \in 0 .. v PROVE held[w] # {ptBase}
    BY DEF OverlooksNone, Overlooks
  <2>1. v \in Vmids /\ NumVmids \in Nat
    BY ContextAssumption DEF IInv, TypeOK
  <2>2. w \in Vmids /\ (w < v \/ w = v)
    BY <2>1 DEF Vmids
  <2>3. w < v => held[w] # {ptBase}
    BY <2>2 DEF IInv, ScanInv
  <2> QED
    BY <2>2, <2>3, NoMatch
<1>4. ListKeeps
  BY DEF IInv, ListInv
<1> QED
  BY <1>1, <1>2, <1>3, <1>4 DEF ScanDecides

(* The scan of the VMIDs and the list of the processes, whatever goes on   *)
(* meanwhile: a translation walks the page table of its process unless     *)
(* that ended or lost its VMID, also when VMIDs were remapped between the  *)
(* two words of the match; no VMID is taken for one it never was; the one  *)
(* that has the page table throughout is not passed; a process that runs   *)
(* throughout is listed.                                                   *)
THEOREM ScanCorrect == Spec => []ScanDecides
BY Invariant, Decides, PTL

(* pskfd adds no steps to those of the kernel and of                       *)
(* sift_kfd_get_proc_list: it only sees them, so all of the above holds of *)
(* a process list that pskfd reads.                                        *)
THEOREM PskfdIsClient == PskfdSpec => Spec
<1>1. PskfdInit => Init
  BY DEF PskfdInit
<1>2. [PskfdNext]_<<vars, pskfd>> => [Next]_vars
  <2>1. PskfdNext => Next \/ UNCHANGED vars
    BY DEF PskfdNext, PskfdStep, Listing, Reading, Listed, PrintRow, Printed, Next
  <2> QED
    BY <2>1
<1> QED
  BY <1>1, <1>2, PTL DEF PskfdSpec, Spec

(* The same, of the behaviours that have either client                     *)
COROLLARY PskfdScanCorrect == PskfdSpec => [](TypeOK /\ ScanDecides)
BY PskfdIsClient, TypeCorrect, ScanCorrect, PTL
=============================================================================
