--------------------------- MODULE MCEnumeration ---------------------------
(* Instances of Enumeration for TLC: topologies over small sets of node    *)
(* kinds, tables, and what may be missing.                                 *)
EXTENDS Enumeration

Gpu(b, x) == [gpu |-> TRUE, at |-> b, xcc |-> x]
Cpu == [gpu |-> FALSE, at |-> 0, xcc |-> 0]

(* Where the driver puts the number of a partition: nowhere, into the      *)
(* function bits, or into the highest bits.                                *)
Partition(style, i) ==
  CASE style = "plain" -> 0 [] style = "function" -> i - 1 [] style = "high" -> (2^28) * (i - 1)

Domain(b)   == IF b = 3 THEN 1 ELSE 0
Location(b) == IF b = 3 THEN 8 ELSE 256 * b + 24
Home(b)     == 65536 * Domain(b) + Location(b)

Line(name, value) == [name |-> name, value |-> value]

Dir(i, k, style) ==
  [instance |-> i, readable |-> TRUE,
   lines |->
     IF ~k.gpu THEN <<Line("cpu_cores_count", 8), Line("simd_count", 0), Line("domain", 0)>>
     ELSE <<Line("cpu_cores_count", 0), Line("simd_count", 4), Line("num_gws", 64),
            Line("device_id", 70 + k.at),
            Line("location_id", Location(k.at) + Partition(style, i)),
            Line("domain", Domain(k.at)), Line("drm_render_minor", 128 + k.at),
            Line("fw_version", 5), Line("sdma_fw_version", 6), Line("num_xcc", k.xcc)>>]

Bs == 1..3

(* kinds: a sequence of nodes; order: how they are listed; tabs: by device *)
Machine(kinds, order, style, tabs) ==
  [listing |-> [i \in DOMAIN kinds |-> Dir(order[i], kinds[order[i]], style)],
   override |-> << >>,
   tables |-> [a \in {Home(b) : b \in {x \in Bs : tabs[x] # NoTable}} |->
                 tabs[CHOOSE b \in Bs : Home(b) = a]],
   minors |-> {128 + b : b \in Bs}, debugfs |-> {Home(b) : b \in Bs}, root |-> TRUE]

NoTables == [b \in Bs |-> NoTable]
Tables(tabs) == {[NoTables EXCEPT ![1] = t, ![2] = u] : t, u \in tabs}

(* Five nodes over three addresses in any order, CPUs between them.        *)
IdMachines ==
  {Machine(kinds, order, "plain", NoTables) :
     kinds \in [1..5 -> {Cpu} \union {Gpu(b, 1) : b \in Bs}],
     order \in {<<1, 2, 3, 4, 5>>, <<4, 2, 5, 1, 3>>}}

Xcc(n, h)  == [num |-> n, harvest |-> h, fault |-> "SUCCESS"]
Die(n, gc) == [id |-> n, fault |-> "SUCCESS", blocks |-> [GC |-> gc]]

(* Two devices, nodes of 0 to 2 XCCs, tables with harvested XCCs, listed   *)
(* out of order, two dies and an XCC missing from the count.               *)
XccTables == {NoTable,
              <<Die(0, <<Xcc(1, FALSE), Xcc(0, FALSE), Xcc(2, FALSE)>>)>>,
              <<Die(1, <<Xcc(0, FALSE), Xcc(1, FALSE)>>), Die(0, <<Xcc(1, TRUE), Xcc(0, FALSE)>>)>>,
              <<Die(0, <<Xcc(0, TRUE)>>), Die(2, <<Xcc(3, FALSE)>>), Die(1, << >>)>>,
              <<Die(0, <<Xcc(4, FALSE), Xcc(2, FALSE), Xcc(5, FALSE), Xcc(1, FALSE),
                         Xcc(3, FALSE), Xcc(0, FALSE)>>)>>}
XccMachines ==
  {Machine(kinds, <<2, 3, 1>>, "plain", tabs) :
     kinds \in [1..3 -> {Gpu(b, x) : b \in 1..2, x \in 0..2}], tabs \in Tables(XccTables)}

(* Partitions that the driver numbers, some of whose function has a table; *)
(* device ids replaced for some functions, domains or nobody.              *)
Entry(b, f, d, id) ==
  [fits |-> TRUE, domain |-> Domain(b) + d, bus |-> b % 3, device |-> IF b = 3 THEN 1 ELSE 3,
   function |-> f, id |-> id]
Entries == {Entry(1, 0, 0, 91), Entry(1, 1, 0, 92), Entry(1, 1, 0, 93), Entry(2, 0, 1, 94),
            Entry(3, 2, 0, 95), [Entry(2, 0, 0, 96) EXCEPT !.fits = FALSE]}
StyleMachines ==
  {[Machine(kinds, <<3, 1, 2>>, style, [NoTables EXCEPT ![1] = <<Die(0, <<Xcc(1, FALSE), Xcc(0, FALSE)>>)>>])
      EXCEPT !.override = entries] :
     kinds \in [1..3 -> {Gpu(1, 1), Gpu(1, 2), Gpu(3, 1)}],
     style \in {"plain", "function", "high"},
     entries \in {<< >>} \union {<<e>> : e \in Entries} \union {<<e, f>> : e, f \in Entries}}

(* Everything that can go wrong: nodes, tables, render nodes and debugfs   *)
(* directories that are missing or cannot be read.                         *)
Faulty(t, f, g) ==
  [t EXCEPT ![1].fault = f, ![1].blocks["GC"][1].fault = g]
FailTables ==
  LET good == <<Die(0, <<Xcc(0, FALSE), Xcc(1, FALSE)>>)>>
      bare == [id |-> 1, fault |-> "SUCCESS", blocks |-> [MP0 |-> <<[Xcc(0, FALSE) EXCEPT !.fault = "OUT_OF_RANGE"]>>]]
  IN  {NoTable, good, good \o <<[bare EXCEPT !.blocks = << >>]>>, good \o <<bare>>,
       Faulty(good, "ERROR", "OUT_OF_RANGE"), Faulty(good, "SUCCESS", "OUT_OF_RANGE")}
FailMachines ==
  {[Machine(kinds, <<1, 2, 3>>, "plain", [NoTables EXCEPT ![1] = t])
      EXCEPT !.minors = ms, !.debugfs = ds, !.root = root] :
     kinds \in [1..3 -> {Cpu, Gpu(1, 1), Gpu(1, 2), Gpu(2, 1)}], t \in FailTables,
     ms \in {{129}, {129, 130}}, ds \in {{Home(2)}, {Home(1), Home(2)}}, root \in BOOLEAN}
  \union
  {[x EXCEPT !.listing[2].readable = FALSE] :
     x \in {Machine(<<Gpu(1, 1), Cpu, Gpu(b, 1)>>, <<3, 1, 2>>, "plain", NoTables) : b \in Bs}}
  \union
  {[Machine(<<Cpu>>, <<1>>, "plain", NoTables) EXCEPT !.listing = NoTopology]}

MCMachines == IdMachines \union XccMachines \union StyleMachines \union FailMachines
=============================================================================
