------------------------------ MODULE MCXlator ------------------------------
(* Instances of Xlator: page tables of a few pages.                        *)
EXTENDS Xlator

Pte(v, sys, page, p) ==
  [NoEntry EXCEPT !.valid = v, !.system = sys, !.base = page, !.perm = p]
(* fb is the context's fb_offset *)
Pde(sys, page, log, fb) ==
  [NoEntry EXCEPT !.valid = TRUE, !.system = sys, !.bfs = log,
                  !.base = IF sys THEN page ELSE page + fb]
Huge(page) == [Pte(TRUE, FALSE, page, "rw") EXCEPT !.pte = TRUE]
Block(page) == [Pte(TRUE, FALSE, page, "rw") EXCEPT !.tf = TRUE]
Hole == Pte(FALSE, FALSE, 0, "none")

Scenarios(c, mems, calls) == [ctx : {c}, mem : mems, call : calls]

(* Depth 1: the tables of page 2 in video memory and of page 3 in system   *)
(* memory, or a huge page in the place of either.                          *)
PageContext == [depth |-> 1, blockLog |-> 0, topPdes |-> 2, start |-> 4,
                fbOffset |-> 1, root |-> 1, rootSystem |-> FALSE]

(* the entry at index i of the table in a page *)
At(sys, page, i) == <<sys, (page * Fan) + i>>

Leaves == {Hole, Pte(TRUE, FALSE, 4, "rw"), Pte(TRUE, FALSE, 5, "rw"),
           Pte(TRUE, FALSE, 5, "r")}
SystemLeaves == {Hole, Pte(TRUE, FALSE, 6, "rw"), Pte(TRUE, TRUE, 4, "rw")}

PageMemories ==
  {At(FALSE, 1, 0) :> top0 @@ At(FALSE, 1, 1) :> top1
     @@ At(FALSE, 2, 0) :> a @@ At(FALSE, 2, 1) :> b
     @@ At(TRUE, 3, 0) :> c @@ At(TRUE, 3, 1) :> d :
   top0 \in {Pde(FALSE, 2, 0, 1), Huge(6)}, top1 \in {Pde(TRUE, 3, 0, 1), Huge(4)},
   a \in Leaves, b \in Leaves, c \in SystemLeaves, d \in SystemLeaves}
PageCalls ==
  {r \in [va : 4 .. 7, size : 0 .. 4, combine : BOOLEAN] : r.va + r.size <= 8}

(* The same with the top table in system memory, and a PDE in it that need *)
(* not be valid.                                                           *)
SystemContext == [PageContext EXCEPT !.rootSystem = TRUE]
SystemMemories ==
  {At(TRUE, 1, 0) :> Pde(FALSE, 2, 0, 1) @@ At(TRUE, 1, 1) :> top
     @@ At(FALSE, 2, 0) :> a @@ At(FALSE, 2, 1) :> Pte(TRUE, FALSE, 5, "rw")
     @@ At(TRUE, 3, 0) :> c @@ At(TRUE, 3, 1) :> Pte(TRUE, TRUE, 4, "rw") :
   top \in {Pde(TRUE, 3, 0, 1), [Pde(TRUE, 3, 0, 1) EXCEPT !.valid = FALSE]},
   a \in Leaves, c \in SystemLeaves}

(* Depth 2, entries of two pages: two upper tables, of which the second    *)
(* may lead to memory that cannot be read, tables shared by two PDEs, huge *)
(* pages of four, and a block of single pages behind an F bit.             *)
DeepContext == [depth |-> 2, blockLog |-> 1, topPdes |-> 2, start |-> 0,
                fbOffset |-> 0, root |-> 1, rootSystem |-> FALSE]

Wide == {Hole, Pte(TRUE, FALSE, 8, "rw"), Pte(TRUE, FALSE, 10, "rw"), Block(6)}

DeepMemories ==
  {At(FALSE, 1, 0) :> Pde(FALSE, 2, 1, 0) @@ At(FALSE, 1, 1) :> Pde(FALSE, 3, 1, 0)
     @@ At(FALSE, 2, 0) :> p[1] @@ At(FALSE, 2, 1) :> p[2]
     @@ At(FALSE, 3, 0) :> q[1] @@ At(FALSE, 3, 1) :> q[2]
     @@ At(FALSE, 4, 0) :> a @@ At(FALSE, 4, 1) :> b
     @@ At(FALSE, 5, 0) :> Pte(TRUE, FALSE, 12, "rw")
     @@ At(FALSE, 5, 1) :> Pte(TRUE, FALSE, 14, "rw")
     @@ At(FALSE, 6, 0) :> Pte(TRUE, FALSE, 9, "rw") @@ At(FALSE, 6, 1) :> Hole
     @@ At(TRUE, 7, 0) :> Pte(TRUE, TRUE, 20, "rw") @@ At(TRUE, 7, 1) :> Block(11) :
   p \in [1 .. 2 -> {Pde(FALSE, 4, 1, 0), Pde(FALSE, 5, 1, 0), Huge(16)}],
   q \in [1 .. 2 -> {Pde(FALSE, 4, 1, 0), Pde(TRUE, 7, 1, 0), Pde(TRUE, 8, 1, 0)}],
   a \in Wide, b \in Wide}
DeepCalls ==
  {r \in [va : {0, 3, 6, 7, 9}, size : {1, 4, 8}, combine : BOOLEAN] :
     r.combine \/ r.size = 4}

(* Depth 2: PDEs whose native page size is not the context's, as a walk    *)
(* that follows a PDE that is not valid can meet.  The context's is one    *)
(* page, or two.                                                           *)
OddContext == [DeepContext EXCEPT !.blockLog = 0]

OddMemories ==
  {At(FALSE, 1, 0) :> Pde(FALSE, 2, 0, 0) @@ At(FALSE, 1, 1) :> Pde(FALSE, 3, 0, 0)
     @@ At(FALSE, 2, 0) :> Pde(FALSE, 4, n[1], 0) @@ At(FALSE, 2, 1) :> Pde(FALSE, 5, n[2], 0)
     @@ At(FALSE, 3, 0) :> Pde(FALSE, 4, n[3], 0) @@ At(FALSE, 3, 1) :> Pde(FALSE, 5, n[1], 0)
     @@ [x \in {At(FALSE, 4, i) : i \in 0 .. 1} |-> a]
     @@ [x \in {At(FALSE, 5, i) : i \in 0 .. 1} |-> b] :
   n \in [1 .. 3 -> 0 .. 2],
   a \in {Hole, Pte(TRUE, FALSE, 8, "rw")}, b \in {Hole, Pte(TRUE, FALSE, 12, "rw"), Block(4)}}
OddCalls == [va : 0 .. 5, size : {1, 2, 4}, combine : BOOLEAN]

(* What the properties exclude: tables at the same address in both         *)
(* memories, or at address 0.                                              *)
TwinContext(root) == [depth |-> 1, blockLog |-> 0, topPdes |-> 2, start |-> 0,
                      fbOffset |-> 0, root |-> root, rootSystem |-> FALSE]
TwinMemories(root) ==
  {At(FALSE, root, 0) :> Pde(x, 2, 0, 0) @@ At(FALSE, root, 1) :> Pde(~x, 2, 0, 0)
     @@ At(FALSE, 2, 0) :> a @@ At(FALSE, 2, 1) :> Pte(TRUE, FALSE, 5, "rw")
     @@ At(TRUE, 2, 0) :> b @@ At(TRUE, 2, 1) :> Pte(TRUE, TRUE, 7, "rw") :
   x \in BOOLEAN, a \in Leaves, b \in {Hole, Pte(TRUE, TRUE, 8, "rw")}}
TwinCalls ==
  {r \in [va : 0 .. 3, size : 1 .. 4, combine : BOOLEAN] : r.va + r.size <= 4}

(* An offset that 32 bits do not hold: the tables are looked for FbWidth   *)
(* pages further on, where other memory may be.                            *)
FarContext == [TwinContext(1) EXCEPT !.fbOffset = FbWidth + 1]
FarMemories ==
  {At(FALSE, 1 + n, 0) :> Pde(FALSE, 2, 0, FbWidth + 1)
     @@ At(FALSE, 1 + n, 1) :> Pde(TRUE, 3, 0, FbWidth + 1)
     @@ [x \in {At(FALSE, 2 + m, i) : i \in 0 .. 1} |-> Pte(TRUE, FALSE, 9 + x[2], "rw")]
     @@ [x \in {At(TRUE, 3, i) : i \in 0 .. 1} |-> Pte(TRUE, TRUE, 8, "rw")] :
   n \in {0, FbWidth}, m \in {0, FbWidth}}

(* Depth 2 and video memory that does not start at MC address 0: P bits in *)
(* the top table, or a block behind an F bit, whose PTE has the block's MC *)
(* address.                                                                *)
MovedContext == [DeepContext EXCEPT !.fbOffset = 1]
MovedMemories ==
  {At(FALSE, 1, 0) :> top @@ At(FALSE, 1, 1) :> Pde(FALSE, 3, 1, 1)
     @@ At(FALSE, 2, 0) :> Pde(FALSE, 4, 1, 1) @@ At(FALSE, 2, 1) :> Huge(16)
     @@ At(FALSE, 3, 0) :> Huge(24) @@ At(FALSE, 3, 1) :> Pde(FALSE, 4, 1, 1)
     @@ At(FALSE, 4, 0) :> Block(7) @@ At(FALSE, 4, 1) :> Pte(TRUE, FALSE, 12, "rw")
     @@ At(FALSE, 6, 0) :> Pte(TRUE, FALSE, 9, "rw") @@ At(FALSE, 6, 1) :> Hole
     @@ At(FALSE, 7, 0) :> other @@ At(FALSE, 7, 1) :> Hole :
   top \in {Pde(FALSE, 2, 1, 1), Huge(32)}, other \in {Hole, Pte(TRUE, FALSE, 20, "r")}}

MCCases ==
  UNION {Scenarios(PageContext, PageMemories, PageCalls),
         Scenarios(SystemContext, SystemMemories, PageCalls),
         Scenarios(DeepContext, DeepMemories, DeepCalls),
         Scenarios(OddContext, OddMemories, OddCalls),
         Scenarios(DeepContext, OddMemories, OddCalls),
         Scenarios(TwinContext(1), TwinMemories(1), TwinCalls),
         Scenarios(TwinContext(0), TwinMemories(0), TwinCalls),
         Scenarios(FarContext, FarMemories, TwinCalls),
         Scenarios(MovedContext, MovedMemories, DeepCalls)}
=============================================================================
