------------------------------- MODULE Xlator -------------------------------
(***************************************************************************)
(* Translating a range of virtual addresses: sift_xlator_translate_range   *)
(* and walk_pt of src/src/xlator/xlator.c.                                 *)
(*                                                                         *)
(* The unit of an address is the 4 KiB page; a page holds Fan page table   *)
(* entries (512 of 8 bytes in the code), so the entry at index i of a      *)
(* table in page p has the entry address p * Fan + i.  log2num_mib2 is the *)
(* size of Fan pages.  An entry is read both as a PDE and as a PTE; a      *)
(* record with the fields of either stands for the 64 bits.                *)
(***************************************************************************)
EXTENDS Integers, Sequences, SequencesExt

CONSTANTS
  Fan,        \* entries of a table: 2^log2num_intermediate_pdbs
  FbWidth,    \* what the 32 bits of fb_offset hold: 2^32 bytes, in pages
  Cases,      \* records of a context, the contents of memory, and a call
  MallocFails \* whether an allocation may fail

(* What the code uses of struct sift_xlator_ctx: pt_depth, pt_block_size (a *)
(* leaf entry maps 2^blockLog pages), num_pdes of the top level,            *)
(* pt_start_addr, the MC address at which video memory starts, which the    *)
(* register has in units of 2^24 bytes, and the top table: its page, and    *)
(* whether pt_base_addr says that it is in system memory.                   *)
Context == [depth : Nat, blockLog : Nat, topPdes : Nat \ {0}, start : Nat,
            fbOffset : Nat, root : Nat, rootSystem : BOOLEAN]

(* pde_t and pte_t; bfs is block_fragment_size, tf translate_further, perm *)
(* what there is of permissions.                                           *)
Entries == [valid : BOOLEAN, system : BOOLEAN, base : Nat, pte : BOOLEAN,
            bfs : Nat, tf : BOOLEAN, perm : {"none", "r", "rw"}]

(* Memory maps entries of system memory (TRUE) and of video memory (FALSE) *)
(* by entry address.                                                       *)
ASSUME XlatorAssumption ==
  /\ Fan \in Nat \ {0} /\ FbWidth \in Nat \ {0} /\ MallocFails \in BOOLEAN
  /\ \A c \in Cases :
       /\ c.ctx \in Context
       /\ c.call \in [va : Nat, size : Nat, combine : BOOLEAN]
       /\ DOMAIN c.mem \subseteq BOOLEAN \X Int
       /\ \A x \in DOMAIN c.mem : c.mem[x] \in Entries

VARIABLES
  ctx,      \* the context, an argument that no step changes
  mem,      \* system and video memory, as far as they hold page tables
  call,     \* the arguments
  pc,       \* "loop", "walk", "leaf", "page" or "done"
  addr,     \* the next address to translate
  size,     \* the size, grown by what was lopped off the start
  level,    \* helper.current_depth
  base,     \* the entry of the level above: `base' of walk_pt
  parent,   \* the last PDE that was followed
  cache,    \* helper.pde_addrs and helper.raw_pdes
  curr,     \* the fragment just walked
  prev,     \* the fragment not yet in the list
  frags,    \* the list that will be returned
  live,     \* list nodes allocated and not freed
  rc        \* "ok" for 0, "walk", "overlap" and "nomem" for -1, "exit" of the process

vars == <<ctx, mem, call, pc, addr, size, level, base, parent, cache, curr, prev, frags, live, rc>>
tables == <<ctx, mem, call>>
list == <<prev, frags, live>>

Depth    == ctx.depth
Start    == ctx.start
FbOffset == ctx.fbOffset % FbWidth
Levels   == 0 .. Depth

(* The zeroed entry: what memset leaves in raw_pdes and in `prev'. *)
NoEntry == [valid |-> FALSE, system |-> FALSE, base |-> 0, pte |-> FALSE,
            bfs |-> 0, tf |-> FALSE, perm |-> "none"]
(* pt_base_addr, decoded as a PDE.  One with the P bit, which would have no *)
(* table to it, is not modelled.                                            *)
Root == [NoEntry EXCEPT !.valid = TRUE, !.system = ctx.rootSystem,
                        !.base = IF ctx.rootSystem THEN ctx.root
                                 ELSE ctx.root + ctx.fbOffset]
NoFragment == [va |-> 0, pa |-> 0, size |-> 0, flags |-> NoEntry]

(* The powers of b, by which the code shifts *)
Power(b) == LET p[n \in Nat] == IF n = 0 THEN 1 ELSE b * p[n - 1] IN p

(* levelinfo.  The code masks indexes with num_pdes - 1, which takes the    *)
(* remainder only if num_pdes is a power of two; other ranges of the        *)
(* registers are not modelled.                                              *)
ASSUME TablesAssumption ==
  \A n \in {Fan} \union {c.ctx.topPdes : c \in Cases} :
    \E k \in 0 .. n : n = Power(2)[k]

Stride(l)  == Power(2)[ctx.blockLog] * Power(Fan)[l]
NumPdes(l) == IF l = Depth THEN ctx.topPdes ELSE Fan

(* The entry that a PDE leads to at level l when video memory starts at    *)
(* the MC address fb.                                                      *)
EntryIn(pde, l, va, fb) ==
  LET page == IF pde.system THEN pde.base ELSE pde.base - fb
  IN  (page * Fan) + (((va - Start) \div Stride(l)) % NumPdes(l))

EntryAddr(pde, l, va) == EntryIn(pde, l, va, FbOffset)

Init ==
  /\ \E c \in Cases : ctx = c.ctx /\ mem = c.mem /\ call = c.call
  /\ pc = "loop"
  /\ addr = call.va
  /\ size = call.size
  /\ level = 0
  /\ base = NoEntry
  /\ parent = NoEntry
  /\ cache = [l \in Levels |-> [addr |-> 0, raw |-> NoEntry]]
  /\ curr = NoFragment
  /\ prev = NoFragment
  /\ frags = << >>
  /\ live = 0
  /\ rc = "none"

Fail(code) == pc' = "done" /\ rc' = code

-----------------------------------------------------------------------------
(* while (addr < va + size): walk_pt starts at the root *)
More == addr < call.va + size

StartWalk ==
  /\ pc = "loop" /\ More
  /\ IF Depth = 0 THEN Fail("walk") ELSE pc' = "walk" /\ rc' = rc
  /\ level' = Depth
  /\ base' = Root
  /\ UNCHANGED <<tables, addr, size, parent, cache, curr, list>>

(* pde.pte: the entry is a PTE already; current_depth stays at the level   *)
(* that was not entered *)
PdeIsPte ==
  /\ pc = "walk" /\ base.pte
  /\ pc' = "leaf"
  /\ parent' = base
  /\ UNCHANGED <<tables, addr, size, level, base, cache, curr, list, rc>>

Readable(sys, a) == <<sys, a>> \in DOMAIN mem

(* Mutant: the cached entry of a level is used while the table is the same. *)
MutCached(a) == a \div Fan = cache[level].addr \div Fan

Cached(a) == a = cache[level].addr

(* Mutant: the loop over the levels runs once too often. *)
MutBelow(l) == [level |-> l - 1, pc |-> IF l < 0 THEN "leaf" ELSE "walk"]

(* the loop over the levels, down to level 0 *)
Below(l) == [level |-> l - 1, pc |-> IF l = 0 THEN "leaf" ELSE "walk"]

(* one level down, by the level's cached entry or by reading memory *)
Descend ==
  /\ pc = "walk" /\ ~base.pte
  /\ LET a == EntryAddr(base, level, addr)
     IN  /\ Cached(a) \/ Readable(base.system, a)
         /\ base' = IF Cached(a) THEN cache[level].raw ELSE mem[<<base.system, a>>]
         /\ cache' = [cache EXCEPT ![level] = [addr |-> a, raw |-> base']]
  /\ parent' = base
  /\ level' = Below(level).level
  /\ pc' = Below(level).pc
  /\ UNCHANGED <<tables, addr, size, curr, list, rc>>

(* results.size of the entry that ended the descent *)
WalkSize ==
  IF ~parent.pte THEN Power(2)[parent.bfs]
  ELSE IF level = 0 THEN Stride(1)
  ELSE 1

(* the leaf entry points to a block of entries for single pages *)
Further == base.valid /\ base.tf /\ ~parent.pte

(* the entry of that block: the base address is used as it stands *)
BlockAddr == (base.base * Fan) + ((addr - Start) % Fan)

(* read_ent ends the process when the 8 bytes cannot be read *)
ReadFails ==
  /\ \/ /\ pc = "walk" /\ ~base.pte
        /\ LET a == EntryAddr(base, level, addr)
           IN  ~Cached(a) /\ ~Readable(base.system, a)
     \/ /\ pc = "leaf" /\ Further /\ WalkSize = Fan
        /\ ~Readable(base.system, BlockAddr)
  /\ Fail("exit")
  /\ UNCHANGED <<tables, addr, size, level, base, parent, cache, curr, list>>

(* The fragment that holds addr; the loop's bound moves by what lies before *)
(* addr in it.                                                             *)
WalkedTo(pte, n) ==
  /\ pc' = "page"
  /\ curr' = [va |-> addr - (addr % n), pa |-> pte.base, size |-> n, flags |-> pte]
  /\ size' = size + (addr % n)
  /\ UNCHANGED rc

(* the end of walk_pt, and the alignment of its result *)
Leaf ==
  /\ pc = "leaf"
  /\ \/ /\ ~Further
        /\ WalkedTo(base, WalkSize)
     \/ /\ Further /\ WalkSize = Fan /\ Readable(base.system, BlockAddr)
        /\ WalkedTo(mem[<<base.system, BlockAddr>>], 1)
     \/ /\ Further /\ WalkSize # Fan
        /\ Fail("walk")
        /\ UNCHANGED <<curr, size>>
  /\ UNCHANGED <<tables, addr, level, base, parent, cache, list>>

-----------------------------------------------------------------------------
End(f)      == f.va + f.size

(* Mutant: touching counts as overlapping. *)
MutStarts(x, y, n) == x >= y /\ x <= y + n

Starts(x, y, n) == x >= y /\ x < y + n

(* fragments_overlap *)
Overlap(f, g) ==
  /\ f.flags.valid /\ g.flags.valid
  /\ \/ Starts(g.va, f.va, f.size)
     \/ Starts(g.pa, f.pa, f.size)
     \/ Starts(f.pa, g.pa, g.size)

Flags(pte) == [pte EXCEPT !.base = 0, !.bfs = 0]

(* is_contiguous, after its check for a bug *)
Contiguous(f, g) ==
  /\ End(f) = g.va
  /\ \/ ~f.flags.valid /\ ~g.flags.valid
     \/ f.pa + f.size = g.pa /\ Flags(f.flags) = Flags(g.flags)

(* Mutant: the next address is counted from the one asked for. *)
MutNextPage == pc' = "loop" /\ addr' = addr + curr.size

NextPage == pc' = "loop" /\ addr' = End(curr)

First ==
  /\ pc = "page" /\ prev = NoFragment
  /\ NextPage
  /\ prev' = curr
  /\ UNCHANGED <<tables, size, level, base, parent, cache, curr, frags, live, rc>>

(* Mutant: an aliased fragment is skipped, but the address stays. *)
MutSkipAliased ==
  /\ pc = "page" /\ prev # NoFragment /\ Overlap(prev, curr)
  /\ pc' = "loop"
  /\ UNCHANGED <<tables, addr, size, level, base, parent, cache, curr, list, rc>>

(* two fragments in a row share an address: the list is destroyed *)
Aliased ==
  /\ pc = "page" /\ prev # NoFragment /\ Overlap(prev, curr)
  /\ Fail("overlap")
  /\ live' = 0
  /\ UNCHANGED <<tables, addr, size, level, base, parent, cache, curr, prev, frags>>

Apart == pc = "page" /\ prev # NoFragment /\ ~Overlap(prev, curr)

(* is_contiguous ends the process on a fragment that starts before the end *)
(* of the previous one.                                                    *)
CodeBug ==
  /\ Apart /\ call.combine /\ End(prev) > curr.va
  /\ Fail("exit")
  /\ UNCHANGED <<tables, addr, size, level, base, parent, cache, curr, list>>

Combine ==
  /\ Apart /\ call.combine /\ Contiguous(prev, curr)
  /\ NextPage
  /\ prev' = [prev EXCEPT !.size = @ + curr.size]
  /\ UNCHANGED <<tables, size, level, base, parent, cache, curr, frags, live, rc>>

AddNode == live' = live + 1 /\ frags' = Append(frags, prev)

Push ==
  /\ Apart
  /\ call.combine => End(prev) <= curr.va /\ ~Contiguous(prev, curr)
  /\ NextPage
  /\ AddNode
  /\ prev' = curr
  /\ UNCHANGED <<tables, size, level, base, parent, cache, curr, rc>>

(* the loop is over: the last fragment is added (of size 0, when the loop  *)
(* never ran)                                                              *)
Finish ==
  /\ pc = "loop" /\ ~More
  /\ pc' = "done" /\ rc' = "ok"
  /\ AddNode
  /\ UNCHANGED <<tables, addr, size, level, base, parent, cache, curr, prev>>

(* malloc returns NULL for a node: of the list only the head is freed *)
NoMemory ==
  /\ MallocFails
  /\ \/ /\ Apart
        /\ call.combine => End(prev) <= curr.va /\ ~Contiguous(prev, curr)
     \/ pc = "loop" /\ ~More
  /\ Fail("nomem")
  /\ live' = IF live = 0 THEN 0 ELSE live - 1
  /\ UNCHANGED <<tables, addr, size, level, base, parent, cache, curr, prev, frags>>

Next ==
  \/ StartWalk \/ PdeIsPte \/ Descend \/ ReadFails \/ Leaf
  \/ First \/ Aliased \/ CodeBug \/ Combine \/ Push \/ Finish \/ NoMemory

(* One thread runs the call: it takes its next step as long as there is    *)
(* one.                                                                    *)
Spec == Init /\ [][Next]_vars /\ WF_vars(Next)

-----------------------------------------------------------------------------
(* What the tables say, from the root and with no cache and no list.  As   *)
(* in the code, an entry on the way is followed whether or not it is valid *)
(* (the hardware faults at one that is not): valid is looked at in the     *)
(* last one only.                                                          *)

Entry(sys, a) == IF Readable(sys, a) THEN mem[<<sys, a>>] ELSE NoEntry

(* The entry that the levels Depth .. l lead to for page p. *)
Followed(p) ==
  LET f[l \in 0 .. Depth + 1] ==
        IF l = Depth + 1 THEN Root
        ELSE LET up == f[l + 1]
             IN  IF up.pte THEN up
                 ELSE Entry(up.system, EntryIn(up, l, p, ctx.fbOffset))
  IN  f

Offset(p, span) == (p - Start) % span

(* The translation of one page: a PTE of level 0, a PDE with the P bit,    *)
(* which maps all that its table entry spans, or the entry of the block    *)
(* that a PTE with the F bit points to as a PDE does.                      *)
Translation(p) ==
  LET f    == Followed(p)
      huge == {l \in 1 .. Depth : f[l].pte}
      span == IF huge = {} THEN Stride(0)
              ELSE Stride(CHOOSE l \in huge : \A k \in huge : k <= l)
      leaf == f[0]
      page == IF leaf.system THEN leaf.base ELSE leaf.base - ctx.fbOffset
  IN  IF huge = {} /\ leaf.valid /\ leaf.tf
      THEN LET pte == Entry(leaf.system, (page * Fan) + Offset(p, Stride(0)))
           IN  [flags |-> pte, pa |-> pte.base]
      ELSE [flags |-> leaf, pa |-> leaf.base + Offset(p, span)]

(* Pages that the code knowingly or unknowingly gets wrong: mapped by a P  *)
(* bit above the lowest table of PDEs, which it takes for a page of 4 KiB  *)
(* at the start of what the bit maps ...                                   *)
HighHuge(p) == \E l \in 2 .. Depth : Followed(p)[l].pte

(* ... mapped through a block in video memory that does not start at MC    *)
(* address 0 ...                                                           *)
MovedBlock(p) ==
  LET leaf == Followed(p)[0]
  IN  /\ \A l \in 1 .. Depth : ~Followed(p)[l].pte
      /\ leaf.valid /\ leaf.tf /\ ~leaf.system /\ ctx.fbOffset # 0

(* ... mapped by a table whose PDE gives another page size than the        *)
(* context's ...                                                           *)
OtherSize(p) == Followed(p)[1].bfs # ctx.blockLog /\ ~Followed(p)[1].pte

(* ... and those on whose way is an entry that the key of the cache does   *)
(* not tell from another: at the address 0 that stands for an empty cache, *)
(* or at the address of an entry of the other memory.                      *)
SharedKey(p) ==
  \E l \in Levels :
    LET up == Followed(p)[l + 1]
        a  == EntryIn(up, l, p, ctx.fbOffset)
    IN  ~up.pte /\ (a = 0 \/ Readable(~up.system, a))

Excepted(p) == MovedBlock(p) \/ OtherSize(p) \/ SharedKey(p)

Agrees(f) ==
  \A p \in f.va .. End(f) - 1 :
    LET t == Translation(p)
    IN  \/ Excepted(p)
        \/ /\ f.flags.valid = t.flags.valid
           /\ t.flags.valid =>
                /\ f.pa + (p - f.va) = t.pa \/ HighHuge(p)
                /\ Flags(f.flags) = Flags(t.flags)

(* The page size that a PDE gives for its table is the context's (an entry  *)
(* that is no PDE has 0 there).  Walks that follow an entry that is not     *)
(* valid read other memory as tables, and need not find it so.              *)
SizesFit == \A x \in DOMAIN mem : mem[x].bfs \in {0, ctx.blockLog}

(* Tables are indexed with addresses relative to the start of the page      *)
(* tables, fragments are aligned without it.                                *)
StartFits == Start % Stride(1) = 0

OffsetFits == ctx.fbOffset < FbWidth

Regular == SizesFit /\ StartFits /\ OffsetFits

Fragments == [va : Nat, pa : Nat, size : Nat, flags : Entries]

(* Every variable keeps its type: the level only passes 0 when the descent *)
(* is over, and the cache holds one entry of each level.                   *)
TypeOK ==
  /\ pc \in {"loop", "walk", "leaf", "page", "done"}
  /\ addr \in Nat /\ size \in Nat /\ live \in Nat
  /\ level \in -1 .. Depth
  /\ pc = "walk" => level \in Levels
  /\ DOMAIN cache = Levels
  /\ curr \in Fragments /\ prev \in Fragments
  /\ \A i \in DOMAIN frags : frags[i] \in Fragments
  /\ rc \in {"none", "ok", "walk", "overlap", "nomem", "exit"}

(* The "CODE BUG" of is_contiguous: a fragment never starts before the end *)
(* of the one before it, with huge pages and blocks of pages among them.   *)
NeverBackwards == pc = "page" /\ prev # NoFragment => End(prev) = curr.va

(* sift_xlator_translate_range: pages are walked one after the other, and  *)
(* a list that is returned covers every page asked for, from the first to  *)
(* the last, each fragment starting where the one before it ends: no gap   *)
(* and no page twice, wherever the range starts in its first fragment and  *)
(* whether or not fragments were combined.                                 *)
CoversRequest ==
  SizesFit /\ StartFits =>
    /\ NeverBackwards
    /\ rc = "ok" /\ call.size > 0 =>
         /\ frags[1].va <= call.va
         /\ call.va + call.size <= End(Last(frags))
         /\ \A i \in 1 .. Len(frags) - 1 : End(frags[i]) = frags[i + 1].va

(* walk_pt: every page of every fragment, those of a fragment combined     *)
(* from several included, has the translation the tables give it when they *)
(* are walked from the root without the cache of entries.  Page tables in  *)
(* both memories, video memory anywhere below 4 GiB of MC addresses and    *)
(* huge pages at any level are among them, page by page with the           *)
(* exceptions above.                                                       *)
AgreesWithTables ==
  Regular =>
    /\ \A i \in DOMAIN frags : Agrees(frags[i])
    /\ Agrees(prev)

(* sift_xlator_translate_range gives up with an overlap only when two of   *)
(* the pages it walked are valid and have the same physical page number,   *)
(* or are among those that it gets wrong.                                  *)
(* (System and video memory are not told apart: see the README.)           *)
FailsOnlyOnAlias ==
  rc = "overlap" /\ Regular =>
    \E p, q \in call.va - (size - call.size) .. End(curr) - 1 :
      /\ p < q
      /\ \/ Excepted(p) \/ Excepted(q)
         \/ /\ Translation(p).flags.valid /\ Translation(q).flags.valid
            /\ Translation(p).pa = Translation(q).pa \/ HighHuge(p) \/ HighHuge(q)

(* Who owns the nodes of the list: the caller all of them on success,      *)
(* nobody any after an overlap.  (A failed walk and a failed allocation    *)
(* leak: they are left out.)                                               *)
ListOwned ==
  /\ rc = "ok" => live = Len(frags)
  /\ rc = "overlap" => live = 0

(* The call ends: the bound of its loop, which moves with the pages found, *)
(* is reached, and what it returns then owns the nodes.                    *)
CallReturns == <>(pc = "done" /\ ListOwned)

=============================================================================
