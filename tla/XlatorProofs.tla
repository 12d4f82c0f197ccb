----------------------------- MODULE XlatorProofs -----------------------------
(***************************************************************************)
(* Theorems of Xlator, for page tables of any depth and any content, any   *)
(* range and any number of entries in a table.                             *)
(***************************************************************************)
EXTENDS Xlator, WellFoundedInduction, TLAPS

(* A context, a memory and a call as XlatorAssumption has them             *)
Given ==
  /\ ctx \in Context
  /\ call \in [va : Nat, size : Nat, combine : BOOLEAN]
  /\ DOMAIN mem \subseteq BOOLEAN \X Int
  /\ \A x \in DOMAIN mem : mem[x] \in Entries

Types ==
  /\ pc \in {"loop", "walk", "leaf", "page", "done"}
  /\ addr \in Nat /\ size \in Nat /\ live \in Nat
  /\ level \in -1 .. Depth
  /\ base \in Entries /\ parent \in Entries
  /\ cache \in [Levels -> [addr : Int, raw : Entries]]
  /\ curr \in Fragments /\ prev \in Fragments
  /\ frags \in Seq(Fragments)
  /\ rc \in {"none", "ok", "walk", "overlap", "nomem", "exit"}

(* The entry that the cache has for the level above, or the root           *)
Up(l) == IF l = Depth THEN Root ELSE cache[l + 1].raw

(* Down to level e, the cache has the entries on the way of va.            *)
Traces(va, e) ==
  \A l \in e .. Depth : cache[l].addr = EntryAddr(Up(l), l, va) /\ ~Up(l).pte

(* The way the cache has ends at level e with a fragment of n pages: at a  *)
(* PDE with the P bit below it, or at a leaf.                              *)
Ended(e, n) ==
  IF e > 0 THEN Up(e - 1).pte /\ n = IF e = 1 THEN Stride(1) ELSE 1
  ELSE n = IF Up(-1).valid /\ Up(-1).tf THEN 1 ELSE Power(2)[Up(0).bfs]

(* The walk has come to a level, or to its end. *)
WalkInv ==
  /\ pc \in {"walk", "leaf", "page"} => Depth > 0
  /\ pc = "walk" => level \in Levels /\ base = Up(level) /\ Traces(addr, level + 1)
  /\ pc = "leaf" =>
       IF parent.pte
       THEN level \in 0 .. Depth - 1 /\ base = parent /\ parent = Up(level)
            /\ Traces(addr, level + 1)
       ELSE level = -1 /\ parent = Up(0) /\ base = Up(-1) /\ Traces(addr, 0)

(* The fragment just walked has the next address in it, and the one before *)
(* it ends there.                                                          *)
ListInv ==
  /\ pc = "page" => /\ curr.va <= addr /\ addr < End(curr)
                    /\ prev = NoFragment => size = call.size + (call.va - curr.va)
  /\ pc # "done" =>
       IF prev = NoFragment
       THEN addr = call.va /\ frags = << >> /\ (pc # "page" => size = call.size)
       ELSE End(prev) = addr /\ prev.size > 0
  /\ size >= call.size
  /\ rc = "ok" => pc = "done"

(* The cache still has the way of the last page walked.                    *)
Kept == \E e \in 0 .. Depth : Traces(End(curr) - 1, e) /\ Ended(e, curr.size)

(* The walk is past a level whose tables end at addr.                      *)
Parted == \E l \in level + 1 .. Depth : (addr - Start) % Stride(l) = 0

CoverInv ==
  /\ \A l \in Levels : cache[l].raw.bfs \in {0, ctx.blockLog}
  /\ pc = "page" => Kept /\ curr.size \in {1, Stride(0), Stride(1)} /\ curr.va % curr.size = 0
  /\ pc \in {"loop", "walk", "leaf"} /\ prev # NoFragment =>
       /\ End(curr) = addr
       /\ curr.size \in {1, Stride(0), Stride(1)} /\ curr.va % curr.size = 0
       /\ Kept \/ (pc \in {"walk", "leaf"} /\ Parted)
  /\ NeverBackwards

(* The list has no gap. *)
ChainInv ==
  /\ \A i \in 1 .. Len(frags) - 1 : End(frags[i]) = frags[i + 1].va
  /\ pc # "done" /\ prev # NoFragment =>
       /\ IF frags = << >> THEN prev.va <= call.va ELSE frags[1].va <= call.va
       /\ frags # << >> => End(frags[Len(frags)]) = prev.va
  /\ rc = "ok" /\ call.size > 0 =>
       /\ frags # << >> /\ frags[1].va <= call.va
       /\ call.va + call.size <= End(frags[Len(frags)])

IInv ==
  /\ Given /\ Types /\ WalkInv /\ ListInv
  /\ SizesFit /\ StartFits => CoverInv /\ ChainInv

(* What the cache has of a level is an entry of one of the memories, or    *)
(* nothing yet.                                                            *)
Held ==
  \A l \in Levels :
    \/ cache[l] = [addr |-> 0, raw |-> NoEntry]
    \/ \E sys \in BOOLEAN : /\ Readable(sys, cache[l].addr)
                            /\ cache[l].raw = mem[<<sys, cache[l].addr>>]

AgreeInv ==
  /\ pc = "page" => Agrees(curr)
  /\ Agrees(prev)
  /\ \A i \in DOMAIN frags : Agrees(frags[i])

(* The walk never was before the first page of the first fragment.         *)
Reached ==
  /\ pc # "done" /\ prev # NoFragment => prev.va + size >= call.va + call.size
  /\ rc = "overlap" => pc = "done"

FullInv ==
  /\ IInv /\ Held
  /\ Regular => AgreeInv /\ Reached
  /\ FailsOnlyOnAlias
-----------------------------------------------------------------------------
(* A set of natural numbers that is not empty has a least one.             *)
LEMMA LeastExists ==
  ASSUME NEW S \in SUBSET Nat, S # {} PROVE \E i \in S : \A j \in S : i <= j
<1>1. PICK i \in S : \A j \in S : ~(<<j, i>> \in OpToRel(<, Nat))
  BY NatLessThanWellFounded, WFMin, Zenon
<1>2. \A j \in S : ~(j < i)
  BY <1>1 DEF OpToRel
<1> QED
  BY <1>2

(* Induction over the natural numbers, for a set of them                   *)
LEMMA Induction ==
  ASSUME NEW S, 0 \in S, \A n \in Nat : n \in S => n + 1 \in S
  PROVE  Nat \subseteq S
<1> SUFFICES ASSUME Nat \ S # {} PROVE FALSE
  OBVIOUS
<1>1. PICK i \in Nat \ S : \A j \in Nat \ S : i <= j
  BY LeastExists
<1>2. i # 0 /\ i - 1 \in Nat
  BY <1>1
<1>3. i - 1 \in S
  BY <1>1, <1>2
<1> QED
  BY <1>1, <1>2, <1>3

(* The first powers of b                                                   *)
Powers(g, b, k) ==
  g \in [0 .. k -> Nat] /\ g[0] = 1 /\ \A n \in 0 .. k - 1 : g[n + 1] = b * g[n]

LEMMA PowersExist ==
  ASSUME NEW b \in Nat, NEW k \in Nat PROVE \E g : Powers(g, b, k)
<1> DEFINE S == {n \in Nat : \E g : Powers(g, b, n)}
<1>1. 0 \in S
  <2>1. Powers([n \in 0 .. 0 |-> 1], b, 0)
    BY DEF Powers
  <2> QED
    BY <2>1
<1>2. ASSUME NEW n \in Nat, n \in S PROVE n + 1 \in S
  <2>1. PICK g : Powers(g, b, n)
    BY <1>2
  <2> DEFINE w == b * g[n]
             h == [i \in 0 .. n + 1 |-> IF i = n + 1 THEN w ELSE g[i]]
  <2>2. g \in [0 .. n -> Nat] /\ g[0] = 1 /\ \A i \in 0 .. n - 1 : g[i + 1] = b * g[i]
    BY <2>1 DEF Powers
  <2>3. w \in Nat
    <3>1. g[n] \in Nat
      BY <2>2
    <3> QED
      BY <3>1
  <2>4. ASSUME NEW i \in 0 .. n PROVE h[i + 1] = b * h[i]
    <3>1. CASE i = n
      BY <3>1
    <3>2. CASE i # n
      <4>1. i \in 0 .. n - 1 /\ i + 1 \in 0 .. n + 1 /\ i + 1 # n + 1 /\ i # n + 1
        BY <3>2
      <4>2. h[i + 1] = g[i + 1] /\ h[i] = g[i]
        BY <4>1
      <4>3. g[i + 1] = b * g[i]
        BY <2>2, <4>1
      <4> QED
        BY <4>2, <4>3
    <3> QED
      BY <3>1, <3>2
  <2> HIDE DEF w
  <2>5. h \in [0 .. n + 1 -> Nat] /\ h[0] = 1
    BY <2>2, <2>3
  <2> HIDE DEF h
  <2>6. Powers(h, b, n + 1)
    <3>1. \A i \in 0 .. (n + 1) - 1 : i \in 0 .. n
      OBVIOUS
    <3> QED
      BY <2>4, <2>5, <3>1 DEF Powers
  <2> QED
    BY <2>6
<1>3. Nat \subseteq S
  <2> HIDE DEF S
  <2> QED
    BY <1>1, <1>2, Induction
<1> QED
  BY <1>3

LEMMA PowersAgree ==
  ASSUME NEW b \in Nat, NEW k \in Nat, NEW m \in 0 .. k, NEW g, NEW h,
         Powers(g, b, k), Powers(h, b, m)
  PROVE  \A n \in 0 .. m : g[n] = h[n]
<1> DEFINE S == {n \in Nat : n <= m => g[n] = h[n]}
<1>1. 0 \in S
  BY DEF Powers
<1>2. ASSUME NEW n \in Nat, n \in S PROVE n + 1 \in S
  <2> SUFFICES ASSUME n + 1 <= m PROVE g[n + 1] = h[n + 1]
    OBVIOUS
  <2>1. n \in 0 .. m - 1 /\ n \in 0 .. k - 1 /\ g[n] = h[n]
    BY <1>2
  <2> QED
    BY <2>1 DEF Powers
<1>3. Nat \subseteq S
  <2> HIDE DEF S
  <2> QED
    BY <1>1, <1>2, Induction
<1> QED
  BY <1>3

(* Power satisfies the equation it is defined by.                          *)
LEMMA PowerUnfold ==
  ASSUME NEW b \in Nat
  PROVE  /\ Power(b)[0] = 1
         /\ \A n \in Nat : Power(b)[n] \in Nat /\ Power(b)[n + 1] = b * Power(b)[n]
<1> DEFINE G(k) == CHOOSE g : Powers(g, b, k)
           f == [n \in Nat |-> G(n)[n]]
           Is(p) == p = [n \in Nat |-> IF n = 0 THEN 1 ELSE b * p[n - 1]]
<1>1. \A k \in Nat : Powers(G(k), b, k)
  BY PowersExist
<1> HIDE DEF G
<1>2. f[0] = 1
  <2>1. Powers(G(0), b, 0)
    BY <1>1
  <2> QED
    BY <2>1 DEF Powers
<1>3. ASSUME NEW n \in Nat PROVE f[n] \in Nat /\ f[n + 1] = b * f[n]
  <2>1. Powers(G(n), b, n) /\ Powers(G(n + 1), b, n + 1)
    BY <1>1
  <2>2. \A i \in 0 .. n : G(n + 1)[i] = G(n)[i]
    BY <2>1, PowersAgree
  <2>3. G(n)[n] \in Nat /\ G(n + 1)[n + 1] = b * G(n + 1)[n]
    BY <2>1 DEF Powers
  <2> QED
    BY <2>2, <2>3
<1> HIDE DEF f
<1>4. Is(f)
  <2>1. \A n \in Nat : f[n] = IF n = 0 THEN 1 ELSE b * f[n - 1]
    <3>1. ASSUME NEW n \in Nat, n # 0 PROVE f[n] = b * f[n - 1]
      <4>1. n - 1 \in Nat /\ (n - 1) + 1 = n
        BY <3>1
      <4> QED
        BY <1>3, <4>1
    <3> QED
      BY <1>2, <3>1
  <2>2. f = [n \in Nat |-> f[n]]
    BY DEF f
  <2> QED
    BY <2>1, <2>2
<1>5. Power(b) = CHOOSE p : Is(p)
  BY DEF Power
<1>6. Is(Power(b))
  <2> HIDE DEF Is
  <2> QED
    BY <1>4, <1>5
<1>7. \A n \in Nat : Power(b)[n] = IF n = 0 THEN 1 ELSE b * Power(b)[n - 1]
  BY <1>6
<1> DEFINE P == Power(b)
           S == {n \in Nat : P[n] \in Nat}
<1> HIDE DEF P
<1>8. P[0] = 1 /\ \A n \in Nat : P[n + 1] = b * P[n]
  <2>1. \A n \in Nat : P[n] = IF n = 0 THEN 1 ELSE b * P[n - 1]
    BY <1>7 DEF P
  <2>2. ASSUME NEW n \in Nat PROVE P[n + 1] = b * P[n]
    <3>1. n + 1 \in Nat /\ n + 1 # 0 /\ (n + 1) - 1 = n
      OBVIOUS
    <3> QED
      BY <2>1, <3>1
  <2> QED
    BY <2>1, <2>2
<1>9. Nat \subseteq S
  <2>1. 0 \in S
    BY <1>8
  <2>2. ASSUME NEW n \in Nat, n \in S PROVE n + 1 \in S
    BY <1>8, <2>2
  <2> HIDE DEF S
  <2> QED
    BY <2>1, <2>2, Induction
<1> QED
  BY <1>8, <1>9 DEF P

(* A power of a number that is not 0 is not 0.                             *)
LEMMA PowerPositive ==
  ASSUME NEW b \in Nat \ {0} PROVE \A n \in Nat : Power(b)[n] \in Nat \ {0}
<1> DEFINE P == Power(b)
           S == {n \in Nat : P[n] # 0}
<1>1. P[0] = 1 /\ \A n \in Nat : P[n] \in Nat /\ P[n + 1] = b * P[n]
  BY PowerUnfold
<1> HIDE DEF P
<1>2. 0 \in S
  BY <1>1
<1>3. ASSUME NEW n \in Nat, n \in S PROVE n + 1 \in S
  <2> DEFINE x == P[n]
  <2>1. x \in Nat /\ x # 0 /\ P[n + 1] = b * x
    BY <1>1, <1>3
  <2> HIDE DEF x
  <2>2. b * x # 0
    BY <2>1
  <2> QED
    BY <2>1, <2>2
<1>4. Nat \subseteq S
  <2> HIDE DEF S
  <2> QED
    BY <1>2, <1>3, Induction
<1> QED
  BY <1>1, <1>4 DEF P

-----------------------------------------------------------------------------
(* Division with a remainder has one result.                               *)
LEMMA Quotient ==
  ASSUME NEW n \in Nat \ {0}, NEW q \in Int, NEW r \in 0 .. n - 1, NEW a \in Int,
         a = n * q + r
  PROVE  a \div n = q /\ a % n = r
<1> DEFINE p == a \div n
           s == a % n
<1>1. p \in Int /\ s \in 0 .. n - 1 /\ a = n * p + s
  OBVIOUS
<1> HIDE DEF p, s
<1>2. ASSUME p > q PROVE FALSE
  <2>1. n * (p - q) >= n
    <3>1. p - q >= 1
      BY <1>1, <1>2
    <3> QED
      BY <1>1, <3>1
  <2>2. n * (p - q) = n * p - n * q
    BY <1>1
  <2>3. n * p \in Int /\ n * q \in Int
    BY <1>1
  <2> QED
    BY <1>1, <2>1, <2>2, <2>3
<1>3. ASSUME p < q PROVE FALSE
  <2>1. n * (q - p) >= n
    <3>1. q - p >= 1
      BY <1>1, <1>3
    <3> QED
      BY <1>1, <3>1
  <2>2. n * (q - p) = n * q - n * p
    BY <1>1
  <2>3. n * p \in Int /\ n * q \in Int
    BY <1>1
  <2> QED
    BY <1>1, <2>1, <2>2, <2>3
<1>4. p = q
  BY <1>1, <1>2, <1>3
<1>5. s = r
  <2>1. n * q \in Int
    OBVIOUS
  <2> QED
    BY <1>1, <1>4, <2>1
<1> QED
  BY <1>4, <1>5 DEF p, s

LEMMA Multiple ==
  ASSUME NEW n \in Nat \ {0}, NEW k \in Int PROVE (n * k) % n = 0
<1>1. n * k \in Int /\ n * k = n * k + 0 /\ 0 \in 0 .. n - 1
  OBVIOUS
<1> QED
  BY <1>1, Quotient

LEMMA Divided ==
  ASSUME NEW n \in Nat \ {0}, NEW a \in Int
  PROVE  a \div n \in Int /\ a % n \in 0 .. n - 1 /\ a = n * (a \div n) + (a % n)
OBVIOUS

(* The block of n pages that has page a                                    *)
LEMMA BlockOf ==
  ASSUME NEW n \in Nat \ {0}, NEW a \in Nat
  PROVE  /\ a - (a % n) \in Nat /\ a - (a % n) <= a /\ a < a - (a % n) + n
         /\ (a - (a % n)) % n = 0
<1> DEFINE q == a \div n
           r == a % n
<1>1. q \in Int /\ r \in 0 .. n - 1 /\ a = n * q + r
  BY Divided
<1> HIDE DEF q, r
<1>2. n * q \in Int /\ a - r = n * q
  BY <1>1
<1>3. (n * q) % n = 0
  BY <1>1, Multiple
<1>4. q >= 0
  <2> SUFFICES ASSUME q <= -1 PROVE FALSE
    BY <1>1
  <2>1. n * (q + 1) <= 0
    BY <1>1
  <2>2. n * (q + 1) = n * q + n
    BY <1>1
  <2> QED
    BY <1>1, <1>2, <2>1, <2>2
<1>5. n * q >= 0
  BY <1>1, <1>4
<1> QED
  BY <1>1, <1>2, <1>3, <1>5 DEF r

(* Where blocks of s pages end                                             *)
LEMMA Boundary ==
  ASSUME NEW s \in Nat \ {0}, NEW x \in Int, x \div s # (x - 1) \div s
  PROVE  x % s = 0
<1> DEFINE q == x \div s
           r == x % s
<1>1. q \in Int /\ r \in 0 .. s - 1 /\ x = s * q + r
  BY Divided
<1> HIDE DEF q, r
<1> SUFFICES ASSUME r # 0 PROVE FALSE
  BY <1>1 DEF r
<1>2. s * q \in Int
  BY <1>1
<1>3. r - 1 \in 0 .. s - 1 /\ x - 1 \in Int /\ x - 1 = s * q + (r - 1)
  BY <1>1, <1>2
<1>4. (x - 1) \div s = q
  BY <1>1, <1>3, Quotient
<1> QED
  BY <1>4 DEF q

(* The pages of one block of n have the same place among blocks of n * k,  *)
(* counted from a page where a block of n starts.                          *)
LEMMA SameBlock ==
  ASSUME NEW n \in Nat \ {0}, NEW k \in Nat \ {0}, NEW j \in Int, NEW q \in Int,
         NEW a \in Int, n * q <= a, a < n * q + n
  PROVE  (a - n * j) \div (n * k) = (q - j) \div k
<1>0. n * k \in Nat \ {0}
  OBVIOUS
<1> DEFINE x == q - j
           d == x \div k
           r == x % k
           e == a - n * q
<1>1. x \in Int /\ n * q \in Int /\ n * j \in Int
  OBVIOUS
<1>2. d \in Int /\ r \in 0 .. k - 1 /\ x = k * d + r
  <2> HIDE DEF x
  <2> QED
    BY <1>1, Divided
<1>3. e \in 0 .. n - 1 /\ a - n * j = n * x + e
  BY <1>1
<1> HIDE DEF x, d, r, e
<1>4. n * k \in Nat \ {0}
  BY <1>0
<1>5. n * x = (n * k) * d + n * r
  BY <1>1, <1>2
<1>6. n * r \in Nat /\ n * r <= n * k - n
  <2>1. n * (k - 1 - r) >= 0
    BY <1>2
  <2>2. n * (k - 1 - r) = n * k - n - n * r
    BY <1>2
  <2>3. n * r \in Nat
    BY <1>2
  <2> QED
    BY <1>4, <2>1, <2>2, <2>3
<1>7. n * r + e \in 0 .. n * k - 1 /\ (n * k) * d \in Int
  BY <1>2, <1>3, <1>4, <1>6
<1>8. a - n * j \in Int /\ a - n * j = (n * k) * d + (n * r + e)
  BY <1>1, <1>3, <1>5, <1>6, <1>7
<1>9. (a - n * j) \div (n * k) = d
  <2> DEFINE nk == n * k
             b  == a - n * j
             f  == n * r + e
  <2>1. nk \in Nat \ {0} /\ f \in 0 .. nk - 1 /\ b \in Int /\ b = nk * d + f /\ d \in Int
    BY <1>2, <1>4, <1>7, <1>8
  <2> HIDE DEF nk, b, f
  <2>2. b \div nk = d
    BY <2>1, Quotient
  <2> QED
    BY <2>2 DEF nk, b
<1> QED
  BY <1>9 DEF d, x

(* What is a multiple of n * k, counted from a multiple of n               *)
LEMMA Finer ==
  ASSUME NEW n \in Nat \ {0}, NEW k \in Nat \ {0}, NEW j \in Int, NEW a \in Int,
         (a - n * j) % (n * k) = 0
  PROVE  a % n = 0
<1> DEFINE m == (a - n * j) \div (n * k)
<1>1. n * k \in Nat \ {0} /\ n * j \in Int /\ a - n * j \in Int
  OBVIOUS
<1>2. m \in Int /\ a - n * j = (n * k) * m + 0
  BY <1>1, Divided
<1> HIDE DEF m
<1>3. (n * k) * m = n * (k * m) /\ k * m \in Int
  BY <1>2
<1>4. n * (k * m) \in Int /\ n * (j + k * m) = n * j + n * (k * m)
  BY <1>3
<1>5. a = n * (j + k * m)
  BY <1>1, <1>2, <1>3, <1>4
<1>6. j + k * m \in Int
  BY <1>3
<1> QED
  BY <1>5, <1>6, Multiple

-----------------------------------------------------------------------------
(* What is mapped at a level, in pages                                     *)
LEMMA StrideType ==
  ASSUME Given
  PROVE  /\ Stride(0) \in Nat \ {0} /\ Stride(0) = Power(2)[ctx.blockLog]
         /\ Stride(1) = Stride(0) * Fan
         /\ \A l \in Nat : Stride(l) \in Nat \ {0}
<1> DEFINE b == Power(2)[ctx.blockLog]
           P == Power(Fan)
<1>1. Fan \in Nat \ {0} /\ ctx.blockLog \in Nat /\ 2 \in Nat \ {0}
  BY XlatorAssumption DEF Given, Context
<1>2. b \in Nat \ {0}
  BY <1>1, PowerPositive
<1>3. \A l \in Nat : P[l] \in Nat \ {0}
  BY <1>1, PowerPositive
<1>4. P[0] = 1 /\ P[1] = Fan
  <2>1. Power(Fan)[0] = 1 /\ Power(Fan)[0 + 1] = Fan * Power(Fan)[0]
    BY <1>1, PowerUnfold
  <2> QED
    BY <1>1, <2>1
<1>5. \A l : Stride(l) = b * P[l]
  BY DEF Stride
<1> HIDE DEF b, P
<1>6. ASSUME NEW l \in Nat PROVE b * P[l] \in Nat \ {0}
  <2> DEFINE x == P[l]
  <2>1. x \in Nat \ {0}
    BY <1>3
  <2> HIDE DEF x
  <2>2. b * x \in Nat \ {0}
    BY <1>2, <2>1
  <2> QED
    BY <2>2 DEF x
<1>7. Stride(0) = b
  BY <1>2, <1>4, <1>5
<1>8. Stride(1) = b * Fan
  BY <1>4, <1>5
<1> QED
  BY <1>2, <1>5, <1>6, <1>7, <1>8 DEF b

(* A fragment of a level's size divides what is mapped above.              *)
LEMMA Larger ==
  ASSUME Given, NEW l \in Nat,
         NEW n, n \in {1, Stride(0)} \/ (n = Stride(1) /\ l > 0)
  PROVE  n \in Nat \ {0} /\ \E k \in Nat \ {0} : Stride(l) = n * k
<1> DEFINE b == Stride(0)
           s == Stride(l)
           P == Power(Fan)
<1>1. /\ Fan \in Nat \ {0} /\ b \in Nat \ {0} /\ s \in Nat \ {0}
      /\ Stride(1) = b * Fan /\ \A i \in Nat : P[i] \in Nat \ {0}
  BY StrideType, PowerPositive, XlatorAssumption
<1>2. s = b * P[l] /\ \A i \in Nat : P[i + 1] = Fan * P[i]
  <2>1. Fan \in Nat
    BY <1>1
  <2> QED
    BY <2>1, StrideType, PowerUnfold DEF Stride
<1> HIDE DEF b, s, P
<1>3. CASE n = 1
  <2>1. s = n * s
    BY <1>1, <1>3
  <2> QED
    BY <1>1, <1>3, <2>1 DEF s
<1>4. CASE n = b
  BY <1>1, <1>2, <1>4 DEF s
<1>5. CASE n = Stride(1) /\ l > 0
  <2> DEFINE k == P[l - 1]
  <2>1. l - 1 \in Nat /\ (l - 1) + 1 = l
    BY <1>5
  <2>2. k \in Nat \ {0} /\ P[l] = Fan * k
    BY <1>1, <1>2, <2>1
  <2> HIDE DEF k
  <2>3. b * (Fan * k) = (b * Fan) * k /\ b * Fan \in Nat \ {0}
    BY <1>1, <2>2
  <2>4. n \in Nat \ {0} /\ s = n * k
    BY <1>1, <1>2, <1>5, <2>2, <2>3
  <2> QED
    BY <2>2, <2>4 DEF s
<1> QED
  BY <1>3, <1>4, <1>5 DEF b

(* The start of the page tables is a multiple of every fragment's size.    *)
LEMMA StartMultiple ==
  ASSUME Given, StartFits, NEW n \in {1, Stride(0), Stride(1)}
  PROVE  n \in Nat \ {0} /\ \E j \in Int : Start = n * j
<1> DEFINE m == Stride(1)
           j == Start \div m
<1>1. Start \in Int
  BY DEF Given, Context, Start
<1>2. m \in Nat \ {0}
  BY StrideType
<1>3. n \in Nat \ {0} /\ \E k \in Nat \ {0} : m = n * k
  <2>1. 1 \in Nat /\ 1 > 0
    OBVIOUS
  <2>2. n \in {1, Stride(0)} \/ (n = Stride(1) /\ 1 > 0)
    BY <2>1
  <2> QED
    BY <2>1, <2>2, Larger
<1>4. Start % m = 0
  BY DEF StartFits
<1> HIDE DEF m
<1>5. j \in Int /\ Start = m * j
  BY <1>1, <1>2, <1>4, Divided
<1> HIDE DEF j
<1>6. PICK k \in Nat \ {0} : m = n * k
  BY <1>3
<1>7. m * j = n * (k * j) /\ k * j \in Int
  BY <1>3, <1>5, <1>6
<1> QED
  BY <1>3, <1>5, <1>7

(* Every page of a fragment has the same way down the levels above it.     *)
LEMMA SameWay ==
  ASSUME Given, StartFits, NEW l \in Nat,
         NEW n, n \in {1, Stride(0)} \/ (n = Stride(1) /\ l > 0),
         NEW v \in Nat, v % n = 0,
         NEW a \in Int, v <= a, a < v + n, NEW c \in Int, v <= c, c < v + n
  PROVE  (a - Start) \div Stride(l) = (c - Start) \div Stride(l)
<1>1. n \in Nat \ {0} /\ \E k \in Nat \ {0} : Stride(l) = n * k
  BY Larger
<1>2. \E j \in Int : Start = n * j
  BY StartMultiple
<1>3. PICK k \in Nat \ {0} : Stride(l) = n * k
  BY <1>1
<1>4. PICK j \in Int : Start = n * j
  BY <1>2
<1> DEFINE q == v \div n
<1>5. q \in Int /\ v = n * q
  BY <1>1, Divided
<1> HIDE DEF q
<1>6. (a - n * j) \div (n * k) = (q - j) \div k
  BY <1>1, <1>5, SameBlock
<1>7. (c - n * j) \div (n * k) = (q - j) \div k
  BY <1>1, <1>5, SameBlock
<1> QED
  BY <1>3, <1>4, <1>6, <1>7

(* Where what is mapped at a level ends, a fragment from below ends.       *)
LEMMA EndsBelow ==
  ASSUME Given, StartFits, NEW l \in Nat,
         NEW n, n \in {1, Stride(0)} \/ (n = Stride(1) /\ l > 0),
         NEW a \in Int, (a - Start) % Stride(l) = 0
  PROVE  a % n = 0
<1>1. n \in Nat \ {0} /\ \E k \in Nat \ {0} : Stride(l) = n * k
  BY Larger
<1>2. \E j \in Int : Start = n * j
  BY StartMultiple
<1>3. PICK k \in Nat \ {0} : Stride(l) = n * k
  BY <1>1
<1>4. PICK j \in Int : Start = n * j
  BY <1>2
<1>5. (a - n * j) % (n * k) = 0
  BY <1>3, <1>4
<1> QED
  BY <1>1, <1>5, Finer

-----------------------------------------------------------------------------
LEMMA ContextType ==
  ASSUME Given
  PROVE  /\ Depth \in Nat /\ Start \in Nat /\ FbOffset \in Nat
         /\ ctx.blockLog \in Nat /\ ctx.fbOffset \in Nat
         /\ \A l : NumPdes(l) \in Nat \ {0}
         /\ Fan \in Nat \ {0}
         /\ call.va \in Nat /\ call.size \in Nat /\ call.combine \in BOOLEAN
<1>1. ctx \in Context /\ Fan \in Nat \ {0} /\ FbWidth \in Nat \ {0}
  BY XlatorAssumption DEF Given
<1>2. ctx.fbOffset \in Nat /\ ctx.fbOffset % FbWidth \in Nat
  BY <1>1 DEF Context
<1> QED
  BY <1>1, <1>2 DEF Given, Context, Depth, Start, FbOffset, NumPdes

LEMMA RootType ==
  ASSUME Given PROVE NoEntry \in Entries /\ Root \in Entries /\ ~Root.pte /\ Root.bfs = 0
<1>1. ctx.root \in Nat /\ ctx.fbOffset \in Nat /\ ctx.rootSystem \in BOOLEAN
  BY DEF Given, Context
<1>2. NoEntry \in Entries
  BY DEF NoEntry, Entries
<1> DEFINE e == [NoEntry EXCEPT !.valid = TRUE, !.system = ctx.rootSystem]
           n == IF ctx.rootSystem THEN ctx.root ELSE ctx.root + ctx.fbOffset
<1>3. e \in Entries
  BY <1>1, <1>2 DEF Entries
<1>4. e.pte = NoEntry.pte /\ e.bfs = NoEntry.bfs
  BY <1>2 DEF Entries
<1>5. Root = [e EXCEPT !.base = n]
  BY DEF Root
<1>6. n \in Nat
  BY <1>1
<1> HIDE DEF e, n
<1>7. Root \in Entries
  BY <1>3, <1>5, <1>6 DEF Entries
<1>8. Root.pte = e.pte /\ Root.bfs = e.bfs
  BY <1>3, <1>5 DEF Entries
<1>9. ~NoEntry.pte /\ NoEntry.bfs = 0
  BY DEF NoEntry
<1> QED
  BY <1>2, <1>4, <1>7, <1>8, <1>9

LEMMA AddressType ==
  ASSUME Given, NEW pde \in Entries, NEW l \in Nat, NEW va \in Int
  PROVE  EntryAddr(pde, l, va) \in Int
<1> DEFINE n == NumPdes(l)
           s == Stride(l)
           page == IF pde.system THEN pde.base ELSE pde.base - FbOffset
           i == ((va - Start) \div s) % n
<1>1. Start \in Nat /\ FbOffset \in Nat /\ n \in Nat \ {0} /\ Fan \in Nat
  BY ContextType
<1>2. s \in Nat \ {0}
  BY StrideType
<1>3. page \in Int
  BY <1>1 DEF Entries
<1> HIDE DEF n, s, page
<1>4. (va - Start) \div s \in Int
  BY <1>1, <1>2
<1>5. i \in Nat
  BY <1>1, <1>4
<1> HIDE DEF i
<1>6. page * Fan + i \in Int
  BY <1>1, <1>3, <1>5
<1> QED
  BY <1>6 DEF EntryAddr, EntryIn, n, s, page, i

LEMMA UpType ==
  ASSUME Given, Types, NEW l \in -1 .. Depth PROVE Up(l) \in Entries
<1>1. Depth \in Nat /\ Root \in Entries
  BY ContextType, RootType
<1>2. CASE l = Depth
  BY <1>1, <1>2 DEF Up
<1>3. CASE l # Depth
  <2>1. l + 1 \in Levels
    BY <1>1, <1>3 DEF Levels
  <2> QED
    BY <1>3, <2>1 DEF Up, Types
<1> QED
  BY <1>2, <1>3

LEMMA WalkSizeType == ASSUME Given, Types PROVE WalkSize \in Nat \ {0}
<1>1. parent.bfs \in Nat /\ 2 \in Nat \ {0}
  BY DEF Types, Entries
<1>2. Power(2)[parent.bfs] \in Nat \ {0}
  BY <1>1, PowerPositive
<1> QED
  BY <1>2, StrideType DEF WalkSize

(* The fragment of a walk                                                  *)
LEMMA WalkedType ==
  ASSUME Given, Types, NEW pte \in Entries, NEW n \in Nat \ {0}, WalkedTo(pte, n)
  PROVE  /\ curr' \in Fragments /\ size' \in Nat
         /\ curr' = [va |-> addr - (addr % n), pa |-> pte.base, size |-> n, flags |-> pte]
         /\ curr'.va <= addr /\ addr < End(curr') /\ curr'.va % n = 0
         /\ size' = size + (addr - curr'.va) /\ rc' = rc /\ pc' = "page"
<1>1. addr \in Nat /\ size \in Nat
  BY DEF Types
<1>2. /\ addr - (addr % n) \in Nat /\ addr - (addr % n) <= addr
      /\ addr < addr - (addr % n) + n /\ (addr - (addr % n)) % n = 0
  BY <1>1, BlockOf
<1>3. addr % n \in Nat
  BY <1>1
<1>4. pte.base \in Nat
  BY DEF Entries
<1>5. /\ curr' = [va |-> addr - (addr % n), pa |-> pte.base, size |-> n, flags |-> pte]
      /\ size' = size + (addr % n) /\ rc' = rc /\ pc' = "page"
  BY DEF WalkedTo
<1> DEFINE r == addr % n
<1> HIDE DEF r
<1>6. curr' \in Fragments
  BY <1>2, <1>4, <1>5 DEF Fragments
<1>7. /\ curr'.va = addr - r /\ curr'.size = n /\ r \in Nat /\ size' = size + r
      /\ addr - r <= addr /\ addr < addr - r + n /\ (addr - r) % n = 0
  BY <1>2, <1>3, <1>5 DEF r
<1>8. addr < End(curr')
  BY <1>7 DEF End
<1>9. size' = size + (addr - curr'.va) /\ size' \in Nat
  BY <1>1, <1>7
<1> QED
  BY <1>5, <1>6, <1>7, <1>8, <1>9

(* What a leaf is walked to                                                *)
LEMMA LeafWalks ==
  ASSUME Given, Types, Leaf, pc' = "page"
  PROVE  \E pte \in Entries, n \in Nat \ {0} :
           /\ WalkedTo(pte, n)
           /\ IF Further
              THEN n = 1 /\ WalkSize = Fan /\ Readable(base.system, BlockAddr)
                   /\ pte = mem[<<base.system, BlockAddr>>]
              ELSE n = WalkSize /\ pte = base
<1>1. CASE ~Further /\ WalkedTo(base, WalkSize)
  <2>1. base \in Entries
    BY DEF Types
  <2> QED
    BY <1>1, <2>1, WalkSizeType
<1>2. CASE /\ Further /\ WalkSize = Fan /\ Readable(base.system, BlockAddr)
           /\ WalkedTo(mem[<<base.system, BlockAddr>>], 1)
  <2>1. mem[<<base.system, BlockAddr>>] \in Entries
    BY <1>2 DEF Readable, Given
  <2>2. 1 \in Nat \ {0}
    OBVIOUS
  <2> QED
    BY <1>2, <2>1, <2>2
<1> QED
  BY <1>1, <1>2 DEF Leaf, Fail

-----------------------------------------------------------------------------
LEMMA SameTables ==
  ASSUME [Next]_vars PROVE ctx' = ctx /\ mem' = mem /\ call' = call
BY DEF Next, vars, tables, StartWalk, PdeIsPte, Descend, ReadFails, Leaf, First, Aliased,
       CodeBug, Combine, Push, Finish, NoMemory

LEMMA GivenStep == ASSUME Given, [Next]_vars PROVE Given'
BY SameTables DEF Given

LEMMA TypeStep == ASSUME Given, Types, WalkInv, [Next]_vars PROVE Types'
<1>0. Depth' = Depth /\ Levels' = Levels /\ Depth \in Nat
  <2>1. ctx' = ctx
    BY SameTables
  <2> QED
    BY <2>1, ContextType DEF Levels, Depth
<1>1. CASE StartWalk
  <2>1. Root \in Entries
    BY RootType
  <2>2. pc' \in {"walk", "done"} /\ rc' \in {"walk", rc}
    BY <1>1 DEF StartWalk, Fail
  <2>3. /\ base' = Root /\ level' = Depth
        /\ addr' = addr /\ size' = size /\ live' = live /\ parent' = parent /\ cache' = cache
        /\ curr' = curr /\ prev' = prev /\ frags' = frags
    BY <1>1 DEF StartWalk, list
  <2> QED
    BY <1>0, <2>1, <2>2, <2>3 DEF Types
<1>2. CASE PdeIsPte
  <2>1. /\ pc' = "leaf" /\ parent' = base
        /\ UNCHANGED <<addr, size, level, base, cache, curr, prev, frags, live, rc>>
    BY <1>2 DEF PdeIsPte, list
  <2> QED
    BY <1>0, <2>1 DEF Types
<1>3. CASE Descend
  <2> DEFINE a == EntryAddr(base, level, addr)
             e == IF Cached(a) THEN cache[level].raw ELSE mem[<<base.system, a>>]
  <2>1. level \in Levels /\ level \in Nat /\ base \in Entries /\ addr \in Int
    BY <1>0, <1>3 DEF Descend, WalkInv, Types, Levels
  <2>2. a \in Int
    BY <2>1, AddressType
  <2>3. Cached(a) \/ Readable(base.system, a)
    BY <1>3 DEF Descend
  <2>4. e \in Entries
    <3>1. CASE Cached(a)
      BY <2>1, <3>1 DEF Types
    <3>2. CASE ~Cached(a)
      <4>1. <<base.system, a>> \in DOMAIN mem
        BY <2>3, <3>2 DEF Readable
      <4> QED
        BY <3>2, <4>1 DEF Given
    <3> QED
      BY <3>1, <3>2
  <2>5. /\ base' = e /\ cache' = [cache EXCEPT ![level] = [addr |-> a, raw |-> e]]
        /\ parent' = base /\ level' = level - 1 /\ pc' \in {"leaf", "walk"}
        /\ UNCHANGED <<addr, size, curr, prev, frags, live, rc>>
    BY <1>3 DEF Descend, Below, list
  <2> HIDE DEF a, e
  <2>6. cache' \in [Levels -> [addr : Int, raw : Entries]]
    BY <2>1, <2>2, <2>4, <2>5 DEF Types
  <2>7. level' \in -1 .. Depth
    BY <1>0, <2>1, <2>5 DEF Levels
  <2>8. base' \in Entries /\ parent' \in Entries
    BY <2>1, <2>4, <2>5
  <2> QED
    BY <1>0, <2>5, <2>6, <2>7, <2>8 DEF Types
<1>4. CASE Leaf
  <2>1. /\ UNCHANGED <<addr, level, base, parent, cache, prev, frags, live>>
        /\ pc' \in {"page", "done"}
    BY <1>4 DEF Leaf, list, WalkedTo, Fail
  <2>2. curr' \in Fragments /\ size' \in Nat /\ rc' \in {rc, "walk"}
    <3>1. CASE pc' = "page"
      BY <1>4, <3>1, LeafWalks, WalkedType
    <3>2. CASE pc' # "page"
      BY <1>4, <3>2 DEF Leaf, WalkedTo, Fail, Types
    <3> QED
      BY <3>1, <3>2
  <2> QED
    BY <1>0, <2>1, <2>2 DEF Types
<1>5. CASE First \/ Combine \/ Push
  <2>1. /\ UNCHANGED <<size, level, base, parent, cache, curr, rc>>
        /\ pc' = "loop" /\ addr' = curr.va + curr.size
    BY <1>5 DEF First, Combine, Push, NextPage, End
  <2>2. curr.va \in Nat /\ curr.size \in Nat /\ prev.size \in Nat
    BY DEF Types, Fragments
  <2>3. addr' \in Nat
    BY <2>1, <2>2
  <2>4. prev' \in {curr, [prev EXCEPT !.size = @ + curr.size]}
    BY <1>5 DEF First, Combine, Push
  <2>5. prev' \in Fragments
    <3>1. prev.size + curr.size \in Nat
      BY <2>2
    <3>2. [prev EXCEPT !.size = prev.size + curr.size] \in Fragments
      BY <3>1 DEF Types, Fragments
    <3> QED
      BY <2>4, <3>2 DEF Types
  <2>6. frags' \in {frags, Append(frags, prev)} /\ live' \in {live, live + 1}
    BY <1>5 DEF First, Combine, Push, AddNode
  <2>7. frags' \in Seq(Fragments) /\ live' \in Nat
    BY <2>6 DEF Types
  <2> QED
    BY <1>0, <2>1, <2>3, <2>5, <2>7 DEF Types
<1>6. CASE ReadFails \/ Aliased \/ CodeBug \/ NoMemory \/ Finish
  <2>1. /\ UNCHANGED <<addr, size, level, base, parent, cache, curr, prev>>
        /\ pc' = "done" /\ rc' \in {"exit", "overlap", "nomem", "ok"}
    BY <1>6 DEF ReadFails, Aliased, CodeBug, NoMemory, Finish, Fail, list
  <2>2. /\ frags' \in {frags, Append(frags, prev)}
        /\ live' \in {live, live + 1, 0, IF live = 0 THEN 0 ELSE live - 1}
    BY <1>6 DEF ReadFails, Aliased, CodeBug, NoMemory, Finish, AddNode, list
  <2>3. frags \in Seq(Fragments) /\ prev \in Fragments /\ live \in Nat
    BY DEF Types
  <2>4. frags' \in Seq(Fragments)
    BY <2>2, <2>3
  <2>5. live' \in Nat
    BY <2>2, <2>3
  <2> QED
    BY <1>0, <2>1, <2>4, <2>5 DEF Types
<1>7. CASE UNCHANGED vars
  BY <1>0, <1>7 DEF vars, Types, tables, list
<1> QED
  BY <1>1, <1>2, <1>3, <1>4, <1>5, <1>6, <1>7 DEF Next

-----------------------------------------------------------------------------
LEMMA SameEntries ==
  ASSUME ctx' = ctx
  PROVE  /\ \A pde, l, va : EntryAddr(pde, l, va)' = EntryAddr(pde, l, va)
         /\ \A l : Stride(l)' = Stride(l)
         /\ Start' = Start /\ Depth' = Depth /\ Root' = Root
BY DEF EntryAddr, EntryIn, FbOffset, Start, Stride, NumPdes, Depth, Root, NoEntry

LEMMA SameTraces ==
  ASSUME ctx' = ctx, cache' = cache
  PROVE  /\ \A l : Up(l)' = Up(l)
         /\ \A va, e : Traces(va, e)' <=> Traces(va, e)
         /\ \A e, n : Ended(e, n)' <=> Ended(e, n)
<1>1. \A l : Up(l)' = Up(l)
  BY SameEntries DEF Up
<1>2. \A va, e : Traces(va, e)' <=> Traces(va, e)
  BY <1>1, SameEntries DEF Traces
<1>3. \A e, n : Ended(e, n)' <=> Ended(e, n)
  BY <1>1, SameEntries DEF Ended
<1> QED
  BY <1>1, <1>2, <1>3

(* One level down, by the cache or by memory                               *)
LEMMA Descends ==
  ASSUME Given, Types, WalkInv, Descend
  PROVE  LET a == EntryAddr(Up(level), level, addr)
         IN  /\ level \in 0 .. Depth /\ Depth \in Nat /\ Depth > 0
             /\ ~Up(level).pte /\ parent' = Up(level) /\ base = Up(level)
             /\ level' = level - 1 /\ pc' = IF level = 0 THEN "leaf" ELSE "walk"
             /\ Up(level)' = base'
             /\ cache'[level] = [addr |-> a, raw |-> base']
             /\ IF cache[level].addr = a
                THEN base' = cache[level].raw
                ELSE base' = mem[<<base.system, a>>] /\ Readable(base.system, a)
             /\ \A l \in Levels : l # level => cache'[l] = cache[l]
             /\ \A l \in level .. Depth : Up(l)' = Up(l)
<1> DEFINE a == EntryAddr(base, level, addr)
<1>1. /\ level \in 0 .. Depth /\ Depth \in Nat /\ Depth > 0 /\ base = Up(level)
      /\ ctx' = ctx /\ Depth' = Depth /\ Levels' = Levels
  <2>1. ctx' = ctx
    BY DEF Descend, tables
  <2>2. Depth' = Depth
    BY <2>1, SameEntries
  <2> QED
    BY <2>1, <2>2, ContextType DEF Descend, WalkInv, Levels
<1>2. /\ ~base.pte
      /\ Cached(a) \/ Readable(base.system, a)
      /\ base' = IF Cached(a) THEN cache[level].raw ELSE mem[<<base.system, a>>]
      /\ cache' = [cache EXCEPT ![level] = [addr |-> a, raw |-> base']]
      /\ parent' = base /\ level' = level - 1
      /\ pc' = IF level = 0 THEN "leaf" ELSE "walk"
  BY DEF Descend, Below
<1>3. cache \in [Levels -> [addr : Int, raw : Entries]] /\ level \in Levels
  BY <1>1 DEF Types, Levels
<1> HIDE DEF a
<1>4. /\ cache'[level] = [addr |-> a, raw |-> base']
      /\ \A l \in Levels : l # level => cache'[l] = cache[l]
  BY <1>2, <1>3
<1>5. \A l \in level .. Depth : Up(l)' = Up(l)
  <2>1. ASSUME NEW l \in level .. Depth PROVE Up(l)' = Up(l)
    <3>1. CASE l = Depth
      BY <1>1, <3>1, SameEntries DEF Up
    <3>2. CASE l # Depth
      <4>1. l + 1 \in Levels /\ l + 1 # level
        BY <1>1, <3>2 DEF Levels
      <4>2. cache'[l + 1] = cache[l + 1]
        BY <1>4, <4>1
      <4> QED
        BY <1>1, <3>2, <4>2 DEF Up
    <3> QED
      BY <3>1, <3>2
  <2> QED
    BY <2>1
<1>6. Up(level)' = base'
  <2>1. level' # Depth' /\ level' + 1 = level
    BY <1>1, <1>2
  <2>2. Up(level)' = cache'[level' + 1].raw
    BY <2>1 DEF Up
  <2>3. cache'[level].raw = base'
    BY <1>4
  <2> QED
    BY <2>1, <2>2, <2>3
<1>7. IF cache[level].addr = a
      THEN base' = cache[level].raw
      ELSE base' = mem[<<base.system, a>>] /\ Readable(base.system, a)
  BY <1>2 DEF Cached
<1>8. EntryAddr(Up(level), level, addr) = a
  BY <1>1 DEF a
<1>9. ~Up(level).pte /\ parent' = Up(level)
  BY <1>1, <1>2
<1> QED
  BY <1>1, <1>2, <1>4, <1>5, <1>6, <1>7, <1>8, <1>9

LEMMA DescendTraces ==
  ASSUME Given, Types, WalkInv, Descend
  PROVE  /\ addr' = addr
         /\ \A l \in level .. Depth : /\ cache'[l].addr = EntryAddr(Up(l)', l, addr)
                                      /\ ~Up(l)'.pte
<1>1. /\ level \in 0 .. Depth /\ Depth \in Nat /\ ~Up(level).pte
      /\ cache'[level] = [addr |-> EntryAddr(Up(level), level, addr), raw |-> base']
      /\ \A l \in Levels : l # level => cache'[l] = cache[l]
      /\ \A l \in level .. Depth : Up(l)' = Up(l)
  BY Descends
<1>2. Traces(addr, level + 1) /\ addr' = addr
  BY DEF WalkInv, Descend
<1>3. ASSUME NEW l \in level .. Depth
      PROVE  cache'[l].addr = EntryAddr(Up(l)', l, addr) /\ ~Up(l)'.pte
  <2>1. Up(l)' = Up(l)
    BY <1>1, <1>3
  <2>2. CASE l = level
    <3>1. cache'[level].addr = EntryAddr(Up(level), level, addr)
      BY <1>1
    <3> QED
      BY <1>1, <2>1, <2>2, <3>1
  <2>3. CASE l # level
    <3>1. l \in level + 1 .. Depth /\ l \in Levels
      BY <1>1, <2>3 DEF Levels
    <3>2. cache'[l] = cache[l]
      BY <1>1, <2>3, <3>1
    <3>3. cache[l].addr = EntryAddr(Up(l), l, addr) /\ ~Up(l).pte
      BY <1>2, <3>1 DEF Traces
    <3> QED
      BY <2>1, <3>2, <3>3
  <2> QED
    BY <2>2, <2>3
<1> QED
  BY <1>2, <1>3

LEMMA WalkStep == ASSUME Given, Types, WalkInv, [Next]_vars PROVE WalkInv'
<1>0. ctx' = ctx /\ Depth' = Depth /\ Levels' = Levels /\ Depth \in Nat
  <2>1. ctx' = ctx
    BY SameTables
  <2> QED
    BY <2>1, SameEntries, ContextType DEF Levels
<1>1. CASE StartWalk
  <2>1. pc' = "walk" \/ pc' = "done"
    BY <1>1 DEF StartWalk, Fail
  <2>2. CASE pc' = "walk"
    <3>1. level' = Depth /\ base' = Root /\ Depth > 0
      BY <1>0, <1>1, <2>2 DEF StartWalk, Fail
    <3>2. Up(level)' = Root
      BY <1>0, <3>1, SameEntries DEF Up
    <3>3. Traces(addr, level + 1)'
      BY <1>0, <3>1 DEF Traces
    <3> QED
      BY <1>0, <2>2, <3>1, <3>2, <3>3 DEF WalkInv, Levels
  <2> QED
    BY <2>1, <2>2 DEF WalkInv
<1>2. CASE PdeIsPte
  <2>1. /\ pc = "walk" /\ base.pte /\ pc' = "leaf" /\ parent' = base
        /\ level' = level /\ base' = base /\ cache' = cache /\ addr' = addr
    BY <1>2 DEF PdeIsPte
  <2>2. base = Up(level) /\ level \in 0 .. Depth /\ Traces(addr, level + 1) /\ Depth > 0
    BY <2>1 DEF WalkInv, Levels
  <2>3. level # Depth
    BY <2>1, <2>2, RootType DEF Up
  <2>4. Up(level)' = Up(level)
    BY <1>0, <2>1, SameEntries DEF Up
  <2>5. Traces(addr, level + 1)'
    BY <1>0, <2>1, <2>2, SameEntries DEF Traces, Up
  <2>6. level' \in 0 .. Depth' - 1 /\ base' = parent' /\ parent' = Up(level)' /\ parent'.pte
    BY <1>0, <2>1, <2>2, <2>3, <2>4
  <2> QED
    BY <1>0, <2>1, <2>2, <2>5, <2>6 DEF WalkInv
<1>3. CASE Descend
  <2>1. /\ level \in 0 .. Depth /\ Depth > 0 /\ ~Up(level).pte /\ parent' = Up(level)
        /\ level' = level - 1 /\ pc' = IF level = 0 THEN "leaf" ELSE "walk"
        /\ Up(level)' = base'
        /\ \A l \in level .. Depth : Up(l)' = Up(l)
    BY <1>3, Descends
  <2>2. /\ addr' = addr
        /\ \A l \in level .. Depth : /\ cache'[l].addr = EntryAddr(Up(l)', l, addr)
                                     /\ ~Up(l)'.pte
    BY <1>3, DescendTraces
  <2>3. level' + 1 = level
    BY <2>1
  <2>4. Traces(addr, level + 1)'
    BY <1>0, <2>2, <2>3, SameEntries DEF Traces
  <2>5. CASE level # 0
    <3>1. pc' = "walk" /\ level' \in Levels'
      BY <1>0, <2>1, <2>5 DEF Levels
    <3> QED
      BY <1>0, <2>1, <2>4, <3>1 DEF WalkInv
  <2>6. CASE level = 0
    <3>1. pc' = "leaf" /\ level' = -1 /\ ~parent'.pte
      BY <2>1, <2>6
    <3>2. Traces(addr, 0)'
      BY <1>0, <2>2, <2>6, SameEntries DEF Traces
    <3>3. parent' = Up(0)'
      <4>1. 0 \in level .. Depth
        BY <2>1, <2>6
      <4>2. Up(0)' = Up(0)
        BY <2>1, <4>1
      <4> QED
        BY <2>1, <2>6, <4>2
    <3>4. base' = Up(-1)'
      BY <2>1, <3>1 DEF Up
    <3> QED
      BY <1>0, <2>1, <3>1, <3>2, <3>3, <3>4 DEF WalkInv
  <2> QED
    BY <2>5, <2>6
<1>4. CASE Leaf
  <2>1. pc' \in {"page", "done"} /\ Depth > 0
    BY <1>4 DEF Leaf, WalkedTo, Fail, WalkInv
  <2> QED
    BY <1>0, <2>1 DEF WalkInv
<1>5. CASE First \/ Combine \/ Push \/ ReadFails \/ Aliased \/ CodeBug \/ NoMemory \/ Finish
  <2>1. pc' \in {"loop", "done"}
    BY <1>5 DEF First, Combine, Push, NextPage, ReadFails, Aliased, CodeBug, NoMemory, Finish, Fail
  <2> QED
    BY <2>1 DEF WalkInv
<1>6. CASE UNCHANGED vars
  <2>1. /\ pc' = pc /\ level' = level /\ base' = base /\ parent' = parent /\ cache' = cache
        /\ addr' = addr
    BY <1>6 DEF vars
  <2>2. \A l : Up(l)' = Up(l)
    BY <1>0, <2>1, SameTraces
  <2>3. Up(level)' = Up(level)
    BY <1>0, <2>1, SameEntries DEF Up
  <2>4. /\ Traces(addr, level + 1)' <=> Traces(addr, level + 1)
        /\ Traces(addr, 0)' <=> Traces(addr, 0)
    BY <1>0, <2>1, <2>2, SameEntries DEF Traces
  <2> QED
    BY <1>0, <2>1, <2>2, <2>3, <2>4 DEF WalkInv
<1> QED
  BY <1>1, <1>2, <1>3, <1>4, <1>5, <1>6 DEF Next

-----------------------------------------------------------------------------
LEMMA NotNone ==
  ASSUME NEW f \in Fragments, f.size > 0 PROVE f # NoFragment
BY DEF NoFragment

LEMMA FragmentEnd ==
  ASSUME NEW f \in Fragments PROVE f.va \in Nat /\ f.size \in Nat /\ End(f) \in Nat /\ End(f) = f.va + f.size
BY DEF Fragments, End

(* What the next fragment becomes of the last                              *)
LEMMA TakesPage ==
  ASSUME Given, Types, ListInv, First \/ Combine \/ Push
  PROVE  /\ prev' \in Fragments /\ prev' # NoFragment /\ prev'.size > 0
         /\ End(prev') = addr' /\ addr' = End(curr) /\ pc' = "loop"
         /\ curr' = curr /\ cache' = cache /\ size' = size /\ rc' = rc /\ level' = level
         /\ prev'.va = IF Combine THEN prev.va ELSE curr.va
<1>1. /\ curr \in Fragments /\ prev \in Fragments /\ addr \in Nat
      /\ curr.va <= addr /\ addr < End(curr)
  BY DEF Types, ListInv, First, Combine, Push, Apart
<1>2. curr.va \in Nat /\ curr.size \in Nat /\ End(curr) = curr.va + curr.size /\ curr.size > 0
  BY <1>1, FragmentEnd
<1>3. /\ addr' = End(curr) /\ pc' = "loop"
      /\ curr' = curr /\ cache' = cache /\ size' = size /\ rc' = rc /\ level' = level
  BY DEF First, Combine, Push, NextPage
<1>4. CASE Combine
  <2>1. /\ End(prev) = curr.va /\ prev' = [prev EXCEPT !.size = prev.size + curr.size]
        /\ pc = "page" /\ prev # NoFragment
    BY <1>4 DEF Combine, Contiguous, Apart
  <2>2. prev.va \in Nat /\ prev.size \in Nat /\ prev.va + prev.size = curr.va
    BY <1>1, <2>1, FragmentEnd
  <2>3. prev.size + curr.size \in Nat /\ prev.size + curr.size > 0
    BY <1>2, <2>2
  <2>4. prev' \in Fragments /\ prev'.va = prev.va /\ prev'.size = prev.size + curr.size
    BY <1>1, <2>1, <2>3 DEF Fragments
  <2>5. End(prev') = prev.va + (prev.size + curr.size)
    BY <2>4 DEF End
  <2>6. prev' # NoFragment
    BY <2>3, <2>4, NotNone
  <2> QED
    BY <1>2, <1>3, <1>4, <2>2, <2>3, <2>4, <2>5, <2>6
<1>5. CASE ~Combine
  <2>1. prev' = curr
    BY <1>5 DEF First, Push
  <2>2. curr # NoFragment
    BY <1>1, <1>2, NotNone
  <2> QED
    BY <1>1, <1>2, <1>3, <1>5, <2>1, <2>2
<1> QED
  BY <1>4, <1>5

LEMMA ListStep == ASSUME Given, Types, ListInv, [Next]_vars PROVE ListInv'
<1>0. call' = call /\ call.va \in Nat /\ call.size \in Nat /\ size \in Nat /\ addr \in Nat
  BY SameTables, ContextType DEF Types
<1>1. CASE StartWalk \/ PdeIsPte \/ Descend
  <2>1. /\ pc \in {"loop", "walk"} /\ pc' \in {"walk", "leaf", "done"}
        /\ UNCHANGED <<addr, size, prev, frags, curr>> /\ rc' \in {rc, "walk"}
    BY <1>1 DEF StartWalk, PdeIsPte, Descend, Fail, Below, list
  <2> QED
    BY <1>0, <2>1 DEF ListInv
<1>2. CASE Leaf
  <2>1. /\ pc = "leaf" /\ pc' \in {"page", "done"}
        /\ UNCHANGED <<addr, prev, frags>>
    BY <1>2 DEF Leaf, Fail, WalkedTo, list
  <2>2. CASE pc' = "page"
    <3>1. /\ curr' \in Fragments /\ size' \in Nat
          /\ curr'.va <= addr /\ addr < End(curr')
          /\ size' = size + (addr - curr'.va) /\ rc' = rc
      BY <1>2, <2>2, LeafWalks, WalkedType
    <3>2. curr'.va \in Nat
      BY <3>1, FragmentEnd
    <3>3. prev = NoFragment => addr = call.va /\ size = call.size /\ frags = << >>
      BY <2>1 DEF ListInv
    <3>4. prev # NoFragment => End(prev) = addr /\ prev.size > 0
      BY <2>1 DEF ListInv
    <3>5. size >= call.size /\ rc # "ok"
      BY <2>1 DEF ListInv
    <3>6. size' >= call.size
      BY <1>0, <3>1, <3>2, <3>5
    <3>7. prev = NoFragment => size' = call.size + (call.va - curr'.va)
      BY <1>0, <3>1, <3>3
    <3>8. End(curr)' = End(curr') /\ End(prev)' = End(prev)
      BY <2>1 DEF End
    <3> QED
      BY <1>0, <2>1, <2>2, <3>1, <3>3, <3>4, <3>5, <3>6, <3>7, <3>8 DEF ListInv
  <2>3. CASE pc' = "done"
    <3>1. size' = size /\ rc' = "walk"
      BY <1>2, <2>3 DEF Leaf, WalkedTo, Fail
    <3> QED
      BY <1>0, <2>3, <3>1 DEF ListInv
  <2> QED
    BY <2>1, <2>2, <2>3
<1>3. CASE First \/ Combine \/ Push
  <2>1. /\ prev' \in Fragments /\ prev' # NoFragment /\ prev'.size > 0
        /\ End(prev') = addr' /\ pc' = "loop" /\ size' = size /\ rc' = rc
    BY <1>3, TakesPage
  <2>2. pc = "page"
    BY <1>3 DEF First, Combine, Push, Apart
  <2>3. NoFragment' = NoFragment /\ End(prev)' = End(prev')
    BY DEF NoFragment, NoEntry, End
  <2> QED
    BY <1>0, <2>1, <2>2, <2>3 DEF ListInv
<1>4. CASE ReadFails \/ Aliased \/ CodeBug \/ NoMemory \/ Finish
  <2>1. size' = size /\ pc' = "done"
    BY <1>4 DEF ReadFails, Aliased, CodeBug, NoMemory, Finish, Fail
  <2> QED
    BY <1>0, <2>1 DEF ListInv
<1>5. CASE UNCHANGED vars
  BY <1>0, <1>5 DEF vars, ListInv, list, tables
<1> QED
  BY <1>1, <1>2, <1>3, <1>4, <1>5 DEF Next

-----------------------------------------------------------------------------
(* Pages in the same place of a level are found at the same entry.         *)
LEMMA SameEntry ==
  ASSUME NEW pde, NEW l, NEW a, NEW c,
         (a - Start) \div Stride(l) = (c - Start) \div Stride(l)
  PROVE  EntryAddr(pde, l, a) = EntryAddr(pde, l, c)
BY DEF EntryAddr, EntryIn

LEMMA NextMultiple ==
  ASSUME NEW n \in Nat \ {0}, NEW v \in Nat, v % n = 0 PROVE (v + n) % n = 0
<1> DEFINE q == v \div n
<1>1. q \in Int /\ v = n * q
  BY Divided
<1> HIDE DEF q
<1>2. v + n = n * (q + 1) /\ q + 1 \in Int
  BY <1>1
<1> QED
  BY <1>2, Multiple

(* The walk ends as the cache says that a way ends.                        *)
LEMMA LeafEnds ==
  ASSUME Given, Types, WalkInv, SizesFit, CoverInv, Leaf, pc' = "page"
  PROVE  LET e == level + 1
             n == curr'.size
         IN  /\ e \in 0 .. Depth /\ Traces(addr, e) /\ Ended(e, n)
             /\ n \in {1, Stride(0)} \/ (n = Stride(1) /\ e > 0)
             /\ n \in {1, Stride(0), Stride(1)}
             /\ curr'.va % n = 0 /\ curr'.va \in Nat
             /\ curr'.va = addr - (addr % n) /\ curr'.va <= addr /\ addr < curr'.va + n
<1> DEFINE e == level + 1
           n == curr'.size
<1>1. PICK pte \in Entries, m \in Nat \ {0} :
        /\ WalkedTo(pte, m)
        /\ IF Further THEN m = 1 ELSE m = WalkSize
  BY LeafWalks
<1>2. /\ curr' = [va |-> addr - (addr % m), pa |-> pte.base, size |-> m, flags |-> pte]
      /\ curr' \in Fragments /\ curr'.va <= addr /\ addr < End(curr') /\ curr'.va % m = 0
  BY <1>1, WalkedType
<1>3. /\ n = m /\ curr'.va = addr - (addr % n) /\ curr'.va \in Nat
      /\ curr'.va <= addr /\ addr < curr'.va + n /\ curr'.va % n = 0
  BY <1>2, FragmentEnd
<1>4. Depth \in Nat /\ Depth > 0
  BY ContextType DEF WalkInv, Leaf
<1>5. CASE parent.pte
  <2>1. level \in 0 .. Depth - 1 /\ Traces(addr, level + 1) /\ parent = Up(level)
    BY <1>5 DEF WalkInv, Leaf
  <2>2. n = IF level = 0 THEN Stride(1) ELSE 1
    BY <1>1, <1>3, <1>5 DEF Further, WalkSize
  <2>3. e > 0 /\ e - 1 = level /\ (e = 1 <=> level = 0) /\ e \in 0 .. Depth
    BY <1>4, <2>1
  <2> HIDE DEF n
  <2>4. Ended(e, n)
    <3> HIDE DEF e
    <3> QED
      BY <1>5, <2>1, <2>2, <2>3 DEF Ended
  <2>5. n \in {1, Stride(0)} \/ (n = Stride(1) /\ e > 0)
    BY <2>2, <2>3
  <2> QED
    BY <1>3, <2>1, <2>3, <2>4, <2>5 DEF n
<1>6. CASE ~parent.pte
  <2>1. level = -1 /\ parent = Up(0) /\ base = Up(-1) /\ Traces(addr, 0)
    BY <1>6 DEF WalkInv, Leaf
  <2>2. n = IF Up(-1).valid /\ Up(-1).tf THEN 1 ELSE Power(2)[Up(0).bfs]
    BY <1>1, <1>3, <1>6, <2>1 DEF Further, WalkSize
  <2>3. Up(0).bfs \in {0, ctx.blockLog}
    <3>1. 0 # Depth /\ 0 + 1 \in Levels
      BY <1>4 DEF Levels
    <3> QED
      BY <3>1 DEF Up, CoverInv
  <2>4. Power(2)[0] = 1 /\ Power(2)[ctx.blockLog] = Stride(0)
    BY PowerUnfold, StrideType
  <2>5. e = 0 /\ e \in 0 .. Depth
    BY <1>4, <2>1
  <2> HIDE DEF n
  <2>6. n \in {1, Stride(0)}
    BY <2>2, <2>3, <2>4
  <2>7. Ended(e, n)
    BY <2>2, <2>5 DEF Ended
  <2> QED
    BY <1>3, <2>1, <2>5, <2>6, <2>7 DEF n
<1> QED
  BY <1>5, <1>6

(* One way has one end, and one size there.                                *)
LEMMA OneEnd ==
  ASSUME Given,
         NEW d \in 0 .. Depth, NEW a, NEW m, Traces(a, d), Ended(d, m),
         NEW e \in 0 .. Depth, NEW c, NEW n, Traces(c, e), Ended(e, n)
  PROVE  m = n
<1>1. Depth \in Nat
  BY ContextType
<1>2. ASSUME d < e PROVE FALSE
  <2>1. e > 0 /\ e - 1 \in d .. Depth
    BY <1>1, <1>2
  <2>2. Up(e - 1).pte
    BY <2>1 DEF Ended
  <2> QED
    BY <2>1, <2>2 DEF Traces
<1>3. ASSUME e < d PROVE FALSE
  <2>1. d > 0 /\ d - 1 \in e .. Depth
    BY <1>1, <1>3
  <2>2. Up(d - 1).pte
    BY <2>1 DEF Ended
  <2> QED
    BY <2>1, <2>2 DEF Traces
<1>4. d = e
  BY <1>1, <1>2, <1>3
<1> QED
  BY <1>4 DEF Ended

(* The next fragment starts at the next address.                           *)
LEMMA LeafAligned ==
  ASSUME Given, Types, WalkInv, ListInv, SizesFit, StartFits, CoverInv, Leaf, pc' = "page",
         prev # NoFragment
  PROVE  curr'.va = addr
<1> DEFINE e == level + 1
           n == curr'.size
<1>1. /\ e \in 0 .. Depth /\ Traces(addr, e) /\ Ended(e, n)
      /\ n \in {1, Stride(0)} \/ (n = Stride(1) /\ e > 0)
      /\ n \in {1, Stride(0), Stride(1)}
      /\ curr'.va = addr - (addr % n)
  BY LeafEnds
<1>2. addr \in Nat /\ Depth \in Nat
  BY ContextType DEF Types
<1>3. n \in Nat \ {0}
  BY <1>1, StrideType
<1> HIDE DEF n
<1>4. /\ End(curr) = addr /\ curr.size \in {1, Stride(0), Stride(1)} /\ curr.va % curr.size = 0
      /\ Kept \/ Parted
  BY DEF CoverInv, Leaf
<1>5. addr % n = 0
  <2>1. CASE Parted
    <3>1. PICK l \in e .. Depth : (addr - Start) % Stride(l) = 0
      BY <2>1 DEF Parted
    <3> HIDE DEF e
    <3>2. l \in Nat /\ (n \in {1, Stride(0)} \/ (n = Stride(1) /\ l > 0))
      BY <1>1, <1>2, <3>1
    <3> QED
      BY <1>2, <3>1, <3>2, EndsBelow
  <2>2. CASE Kept
    <3>1. PICK d \in 0 .. Depth : Traces(End(curr) - 1, d) /\ Ended(d, curr.size)
      BY <2>2 DEF Kept
    <3> HIDE DEF e
    <3>2. curr.size = n
      BY <1>1, <3>1, OneEnd
    <3>3. curr.va \in Nat /\ addr = curr.va + n
      BY <1>4, <3>2, FragmentEnd DEF Types
    <3> QED
      BY <1>3, <1>4, <3>2, <3>3, NextMultiple
  <2> QED
    BY <1>4, <2>1, <2>2
<1> QED
  BY <1>1, <1>2, <1>5


(* All the pages of the fragment have the way of the next address.         *)
LEMMA FragmentTraces ==
  ASSUME Given, Types, WalkInv, SizesFit, StartFits, CoverInv, Leaf, pc' = "page",
         NEW p \in Int, curr'.va <= p, p < curr'.va + curr'.size
  PROVE  Traces(p, level + 1)
<1> DEFINE e == level + 1
           n == curr'.size
           v == curr'.va
<1>1. /\ e \in 0 .. Depth /\ Traces(addr, e)
      /\ n \in {1, Stride(0)} \/ (n = Stride(1) /\ e > 0)
      /\ v % n = 0 /\ v \in Nat /\ v <= addr /\ addr < v + n
  BY LeafEnds
<1>2. addr \in Int /\ Depth \in Nat
  BY ContextType DEF Types
<1> SUFFICES ASSUME NEW l \in e .. Depth
             PROVE  cache[l].addr = EntryAddr(Up(l), l, p) /\ ~Up(l).pte
  BY DEF Traces
<1>3. l \in Nat /\ (n \in {1, Stride(0)} \/ (n = Stride(1) /\ l > 0))
  <2>1. l \in Nat /\ (e > 0 => l > 0)
    BY <1>1, <1>2
  <2> HIDE DEF n, e
  <2> QED
    BY <1>1, <2>1
<1>4. (addr - Start) \div Stride(l) = (p - Start) \div Stride(l)
  <2>1. v \in Nat /\ v % n = 0 /\ v <= addr /\ addr < v + n /\ v <= p /\ p < v + n
    BY <1>1
  <2> HIDE DEF n, v, e
  <2>2. \A a, c \in Int : v <= a /\ a < v + n /\ v <= c /\ c < v + n =>
          (a - Start) \div Stride(l) = (c - Start) \div Stride(l)
    BY <1>3, <2>1, SameWay
  <2> QED
    BY <1>2, <2>1, <2>2
<1>5. EntryAddr(Up(l), l, addr) = EntryAddr(Up(l), l, p)
  BY <1>4, SameEntry
<1> QED
  BY <1>1, <1>5 DEF Traces

(* The sizes of the fragments just walked and the way in the cache          *)
LEMMA CoverStep ==
  ASSUME Given, Types, WalkInv, ListInv, SizesFit, StartFits, CoverInv, [Next]_vars
  PROVE  CoverInv'
<1>1. /\ ctx' = ctx /\ mem' = mem /\ Depth' = Depth /\ Start' = Start
      /\ Levels' = Levels /\ ctx'.blockLog = ctx.blockLog
      /\ Depth \in Nat /\ Start \in Nat /\ \A l : Stride(l)' = Stride(l)
  BY SameTables, SameEntries, ContextType DEF Levels
<1>2. ASSUME NEW l \in Levels PROVE cache'[l].raw.bfs \in {0, ctx.blockLog}
  <2>1. CASE cache' = cache
    BY <2>1 DEF CoverInv
  <2>2. CASE Descend
    <3>1. cache[l].raw.bfs \in {0, ctx.blockLog}
      BY DEF CoverInv
    <3>2. l # level => cache'[l] = cache[l]
      BY <2>2, Descends
    <3>3. l = level => cache'[l].raw = base'
      BY <2>2, Descends
    <3>4. base' = cache[level].raw
          \/ \E a : base' = mem[<<base.system, a>>] /\ Readable(base.system, a)
      BY <2>2, Descends
    <3>5. base'.bfs \in {0, ctx.blockLog} \/ (base' = cache[level].raw)
      BY <3>4 DEF SizesFit, Readable
    <3> QED
      BY <3>1, <3>2, <3>3, <3>5
  <2>3. Descend \/ cache' = cache
    BY DEF Next, vars, StartWalk, PdeIsPte, ReadFails, Leaf, First, Aliased,
           CodeBug, Combine, Push, Finish, NoMemory
  <2> QED
    BY <2>1, <2>2, <2>3
<1>3. ASSUME curr' = curr, cache' = cache PROVE Kept' <=> Kept
  BY <1>1, <1>3, SameTraces DEF Kept, End
<1>4. CASE StartWalk
  <2>1. pc = "loop" /\ pc' \in {"walk", "done"} /\ UNCHANGED <<addr, cache, curr, prev>>
    BY <1>4 DEF StartWalk, Fail, list
  <2>2. prev # NoFragment =>
          /\ End(curr) = addr /\ Kept
          /\ curr.size \in {1, Stride(0), Stride(1)} /\ curr.va % curr.size = 0
    BY <2>1 DEF CoverInv
  <2> QED
    BY <1>1, <1>2, <1>3, <2>1, <2>2 DEF CoverInv, NeverBackwards, End
<1>5. CASE PdeIsPte
  <2>1. pc = "walk" /\ pc' = "leaf" /\ UNCHANGED <<addr, level, cache, curr, prev>>
    BY <1>5 DEF PdeIsPte, list
  <2>2. prev # NoFragment =>
          /\ End(curr) = addr /\ (Kept \/ Parted)
          /\ curr.size \in {1, Stride(0), Stride(1)} /\ curr.va % curr.size = 0
    BY <2>1 DEF CoverInv
  <2>3. Parted' <=> Parted
    BY <1>1, <2>1 DEF Parted
  <2> QED
    BY <1>1, <1>2, <1>3, <2>1, <2>2, <2>3 DEF CoverInv, NeverBackwards, End
<1>6. CASE Descend
  <2>1. pc = "walk" /\ pc' \in {"walk", "leaf"} /\ UNCHANGED <<addr, curr, prev>>
    BY <1>6, Descends DEF Descend, list
  <2>2. prev # NoFragment =>
          /\ End(curr) = addr /\ (Kept \/ Parted)
          /\ curr.size \in {1, Stride(0), Stride(1)} /\ curr.va % curr.size = 0
    BY <2>1 DEF CoverInv
  <2>3. /\ level \in 0 .. Depth /\ level' = level - 1 /\ ~Up(level).pte
        /\ addr \in Nat /\ Traces(addr, level + 1)
    BY <1>6, <2>1, Descends DEF WalkInv, Types
  <2>4. ASSUME prev # NoFragment PROVE Kept' \/ Parted'
    <3>1. CASE Parted
      <4>1. PICK l \in level + 1 .. Depth : (addr - Start) % Stride(l) = 0
        BY <3>1 DEF Parted
      <4>2. l \in level' + 1 .. Depth
        BY <1>1, <2>3
      <4>3. Parted'
        BY <1>1, <2>1, <4>1, <4>2 DEF Parted
      <4> QED
        BY <4>3
    <3>2. CASE Kept
      <4>1. PICK e \in 0 .. Depth : Traces(End(curr) - 1, e) /\ Ended(e, curr.size)
        BY <3>2 DEF Kept
      <4>2. level >= e
        <5> SUFFICES ASSUME level < e PROVE FALSE
          BY <1>1, <2>3
        <5>1. e > 0 /\ Up(e - 1).pte
          BY <1>1, <2>3, <4>1 DEF Ended
        <5>2. e - 1 \in level + 1 .. Depth \/ e - 1 = level
          BY <1>1, <2>3
        <5> QED
          BY <2>3, <5>1, <5>2 DEF Traces
      <4>3. cache[level].addr = EntryAddr(Up(level), level, addr - 1)
        BY <1>1, <2>2, <2>3, <2>4, <4>1, <4>2 DEF Traces
      <4> DEFINE s == Stride(level)
      <4>4. s \in Nat \ {0}
        BY <2>3, StrideType
      <4>5. CASE (addr - Start) \div s = ((addr - 1) - Start) \div s
        <5>1. EntryAddr(Up(level), level, addr) = cache[level].addr
          BY <4>3, <4>5, SameEntry
        <5>2. base' = cache[level].raw
          BY <1>6, <5>1, Descends
        <5>3. cache'[level] = [addr |-> cache[level].addr, raw |-> cache[level].raw]
          BY <1>6, <5>1, <5>2, Descends
        <5>4. cache[level] \in [addr : Int, raw : Entries]
          BY <2>3 DEF Types, Levels
        <5>5. cache'[level] = cache[level]
          BY <5>3, <5>4
        <5>6. cache' = [cache EXCEPT ![level] = cache'[level]]
          BY <1>6, Descends DEF Descend
        <5>7. cache' = cache
          BY <5>5, <5>6 DEF Types
        <5> QED
          BY <1>3, <2>1, <3>2, <5>7
      <4>6. CASE (addr - Start) \div s # ((addr - 1) - Start) \div s
        <5> DEFINE x == addr - Start
        <5>1. x \in Int /\ (addr - 1) - Start = x - 1
          BY <1>1, <2>3
        <5>2. x \div s # (x - 1) \div s
          BY <4>6, <5>1
        <5> HIDE DEF s, x
        <5>3. x % s = 0
          BY <4>4, <5>1, <5>2, Boundary
        <5> USE DEF s, x
        <5>4. level \in level' + 1 .. Depth
          BY <1>1, <2>3
        <5>5. Parted'
          BY <1>1, <2>1, <5>3, <5>4 DEF Parted
        <5> QED
          BY <5>5
      <4> QED
        BY <4>5, <4>6
    <3> QED
      BY <2>2, <2>4, <3>1, <3>2
  <2> QED
    BY <1>1, <1>2, <2>1, <2>2, <2>4 DEF CoverInv, NeverBackwards, End
<1>7. CASE Leaf
  <2>1. pc' \in {"page", "done"} /\ UNCHANGED <<addr, cache, prev>>
    BY <1>7 DEF Leaf, Fail, WalkedTo, list
  <2>2. CASE pc' = "page"
    <3> DEFINE e == level + 1
               n == curr'.size
               v == curr'.va
               z == (v + n) - 1
    <3>1. /\ e \in 0 .. Depth /\ Traces(addr, e) /\ Ended(e, n)
          /\ n \in {1, Stride(0)} \/ (n = Stride(1) /\ e > 0)
          /\ n \in {1, Stride(0), Stride(1)}
          /\ v % n = 0 /\ v \in Nat /\ v <= addr /\ addr < v + n
      BY <1>7, <2>2, LeafEnds
    <3>2. addr \in Nat /\ n \in Nat \ {0} /\ z \in Int /\ v <= z /\ z < v + n
      <4>1. addr \in Nat /\ n \in Nat \ {0}
        <5>1. Stride(0) \in Nat \ {0} /\ Stride(1) \in Nat \ {0}
          BY StrideType
        <5> QED
          BY <3>1, <5>1 DEF Types
      <4>2. v \in Nat
        BY <3>1
      <4> HIDE DEF n, v
      <4> QED
        BY <4>1, <4>2
    <3>3. PICK d \in 0 .. Depth : d = e
      BY <3>1
    <3>4. PICK y, m : y = z /\ m = n
      OBVIOUS
    <3>5. Traces(z, e)
      <4> HIDE DEF e, z
      <4>1. z \in Int /\ curr'.va <= z /\ z < curr'.va + curr'.size
        BY <3>2
      <4> QED
        BY <1>7, <2>2, <4>1, FragmentTraces DEF e
    <3>6. Traces(y, d) /\ Ended(d, m)
      BY <3>1, <3>3, <3>4, <3>5
    <3>7. Traces(y, d)' /\ Ended(d, m)'
      BY <1>1, <2>1, <3>6, SameTraces
    <3>8. Kept'
      <4>1. End(curr)' - 1 = y /\ curr'.size = m
        BY <3>4 DEF End
      <4> QED
        BY <1>1, <3>7, <4>1 DEF Kept
    <3>9. curr'.size \in {1, Stride(0), Stride(1)}' /\ curr'.va % curr'.size = 0
      BY <1>1, <3>1
    <3>10. NeverBackwards'
      <4> SUFFICES ASSUME prev # NoFragment PROVE End(prev) = curr'.va
        BY <2>1 DEF NeverBackwards, End, NoFragment, NoEntry
      <4> QED
        BY <1>7, <2>2, LeafAligned DEF ListInv, Leaf
    <3> QED
      BY <1>1, <1>2, <2>2, <3>8, <3>9, <3>10 DEF CoverInv
  <2> QED
    BY <1>1, <1>2, <2>1, <2>2 DEF CoverInv, NeverBackwards
<1>8. CASE First \/ Combine \/ Push
  <2>1. /\ End(curr) = addr' /\ curr' = curr /\ cache' = cache /\ pc' = "loop" /\ pc = "page"
    BY <1>8, TakesPage DEF First, Combine, Push, Apart
  <2>2. /\ Kept /\ curr.size \in {1, Stride(0), Stride(1)} /\ curr.va % curr.size = 0
    BY <2>1 DEF CoverInv
  <2> QED
    BY <1>1, <1>2, <1>3, <2>1, <2>2 DEF CoverInv, NeverBackwards, End
<1>9. CASE ReadFails \/ Aliased \/ CodeBug \/ Finish \/ NoMemory
  <2>1. pc' = "done"
    BY <1>9 DEF ReadFails, Aliased, CodeBug, Finish, NoMemory, Fail
  <2> QED
    BY <1>1, <1>2, <2>1 DEF CoverInv, NeverBackwards
<1>10. CASE UNCHANGED vars
  <2>1. UNCHANGED <<pc, addr, level, cache, curr, prev>>
    BY <1>10 DEF vars
  <2>2. Parted' <=> Parted
    BY <1>1, <2>1 DEF Parted
  <2> QED
    BY <1>1, <1>2, <1>3, <2>1, <2>2 DEF CoverInv, NeverBackwards, End, NoFragment, NoEntry
<1> QED
  BY <1>4, <1>5, <1>6, <1>7, <1>8, <1>9, <1>10 DEF Next


LEMMA Appended ==
  ASSUME NEW T, NEW s \in Seq(T), NEW x \in T
  PROVE  LET t == Append(s, x)
         IN  /\ t \in Seq(T) /\ t # << >> /\ Len(t) = Len(s) + 1 /\ Len(s) \in Nat
             /\ t[Len(t)] = x /\ \A i \in 1 .. Len(s) : t[i] = s[i]
             /\ s = << >> => Len(s) = 0
             /\ s # << >> => Len(s) > 0
OBVIOUS

(* A fragment that is added to the list starts where the list ends.         *)
LEMMA ChainGrows ==
  ASSUME Types, ChainInv, pc # "done", prev # NoFragment, AddNode, call.va \in Nat
  PROVE  /\ frags' # << >> /\ frags'[1].va <= call.va
         /\ frags'[Len(frags')] = prev
         /\ \A i \in 1 .. Len(frags') - 1 : End(frags'[i]) = frags'[i + 1].va
<1> DEFINE n == Len(frags)
<1>1. /\ frags' # << >> /\ Len(frags') = n + 1 /\ n \in Nat
      /\ frags'[n + 1] = prev /\ \A i \in 1 .. n : frags'[i] = frags[i]
      /\ frags = << >> => n = 0
      /\ frags # << >> => n > 0
  BY Appended DEF Types, AddNode
<1>2. /\ IF frags = << >> THEN prev.va <= call.va ELSE frags[1].va <= call.va
      /\ frags # << >> => End(frags[n]) = prev.va
      /\ \A i \in 1 .. n - 1 : End(frags[i]) = frags[i + 1].va
  BY DEF ChainInv
<1> HIDE DEF n
<1>3. frags'[1].va <= call.va
  <2>1. CASE frags = << >>
    BY <1>1, <1>2, <2>1
  <2>2. CASE frags # << >>
    <3>1. 1 \in 1 .. n
      BY <1>1, <2>2
    <3> QED
      BY <1>1, <1>2, <2>2, <3>1
  <2> QED
    BY <2>1, <2>2
<1>4. ASSUME NEW i \in 1 .. n PROVE End(frags'[i]) = frags'[i + 1].va
  <2>1. frags # << >> /\ frags'[i] = frags[i]
    BY <1>1
  <2>2. CASE i = n
    BY <1>1, <1>2, <2>1, <2>2
  <2>3. CASE i # n
    <3>1. i \in 1 .. n - 1 /\ i + 1 \in 1 .. n
      BY <1>1, <2>3
    <3> QED
      BY <1>1, <1>2, <2>1, <3>1
  <2> QED
    BY <2>2, <2>3
<1> QED
  BY <1>1, <1>3, <1>4

LEMMA ChainStep ==
  ASSUME Given, Types, ListInv, NeverBackwards, ChainInv, [Next]_vars PROVE ChainInv'
<1>1. call' = call /\ call.va \in Nat /\ call.size \in Nat
  BY SameTables, ContextType
<1>2. rc = "ok" => pc = "done"
  BY DEF ListInv
<1>3. CASE First
  <2>1. frags' = << >> /\ prev' = curr /\ curr.va <= call.va /\ rc' = rc /\ pc = "page"
    BY <1>1, <1>3, FragmentEnd DEF First, ListInv, Types
  <2> QED
    BY <1>1, <1>2, <2>1 DEF ChainInv
<1>4. CASE Combine
  <2>1. /\ pc = "page" /\ pc' = "loop" /\ prev # NoFragment /\ prev'.va = prev.va
        /\ rc' = rc /\ frags' = frags
    BY <1>4, TakesPage DEF Combine, Apart
  <2> QED
    BY <1>1, <1>2, <2>1 DEF ChainInv
<1>5. CASE Push
  <2>1. pc = "page" /\ prev # NoFragment /\ rc' = rc /\ prev' = curr /\ AddNode
    BY <1>5 DEF Push, Apart
  <2>2. End(prev) = curr.va
    BY <2>1 DEF NeverBackwards
  <2>3. /\ frags' # << >> /\ frags'[1].va <= call.va
        /\ frags'[Len(frags')] = prev
        /\ \A i \in 1 .. Len(frags') - 1 : End(frags'[i]) = frags'[i + 1].va
    BY <1>1, <2>1, ChainGrows
  <2> QED
    BY <1>1, <1>2, <2>1, <2>2, <2>3 DEF ChainInv
<1>6. CASE Finish
  <2>1. pc = "loop" /\ pc' = "done" /\ AddNode /\ ~(addr < call.va + size)
    BY <1>6 DEF Finish, More
  <2>2. /\ addr \in Nat /\ size \in Nat /\ size >= call.size
        /\ IF prev = NoFragment THEN addr = call.va /\ frags = << >> /\ size = call.size
           ELSE End(prev) = addr
    BY <2>1 DEF ListInv, Types
  <2>3. CASE prev = NoFragment
    <3>1. call.size = 0
      BY <1>1, <2>1, <2>2, <2>3
    <3>2. frags' = <<prev>> /\ Len(frags') = 1
      BY <2>1, <2>2, <2>3 DEF AddNode
    <3> QED
      BY <1>1, <2>1, <3>1, <3>2 DEF ChainInv
  <2>4. CASE prev # NoFragment
    <3>1. /\ frags' # << >> /\ frags'[1].va <= call.va
          /\ frags'[Len(frags')] = prev
          /\ \A i \in 1 .. Len(frags') - 1 : End(frags'[i]) = frags'[i + 1].va
      BY <1>1, <2>1, <2>4, ChainGrows
    <3>2. call.va + call.size <= End(prev)
      BY <1>1, <2>1, <2>2, <2>4
    <3> QED
      BY <1>1, <2>1, <3>1, <3>2 DEF ChainInv
  <2> QED
    BY <2>3, <2>4
<1>7. CASE StartWalk \/ PdeIsPte \/ Descend \/ ReadFails \/ Leaf \/ UNCHANGED vars
  <2>1. frags' = frags /\ prev' = prev /\ rc' \in {rc, "walk", "exit"} /\ (pc = "done" => pc' = "done")
    BY <1>7 DEF StartWalk, PdeIsPte, Descend, ReadFails, Leaf, WalkedTo, Fail, list, vars
  <2> QED
    BY <1>1, <2>1 DEF ChainInv, NoFragment, NoEntry
<1>8. CASE Aliased \/ CodeBug \/ NoMemory
  <2>1. pc' = "done" /\ frags' = frags /\ rc' # "ok"
    BY <1>8 DEF Aliased, CodeBug, NoMemory, Fail, list
  <2> QED
    BY <1>1, <2>1 DEF ChainInv
<1> QED
  BY <1>3, <1>4, <1>5, <1>6, <1>7, <1>8 DEF Next

LEMMA InitInv == ASSUME Init PROVE IInv
<1>1. PICK c \in Cases : ctx = c.ctx /\ mem = c.mem /\ call = c.call
  BY DEF Init
<1>2. Given
  BY <1>1, XlatorAssumption DEF Given
<1>3. NoEntry \in Entries /\ Depth \in Nat /\ call.va \in Nat /\ call.size \in Nat
  BY <1>2, RootType, ContextType
<1>4. NoFragment \in Fragments
  BY <1>3 DEF NoFragment, Fragments
<1>5. Types
  <2>1. cache \in [Levels -> [addr : Int, raw : Entries]]
    BY <1>3 DEF Init
  <2> QED
    BY <1>3, <1>4, <2>1 DEF Init, Types
<1>6. WalkInv
  BY DEF WalkInv, Init
<1>7. ListInv
  BY <1>3 DEF ListInv, Init
<1>8. CoverInv
  BY DEF CoverInv, Init, NoEntry, NeverBackwards
<1>9. ChainInv
  BY DEF ChainInv, Init
<1> QED
  BY <1>2, <1>5, <1>6, <1>7, <1>8, <1>9 DEF IInv

LEMMA StepInv == ASSUME IInv, [Next]_vars PROVE IInv'
<1>1. Given /\ Types /\ WalkInv /\ ListInv
  BY DEF IInv
<1>2. Given' /\ Types' /\ WalkInv' /\ ListInv'
  BY <1>1, GivenStep, TypeStep, WalkStep, ListStep
<1>3. (SizesFit' <=> SizesFit) /\ (StartFits' <=> StartFits)
  BY SameTables, SameEntries DEF SizesFit, StartFits
<1>4. ASSUME SizesFit, StartFits PROVE CoverInv' /\ ChainInv'
  <2>1. CoverInv /\ ChainInv
    BY <1>4 DEF IInv
  <2>2. NeverBackwards
    BY <2>1 DEF CoverInv
  <2> QED
    BY <1>1, <1>4, <2>1, <2>2, CoverStep, ChainStep
<1> QED
  BY <1>2, <1>3, <1>4 DEF IInv

THEOREM Invariant == Spec => []IInv
BY InitInv, StepInv, PTL DEF Spec

(* Every variable keeps its type: the level only passes 0 when the descent *)
(* is over, and the cache holds one entry of each level.                   *)
THEOREM TypeCorrect == Spec => []TypeOK
<1>1. ASSUME IInv PROVE TypeOK
  <2>1. Types /\ (pc = "walk" => level \in Levels)
    BY <1>1 DEF IInv, WalkInv
  <2>2. \A i \in DOMAIN frags : frags[i] \in Fragments
    BY <2>1 DEF Types
  <2> QED
    BY <2>1, <2>2 DEF Types, TypeOK
<1> QED
  BY <1>1, Invariant, PTL

(* sift_xlator_translate_range: a list that is returned covers every page  *)
(* asked for, with no gap and no page twice, for tables of any depth and   *)
(* content.                                                                *)
THEOREM Covers == Spec => []CoversRequest
<1>1. ASSUME IInv PROVE CoversRequest
  <2> SUFFICES ASSUME SizesFit /\ StartFits
               PROVE  /\ NeverBackwards
                      /\ rc = "ok" /\ call.size > 0 =>
                           /\ frags[1].va <= call.va
                           /\ call.va + call.size <= End(Last(frags))
                           /\ \A i \in 1 .. Len(frags) - 1 : End(frags[i]) = frags[i + 1].va
    BY DEF CoversRequest
  <2>1. CoverInv /\ ChainInv
    BY <1>1 DEF IInv
  <2>2. Last(frags) = frags[Len(frags)]
    BY DEF Last
  <2> QED
    BY <2>1, <2>2 DEF CoverInv, ChainInv
<1> QED
  BY <1>1, Invariant, PTL

-----------------------------------------------------------------------------
LEMMA HeldStep == ASSUME Given, Types, WalkInv, Held, [Next]_vars PROVE Held'
<1>1. mem' = mem /\ Levels' = Levels
  BY SameTables, SameEntries DEF Levels
<1>2. ASSUME NEW l \in Levels, cache'[l] = cache[l]
      PROVE  \/ cache'[l] = [addr |-> 0, raw |-> NoEntry]
             \/ \E sys \in BOOLEAN : /\ Readable(sys, cache[l].addr)'
                                     /\ cache'[l].raw = mem'[<<sys, cache'[l].addr>>]
  BY <1>1, <1>2 DEF Held, Readable
<1>3. CASE Descend
  <2> DEFINE a == EntryAddr(base, level, addr)
  <2>1. /\ cache'[level] = [addr |-> a, raw |-> base'] /\ level \in Levels
        /\ IF cache[level].addr = a
           THEN base' = cache[level].raw
           ELSE base' = mem[<<base.system, a>>] /\ Readable(base.system, a)
        /\ \A l \in Levels : l # level => cache'[l] = cache[l]
    BY <1>3, Descends DEF Levels
  <2> HIDE DEF a
  <2>2. CASE cache[level].addr = a
    <3>1. cache[level] \in [addr : Int, raw : Entries]
      BY <2>1 DEF Types
    <3>2. cache[level] = [addr |-> cache[level].addr, raw |-> cache[level].raw]
      BY <3>1
    <3>3. cache'[level] = cache[level]
      BY <2>1, <2>2, <3>2
    <3> QED
      BY <1>1, <1>2, <2>1, <3>3 DEF Held, NoEntry
  <2>3. CASE cache[level].addr # a
    <3>1. base.system \in BOOLEAN
      BY DEF Types, Entries
    <3>2. cache'[level].addr = a /\ cache'[level].raw = mem[<<base.system, a>>] /\ Readable(base.system, a)
      BY <2>1, <2>3
    <3>3. \A l \in Levels : l = level =>
            \E sys \in BOOLEAN : /\ <<sys, cache'[l].addr>> \in DOMAIN mem'
                                 /\ cache'[l].raw = mem'[<<sys, cache'[l].addr>>]
      BY <1>1, <3>1, <3>2 DEF Readable
    <3>4. \A l \in Levels : l # level =>
             \/ cache'[l] = [addr |-> 0, raw |-> NoEntry]
             \/ \E sys \in BOOLEAN : /\ <<sys, cache'[l].addr>> \in DOMAIN mem'
                                     /\ cache'[l].raw = mem'[<<sys, cache'[l].addr>>]
      BY <1>1, <1>2, <2>1 DEF Readable
    <3> QED
      BY <1>1, <3>3, <3>4 DEF Held, Readable, NoEntry
  <2> QED
    BY <2>2, <2>3
<1>4. CASE cache' = cache
  BY <1>1, <1>4 DEF Held, Readable, NoEntry
<1>5. Descend \/ cache' = cache
  BY DEF Next, vars, StartWalk, PdeIsPte, ReadFails, Leaf, First, Aliased,
         CodeBug, Combine, Push, Finish, NoMemory
<1> QED
  BY <1>3, <1>4, <1>5

(* The entry at level l that the entry `up' leads to for page p            *)
Lower(up, l, p) ==
  IF up.pte THEN up ELSE Entry(up.system, EntryIn(up, l, p, ctx.fbOffset))

(* The entries on the way of page p down to level k                        *)
Way(g, p, k) ==
  /\ g \in [k .. Depth + 1 -> Entries]
  /\ g[Depth + 1] = Root
  /\ \A l \in k .. Depth : g[l] = Lower(g[l + 1], l, p)

LEMMA LowerType ==
  ASSUME Given, NEW up \in Entries, NEW l, NEW p PROVE Lower(up, l, p) \in Entries
BY RootType DEF Lower, Entry, Readable, Given

LEMMA WayExists ==
  ASSUME Given, NEW p, NEW n \in 0 .. Depth + 1 PROVE \E g : Way(g, p, (Depth + 1) - n)
<1> DEFINE S == {k \in Nat : k <= Depth + 1 => \E g : Way(g, p, (Depth + 1) - k)}
<1>1. Depth \in Nat /\ Root \in Entries
  BY ContextType, RootType
<1>2. 0 \in S
  <2> DEFINE g == [l \in Depth + 1 .. Depth + 1 |-> Root]
  <2>1. g \in [Depth + 1 .. Depth + 1 -> Entries] /\ g[Depth + 1] = Root
    BY <1>1
  <2>2. Depth + 1 .. Depth = {} /\ (Depth + 1) - 0 = Depth + 1
    BY <1>1
  <2> HIDE DEF g
  <2>3. Way(g, p, (Depth + 1) - 0)
    BY <2>1, <2>2 DEF Way
  <2> QED
    BY <2>3
<1>3. ASSUME NEW k \in Nat, k \in S PROVE k + 1 \in S
  <2> SUFFICES ASSUME k + 1 <= Depth + 1 PROVE \E g : Way(g, p, (Depth + 1) - (k + 1))
    OBVIOUS
  <2> DEFINE m == (Depth + 1) - (k + 1)
  <2>1. k <= Depth + 1 /\ m \in Nat /\ m <= Depth /\ (Depth + 1) - k = m + 1
    BY <1>1
  <2>2. PICK g : Way(g, p, m + 1)
    BY <1>3, <2>1
  <2> DEFINE w == Lower(g[m + 1], m, p)
             h == [l \in m .. Depth + 1 |-> IF l = m THEN w ELSE g[l]]
  <2> HIDE DEF m
  <2>3. /\ g \in [m + 1 .. Depth + 1 -> Entries] /\ g[Depth + 1] = Root
        /\ \A l \in m + 1 .. Depth : g[l] = Lower(g[l + 1], l, p)
    BY <2>2 DEF Way
  <2>4. w \in Entries
    <3>1. g[m + 1] \in Entries
      BY <1>1, <2>1, <2>3
    <3> QED
      BY <3>1, LowerType
  <2>5. h \in [m .. Depth + 1 -> Entries] /\ h[Depth + 1] = Root
    <3> HIDE DEF w
    <3> QED
      BY <1>1, <2>1, <2>3, <2>4
  <2>6. ASSUME NEW l \in m .. Depth PROVE h[l] = Lower(h[l + 1], l, p)
    <3>1. l + 1 \in m .. Depth + 1 /\ l + 1 # m /\ l \in m .. Depth + 1 /\ l \in Int
      BY <1>1, <2>1
    <3>2. h[l + 1] = g[l + 1]
      BY <3>1
    <3>3. CASE l = m
      BY <3>1, <3>2, <3>3
    <3>4. CASE l # m
      <4>1. l \in m + 1 .. Depth /\ h[l] = g[l]
        BY <1>1, <2>1, <3>1, <3>4
      <4> QED
        BY <2>3, <3>2, <4>1
    <3> QED
      BY <3>3, <3>4
  <2> HIDE DEF h
  <2>7. Way(h, p, m)
    BY <2>5, <2>6 DEF Way
  <2> QED
    BY <2>7 DEF m
<1>4. Nat \subseteq S
  <2> HIDE DEF S
  <2> QED
    BY <1>2, <1>3, Induction
<1> QED
  BY <1>1, <1>4

(* Followed satisfies the equation it is defined by.                       *)
LEMMA FollowedUnfold ==
  ASSUME Given, NEW p
  PROVE  /\ Followed(p)[Depth + 1] = Root
         /\ \A l \in 0 .. Depth : Followed(p)[l] = Lower(Followed(p)[l + 1], l, p)
         /\ \A l \in 0 .. Depth + 1 : Followed(p)[l] \in Entries
<1> DEFINE Is(f) == f = [l \in 0 .. Depth + 1 |->
                           IF l = Depth + 1 THEN Root
                           ELSE LET up == f[l + 1]
                                IN  IF up.pte THEN up
                                    ELSE Entry(up.system, EntryIn(up, l, p, ctx.fbOffset))]
<1>1. Depth \in Nat
  BY ContextType
<1>2. PICK g : Way(g, p, 0)
  <2>1. Depth + 1 \in 0 .. Depth + 1 /\ (Depth + 1) - (Depth + 1) = 0
    BY <1>1
  <2> QED
    BY <2>1, WayExists
<1>3. Is(g)
  <2>1. \A l \in 0 .. Depth + 1 : l # Depth + 1 => l \in 0 .. Depth
    BY <1>1
  <2>2. \A l \in 0 .. Depth + 1 :
          g[l] = IF l = Depth + 1 THEN Root ELSE Lower(g[l + 1], l, p)
    BY <1>2, <2>1 DEF Way
  <2>3. g = [l \in 0 .. Depth + 1 |-> g[l]]
    BY <1>2 DEF Way
  <2> QED
    BY <2>2, <2>3 DEF Lower
<1>4. Followed(p) = CHOOSE f : Is(f)
  BY DEF Followed
<1>5. Is(Followed(p))
  <2> HIDE DEF Is
  <2> QED
    BY <1>3, <1>4
<1> DEFINE F == Followed(p)
<1>6. F = [l \in 0 .. Depth + 1 |-> IF l = Depth + 1 THEN Root ELSE Lower(F[l + 1], l, p)]
  BY <1>5 DEF Lower
<1> HIDE DEF F
<1>7. F[Depth + 1] = Root /\ \A l \in 0 .. Depth : F[l] = Lower(F[l + 1], l, p)
  BY <1>1, <1>6
<1>8. \A l \in 0 .. Depth + 1 : F[l] \in Entries
  <2> DEFINE S == {k \in Nat : k <= Depth + 1 => F[(Depth + 1) - k] \in Entries}
  <2>1. 0 \in S
    BY <1>1, <1>7, RootType
  <2>2. ASSUME NEW k \in Nat, k \in S PROVE k + 1 \in S
    <3> SUFFICES ASSUME k + 1 <= Depth + 1 PROVE F[(Depth + 1) - (k + 1)] \in Entries
      OBVIOUS
    <3> DEFINE l == (Depth + 1) - (k + 1)
    <3>1. l \in 0 .. Depth /\ l + 1 = (Depth + 1) - k /\ k <= Depth + 1
      BY <1>1
    <3>2. F[l + 1] \in Entries
      BY <2>2, <3>1
    <3> QED
      BY <1>7, <3>1, <3>2, LowerType
  <2>3. Nat \subseteq S
    <3> HIDE DEF S
    <3> QED
      BY <2>1, <2>2, Induction
  <2>4. \A l \in 0 .. Depth + 1 : (Depth + 1) - l \in Nat /\ (Depth + 1) - ((Depth + 1) - l) = l
                                  /\ (Depth + 1) - l <= Depth + 1
    BY <1>1
  <2> QED
    BY <2>3, <2>4
<1> QED
  BY <1>7, <1>8 DEF F


LEMMA SameOffset == ASSUME Given, OffsetFits PROVE FbOffset = ctx.fbOffset
<1>1. ctx.fbOffset \in 0 .. FbWidth - 1 /\ FbWidth \in Nat \ {0}
  BY XlatorAssumption DEF OffsetFits, Given, Context
<1> DEFINE x == ctx.fbOffset
<1> HIDE DEF x
<1>2. x \in 0 .. FbWidth - 1 /\ x \in Int /\ 0 \in Int /\ x = FbWidth * 0 + x
  BY <1>1 DEF x
<1>3. x % FbWidth = x
  BY <1>1, <1>2, Quotient
<1> QED
  BY <1>3 DEF FbOffset, x

(* Where the cache has the way of page p, and no key of it is shared, it   *)
(* has the entries that the tables have.                                   *)
LEMMA Follows ==
  ASSUME Given, Types, Held, OffsetFits,
         NEW p, NEW e \in 0 .. Depth, Traces(p, e), ~SharedKey(p)
  PROVE  \A l \in e - 1 .. Depth : Up(l) = Followed(p)[l + 1]
<1> DEFINE F == Followed(p)
           S == {n \in Nat : Depth - n >= e - 1 => Up(Depth - n) = F[(Depth - n) + 1]}
<1>1. Depth \in Nat /\ FbOffset = ctx.fbOffset
  BY ContextType, SameOffset
<1>2. F[Depth + 1] = Root /\ \A l \in 0 .. Depth : F[l] = Lower(F[l + 1], l, p)
  BY FollowedUnfold
<1> HIDE DEF F
<1>3. 0 \in S
  BY <1>1, <1>2 DEF Up
<1>4. ASSUME NEW n \in Nat, n \in S PROVE n + 1 \in S
  <2> DEFINE l == Depth - n
  <2> SUFFICES ASSUME Depth - (n + 1) >= e - 1 PROVE Up(Depth - (n + 1)) = F[(Depth - (n + 1)) + 1]
    OBVIOUS
  <2>1. l \in e .. Depth /\ l \in 0 .. Depth /\ Depth - (n + 1) = l - 1 /\ (l - 1) + 1 = l
        /\ l - 1 # Depth
    BY <1>1
  <2>2. Up(l) = F[l + 1]
    BY <1>1, <1>4, <2>1
  <2> HIDE DEF l
  <2> DEFINE up == Up(l)
             a == EntryIn(up, l, p, ctx.fbOffset)
  <2>3. cache[l].addr = a /\ ~up.pte
    BY <1>1, <2>1 DEF Traces, EntryAddr
  <2>4. up \in Entries
    BY <2>1, UpType
  <2>5. a # 0 /\ ~Readable(~up.system, a)
    <3> HIDE DEF a
    <3>1. ASSUME a = 0 \/ Readable(~up.system, a) PROVE FALSE
      <4>1. l \in Levels
        BY <2>1 DEF Levels
      <4> USE DEF a
      <4>2. SharedKey(p)
        BY <2>2, <2>3, <3>1, <4>1 DEF SharedKey, F
      <4> QED
        BY <4>2
    <3> QED
      BY <3>1
  <2>6. cache[l].raw = Entry(up.system, a)
    <3> HIDE DEF a, up
    <3>1. l \in Levels
      BY <2>1 DEF Levels
    <3>2. cache[l] # [addr |-> 0, raw |-> NoEntry]
      BY <2>3, <2>5
    <3>3. PICK sys \in BOOLEAN : Readable(sys, a) /\ cache[l].raw = mem[<<sys, a>>]
      BY <2>3, <3>1, <3>2 DEF Held
    <3>4. up.system \in BOOLEAN
      BY <2>4 DEF Entries
    <3>5. sys = up.system
      BY <2>5, <3>3, <3>4
    <3> QED
      BY <3>3, <3>5 DEF Entry
  <2>7. Up(l - 1) = cache[l].raw
    BY <2>1 DEF Up
  <2>8. F[l] = Entry(up.system, a)
    BY <1>2, <2>1, <2>2, <2>3 DEF Lower
  <2> QED
    BY <2>1, <2>6, <2>7, <2>8
<1>5. Nat \subseteq S
  <2> HIDE DEF S
  <2> QED
    BY <1>3, <1>4, Induction
<1>6. \A l \in e - 1 .. Depth : Depth - l \in Nat /\ Depth - (Depth - l) = l /\ l >= e - 1
  BY <1>1
<1> QED
  BY <1>5, <1>6 DEF F

(* A PDE with the P bit is all there is below it.                          *)
LEMMA PteDown ==
  ASSUME Given, NEW p, NEW e \in 0 .. Depth + 1, Followed(p)[e].pte
  PROVE  \A l \in 0 .. e : Followed(p)[l] = Followed(p)[e]
<1> DEFINE F == Followed(p)
           S == {n \in Nat : n <= e => F[e - n] = F[e]}
<1>1. Depth \in Nat
  BY ContextType
<1>2. F[e].pte /\ \A l \in 0 .. Depth : F[l] = Lower(F[l + 1], l, p)
  BY FollowedUnfold
<1> HIDE DEF F
<1>3. 0 \in S
  OBVIOUS
<1>4. ASSUME NEW n \in Nat, n \in S PROVE n + 1 \in S
  <2> SUFFICES ASSUME n + 1 <= e PROVE F[e - (n + 1)] = F[e]
    OBVIOUS
  <2> DEFINE l == e - (n + 1)
  <2>1. l \in 0 .. Depth /\ l + 1 = e - n /\ n <= e
    BY <1>1
  <2>2. F[l + 1] = F[e]
    BY <1>4, <2>1
  <2> QED
    BY <1>2, <2>1, <2>2 DEF Lower
<1>5. Nat \subseteq S
  <2> HIDE DEF S
  <2> QED
    BY <1>3, <1>4, Induction
<1>6. \A l \in 0 .. e : e - l \in Nat /\ e - l <= e /\ e - (e - l) = l
  BY <1>1
<1> QED
  BY <1>5, <1>6 DEF F

(* The translation of a page that a PDE with the P bit maps at level e     *)
LEMMA HugePage ==
  ASSUME Given, NEW p, NEW e \in 1 .. Depth, Followed(p)[e].pte,
         \A l \in e .. Depth : ~Followed(p)[l + 1].pte
  PROVE  LET leaf == Followed(p)[e]
         IN  Translation(p) = [flags |-> leaf, pa |-> leaf.base + Offset(p, Stride(e))]
<1> DEFINE F == Followed(p)
           huge == {l \in 1 .. Depth : F[l].pte}
           top == CHOOSE l \in huge : \A k \in huge : k <= l
<1>1. Depth \in Nat
  BY ContextType
<1>2. \A l \in 0 .. e : F[l] = F[e]
  BY <1>1, PteDown
<1>3. \A l \in 1 .. Depth : l > e => ~F[l].pte
  <2>1. \A l \in 1 .. Depth : l > e => l - 1 \in e .. Depth /\ (l - 1) + 1 = l
    BY <1>1
  <2> QED
    BY <2>1
<1>4. huge = 1 .. e
  BY <1>1, <1>2, <1>3
<1>5. top = e
  <2>1. e \in huge /\ (\A k \in huge : k <= e) /\ huge \subseteq Int
    BY <1>1, <1>4
  <2>2. top \in huge /\ \A k \in huge : k <= top
    <3> HIDE DEF huge
    <3> QED
      BY <2>1
  <2> HIDE DEF top, huge
  <2> QED
    BY <2>1, <2>2
<1>6. huge # {} /\ F[0] = F[e]
  BY <1>1, <1>2, <1>4
<1> QED
  BY <1>5, <1>6 DEF Translation

(* The translation of a page that no PDE with the P bit maps               *)
LEMMA SmallPage ==
  ASSUME NEW p, \A l \in 1 .. Depth : ~Followed(p)[l].pte
  PROVE  LET leaf == Followed(p)[0]
             page == IF leaf.system THEN leaf.base ELSE leaf.base - ctx.fbOffset
             pte  == Entry(leaf.system, (page * Fan) + Offset(p, Stride(0)))
         IN  Translation(p) = IF leaf.valid /\ leaf.tf
                              THEN [flags |-> pte, pa |-> pte.base]
                              ELSE [flags |-> leaf, pa |-> leaf.base + Offset(p, Stride(0))]
<1>1. {l \in 1 .. Depth : Followed(p)[l].pte} = {}
  OBVIOUS
<1> QED
  BY <1>1 DEF Translation

(* The offset of a page in what a whole entry of level 0 or 1 maps         *)
LEMMA InFragment ==
  ASSUME Given, StartFits, NEW n \in {Stride(0), Stride(1)}, NEW v \in Nat, v % n = 0,
         NEW p \in Int, v <= p, p < v + n
  PROVE  Offset(p, n) = p - v
<1>1. PICK j \in Int : n \in Nat \ {0} /\ Start = n * j
  BY StartMultiple
<1> DEFINE q == v \div n
           d == p - v
<1>2. q \in Int /\ v = n * q
  <2>1. v \div n \in Int /\ v = n * (v \div n) + (v % n)
    BY <1>1, Divided
  <2> QED
    BY <1>1, <2>1
<1>3. d \in 0 .. n - 1
  BY <1>1
<1> HIDE DEF q
<1>4. q - j \in Int /\ p - Start = n * (q - j) + d
  BY <1>1, <1>2
<1> DEFINE x == p - Start
           k == q - j
<1>5. x \in Int /\ k \in Int /\ x = n * k + d
  BY <1>1, <1>2, <1>4
<1> HIDE DEF x, k, d
<1>6. x % n = d
  BY <1>1, <1>3, <1>5, Quotient
<1> QED
  BY <1>6 DEF Offset, x, d


(* A fragment just walked has the translation of each of its pages.        *)
LEMMA LeafAgrees ==
  ASSUME Given, Types, WalkInv, Held, Regular, CoverInv, Leaf, pc' = "page",
         NEW p \in Int, curr'.va <= p, p < curr'.va + curr'.size, ~Excepted(p)
  PROVE  /\ curr'.flags = Translation(p).flags
         /\ curr'.pa + (p - curr'.va) = Translation(p).pa \/ HighHuge(p)
<1> DEFINE e == level + 1
           n == curr'.size
           v == curr'.va
           F == Followed(p)
<1>1. SizesFit /\ StartFits /\ OffsetFits
  BY DEF Regular
<1>2. /\ e \in 0 .. Depth /\ Traces(addr, e) /\ Ended(e, n)
      /\ v % n = 0 /\ v \in Nat /\ v = addr - (addr % n) /\ v <= addr /\ addr < v + n
  BY <1>1, LeafEnds
<1>3. Traces(p, e)
  BY <1>1, FragmentTraces
<1>4. \A l \in e - 1 .. Depth : Up(l) = F[l + 1]
  BY <1>1, <1>2, <1>3, Follows DEF Excepted
<1>5. Depth \in Nat /\ \A l \in 0 .. Depth + 1 : F[l] \in Entries
  BY ContextType, FollowedUnfold
<1>6. \A l \in e .. Depth : ~F[l + 1].pte
  <2>1. \A l \in e .. Depth : l \in e - 1 .. Depth
    BY <1>2, <1>5
  <2> QED
    BY <1>3, <1>4, <2>1 DEF Traces
<1>7. PICK pte \in Entries, m \in Nat \ {0} :
        /\ WalkedTo(pte, m)
        /\ IF Further
           THEN m = 1 /\ WalkSize = Fan /\ Readable(base.system, BlockAddr)
                /\ pte = mem[<<base.system, BlockAddr>>]
           ELSE m = WalkSize /\ pte = base
  BY LeafWalks
<1>8. n = m /\ curr'.pa = pte.base /\ curr'.flags = pte
  BY <1>7, WalkedType
<1>9. pc = "leaf"
  BY DEF Leaf
<1> HIDE DEF v, F
<1>10. CASE e > 0
  <2>1. parent.pte /\ base = parent /\ parent = Up(level)
    BY <1>2, <1>9, <1>10 DEF WalkInv
  <2>2. base = F[e]
    <3>1. level \in e - 1 .. Depth
      BY <1>2, <1>5 DEF Types
    <3> QED
      BY <1>4, <2>1, <3>1
  <2>3. curr'.flags = base /\ curr'.pa = base.base
    BY <1>7, <1>8, <2>1 DEF Further
  <2>4. Translation(p) = [flags |-> base, pa |-> base.base + Offset(p, Stride(e))]
    <3>1. e \in 1 .. Depth /\ F[e].pte
      BY <1>2, <1>5, <1>10, <2>1, <2>2
    <3> QED
      BY <1>6, <2>2, <3>1, HugePage DEF F
  <2>5. CASE e = 1
    <3>1. n = Stride(1)
      BY <1>2, <2>5 DEF Ended
    <3> HIDE DEF n
    <3>2. Offset(p, n) = p - v
      BY <1>1, <1>2, <3>1, InFragment DEF v, n
    <3> QED
      BY <2>3, <2>4, <2>5, <3>1, <3>2 DEF v
  <2>6. CASE e # 1
    <3>1. e \in 2 .. Depth /\ F[e].pte
      BY <1>2, <1>5, <1>10, <2>1, <2>2, <2>6
    <3>2. HighHuge(p)
      BY <3>1 DEF HighHuge, F
    <3> QED
      BY <2>3, <2>4, <3>2
  <2> QED
    BY <2>5, <2>6
<1>11. CASE e = 0
  <2>1. level = -1 /\ ~parent.pte /\ parent = Up(0) /\ base = Up(-1)
    BY <1>2, <1>9, <1>11 DEF WalkInv
  <2>2. parent = F[1] /\ base = F[0]
    BY <1>4, <1>5, <1>11, <2>1
  <2>3. \A l \in 1 .. Depth : ~F[l].pte
    <3>1. \A l \in 1 .. Depth : l - 1 \in e .. Depth /\ (l - 1) + 1 = l
      BY <1>5, <1>11
    <3> QED
      BY <1>6, <3>1
  <2>4. parent.bfs = ctx.blockLog
    BY <2>1, <2>2 DEF Excepted, OtherSize, F
  <2>5. WalkSize = Stride(0)
    BY <2>1, <2>4, StrideType DEF WalkSize
  <2>6. Translation(p) =
          LET page == IF base.system THEN base.base ELSE base.base - ctx.fbOffset
              x    == Entry(base.system, (page * Fan) + Offset(p, Stride(0)))
          IN  IF base.valid /\ base.tf
              THEN [flags |-> x, pa |-> x.base]
              ELSE [flags |-> base, pa |-> base.base + Offset(p, Stride(0))]
    BY <2>2, <2>3, SmallPage DEF F
  <2>7. CASE ~Further
    <3>1. n = Stride(0) /\ curr'.flags = base /\ curr'.pa = base.base
      BY <1>7, <1>8, <2>5, <2>7
    <3>2. Translation(p) = [flags |-> base, pa |-> base.base + Offset(p, Stride(0))]
      BY <2>1, <2>6, <2>7 DEF Further
    <3> HIDE DEF n
    <3>3. Offset(p, n) = p - v
      BY <1>1, <1>2, <3>1, InFragment DEF v, n
    <3> QED
      BY <3>1, <3>2, <3>3 DEF v
  <2>8. CASE Further
    <3>1. n = 1 /\ WalkSize = Fan /\ curr'.flags = pte /\ curr'.pa = pte.base
          /\ Readable(base.system, BlockAddr) /\ pte = mem[<<base.system, BlockAddr>>]
      BY <1>7, <1>8, <2>8
    <3>2. p = v /\ p = addr
      <4> HIDE DEF n
      <4>1. addr \in Int /\ v \in Int
        BY <1>2 DEF Types
      <4> QED
        BY <1>2, <3>1, <4>1 DEF v, n
    <3>3. base.system \/ ctx.fbOffset = 0
      BY <2>2, <2>3, <2>8 DEF Excepted, MovedBlock, Further, F
    <3>4. (IF base.system THEN base.base ELSE base.base - ctx.fbOffset) = base.base
      <4>1. base.base \in Nat
        BY DEF Types, Entries
      <4> QED
        BY <3>3, <4>1
    <3>5. (base.base * Fan) + Offset(p, Stride(0)) = BlockAddr
      BY <2>5, <3>1, <3>2 DEF BlockAddr, Offset
    <3>6. Translation(p) = [flags |-> pte, pa |-> pte.base]
      BY <2>6, <2>8, <3>1, <3>4, <3>5 DEF Further, Entry
    <3>7. pte.base \in Nat
      BY DEF Entries
    <3> QED
      BY <1>2, <3>1, <3>2, <3>6, <3>7 DEF v
  <2> QED
    BY <2>7, <2>8
<1> QED
  BY <1>2, <1>10, <1>11

LEMMA SameTranslation ==
  ASSUME ctx' = ctx, mem' = mem
  PROVE  /\ \A p : Translation(p)' = Translation(p)
         /\ \A p : Excepted(p)' <=> Excepted(p)
         /\ \A p : HighHuge(p)' <=> HighHuge(p)
         /\ \A f : Agrees(f)' <=> Agrees(f)
<1>1. /\ \A up, l, p : EntryIn(up, l, p, ctx.fbOffset)' = EntryIn(up, l, p, ctx.fbOffset)
      /\ \A l : Stride(l)' = Stride(l)
      /\ Start' = Start /\ Depth' = Depth /\ Root' = Root /\ Levels' = Levels
  BY SameEntries DEF EntryIn, Levels, NumPdes
<1>2. \A sys, a : /\ Readable(sys, a)' <=> Readable(sys, a)
                  /\ Entry(sys, a)' = Entry(sys, a)
  BY DEF Readable, Entry, NoEntry
<1>3. \A p : Followed(p)' = Followed(p)
  BY <1>1, <1>2 DEF Followed
<1>4. \A p, span : Offset(p, span)' = Offset(p, span)
  BY <1>1 DEF Offset
<1>5. \A p : Translation(p)' = Translation(p)
  BY <1>1, <1>2, <1>3, <1>4 DEF Translation
<1>6. \A p : HighHuge(p)' <=> HighHuge(p)
  BY <1>1, <1>3 DEF HighHuge
<1>7. \A p : Excepted(p)' <=> Excepted(p)
  BY <1>1, <1>2, <1>3 DEF Excepted, MovedBlock, OtherSize, SharedKey
<1>8. \A f : Agrees(f)' <=> Agrees(f)
  <2> DEFINE Right(f, p) == LET t == Translation(p)
                            IN  /\ f.flags.valid = t.flags.valid
                                /\ t.flags.valid =>
                                     /\ f.pa + (p - f.va) = t.pa \/ HighHuge(p)
                                     /\ Flags(f.flags) = Flags(t.flags)
  <2>1. \A f, p : Right(f, p)' <=> Right(f, p)
    BY <1>5, <1>6 DEF Flags
  <2>2. \A f : Agrees(f) <=> \A p \in f.va .. End(f) - 1 : Excepted(p) \/ Right(f, p)
    BY DEF Agrees
  <2>3. \A f : Agrees(f)' <=> \A p \in f.va .. End(f) - 1 : Excepted(p)' \/ Right(f, p)'
    BY DEF Agrees, End
  <2> HIDE DEF Right
  <2> QED
    BY <1>7, <2>1, <2>2, <2>3
<1> QED
  BY <1>5, <1>6, <1>7, <1>8

(* The fragment of two that follow each other has the translation of its   *)
(* pages if both have it.                                                  *)
LEMMA CombinedAgrees ==
  ASSUME NEW f \in Fragments, NEW g \in Fragments, NEW h \in Fragments,
         Contiguous(f, g), Agrees(f), Agrees(g),
         h.va = f.va, h.pa = f.pa, h.flags = f.flags, h.size = f.size + g.size
  PROVE  Agrees(h)
<1>1. /\ f.va \in Nat /\ f.size \in Nat /\ End(f) = f.va + f.size
      /\ g.va \in Nat /\ g.size \in Nat /\ End(g) = g.va + g.size
      /\ h.va \in Nat /\ h.size \in Nat /\ End(h) = h.va + h.size
  BY FragmentEnd
<1>2. f.pa \in Nat /\ g.pa \in Nat /\ f.flags \in Entries /\ g.flags \in Entries
  BY DEF Fragments
<1>3. f.flags.valid = g.flags.valid
  <2>1. Flags(f.flags).valid = f.flags.valid /\ Flags(g.flags).valid = g.flags.valid
    BY <1>2 DEF Flags, Entries
  <2> QED
    BY <1>2, <2>1 DEF Contiguous, Entries
<1>4. g.va = f.va + f.size
      /\ (f.flags.valid => f.pa + f.size = g.pa /\ Flags(f.flags) = Flags(g.flags))
  BY <1>1, <1>3 DEF Contiguous
<1> SUFFICES ASSUME NEW p \in h.va .. End(h) - 1, ~Excepted(p)
             PROVE  LET t == Translation(p)
                    IN  /\ h.flags.valid = t.flags.valid
                        /\ t.flags.valid =>
                             /\ h.pa + (p - h.va) = t.pa \/ HighHuge(p)
                             /\ Flags(h.flags) = Flags(t.flags)
  BY DEF Agrees
<1>5. CASE p < g.va
  <2>1. p \in f.va .. End(f) - 1
    BY <1>1, <1>4, <1>5
  <2> QED
    BY <2>1 DEF Agrees
<1>6. CASE p >= g.va
  <2>1. p \in g.va .. End(g) - 1
    BY <1>1, <1>4, <1>6
  <2>2. /\ g.flags.valid = Translation(p).flags.valid
        /\ Translation(p).flags.valid =>
             /\ g.pa + (p - g.va) = Translation(p).pa \/ HighHuge(p)
             /\ Flags(g.flags) = Flags(Translation(p).flags)
    BY <2>1 DEF Agrees
  <2>3. f.flags.valid => h.pa + (p - h.va) = g.pa + (p - g.va)
    BY <1>1, <1>2, <1>4, <2>1
  <2> QED
    BY <1>3, <1>4, <2>2, <2>3
<1> QED
  BY <1>1, <1>4, <1>5, <1>6

LEMMA AgreeStep ==
  ASSUME Given, Types, WalkInv, Held, Regular, CoverInv, AgreeInv, [Next]_vars
  PROVE  AgreeInv'
<1>1. ctx' = ctx /\ mem' = mem /\ \A f : Agrees(f)' <=> Agrees(f)
  BY SameTables, SameTranslation
<1>2. CASE StartWalk \/ PdeIsPte \/ Descend \/ ReadFails \/ CodeBug \/ Aliased \/ NoMemory
  <2>1. pc' # "page" /\ prev' = prev /\ frags' = frags
    BY <1>2 DEF StartWalk, PdeIsPte, Descend, ReadFails, CodeBug, Aliased, NoMemory,
                Fail, Below, list
  <2> QED
    BY <1>1, <2>1 DEF AgreeInv
<1>3. CASE Leaf
  <2>1. pc' \in {"page", "done"} /\ prev' = prev /\ frags' = frags
    BY <1>3 DEF Leaf, Fail, WalkedTo, list
  <2>2. ASSUME pc' = "page" PROVE Agrees(curr)'
    <3>1. ASSUME NEW p \in Int, curr'.va <= p, p < curr'.va + curr'.size, ~Excepted(p)
          PROVE  /\ curr'.flags = Translation(p).flags
                 /\ curr'.pa + (p - curr'.va) = Translation(p).pa \/ HighHuge(p)
      BY <1>3, <2>2, <3>1, LeafAgrees
    <3>2. PICK f : f = curr'
      OBVIOUS
    <3>3. f \in Fragments
      BY <1>3, <2>2, <3>2, LeafWalks, WalkedType
    <3>4. f.va \in Nat /\ f.size \in Nat /\ End(f) = f.va + f.size
      BY <3>3, FragmentEnd
    <3>5. \A p \in f.va .. End(f) - 1 : p \in Int /\ f.va <= p /\ p < f.va + f.size
      BY <3>4
    <3>6. Agrees(f)
      BY <3>1, <3>2, <3>5 DEF Agrees
    <3>7. Agrees(f)'
      BY <1>1, <3>6
    <3> QED
      BY <3>2, <3>7 DEF Agrees, End
  <2> QED
    BY <1>1, <2>1, <2>2 DEF AgreeInv
<1>4. ASSUME AddNode, Agrees(prev) PROVE \A i \in DOMAIN frags' : Agrees(frags'[i])
  <2>1. frags \in Seq(Fragments) /\ prev \in Fragments
    BY DEF Types
  <2>2. DOMAIN frags' = 1 .. Len(frags) + 1 /\ DOMAIN frags = 1 .. Len(frags) /\ Len(frags) \in Nat
    BY <1>4, <2>1 DEF AddNode
  <2>3. \A i \in 1 .. Len(frags) + 1 : frags'[i] = prev \/ (i \in DOMAIN frags /\ frags'[i] = frags[i])
    BY <1>4, <2>1 DEF AddNode
  <2> QED
    BY <1>4, <2>2, <2>3 DEF AgreeInv
<1>5. CASE First \/ Push
  <2>1. pc = "page" /\ pc' = "loop" /\ prev' = curr /\ (frags' = frags \/ AddNode)
    BY <1>5 DEF First, Push, Apart, NextPage
  <2>2. \A i \in DOMAIN frags' : Agrees(frags'[i])
    BY <1>4, <2>1 DEF AgreeInv
  <2> QED
    BY <1>1, <2>1, <2>2 DEF AgreeInv
<1>6. CASE Combine
  <2>1. pc = "page" /\ pc' = "loop" /\ frags' = frags /\ Contiguous(prev, curr)
    BY <1>6 DEF Combine, Apart, NextPage
  <2>2. prev' \in Fragments /\ prev \in Fragments /\ curr \in Fragments
    BY <1>6, TypeStep DEF Types
  <2>3. /\ prev'.va = prev.va /\ prev'.pa = prev.pa /\ prev'.flags = prev.flags
        /\ prev'.size = prev.size + curr.size
    BY <1>6, <2>2 DEF Combine, Fragments
  <2>4. \A f \in Fragments : f = prev' => Agrees(f)
    BY <2>1, <2>2, <2>3, CombinedAgrees DEF AgreeInv
  <2>5. PICK f : f = prev'
    OBVIOUS
  <2>6. Agrees(f)'
    BY <1>1, <2>2, <2>4, <2>5
  <2>7. Agrees(prev)'
    BY <2>5, <2>6 DEF Agrees, End
  <2> QED
    BY <1>1, <2>1, <2>7 DEF AgreeInv
<1>7. CASE Finish
  <2>1. pc' = "done" /\ prev' = prev /\ AddNode
    BY <1>7 DEF Finish
  <2>2. \A i \in DOMAIN frags' : Agrees(frags'[i])
    BY <1>4, <2>1 DEF AgreeInv
  <2> QED
    BY <1>1, <2>1, <2>2 DEF AgreeInv
<1>8. CASE UNCHANGED vars
  BY <1>1, <1>8 DEF AgreeInv, vars
<1> QED
  BY <1>2, <1>3, <1>5, <1>6, <1>7, <1>8 DEF Next


LEMMA ReachedStep ==
  ASSUME Given, Types, ListInv, NeverBackwards, Reached, [Next]_vars PROVE Reached'
<1>1. call' = call /\ call.va \in Nat /\ call.size \in Nat
  BY SameTables, ContextType
<1>2. size \in Nat /\ addr \in Nat /\ curr \in Fragments /\ prev \in Fragments
  BY DEF Types
<1>3. curr.va \in Nat /\ prev.va \in Nat /\ prev.size \in Nat /\ End(prev) = prev.va + prev.size
  BY <1>2, FragmentEnd
<1>4. CASE First
  <2>1. /\ pc = "page" /\ prev = NoFragment /\ prev' = curr /\ size' = size /\ rc' = rc
    BY <1>4 DEF First
  <2>2. size = call.size + (call.va - curr.va)
    BY <2>1 DEF ListInv
  <2> QED
    BY <1>1, <1>2, <1>3, <2>1, <2>2 DEF Reached
<1>5. CASE Combine
  <2>1. /\ pc = "page" /\ prev # NoFragment /\ prev'.va = prev.va /\ size' = size /\ rc' = rc
    BY <1>5, TakesPage DEF Combine, Apart
  <2> QED
    BY <1>1, <2>1 DEF Reached
<1>6. CASE Push
  <2>1. /\ pc = "page" /\ prev # NoFragment /\ prev' = curr /\ size' = size /\ rc' = rc
    BY <1>6 DEF Push, Apart
  <2>2. curr.va = prev.va + prev.size
    BY <1>3, <2>1 DEF NeverBackwards
  <2> QED
    BY <1>1, <1>2, <1>3, <2>1, <2>2 DEF Reached
<1>7. CASE Leaf
  <2>1. pc = "leaf" /\ prev' = prev /\ pc' \in {"page", "done"} /\ rc' \in {rc, "walk"}
    BY <1>7 DEF Leaf, Fail, WalkedTo, list
  <2>2. CASE pc' = "page"
    <3>1. size' \in Nat /\ size' >= size
      <4>1. size' = size + (addr - curr'.va) /\ curr'.va <= addr /\ curr' \in Fragments
        BY <1>7, <2>2, LeafWalks, WalkedType
      <4>2. curr'.va \in Nat
        BY <4>1, FragmentEnd
      <4> QED
        BY <1>2, <4>1, <4>2
    <3> QED
      BY <1>1, <1>2, <1>3, <2>1, <3>1 DEF Reached, NoFragment, NoEntry
  <2>3. CASE pc' = "done"
    BY <2>3 DEF Reached
  <2> QED
    BY <2>1, <2>2, <2>3
<1>8. CASE StartWalk \/ PdeIsPte \/ Descend \/ UNCHANGED vars
  <2>1. /\ UNCHANGED <<prev, size>> /\ (pc = "done" => pc' = "done") /\ rc' \in {rc, "walk"}
        /\ (rc' = rc \/ pc' = "done")
    BY <1>8 DEF StartWalk, PdeIsPte, Descend, Fail, list, vars
  <2> QED
    BY <1>1, <2>1 DEF Reached, NoFragment, NoEntry
<1>9. CASE ReadFails \/ CodeBug \/ Aliased \/ NoMemory \/ Finish
  <2>1. pc' = "done"
    BY <1>9 DEF ReadFails, CodeBug, Aliased, NoMemory, Finish, Fail
  <2> QED
    BY <2>1 DEF Reached
<1> QED
  BY <1>4, <1>5, <1>6, <1>7, <1>8, <1>9 DEF Next

(* Of two fragments that overlap, a page of the one has the physical       *)
(* address of a page of the other.                                         *)
LEMMA OverlapAliases ==
  ASSUME NEW f \in Fragments, NEW g \in Fragments, Overlap(f, g),
         f.size > 0, g.size > 0, End(f) = g.va
  PROVE  \E p \in f.va .. End(f) - 1, q \in g.va .. End(g) - 1 :
           p < q /\ f.pa + (p - f.va) = g.pa + (q - g.va)
<1> DEFINE fv == f.va  fs == f.size  fp == f.pa  gv == g.va  gs == g.size  gp == g.pa
<1>1. /\ fv \in Nat /\ fs \in Nat /\ fp \in Nat /\ End(f) = fv + fs
      /\ gv \in Nat /\ gs \in Nat /\ gp \in Nat /\ End(g) = gv + gs
      /\ fs > 0 /\ gs > 0 /\ gv = fv + fs
  BY FragmentEnd DEF Fragments
<1>2. Starts(gv, fv, fs) \/ Starts(gp, fp, fs) \/ Starts(fp, gp, gs)
  BY DEF Overlap
<1> HIDE DEF fv, fs, fp, gv, gs, gp
<1>3. ~Starts(gv, fv, fs)
  BY <1>1 DEF Starts
<1> SUFFICES \E p \in fv .. (fv + fs) - 1, q \in gv .. (gv + gs) - 1 :
               p < q /\ fp + (p - fv) = gp + (q - gv)
  BY <1>1 DEF fv, fs, fp, gv, gs, gp
<1>4. CASE Starts(gp, fp, fs)
  <2> DEFINE p == fv + (gp - fp)
  <2>1. p \in fv .. (fv + fs) - 1 /\ gv \in gv .. (gv + gs) - 1 /\ p < gv
        /\ fp + (p - fv) = gp + (gv - gv)
    BY <1>1, <1>4 DEF Starts
  <2> QED
    BY <2>1
<1>5. CASE Starts(fp, gp, gs)
  <2> DEFINE q == gv + (fp - gp)
  <2>1. fv \in fv .. (fv + fs) - 1 /\ q \in gv .. (gv + gs) - 1 /\ fv < q
        /\ fp + (fv - fv) = gp + (q - gv)
    BY <1>1, <1>5 DEF Starts
  <2> QED
    BY <2>1
<1> QED
  BY <1>2, <1>3, <1>4, <1>5

LEMMA AliasStep ==
  ASSUME Given, Types, ListInv, Regular => NeverBackwards /\ AgreeInv /\ Reached,
         FailsOnlyOnAlias, [Next]_vars, rc' = "overlap", Regular, rc = "overlap" => pc = "done"
  PROVE  FailsOnlyOnAlias'
<1>1. /\ ctx' = ctx /\ mem' = mem /\ call' = call
      /\ \A p : Translation(p)' = Translation(p)
      /\ \A p : Excepted(p)' <=> Excepted(p)
      /\ \A p : HighHuge(p)' <=> HighHuge(p)
  BY SameTables, SameTranslation
<1> DEFINE Shares(p, q) ==
             /\ p < q
             /\ \/ Excepted(p) \/ Excepted(q)
                \/ /\ Translation(p).flags.valid /\ Translation(q).flags.valid
                   /\ Translation(p).pa = Translation(q).pa \/ HighHuge(p) \/ HighHuge(q)
<1>2. \A p, q : Shares(p, q)' <=> Shares(p, q)
  BY <1>1
<1>3. Aliased \/ UNCHANGED vars
  <2>1. pc # "done" => rc # "overlap"
    OBVIOUS
  <2> QED
    BY <2>1 DEF Next, StartWalk, PdeIsPte, Descend, ReadFails, Leaf, WalkedTo, First, CodeBug,
                Combine, Push, Finish, NoMemory, Fail, Apart
<1>4. size' = size /\ curr' = curr
  BY <1>3 DEF Aliased, vars
<1>5. \E p, q \in call.va - (size - call.size) .. End(curr) - 1 : Shares(p, q)
  <2>1. CASE UNCHANGED vars
    BY <2>1 DEF FailsOnlyOnAlias, vars
  <2>2. CASE Aliased
    <3>1. pc = "page" /\ prev # NoFragment /\ Overlap(prev, curr)
      BY <2>2 DEF Aliased
    <3>2. /\ prev \in Fragments /\ curr \in Fragments /\ End(prev) = curr.va
          /\ Agrees(prev) /\ Agrees(curr) /\ prev.va + size >= call.va + call.size
      BY <3>1 DEF Types, NeverBackwards, AgreeInv, Reached
    <3>3. /\ prev.va \in Nat /\ prev.size \in Nat /\ End(prev) = prev.va + prev.size
          /\ curr.va \in Nat /\ curr.size \in Nat /\ End(curr) = curr.va + curr.size
      BY <3>2, FragmentEnd
    <3>4. prev.size > 0 /\ curr.size > 0
      BY <3>1, <3>3 DEF ListInv, Types
    <3>5. PICK p \in prev.va .. End(prev) - 1, q \in curr.va .. End(curr) - 1 :
                 p < q /\ prev.pa + (p - prev.va) = curr.pa + (q - curr.va)
      BY <3>1, <3>2, <3>4, OverlapAliases
    <3>6. prev.flags.valid /\ curr.flags.valid
      BY <3>1 DEF Overlap
    <3>7. Excepted(p) \/ (Translation(p).flags.valid
                          /\ (prev.pa + (p - prev.va) = Translation(p).pa \/ HighHuge(p)))
      BY <3>2, <3>6 DEF Agrees
    <3>8. Excepted(q) \/ (Translation(q).flags.valid
                          /\ (curr.pa + (q - curr.va) = Translation(q).pa \/ HighHuge(q)))
      BY <3>2, <3>6 DEF Agrees
    <3>9. Shares(p, q)
      BY <3>5, <3>7, <3>8
    <3>10. p \in call.va - (size - call.size) .. End(curr) - 1
           /\ q \in call.va - (size - call.size) .. End(curr) - 1
      <4> DEFINE v == prev.va  w == curr.va  x == call.va - (size - call.size)
                 y == End(prev)  z == End(curr)
      <4>1. /\ v \in Int /\ w \in Int /\ y \in Int /\ z \in Int
            /\ v <= w /\ w <= z /\ y = w
        <5> DEFINE s == prev.size  t == curr.size
        <5>1. v \in Nat /\ s \in Nat /\ y = v + s /\ w \in Nat /\ t \in Nat /\ z = w + t /\ y = w
          BY <3>2, <3>3
        <5> HIDE DEF s, t, v, w, y, z
        <5> QED
          BY <5>1
      <4>2. x \in Int /\ x <= v
        <5> DEFINE cv == call.va  cs == call.size
        <5>1. cv \in Nat /\ cs \in Nat /\ size \in Nat /\ v + size >= cv + cs
          BY <3>2, ContextType DEF Types
        <5> HIDE DEF cv, cs, v
        <5>2. cv - (size - cs) \in Int /\ cv - (size - cs) <= v
          BY <4>1, <5>1
        <5> QED
          BY <5>2 DEF cv, cs
      <4>3. p \in v .. y - 1 /\ q \in w .. z - 1
        BY <3>5
      <4> HIDE DEF v, w, x, y, z
      <4>4. p \in x .. z - 1 /\ q \in x .. z - 1
        BY <4>1, <4>2, <4>3
      <4> QED
        BY <4>4 DEF x, z
    <3> QED
      BY <3>9, <3>10
  <2> QED
    BY <1>3, <2>1, <2>2
<1>6. \E p, q \in (call.va - (size - call.size) .. End(curr) - 1)' : Shares(p, q)'
  <2>1. (call.va - (size - call.size) .. End(curr) - 1)' = call.va - (size - call.size) .. End(curr) - 1
    BY <1>1, <1>4 DEF End
  <2> HIDE DEF Shares
  <2> QED
    BY <1>2, <1>5, <2>1
<1> QED
  BY <1>6 DEF FailsOnlyOnAlias

LEMMA FullStep == ASSUME FullInv, [Next]_vars PROVE FullInv'
<1>1. IInv' /\ Given /\ Types /\ WalkInv /\ ListInv
  BY StepInv DEF FullInv, IInv
<1>2. Held'
  BY <1>1, HeldStep DEF FullInv
<1>3. Regular' <=> Regular
  BY SameTables, SameEntries DEF Regular, SizesFit, StartFits, OffsetFits
<1>4. Regular => CoverInv /\ NeverBackwards /\ AgreeInv /\ Reached
  BY DEF FullInv, IInv, Regular, CoverInv
<1>5. Regular => AgreeInv' /\ Reached'
  BY <1>1, <1>4, AgreeStep, ReachedStep DEF FullInv
<1>6. FailsOnlyOnAlias'
  <2>1. CASE rc' = "overlap" /\ Regular
    BY <1>1, <1>4, <2>1, AliasStep DEF FullInv, Reached
  <2>2. CASE ~(rc' = "overlap" /\ Regular)
    BY <1>3, <2>2 DEF FailsOnlyOnAlias
  <2> QED
    BY <2>1, <2>2
<1> QED
  BY <1>1, <1>2, <1>3, <1>5, <1>6 DEF FullInv

LEMMA FullInit == ASSUME Init PROVE FullInv
<1>1. IInv
  BY InitInv
<1>2. Held
  BY DEF Init, Held
<1>3. AgreeInv
  <2>1. Agrees(NoFragment)
    <3>1. NoFragment.va .. End(NoFragment) - 1 = {}
      BY DEF NoFragment, End
    <3> QED
      BY <3>1 DEF Agrees
  <2> QED
    BY <2>1 DEF Init, AgreeInv
<1>4. Reached /\ FailsOnlyOnAlias
  BY DEF Init, Reached, FailsOnlyOnAlias
<1> QED
  BY <1>1, <1>2, <1>3, <1>4 DEF FullInv

THEOREM FullInvariant == Spec => []FullInv
BY FullInit, FullStep, PTL DEF Spec

(* walk_pt: every page of every fragment has the translation that the      *)
(* tables give it when they are walked from the root without the cache,    *)
(* page by page with the exceptions that the model names.                  *)
THEOREM Agreement == Spec => []AgreesWithTables
<1>1. FullInv => AgreesWithTables
  BY DEF FullInv, AgreeInv, AgreesWithTables
<1> QED
  BY <1>1, FullInvariant, PTL

(* sift_xlator_translate_range gives up with an overlap only when two of   *)
(* the pages it walked share a physical page number.                       *)
THEOREM OnlyOnAlias == Spec => []FailsOnlyOnAlias
<1>1. FullInv => FailsOnlyOnAlias
  BY DEF FullInv
<1> QED
  BY <1>1, FullInvariant, PTL
=============================================================================
