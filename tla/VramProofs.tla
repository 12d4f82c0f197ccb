----------------------------- MODULE VramProofs -----------------------------
(***************************************************************************)
(* Theorems of the four modules about memory.  HiveRouting: the loop over  *)
(* the hive list and the layout of the hive's addresses agree, for any     *)
(* list of GPUs, any sizes and any unit of rounding, as long as the hive's *)
(* addresses fit in the width of an address.  XgmiVram, for any number of  *)
(* GPUs in the hive and outside it, with any sizes, physical ids,          *)
(* partitions, and files or debugfs directories missing.  MemTransfer, for *)
(* any number of threads, handles and GPUs and calls of any length.        *)
(* ReadMem, for any request, any list of fragments and any buffer.         *)
(*                                                                         *)
(* Turns and Bases are functions defined by recursion.  That they satisfy  *)
(* their own equations is proved by building them for longer and longer    *)
(* beginnings of the list, and that Masked satisfies its own by building   *)
(* it for larger and larger numbers; every induction is the choice of a    *)
(* least counterexample.                                                   *)
(***************************************************************************)
EXTENDS XgmiVram, ReadMem, WellFoundedInduction, FiniteSetTheorems, SequenceTheorems, TLAPS

(* A set of natural numbers that is not empty has a least one.             *)
LEMMA LeastExists ==
  ASSUME NEW S \in SUBSET Nat, S # {} PROVE \E i \in S : \A j \in S : i <= j
<1>1. PICK i \in S : \A j \in S : ~(<<j, i>> \in OpToRel(<, Nat))
  BY NatLessThanWellFounded, WFMin, Zenon
<1>2. \A j \in S : ~(j < i)
  BY <1>1 DEF OpToRel
<1> QED
  BY <1>2

(* Induction over the natural numbers, for a set of them                   *)
LEMMA Induction ==
  ASSUME NEW S, 0 \in S, \A n \in Nat : n \in S => n + 1 \in S
  PROVE  Nat \subseteq S
<1> SUFFICES ASSUME Nat \ S # {} PROVE FALSE
  OBVIOUS
<1>1. PICK i \in Nat \ S : \A j \in Nat \ S : i <= j
  BY LeastExists
<1>2. i # 0 /\ i - 1 \in Nat
  BY <1>1
<1>3. i - 1 \in S
  BY <1>1, <1>2
<1> QED
  BY <1>1, <1>2, <1>3

-----------------------------------------------------------------------------
(* Rounding up to a unit makes no size smaller.                             *)
LEMMA RoundedUp ==
  ASSUME NEW s \in Nat PROVE Rounded(s) \in Nat /\ Rounded(s) >= s
<1> DEFINE n == s + Gib - 1
<1>1. n \in Nat /\ Gib \in Nat /\ Gib > 0
  BY GibAssumption
<1> HIDE DEF n
<1>2. /\ n \div Gib \in Nat /\ n % Gib \in 0..Gib - 1
      /\ n = (Gib * (n \div Gib)) + (n % Gib)
  BY <1>1
<1>3. Gib * (n \div Gib) \in Nat
  BY <1>1, <1>2
<1>4. Gib * (n \div Gib) >= n - Gib + 1
  BY <1>1, <1>2, <1>3
<1> QED
  BY <1>1, <1>3, <1>4 DEF Rounded, n

(* Unsigned subtraction wraps around once.                                 *)
LEMMA PastGpu ==
  ASSUME NEW a \in 0..Modulus - 1, NEW s \in Nat, Rounded(s) <= Modulus
  PROVE  Past(a, s) = IF a >= Rounded(s) THEN a - Rounded(s)
                                         ELSE a - Rounded(s) + Modulus
<1> DEFINE x == a - Rounded(s)
<1>1. /\ Modulus \in Nat /\ Modulus > 0
      /\ x \in Int /\ x < Modulus /\ -Modulus <= x
  BY RoundedUp, ModulusAssumption
<1>2. Past(a, s) = x % Modulus /\ (x >= 0 <=> a >= Rounded(s))
  BY RoundedUp, ModulusAssumption DEF Past
<1> HIDE DEF x
<1>3. x % Modulus = IF x >= 0 THEN x ELSE x + Modulus
  <2>1. CASE x >= 0
    BY <1>1, <2>1
  <2>2. CASE x < 0
    BY <1>1, <2>2
  <2> QED
    BY <1>1, <2>1, <2>2
<1> QED
  BY <1>2, <1>3 DEF x

-----------------------------------------------------------------------------
(* Turns satisfies the equation it is defined by.                          *)
LEMMA TurnsUnfold ==
  ASSUME NEW list, NEW sizes, NEW address, Len(list) \in Nat
  PROVE  Turns(list, sizes, address) =
           [n \in 0..Len(list) |->
              IF n = 0 THEN [gpu |-> Nobody, address |-> address]
              ELSE Turn(Turns(list, sizes, address)[n - 1], list[n], sizes[list[n]])]
<1> DEFINE start == [gpu |-> Nobody, address |-> address]
           Is(turn, N) == turn = [n \in 0..N |-> IF n = 0 THEN start
                                ELSE Turn(turn[n - 1], list[n], sizes[list[n]])]
           S == {N \in Nat : \E turn : Is(turn, N)}
<1> HIDE DEF start
<1>1. 0 \in S
  <2>1. Is([n \in 0..0 |-> start], 0)
    OBVIOUS
  <2> QED
    BY <2>1
<1>2. ASSUME NEW N \in Nat, N \in S PROVE N + 1 \in S
  <2>1. PICK turn : Is(turn, N)
    BY <1>2
  <2> DEFINE next == Turn(turn[N], list[N + 1], sizes[list[N + 1]])
             more == [n \in 0..(N + 1) |-> IF n = N + 1 THEN next ELSE turn[n]]
  <2> HIDE DEF next
  <2>2. \A n \in 0..N : more[n] = turn[n]
    OBVIOUS
  <2>3. \A n \in 0..N :
          turn[n] = IF n = 0 THEN start ELSE Turn(turn[n - 1], list[n], sizes[list[n]])
    BY <2>1
  <2> HIDE DEF Is
  <2>4. ASSUME NEW n \in 0..(N + 1)
        PROVE  more[n] = IF n = 0 THEN start
                         ELSE Turn(more[n - 1], list[n], sizes[list[n]])
    <3>1. CASE n = N + 1
      BY <2>2, <3>1 DEF next
    <3>2. CASE n # N + 1
      BY <2>2, <2>3, <3>2
    <3> QED
      BY <3>1, <3>2
  <2>5. more = [n \in 0..(N + 1) |-> IF n = 0 THEN start
                  ELSE Turn(more[n - 1], list[n], sizes[list[n]])]
    BY <2>4
  <2>6. Is(more, N + 1)
    BY <2>5 DEF Is
  <2> QED
    BY <2>6
<1>3. \E turn : Is(turn, Len(list))
  <2> HIDE DEF Is
  <2>1. Nat \subseteq S
    BY <1>1, <1>2, Induction
  <2> QED
    BY <2>1
<1>4. Turns(list, sizes, address) = CHOOSE turn : Is(turn, Len(list))
  BY DEF Turns, start
<1>5. Is(Turns(list, sizes, address), Len(list))
  <2> HIDE DEF Is
  <2> QED
    BY <1>3, <1>4
<1> QED
  BY <1>5 DEF start
(* Whatever the list, the walk leaves an address of the same width.        *)
LEMMA WalkType ==
  ASSUME NEW G, NEW list \in Seq(G), NEW sizes \in [G -> Nat], NEW a \in 0..Modulus - 1
  PROVE  Walk(list, sizes, a) \in [gpu : G \union {Nobody}, address : 0..Modulus - 1]
<1> DEFINE turn == Turns(list, sizes, a)
           Left == [gpu : G \union {Nobody}, address : 0..Modulus - 1]
           S == {n \in Nat : n <= Len(list) => turn[n] \in Left}
<1>1. Len(list) \in Nat /\ \A n \in 1..Len(list) : list[n] \in G
  OBVIOUS
<1>2. \A n \in 0..Len(list) : turn[n] = IF n = 0 THEN [gpu |-> Nobody, address |-> a]
                                 ELSE Turn(turn[n - 1], list[n], sizes[list[n]])
  BY <1>1, TurnsUnfold
<1> HIDE DEF turn
<1>3. 0 \in S
  BY <1>1, <1>2
<1>4. ASSUME NEW n \in Nat, n \in S PROVE n + 1 \in S
  <2> SUFFICES ASSUME n + 1 <= Len(list) PROVE turn[n + 1] \in Left
    OBVIOUS
  <2> DEFINE g == list[n + 1]
             b == sizes[g]
  <2>1. turn[n] \in Left /\ g \in G /\ b \in Nat
    BY <1>1, <1>4
  <2>2. turn[n + 1] = Turn(turn[n], g, b)
    BY <1>1, <1>2
  <2>3. Past(turn[n].address, b) \in 0..Modulus - 1
    <3> DEFINE x == turn[n].address - Rounded(b)
    <3>1. turn[n].address \in Int
      BY <2>1, ModulusAssumption
    <3>2. Rounded(b) \in Nat
      <4> HIDE DEF b
      <4> QED
        BY <2>1, RoundedUp
    <3>3. x \in Int /\ Modulus \in Nat /\ Modulus > 0
      BY <3>1, <3>2, ModulusAssumption
    <3> HIDE DEF x
    <3>4. x % Modulus \in 0..Modulus - 1
      BY <3>3
    <3> QED
      BY <3>4 DEF Past, x
  <2> HIDE DEF g, b
  <2> QED
    BY <2>1, <2>2, <2>3 DEF Turn
<1>5. Nat \subseteq S
  <2> HIDE DEF S
  <2> QED
    BY <1>3, <1>4, Induction
<1> QED
  BY <1>1, <1>5 DEF Walk, turn

-----------------------------------------------------------------------------
(* Bases satisfies the equation it is defined by.                          *)
LEMMA BasesUnfold ==
  ASSUME NEW list, NEW sizes, Len(list) \in Nat
  PROVE  Bases(list, sizes) =
           [n \in 0..Len(list) |->
              IF n = 0 THEN 0 ELSE Bases(list, sizes)[n - 1] + Rounded(sizes[list[n]])]
<1> DEFINE Is(base, N) ==
             base = [n \in 0..N |-> IF n = 0 THEN 0
                                    ELSE base[n - 1] + Rounded(sizes[list[n]])]
           S == {N \in Nat : \E base : Is(base, N)}
<1>1. 0 \in S
  <2>1. Is([n \in 0..0 |-> 0], 0)
    OBVIOUS
  <2> QED
    BY <2>1
<1>2. ASSUME NEW N \in Nat, N \in S PROVE N + 1 \in S
  <2>1. PICK base : Is(base, N)
    BY <1>2
  <2> DEFINE next == base[N] + Rounded(sizes[list[N + 1]])
             more == [n \in 0..(N + 1) |-> IF n = N + 1 THEN next ELSE base[n]]
  <2> HIDE DEF next
  <2>2. \A n \in 0..N : more[n] = base[n]
    OBVIOUS
  <2>3. \A n \in 0..N :
          base[n] = IF n = 0 THEN 0 ELSE base[n - 1] + Rounded(sizes[list[n]])
    BY <2>1
  <2> HIDE DEF Is
  <2>4. ASSUME NEW n \in 0..(N + 1)
        PROVE  more[n] = IF n = 0 THEN 0 ELSE more[n - 1] + Rounded(sizes[list[n]])
    <3>1. CASE n = N + 1
      BY <2>2, <3>1 DEF next
    <3>2. CASE n # N + 1
      BY <2>2, <2>3, <3>2
    <3> QED
      BY <3>1, <3>2
  <2>5. more = [n \in 0..(N + 1) |->
                  IF n = 0 THEN 0 ELSE more[n - 1] + Rounded(sizes[list[n]])]
    BY <2>4
  <2>6. Is(more, N + 1)
    BY <2>5 DEF Is
  <2> QED
    BY <2>6
<1>3. \E base : Is(base, Len(list))
  <2> HIDE DEF Is
  <2>1. Nat \subseteq S
    BY <1>1, <1>2, Induction
  <2> QED
    BY <2>1
<1>4. Bases(list, sizes) = CHOOSE base : Is(base, Len(list))
  BY DEF Bases
<1>5. Is(Bases(list, sizes), Len(list))
  <2> HIDE DEF Is
  <2> QED
    BY <1>3, <1>4
<1> QED
  BY <1>5

(* The layout: each GPU ends where the next one starts, or before it.      *)
LEMMA Layout ==
  ASSUME NEW G, NEW list \in Seq(G), NEW sizes \in [G -> Nat]
  PROVE  LET base == Bases(list, sizes)
         IN  /\ base[0] = 0
             /\ \A i \in 0..Len(list) : base[i] \in Nat
             /\ \A i \in 1..Len(list) :
                  /\ base[i] = base[i - 1] + Rounded(sizes[list[i]])
                  /\ base[i - 1] + sizes[list[i]] <= base[i]
             /\ \A i, j \in 0..Len(list) : i <= j => base[i] <= base[j]
<1> DEFINE base == Bases(list, sizes)
           N == Len(list)
<1>1. /\ N \in Nat /\ DOMAIN list = 1..N
      /\ \A i \in 1..N : sizes[list[i]] \in Nat
  OBVIOUS
<1>2. base[0] = 0 /\ \A i \in 1..N : base[i] = base[i - 1] + Rounded(sizes[list[i]])
  <2>1. \A i \in 0..N : base[i] = IF i = 0 THEN 0
                                  ELSE base[i - 1] + Rounded(sizes[list[i]])
    BY <1>1, BasesUnfold
  <2> QED
    BY <1>1, <2>1
<1> HIDE DEF base
<1>3. \A i \in 1..N : /\ Rounded(sizes[list[i]]) \in Nat
                       /\ Rounded(sizes[list[i]]) >= sizes[list[i]]
  BY <1>1, RoundedUp
<1>4. \A i \in 0..N : base[i] \in Nat
  <2> DEFINE S == {i \in Nat : i <= N => base[i] \in Nat}
  <2>1. 0 \in S
    BY <1>2
  <2>2. ASSUME NEW i \in Nat, i \in S PROVE i + 1 \in S
    <3>1. CASE i + 1 <= N
      <4>1. base[i + 1] = base[i] + Rounded(sizes[list[i + 1]])
        BY <1>1, <1>2, <3>1
      <4> QED
        BY <1>1, <1>3, <2>2, <3>1, <4>1
    <3> QED
      BY <3>1
  <2>3. Nat \subseteq S
    <3> HIDE DEF S
    <3> QED
      BY <2>1, <2>2, Induction
  <2> QED
    BY <1>1, <2>3
<1>5. \A i \in 0..N, j \in 0..N : i <= j => base[i] <= base[j]
  <2> TAKE i \in 0..N
  <2> DEFINE S == {d \in Nat : i + d <= N => base[i] <= base[i + d]}
  <2>1. 0 \in S
    BY <1>1, <1>4
  <2>2. ASSUME NEW d \in Nat, d \in S PROVE d + 1 \in S
    <3>1. CASE i + d + 1 <= N
      <4>1. i + d + 1 \in 1..N /\ i + d \in 0..N
        BY <1>1, <3>1
      <4>2. base[i + d + 1] = base[i + d] + Rounded(sizes[list[i + d + 1]])
        BY <1>2, <4>1
      <4>3. base[i] <= base[i + d]
        BY <2>2, <4>1
      <4> QED
        BY <1>3, <1>4, <4>1, <4>2, <4>3
    <3> QED
      BY <3>1
  <2>3. Nat \subseteq S
    <3> HIDE DEF S
    <3> QED
      BY <2>1, <2>2, Induction
  <2> TAKE j \in 0..N
  <2> HAVE i <= j
  <2>4. j - i \in S
    BY <2>3
  <2>5. i + (j - i) = j
    BY <1>1
  <2> QED
    BY <2>4, <2>5
<1>6. ASSUME NEW i \in 1..N PROVE base[i - 1] + sizes[list[i]] <= base[i]
  <2> DEFINE x == base[i - 1]
             w == sizes[list[i]]
  <2>1. x \in Nat /\ w \in Nat /\ base[i] = x + Rounded(w)
    BY <1>1, <1>2, <1>4
  <2>2. Rounded(w) \in Nat /\ w <= Rounded(w)
    BY <2>1, RoundedUp
  <2>3. x + w <= x + Rounded(w)
    <3> HIDE DEF x, w
    <3> QED
      BY <2>1, <2>2
  <2> QED
    BY <2>1, <2>3
<1> QED
  BY <1>2, <1>4, <1>5, <1>6 DEF base

(* The address is that of a byte of the i-th GPU. *)
Owns(list, sizes, i, address) ==
  /\ Base(list, sizes, i) <= address
  /\ address < Base(list, sizes, i) + sizes[list[i]]

(* An address in the memory of a GPU belongs to that GPU and to no other.   *)
LEMMA OneHome ==
  ASSUME NEW G, NEW list \in Seq(G), NEW sizes \in [G -> Nat], NEW a \in Nat,
         NEW i \in 1..Len(list), Owns(list, sizes, i, a)
  PROVE  Homes(list, sizes, a) = {[gpu |-> list[i], address |-> a - Base(list, sizes, i)]}
<1> DEFINE base == Bases(list, sizes)
           N == Len(list)
           InGpu(j) == base[j - 1] <= a /\ a < base[j - 1] + sizes[list[j]]
<1>1. /\ N \in Nat /\ DOMAIN list = 1..N /\ a \in Nat
      /\ \A j \in 1..N : sizes[list[j]] \in Nat
  OBVIOUS
<1>2. /\ \A j \in 0..N : base[j] \in Nat
      /\ \A j \in 1..N : base[j - 1] + sizes[list[j]] <= base[j]
      /\ \A j, k \in 0..N : j <= k => base[j] <= base[k]
  BY Layout
<1>3. InGpu(i)
  BY DEF Owns, Base
<1>4. Homes(list, sizes, a) =
        {[gpu |-> list[j], address |-> a - base[j - 1]] : j \in {k \in 1..N : InGpu(k)}}
  BY <1>1 DEF Homes, Base
<1> HIDE DEF base, N
<1>5. \A j \in 1..N : InGpu(j) => j = i
  <2> SUFFICES ASSUME NEW j \in 1..N, NEW k \in 1..N, InGpu(j), InGpu(k), j < k
               PROVE  FALSE
    BY <1>1, <1>3 DEF N
  <2>1. k - 1 \in 0..N /\ j - 1 \in 0..N /\ j \in 0..N /\ j <= k - 1
    BY <1>1
  <2>2. base[j] <= base[k - 1] /\ base[j - 1] + sizes[list[j]] <= base[j]
    BY <1>2, <2>1
  <2>3. base[j - 1] \in Nat /\ base[j] \in Nat /\ base[k - 1] \in Nat /\ sizes[list[j]] \in Nat
    BY <1>1, <1>2, <2>1
  <2>4. a < base[j - 1] + sizes[list[j]] /\ base[k - 1] <= a
    OBVIOUS
  <2> DEFINE x == base[j - 1]
             y == base[j]
             z == base[k - 1]
             w == sizes[list[j]]
  <2>5. /\ x \in Nat /\ y \in Nat /\ z \in Nat /\ w \in Nat /\ a \in Nat
        /\ y <= z /\ x + w <= y /\ a < x + w /\ z <= a
    BY <1>1, <2>2, <2>3, <2>4
  <2> HIDE DEF x, y, z, w
  <2> QED
    BY <2>5
<1> HIDE DEF InGpu
<1>6. {j \in 1..N : InGpu(j)} = {i}
  BY <1>3, <1>5 DEF N
<1> QED
  BY <1>4, <1>6 DEF base, Base

-----------------------------------------------------------------------------
(* Partition::ReadVRAM and WriteVRAM find the GPU that owns the address    *)
(* and the offset it has there, or find nobody when nobody owns it: also   *)
(* when a turn of the loop takes the address below zero, in the gap behind *)
(* a GPU whose size is no multiple of the unit.                             *)
THEOREM WalkGoesHome ==
  ASSUME NEW G, Nobody \notin G, NEW list \in Seq(G), NEW sizes \in [G -> Nat],
         Fits(list, sizes), NEW a \in 0..Modulus - 1
  PROVE  LET found == Walk(list, sizes, a)
         IN  /\ Homes(list, sizes, a) = IF found.gpu = Nobody THEN {} ELSE {found}
             /\ found \in [gpu : G \union {Nobody}, address : 0..Modulus - 1]
             /\ found.gpu # Nobody => found.address < sizes[found.gpu]
<1> DEFINE turn == Turns(list, sizes, a)
           base == Bases(list, sizes)
           N == Len(list)
           InGpu(i) == base[i - 1] <= a /\ a < base[i - 1] + sizes[list[i]]
           Found(n) == \E i \in 1..n :
             InGpu(i) /\ turn[n] = [gpu |-> list[i], address |-> a - base[i - 1]]
           Behind(n) == /\ base[n] <= a
                        /\ turn[n] = [gpu |-> Nobody, address |-> a - base[n]]
                        /\ \A i \in 1..n : ~InGpu(i)
           Gap(n) == /\ a < base[n]
                     /\ turn[n] = [gpu |-> Nobody, address |-> a - base[n] + Modulus]
                     /\ \A i \in 1..n : ~InGpu(i)
<1>1. /\ N \in Nat /\ DOMAIN list = 1..N
      /\ \A i \in 1..N : list[i] \in G /\ list[i] # Nobody /\ sizes[list[i]] \in Nat
      /\ Modulus \in Nat /\ a \in Nat /\ a < Modulus
  BY ModulusAssumption
<1>2. /\ turn[0] = [gpu |-> Nobody, address |-> a]
      /\ \A n \in 0..N - 1 : turn[n + 1] = Turn(turn[n], list[n + 1], sizes[list[n + 1]])
  <2>1. \A n \in 0..N : turn[n] = IF n = 0 THEN [gpu |-> Nobody, address |-> a]
                               ELSE Turn(turn[n - 1], list[n], sizes[list[n]])
    <3>1. turn = [n \in 0..N |-> IF n = 0 THEN [gpu |-> Nobody, address |-> a]
                                 ELSE Turn(turn[n - 1], list[n], sizes[list[n]])]
      BY <1>1, TurnsUnfold
    <3> HIDE DEF turn
    <3> QED
      BY <3>1
  <2> HIDE DEF turn
  <2>2. turn[0] = [gpu |-> Nobody, address |-> a]
    BY <1>1, <2>1
  <2>3. ASSUME NEW n \in 0..N - 1
        PROVE  turn[n + 1] = Turn(turn[n], list[n + 1], sizes[list[n + 1]])
    <3>1. n + 1 \in 0..N /\ n + 1 # 0 /\ (n + 1) - 1 = n
      BY <1>1
    <3> QED
      BY <2>1, <3>1
  <2> QED
    BY <2>2, <2>3
<1>3. /\ base[0] = 0
      /\ \A i \in 0..N : base[i] \in Nat
      /\ \A i \in 1..N : /\ base[i] = base[i - 1] + Rounded(sizes[list[i]])
                         /\ base[i - 1] + sizes[list[i]] <= base[i]
      /\ \A i, j \in 0..N : i <= j => base[i] <= base[j]
  BY Layout
<1>4. \A i \in 0..N : base[i] <= Modulus
  BY <1>1, <1>3 DEF Fits
<1> HIDE DEF turn, base, N
<1>5. ASSUME NEW n \in 0..N - 1, Found(n) \/ Behind(n) \/ Gap(n)
      PROVE  Found(n + 1) \/ Behind(n + 1) \/ Gap(n + 1)
  <2> DEFINE g == list[n + 1]
             s == sizes[g]
  <2>1. /\ turn[n + 1] = Turn(turn[n], g, s)
        /\ g \in G /\ g # Nobody /\ s \in Nat
        /\ base[n] \in Nat /\ base[n + 1] \in Nat /\ base[n + 1] <= Modulus
        /\ base[n + 1] = base[n] + Rounded(s) /\ base[n] + s <= base[n + 1]
        /\ Rounded(s) \in Nat /\ Rounded(s) <= Modulus
    <3>1. n + 1 \in 1..N /\ n \in 0..N /\ n + 1 \in 0..N
      BY <1>1
    <3>2. g \in G /\ g # Nobody /\ s \in Nat /\ (n + 1) - 1 = n
      BY <1>1, <3>1
    <3>3. Rounded(s) \in Nat
      BY <3>2, RoundedUp
    <3>4. turn[n + 1] = Turn(turn[n], g, s)
      BY <1>2
    <3>5. /\ base[n] \in Nat /\ base[n + 1] \in Nat /\ base[n + 1] <= Modulus
          /\ base[n + 1] = base[n] + Rounded(s) /\ base[n] + s <= base[n + 1]
      BY <1>3, <1>4, <3>1, <3>2
    <3>6. Rounded(s) <= Modulus
      <4> HIDE DEF s
      <4> QED
        BY <1>1, <3>3, <3>5
    <3> QED
      BY <3>2, <3>3, <3>4, <3>5, <3>6
  <2>2. InGpu(n + 1) <=> base[n] <= a /\ a < base[n] + s
    <3>1. (n + 1) - 1 = n
      OBVIOUS
    <3> QED
      BY <3>1
  <2>3. /\ base[n] <= Modulus /\ base[n] \in Nat /\ s <= Rounded(s)
        /\ \A i \in 1..(n + 1) : i = n + 1 \/ i \in 1..n
    BY <2>1, <1>1
  <2> HIDE DEF s
  <2>4. CASE Found(n)
    <3>1. PICK i \in 1..n : /\ InGpu(i)
                            /\ turn[n] = [gpu |-> list[i], address |-> a - base[i - 1]]
      BY <2>4
    <3>2. turn[n].gpu # Nobody
      BY <1>1, <3>1
    <3>3. turn[n + 1] = turn[n]
      BY <2>1, <3>2 DEF Turn
    <3>4. i \in 1..(n + 1)
      OBVIOUS
    <3> QED
      BY <3>1, <3>3, <3>4
  <2>5. CASE Behind(n)
    <3>1. /\ turn[n] = [gpu |-> Nobody, address |-> a - base[n]]
          /\ a - base[n] \in 0..Modulus - 1
      <4>1. base[n] <= a
        BY <2>5
      <4>2. a - base[n] \in 0..Modulus - 1
        BY <1>1, <2>3, <4>1
      <4> QED
        BY <2>5, <4>2
    <3>2. CASE a - base[n] < s
      <4>1. turn[n + 1] = [gpu |-> g, address |-> a - base[n]]
        BY <2>1, <3>1, <3>2 DEF Turn
      <4>2. InGpu(n + 1)
        <5> DEFINE x == base[n]
        <5>1. x \in Nat /\ a \in Nat /\ s \in Nat /\ x <= a /\ a - x < s
          BY <1>1, <2>1, <2>3, <2>5, <3>2
        <5> HIDE DEF x
        <5>2. x <= a /\ a < x + s
          BY <5>1
        <5> QED
          BY <2>2, <5>2 DEF x
      <4>3. n + 1 \in 1..(n + 1) /\ (n + 1) - 1 = n
        OBVIOUS
      <4> QED
        BY <4>1, <4>2, <4>3
    <3>3. CASE ~(a - base[n] < s)
      <4>1. turn[n + 1] = [gpu |-> Nobody, address |-> Past(a - base[n], s)]
        BY <2>1, <3>1, <3>3 DEF Turn
      <4>2. Past(a - base[n], s) = IF a >= base[n + 1] THEN a - base[n + 1]
                                   ELSE a - base[n + 1] + Modulus
        <5> DEFINE x == a - base[n]
        <5>1. Past(x, s) = IF x >= Rounded(s) THEN x - Rounded(s)
                           ELSE x - Rounded(s) + Modulus
          <6> HIDE DEF x
          <6> QED
            BY <2>1, <3>1, PastGpu DEF x
        <5>2. x >= Rounded(s) <=> a >= base[n + 1]
          BY <1>1, <2>1, <2>3
        <5>3. x - Rounded(s) = a - base[n + 1]
          BY <1>1, <2>1, <2>3
        <5> HIDE DEF x
        <5>4. Past(x, s) = IF a >= base[n + 1] THEN a - base[n + 1]
                           ELSE a - base[n + 1] + Modulus
          BY <5>1, <5>2, <5>3
        <5> QED
          BY <5>4 DEF x
      <4>3. ~InGpu(n + 1)
        BY <1>1, <2>1, <2>2, <3>3
      <4>4. \A i \in 1..(n + 1) : ~InGpu(i)
        BY <2>5, <2>3, <4>3
      <4> HIDE DEF InGpu
      <4>5. CASE a >= base[n + 1]
        <5>1. base[n + 1] <= a
          BY <1>1, <2>1, <4>5
        <5>2. turn[n + 1] = [gpu |-> Nobody, address |-> a - base[n + 1]]
          BY <4>1, <4>2, <4>5
        <5> QED
          BY <4>4, <5>1, <5>2
      <4>6. CASE ~(a >= base[n + 1])
        <5>1. a < base[n + 1]
          BY <1>1, <2>1, <4>6
        <5>2. turn[n + 1] = [gpu |-> Nobody, address |-> a - base[n + 1] + Modulus]
          BY <4>1, <4>2, <4>6
        <5> QED
          BY <4>4, <5>1, <5>2
      <4> QED
        BY <4>5, <4>6
    <3> QED
      BY <3>2, <3>3
  <2>6. CASE Gap(n)
    <3> DEFINE x == a - base[n] + Modulus
    <3>1. /\ turn[n] = [gpu |-> Nobody, address |-> x]
          /\ x \in 0..Modulus - 1 /\ ~(x < s) /\ x >= Rounded(s)
          /\ x - Rounded(s) = a - base[n + 1] + Modulus
      <4>1. a < base[n]
        BY <2>6
      <4>2. a \in Nat /\ Modulus \in Nat
        BY <1>1
      <4>3. x \in 0..Modulus - 1
        BY <2>3, <4>1, <4>2
      <4>4. x >= Rounded(s)
        BY <2>1, <2>3, <4>2
      <4>5. x - Rounded(s) = a - base[n + 1] + Modulus
        BY <2>1, <2>3, <4>2
      <4>6. ~(x < s)
        <5>1. x \in Int /\ s \in Int /\ Rounded(s) \in Int /\ s <= Rounded(s)
          BY <2>1, <2>3, <4>2
        <5> HIDE DEF x
        <5> QED
          BY <4>4, <5>1
      <4> QED
        BY <2>6, <4>6, <4>3, <4>4, <4>5
    <3>2. turn[n + 1] = [gpu |-> Nobody, address |-> Past(x, s)]
      BY <2>1, <3>1 DEF Turn
    <3>3. Past(x, s) = x - Rounded(s)
      <4> HIDE DEF x
      <4> QED
        BY <2>1, <3>1, PastGpu
    <3>4. a < base[n + 1] /\ ~InGpu(n + 1)
      <4>1. a < base[n] /\ base[n] \in Nat /\ base[n + 1] \in Nat /\ base[n] + s <= base[n + 1]
        BY <2>1, <2>6
      <4>2. a \in Nat /\ s \in Nat
        BY <1>1, <2>1
      <4>3. ~InGpu(n + 1)
        <5> HIDE DEF InGpu
        <5> QED
          BY <2>2, <4>1, <4>2
      <4> HIDE DEF InGpu
      <4> QED
        BY <4>1, <4>2, <4>3
    <3>5. \A i \in 1..(n + 1) : ~InGpu(i)
      BY <2>6, <2>3, <3>4
    <3> QED
      BY <3>1, <3>2, <3>3, <3>4, <3>5
  <2> QED
    BY <1>5, <2>4, <2>5, <2>6
<1>6. Found(N) \/ Behind(N) \/ Gap(N)
  <2> DEFINE S == {n \in Nat : n <= N => Found(n) \/ Behind(n) \/ Gap(n)}
  <2>1. 0 \in S
    <3>1. a - base[0] = a
      BY <1>1, <1>3
    <3>2. Behind(0)
      BY <1>1, <1>2, <1>3, <3>1
    <3> QED
      BY <3>2
  <2>2. ASSUME NEW n \in Nat, n \in S PROVE n + 1 \in S
    <3> HIDE DEF Found, Behind, Gap
    <3>1. CASE n + 1 <= N
      <4>1. n \in 0..N - 1
        BY <1>1, <3>1
      <4>2. Found(n) \/ Behind(n) \/ Gap(n)
        BY <1>1, <2>2, <3>1
      <4> QED
        BY <1>5, <4>1, <4>2
    <3> QED
      BY <3>1
  <2>3. Nat \subseteq S
    <3> HIDE DEF S
    <3> QED
      BY <2>1, <2>2, Induction
  <2> HIDE DEF Found, Behind, Gap
  <2> QED
    BY <1>1, <2>3
<1>7. Walk(list, sizes, a) = turn[N]
  BY DEF Walk, turn, N
<1>8. Homes(list, sizes, a) =
        {[gpu |-> list[i], address |-> a - base[i - 1]] : i \in {j \in 1..N : InGpu(j)}}
  BY <1>1 DEF Homes, Base, base
<1>9. CASE Found(N)
  <2>1. PICK i \in 1..N : /\ InGpu(i)
                          /\ turn[N] = [gpu |-> list[i], address |-> a - base[i - 1]]
    BY <1>9
  <2>2. Homes(list, sizes, a) = {turn[N]}
    <3>1. i \in 1..Len(list) /\ a \in Nat
      BY <1>1 DEF N
    <3>2. Owns(list, sizes, i, a)
      BY <2>1 DEF Owns, Base, base
    <3>3. Homes(list, sizes, a) = {[gpu |-> list[i], address |-> a - Base(list, sizes, i)]}
      BY <3>1, <3>2, OneHome
    <3> QED
      BY <2>1, <3>3 DEF Base, base
  <2>3. /\ list[i] \in G /\ list[i] # Nobody /\ base[i - 1] \in Nat
        /\ a - base[i - 1] \in 0..Modulus - 1 /\ a - base[i - 1] < sizes[list[i]]
    BY <1>1, <1>3, <2>1
  <2> QED
    BY <1>7, <2>1, <2>2, <2>3
<1>10. CASE Behind(N) \/ Gap(N)
  <2>1. {j \in 1..N : InGpu(j)} = {}
    BY <1>10
  <2>2. Homes(list, sizes, a) = {}
    <3> HIDE DEF InGpu
    <3> QED
      BY <1>8, <2>1
  <2>3. turn[N] \in [gpu : {Nobody}, address : 0..Modulus - 1]
    <3>1. base[N] \in Nat /\ base[N] <= Modulus
      BY <1>1, <1>3, <1>4
    <3> QED
      BY <1>1, <1>10, <3>1
  <2> QED
    BY <1>7, <2>2, <2>3
<1> QED
  BY <1>6, <1>9, <1>10

-----------------------------------------------------------------------------
(* The hive lists and the routing of accesses *)

(* what the DRM node of a GPU says once it is initialised, but for its list *)
Read(g, nodes) == [hive |-> m.files[g] = 3, device |-> DeviceId(g),
                   phys |-> PhysId(g), nodes |-> nodes]

InPhysicalOrder(s) ==
  s \in SetToSeqs(m.hive) /\ \A i, j \in DOMAIN s : i < j => m.phys[s[i]] < m.phys[s[j]]

(* Nodes are initialised in the order of DrmNodes.                         *)
OrderInv ==
  \E k \in 0..Len(DrmNodes) :
    /\ DOMAIN info = {DrmNodes[i] : i \in 1..k}
    /\ IsFiniteSet(DOMAIN info) /\ Cardinality(DOMAIN info) = k
    /\ stage # "init" => k = Len(DrmNodes)

(* The list is of the whole hive, or empty; that of a render node, made    *)
(* when all cards are done, is in physical order.                          *)
ListInv ==
  \A x \in DOMAIN info :
    /\ info[x] = Read(x[2], info[x].nodes)
    /\ IF m.files[x[2]] = 3 /\ AllFound THEN info[x].nodes \in SetToSeqs(m.hive)
                                        ELSE info[x].nodes = << >>
    /\ x[1] = "render" /\ AllNamed /\ m.files[x[2]] = 3 /\ AllFound =>
         InPhysicalOrder(info[x].nodes)

(* An outcome is that of the access it is of.                              *)
OutcomeInv ==
  IF stage = "done"
  THEN /\ access \in [op : {"read", "write"}, part : DOMAIN m.parts, orig : 0..Modulus - 1]
       /\ outcome = Outcome(access.op, access.part, access.orig)
  ELSE access = None /\ outcome = Failure("NONE")

BaseInv ==
  /\ m \in Machines /\ elided \in BOOLEAN /\ stage \in {"init", "idle", "done"}

IInv == BaseInv /\ OrderInv /\ ListInv /\ OutcomeInv

-----------------------------------------------------------------------------
(* The nodes, by their position: a card per GPU, then a render node per GPU *)
LEMMA Nodes ==
  ASSUME m \in Machines
  PROVE  LET D == Len(m.drm)
         IN  /\ D \in Nat /\ Len(DrmNodes) = D + D
             /\ \A i \in 1..D : m.drm[i] \in ToSet(m.drm) /\ m.drm[i] \in m.gpus
             /\ \A i \in 1..D : DrmNodes[i] = <<"card", m.drm[i]>>
             /\ \A i \in 1..D : DrmNodes[i + D] = <<"render", m.drm[i]>>
             /\ \A i \in 1..(D + D) : i \in 1..D \/ i - D \in 1..D
<1> DEFINE D == Len(m.drm)
           cards == [i \in 1..D |-> <<"card", m.drm[i]>>]
           renders == [i \in 1..D |-> <<"render", m.drm[i]>>]
           T == NodeKinds \X m.gpus
<1>1. m.drm \in Seq(m.gpus) /\ D \in Nat /\ DOMAIN m.drm = 1..D
  BY MachinesAssumption DEF MachineOK
<1>2. \A i \in 1..D : m.drm[i] \in ToSet(m.drm) /\ m.drm[i] \in m.gpus
  BY <1>1 DEF ToSet
<1>3. cards \in Seq(T) /\ Len(cards) = D
  BY <1>1, <1>2 DEF NodeKinds
<1>4. renders \in Seq(T) /\ Len(renders) = D
  BY <1>1, <1>2 DEF NodeKinds
<1>5. DrmNodes = cards \o renders
  BY DEF DrmNodes
<1>6. \A i \in 1..D : cards[i] = <<"card", m.drm[i]>> /\ renders[i] = <<"render", m.drm[i]>>
  OBVIOUS
<1> HIDE DEF cards, renders, T, D
<1>7. Len(DrmNodes) = D + D
  <2>1. Len(cards \o renders) = Len(cards) + Len(renders)
    BY <1>3, <1>4, ConcatProperties
  <2> QED
    BY <1>3, <1>4, <1>5, <2>1
<1>8. \A i \in 1..(D + D) : DrmNodes[i] = IF i <= D THEN cards[i] ELSE renders[i - D]
  BY <1>1, <1>3, <1>4, <1>5
<1>9. \A i \in 1..D : /\ i \in 1..(D + D) /\ i <= D
                       /\ i + D \in 1..(D + D) /\ ~(i + D <= D) /\ (i + D) - D = i
  BY <1>1
<1>10. \A i \in 1..D : DrmNodes[i] = <<"card", m.drm[i]>>
  BY <1>6, <1>8, <1>9
<1>11. \A i \in 1..D : DrmNodes[i + D] = <<"render", m.drm[i]>>
  BY <1>6, <1>8, <1>9
<1>12. \A i \in 1..(D + D) : i \in 1..D \/ i - D \in 1..D
  BY <1>1
<1> QED
  BY <1>1, <1>2, <1>7, <1>10, <1>11, <1>12 DEF D

(* No node comes twice.                                                    *)
LEMMA NodesDistinct ==
  ASSUME m \in Machines
  PROVE  \A i, j \in 1..Len(DrmNodes) : DrmNodes[i] = DrmNodes[j] => i = j
<1> DEFINE D == Len(m.drm)
<1>1. /\ D \in Nat /\ DOMAIN m.drm = 1..D
      /\ \A i, j \in 1..D : m.drm[i] = m.drm[j] => i = j
  BY MachinesAssumption DEF MachineOK, IsInjective
<1>2. /\ Len(DrmNodes) = D + D
      /\ \A i \in 1..D : DrmNodes[i] = <<"card", m.drm[i]>>
      /\ \A i \in 1..D : DrmNodes[i + D] = <<"render", m.drm[i]>>
  BY Nodes
<1> HIDE DEF D
<1>3. ASSUME NEW i \in 1..(D + D), NEW j \in 1..(D + D), DrmNodes[i] = DrmNodes[j]
      PROVE  i = j
  <2>1. CASE i \in 1..D /\ j \in 1..D
    BY <1>1, <1>2, <1>3, <2>1
  <2>2. CASE i \in 1..D /\ j \notin 1..D
    <3>1. j - D \in 1..D /\ (j - D) + D = j
      BY <1>1, <2>2
    <3> QED
      BY <1>2, <1>3, <2>2, <3>1
  <2>3. CASE i \notin 1..D /\ j \in 1..D
    <3>1. i - D \in 1..D /\ (i - D) + D = i
      BY <1>1, <2>3
    <3> QED
      BY <1>2, <1>3, <2>3, <3>1
  <2>4. CASE i \notin 1..D /\ j \notin 1..D
    <3>1. j - D \in 1..D /\ (j - D) + D = j /\ i - D \in 1..D /\ (i - D) + D = i
      BY <1>1, <2>4
    <3>2. m.drm[i - D] = m.drm[j - D]
      BY <1>2, <1>3, <3>1
    <3> QED
      BY <1>1, <3>1, <3>2
  <2> QED
    BY <2>1, <2>2, <2>3, <2>4
<1> QED
  BY <1>2, <1>3

(* Once all are initialised, there is a card and a render node of each GPU *)
(* that DRM lists, and of no other.                                        *)
LEMMA AllNodes ==
  ASSUME m \in Machines, OrderInv, stage # "init"
  PROVE  DOMAIN info = NodeKinds \X ToSet(m.drm)
<1> DEFINE D == Len(m.drm)
<1>1. /\ D \in Nat /\ Len(DrmNodes) = D + D
      /\ \A i \in 1..D : m.drm[i] \in ToSet(m.drm)
      /\ \A i \in 1..D : DrmNodes[i] = <<"card", m.drm[i]>>
      /\ \A i \in 1..D : DrmNodes[i + D] = <<"render", m.drm[i]>>
      /\ \A i \in 1..(D + D) : i \in 1..D \/ i - D \in 1..D
  BY Nodes
<1>2. DOMAIN info = {DrmNodes[i] : i \in 1..(D + D)}
  BY <1>1 DEF OrderInv
<1>3. ToSet(m.drm) = {m.drm[i] : i \in 1..D}
  BY MachinesAssumption DEF MachineOK, ToSet
<1>4. \A x \in DOMAIN info : x \in NodeKinds \X ToSet(m.drm)
  <2>1. ASSUME NEW i \in 1..(D + D) PROVE DrmNodes[i] \in NodeKinds \X ToSet(m.drm)
    <3>1. CASE i \in 1..D
      <4>1. m.drm[i] \in ToSet(m.drm)
        BY <1>1, <3>1
      <4>2. DrmNodes[i] = <<"card", m.drm[i]>>
        BY <1>1, <3>1
      <4>3. "card" \in NodeKinds
        BY DEF NodeKinds
      <4> QED
        BY <4>1, <4>2, <4>3
    <3>2. CASE i - D \in 1..D
      <4>1. (i - D) + D = i
        BY <1>1
      <4>2. DrmNodes[i] = <<"render", m.drm[i - D]>>
        BY <1>1, <3>2, <4>1
      <4>3. m.drm[i - D] \in ToSet(m.drm)
        BY <1>1, <3>2
      <4>4. "render" \in NodeKinds
        BY DEF NodeKinds
      <4> QED
        BY <4>2, <4>3, <4>4
    <3> QED
      BY <1>1, <3>1, <3>2
  <2> QED
    BY <1>2, <2>1
<1>5. ASSUME NEW i \in 1..D
      PROVE  <<"card", m.drm[i]>> \in DOMAIN info /\ <<"render", m.drm[i]>> \in DOMAIN info
  <2>1. i \in 1..(D + D) /\ i + D \in 1..(D + D)
    BY <1>1
  <2> QED
    BY <1>1, <1>2, <2>1
<1>6. ASSUME NEW dir \in NodeKinds, NEW g \in ToSet(m.drm) PROVE <<dir, g>> \in DOMAIN info
  <2>1. PICK i \in 1..D : g = m.drm[i]
    BY <1>3
  <2> QED
    BY <1>5, <2>1 DEF NodeKinds
<1> QED
  BY <1>4, <1>6

-----------------------------------------------------------------------------
(* A list of the hive names each of its GPUs once and no other.            *)
LEMMA HiveList ==
  ASSUME m \in Machines, NEW s \in SetToSeqs(m.hive)
  PROVE  /\ s \in Seq(m.hive) /\ s \in Seq(m.gpus) /\ ToSet(s) = m.hive
         /\ Len(s) \in Nat /\ DOMAIN s = 1..Len(s)
         /\ \A i, j \in 1..Len(s) : s[i] = s[j] => i = j
<1> DEFINE n == Cardinality(m.hive)
<1>1. IsFiniteSet(m.hive) /\ m.hive \subseteq m.gpus
  BY MachinesAssumption, FS_Subset DEF MachineOK
<1>2. n \in Nat
  BY <1>1, FS_CardinalityType
<1>3. s \in [1..n -> m.hive] /\ \A i, j \in 1..n : i # j => s[i] # s[j]
  BY DEF SetToSeqs
<1>4. IsFiniteSet(1..n) /\ Cardinality(1..n) = n
  BY <1>2, FS_Interval
<1> HIDE DEF n
<1>5. s \in Injection(1..n, m.hive)
  BY <1>3 DEF Injection, IsInjective
<1>6. s \in Surjection(1..n, m.hive)
  BY <1>1, <1>4, <1>5, FS_Injection DEF n
<1>7. s \in Seq(m.hive) /\ Len(s) = n
  BY <1>2, <1>3
<1>8. s \in Seq(m.gpus)
  BY <1>1, <1>2, <1>3
<1>9. ToSet(s) = m.hive
  BY <1>3, <1>6 DEF Surjection, ToSet
<1> QED
  BY <1>2, <1>3, <1>7, <1>8, <1>9

(* There is one physical order.                                            *)
LEMMA OneOrder ==
  ASSUME m \in Machines, NEW s, InPhysicalOrder(s) PROVE s = Ordered
<1> DEFINE n == Cardinality(m.hive)
<1>1. ASSUME NEW r, NEW q, InPhysicalOrder(r), InPhysicalOrder(q),
             NEW i \in 1..n, \A j \in 1..n : j < i => r[j] = q[j]
      PROVE  ~(m.phys[r[i]] < m.phys[q[i]])
  <2>1. /\ r \in [1..n -> m.hive] /\ q \in [1..n -> m.hive] /\ n \in Nat
        /\ ToSet(q) = m.hive
        /\ \A j, k \in 1..n : r[j] = r[k] => j = k
        /\ \A j, k \in 1..n : j < k => m.phys[q[j]] < m.phys[q[k]]
    <3>1. n \in Nat
      BY MachinesAssumption, FS_Subset, FS_CardinalityType DEF MachineOK
    <3>2. r \in SetToSeqs(m.hive) /\ q \in SetToSeqs(m.hive)
      BY <1>1 DEF InPhysicalOrder
    <3>3. r \in [1..n -> m.hive] /\ q \in [1..n -> m.hive]
      BY <3>2 DEF SetToSeqs
    <3> QED
      BY <1>1, <3>1, <3>2, <3>3, HiveList DEF InPhysicalOrder
  <2> HIDE DEF n
  <2>2. PICK k \in 1..n : q[k] = r[i]
    BY <2>1 DEF ToSet
  <2>3. ~(k < i)
    <3>1. k < i => r[k] = r[i]
      BY <1>1, <2>2
    <3> QED
      BY <1>1, <2>1, <2>2, <3>1
  <2>4. \A g \in m.hive : m.phys[g] \in Nat
    BY MachinesAssumption DEF MachineOK
  <2>5. m.phys[q[i]] \in Nat /\ m.phys[r[i]] \in Nat
    BY <1>1, <2>1, <2>4
  <2>6. CASE k = i
    BY <2>2, <2>5, <2>6
  <2>7. CASE i < k
    BY <1>1, <2>1, <2>2, <2>5, <2>7
  <2> QED
    BY <1>1, <2>1, <2>3, <2>6, <2>7
<1>2. ASSUME NEW r, NEW q, InPhysicalOrder(r), InPhysicalOrder(q) PROVE r = q
  <2>1. r \in [1..n -> m.hive] /\ q \in [1..n -> m.hive]
    BY <1>2 DEF InPhysicalOrder, SetToSeqs
  <2>2. n \in Nat
    BY MachinesAssumption, FS_Subset, FS_CardinalityType DEF MachineOK
  <2> DEFINE diff == {i \in 1..n : r[i] # q[i]}
  <2>3. CASE diff = {}
    <3>1. \A i \in 1..n : r[i] = q[i]
      BY <2>3
    <3>2. r = [i \in 1..n |-> r[i]] /\ q = [i \in 1..n |-> q[i]]
      BY <2>1
    <3>3. [i \in 1..n |-> r[i]] = [i \in 1..n |-> q[i]]
      BY <3>1
    <3> QED
      BY <3>2, <3>3, Zenon
  <2>4. CASE diff # {}
    <3>1. diff \in SUBSET Nat
      BY <2>2
    <3>2. PICK i \in diff : \A j \in diff : i <= j
      BY <2>4, <3>1, LeastExists
    <3>3. i \in 1..n /\ \A j \in 1..n : j < i => r[j] = q[j]
      BY <2>2, <3>2
    <3>4. ~(m.phys[r[i]] < m.phys[q[i]]) /\ ~(m.phys[q[i]] < m.phys[r[i]])
      BY <1>1, <1>2, <3>3
    <3>5. /\ \A g \in m.hive : m.phys[g] \in Nat
          /\ \A g, h \in m.hive : m.phys[g] = m.phys[h] => g = h
      BY MachinesAssumption DEF MachineOK
    <3>6. r[i] \in m.hive /\ q[i] \in m.hive
      BY <2>1, <3>3
    <3> QED
      BY <3>2, <3>4, <3>5, <3>6
  <2> QED
    BY <2>3, <2>4
<1>3. Ordered = CHOOSE r : InPhysicalOrder(r)
  <2>1. Ordered = CHOOSE r \in SetToSeqs(m.hive) :
                    \A i, j \in DOMAIN r : i < j => m.phys[r[i]] < m.phys[r[j]]
    BY DEF Ordered, PhysicalOrder
  <2> QED
    BY <2>1 DEF InPhysicalOrder
<1>4. InPhysicalOrder(Ordered)
  BY <1>3
<1> QED
  BY <1>2, <1>4

-----------------------------------------------------------------------------
(* What is stored when a render node is initialised: all physical ids      *)
LEMMA CardsAreRead ==
  ASSUME IInv, AllFound, AllNamed, NEW k \in 0..Len(DrmNodes) - 1, NEW g,
         DOMAIN info = {DrmNodes[i] : i \in 1..k}, DrmNodes[k + 1] = <<"render", g>>,
         NEW h \in m.hive
  PROVE  StoredPhys(h, <<"render", g>>) = m.phys[h]
<1> DEFINE D == Len(m.drm)
<1>1. m \in Machines
  BY DEF IInv, BaseInv
<1>2. /\ D \in Nat /\ Len(DrmNodes) = D + D
      /\ \A i \in 1..D : DrmNodes[i] = <<"card", m.drm[i]>>
  BY <1>1, Nodes
<1>3. ToSet(m.drm) = {m.drm[i] : i \in 1..D} /\ m.hive \subseteq ToSet(m.drm)
  BY <1>1, MachinesAssumption DEF MachineOK, ToSet, AllFound
<1> HIDE DEF D
<1>4. PICK i \in 1..D : h = m.drm[i]
  BY <1>3
<1>5. k + 1 \notin 1..D
  BY <1>2
<1>6. i \in 1..k
  BY <1>2, <1>5
<1>7. <<"card", h>> \in DOMAIN info
  BY <1>2, <1>4, <1>6
<1>8. info[<<"card", h>>].phys = PhysId(h)
  <2> DEFINE x == <<"card", h>>
  <2>1. info[x] = Read(x[2], info[x].nodes) /\ x[2] = h
    BY <1>7 DEF IInv, ListInv
  <2> HIDE DEF x
  <2>2. info[x] = Read(h, info[x].nodes)
    BY <2>1
  <2>3. \A y, nodes : y = Read(h, nodes) => y.phys = PhysId(h)
    BY DEF Read
  <2> QED
    BY <2>2, <2>3 DEF x
<1>9. PhysId(h) = m.phys[h]
  BY DEF AllNamed, PhysId
<1> QED
  BY <1>7, <1>8, <1>9 DEF StoredPhys, InfoOf

LEMMA InitInv == ASSUME Init PROVE IInv
<1>1. BaseInv
  BY DEF Init, BaseInv
<1>2. DOMAIN info = {}
  BY DEF Init
<1>3. OrderInv
  <2>1. 0 \in 0..Len(DrmNodes) /\ stage = "init"
    <3>1. Len(DrmNodes) \in Nat
      BY <1>1, Nodes DEF BaseInv
    <3> QED
      BY <3>1 DEF Init
  <2>2. {DrmNodes[i] : i \in 1..0} = {}
    OBVIOUS
  <2> QED
    BY <1>2, <2>1, <2>2, FS_EmptySet DEF OrderInv
<1>4. ListInv
  BY <1>2 DEF ListInv
<1>5. OutcomeInv
  BY DEF Init, OutcomeInv
<1> QED
  BY <1>1, <1>3, <1>4, <1>5 DEF IInv

(* What depends on the machine alone does not change.                      *)
LEMMA SameMachine ==
  ASSUME UNCHANGED <<m, elided>>
  PROVE  /\ DrmNodes' = DrmNodes /\ AllFound' = AllFound /\ AllNamed' = AllNamed
         /\ \A g, nodes : Read(g, nodes)' = Read(g, nodes)
         /\ \A s : InPhysicalOrder(s)' = InPhysicalOrder(s)
BY DEF DrmNodes, AllFound, AllNamed, Read, DeviceId, PhysId, InPhysicalOrder

(* A DRM node is added behind those done so far.                           *)
LEMMA InitStep == ASSUME IInv, InitXGMIInfo PROVE IInv'
<1> DEFINE k == Cardinality(DOMAIN info)
           node == DrmNodes[k + 1]
           g == node[2]
<1>1. /\ k \in 0..Len(DrmNodes) - 1 /\ IsFiniteSet(DOMAIN info)
      /\ DOMAIN info = {DrmNodes[i] : i \in 1..k}
      /\ m \in Machines /\ stage = "init"
      /\ UNCHANGED <<m, elided, stage, access, outcome>>
  <2>1. PICK j \in 0..Len(DrmNodes) :
          /\ DOMAIN info = {DrmNodes[i] : i \in 1..j}
          /\ IsFiniteSet(DOMAIN info) /\ Cardinality(DOMAIN info) = j
    BY DEF IInv, OrderInv
  <2>2. m \in Machines /\ stage = "init" /\ k < Len(DrmNodes)
    BY DEF IInv, BaseInv, InitXGMIInfo
  <2>3. Len(DrmNodes) \in Nat
    BY <2>2, Nodes
  <2>4. j \in 0..Len(DrmNodes) - 1
    BY <2>1, <2>2, <2>3
  <2> QED
    BY <2>1, <2>2, <2>4 DEF InitXGMIInfo
<1>2. PICK list \in IF m.files[g] = 3 /\ AllFound THEN SortedHives(node) ELSE {<< >>} :
        info' = [x \in DOMAIN info \union {node} |->
                   IF x # node THEN info[x] ELSE Read(g, list)]
  BY DEF InitXGMIInfo, Read
<1>3. /\ DrmNodes' = DrmNodes /\ (AllFound <=> AllFound') /\ (AllNamed <=> AllNamed')
      /\ \A h, nodes : Read(h, nodes)' = Read(h, nodes)
      /\ \A s : InPhysicalOrder(s)' <=> InPhysicalOrder(s)
  BY <1>1, SameMachine
<1>4. Len(DrmNodes) \in Nat /\ \A i, j \in 1..Len(DrmNodes) : DrmNodes[i] = DrmNodes[j] => i = j
  BY <1>1, Nodes, NodesDistinct
<1> HIDE DEF k
<1>5. OrderInv'
  <2>1. k + 1 \in 1..Len(DrmNodes) /\ \A i \in 1..k : i \in 1..Len(DrmNodes) /\ i # k + 1
    BY <1>1, <1>4
  <2>2. node \notin DOMAIN info
    BY <1>1, <1>4, <2>1
  <2>3. DOMAIN info' = DOMAIN info \union {node}
    BY <1>2
  <2>4. IsFiniteSet(DOMAIN info') /\ Cardinality(DOMAIN info') = k + 1
    BY <1>1, <2>2, <2>3, FS_AddElement DEF k
  <2>5. 1..(k + 1) = (1..k) \union {k + 1}
    BY <1>1, <1>4
  <2>6. DOMAIN info' = {DrmNodes[i] : i \in 1..(k + 1)}
    BY <1>1, <2>3, <2>5
  <2>7. k + 1 \in 0..Len(DrmNodes)'
    BY <1>1, <1>3, <1>4
  <2>8. stage' = "init" /\ {DrmNodes[i] : i \in 1..(k + 1)} = {DrmNodes'[i] : i \in 1..(k + 1)}
    BY <1>1, <1>3
  <2> QED
    BY <2>4, <2>6, <2>7, <2>8 DEF OrderInv
<1>6. ListInv'
  <2> SUFFICES ASSUME NEW x \in DOMAIN info'
        PROVE  /\ info'[x] = Read(x[2], info'[x].nodes)
               /\ IF m.files[x[2]] = 3 /\ AllFound
                  THEN info'[x].nodes \in SetToSeqs(m.hive)
                  ELSE info'[x].nodes = << >>
               /\ x[1] = "render" /\ AllNamed /\ m.files[x[2]] = 3 /\ AllFound =>
                    InPhysicalOrder(info'[x].nodes)
    BY <1>1, <1>3 DEF ListInv
  <2>1. CASE x # node
    <3>1. x \in DOMAIN info /\ info'[x] = info[x]
      BY <1>2, <2>1
    <3> QED
      BY <3>1 DEF IInv, ListInv
  <2>2. CASE x = node
    <3>1. info'[x] = Read(g, list)
      BY <1>2, <2>2
    <3>2. info'[x].nodes = list
      BY <3>1 DEF Read
    <3>3. CASE m.files[g] = 3 /\ AllFound
      <4>1. /\ list \in SetToSeqs(m.hive)
            /\ \A i, j \in DOMAIN list : i < j =>
                 StoredPhys(list[i], node) <= StoredPhys(list[j], node)
        BY <1>2, <3>3 DEF SortedHives
      <4>2. ASSUME node[1] = "render", AllNamed PROVE InPhysicalOrder(list)
        <5>1. node = <<"render", g>>
          <6>1. \E dir, h : node = <<dir, h>>
            <7> DEFINE D == Len(m.drm)
            <7>1. k + 1 \in 1..Len(DrmNodes)
              BY <1>1, <1>4
            <7>2. k + 1 \in 1..D \/ (k + 1) - D \in 1..D
              BY <1>1, <7>1, Nodes
            <7>3. ((k + 1) - D) + D = k + 1
              BY <1>1, <1>4, Nodes
            <7> QED
              BY <1>1, <7>2, <7>3, Nodes
          <6> QED
            BY <4>2, <6>1
        <5>2. \A h \in m.hive : StoredPhys(h, node) = m.phys[h]
          BY <1>1, <3>3, <4>2, <5>1, CardsAreRead
        <5>3. /\ DOMAIN list = 1..Len(list) /\ list \in Seq(m.hive) /\ Len(list) \in Nat
              /\ \A i, j \in 1..Len(list) : list[i] = list[j] => i = j
          BY <1>1, <4>1, HiveList
        <5>4. /\ \A h \in m.hive : m.phys[h] \in Nat
              /\ \A h, f \in m.hive : m.phys[h] = m.phys[f] => h = f
          BY <1>1, MachinesAssumption DEF MachineOK
        <5>5. ASSUME NEW i \in 1..Len(list), NEW j \in 1..Len(list), i < j
              PROVE  m.phys[list[i]] < m.phys[list[j]]
          <6>1. list[i] \in m.hive /\ list[j] \in m.hive /\ list[i] # list[j]
            BY <5>3, <5>5
          <6>2. m.phys[list[i]] <= m.phys[list[j]]
            BY <4>1, <5>2, <5>3, <5>5, <6>1
          <6> QED
            BY <5>4, <6>1, <6>2
        <5> QED
          BY <4>1, <5>3, <5>5 DEF InPhysicalOrder
      <4> HIDE DEF node, g
      <4> QED
        BY <2>2, <3>1, <3>2, <3>3, <4>1, <4>2 DEF g
    <3>4. CASE ~(m.files[g] = 3 /\ AllFound)
      BY <1>2, <2>2, <3>1, <3>2, <3>4
    <3> QED
      BY <3>3, <3>4
  <2> QED
    BY <2>1, <2>2
<1>7. BaseInv' /\ OutcomeInv'
  BY <1>1 DEF IInv, BaseInv, OutcomeInv, None, Failure
<1> QED
  BY <1>5, <1>6, <1>7 DEF IInv

(* A call leaves what the engine knows of the machine alone.               *)
LEMMA SameInfo ==
  ASSUME IInv, UNCHANGED <<m, elided, info>>, stage # "init" \/ stage' = stage
  PROVE  /\ OrderInv' /\ ListInv'
         /\ \A op, part, a : Outcome(op, part, a)' = Outcome(op, part, a)
<1>1. /\ DrmNodes' = DrmNodes /\ (AllFound <=> AllFound') /\ (AllNamed <=> AllNamed')
      /\ \A h, nodes : Read(h, nodes)' = Read(h, nodes)
      /\ \A s : InPhysicalOrder(s)' <=> InPhysicalOrder(s)
  BY SameMachine
<1>2. OrderInv'
  BY <1>1 DEF IInv, OrderInv
<1>3. ListInv'
  BY <1>1 DEF IInv, ListInv
<1>4. \A op, part, a : Outcome(op, part, a)' = Outcome(op, part, a)
  BY DEF Outcome, Routed, Access, Failure, Candidates, PartsOf, Xgmi
<1> QED
  BY <1>2, <1>3, <1>4

LEMMA NextInv == ASSUME IInv, [Next]_vars PROVE IInv'
<1>1. CASE InitXGMIInfo
  BY <1>1, InitStep
<1>2. CASE InitDone
  <2>1. /\ DrmNodes' = DrmNodes /\ (AllFound <=> AllFound') /\ (AllNamed <=> AllNamed')
        /\ \A h, nodes : Read(h, nodes)' = Read(h, nodes)
        /\ \A s : InPhysicalOrder(s)' <=> InPhysicalOrder(s)
    BY <1>2, SameMachine DEF InitDone
  <2>2. OrderInv'
    BY <1>2, <2>1 DEF IInv, OrderInv, InitDone
  <2>3. ListInv'
    BY <1>2, <2>1 DEF IInv, ListInv, InitDone
  <2>4. BaseInv'
    BY <1>2 DEF IInv, BaseInv, InitDone
  <2>5. OutcomeInv'
    BY <1>2 DEF IInv, OutcomeInv, InitDone, None, Failure
  <2> QED
    BY <2>2, <2>3, <2>4, <2>5 DEF IInv
<1>3. ASSUME NEW op \in {"read", "write"}, NEW part \in DOMAIN m.parts,
             NEW a \in 0..(Modulus - 1), Begin(op, part, a)
      PROVE  IInv'
  <2>1. /\ UNCHANGED <<m, elided, info>> /\ stage = "idle" /\ stage' = "done"
        /\ access' = [op |-> op, part |-> part, orig |-> a]
        /\ outcome' = Outcome(op, part, a)
    BY <1>3 DEF Begin
  <2>2. OrderInv' /\ ListInv' /\ Outcome(op, part, a)' = Outcome(op, part, a)
    BY <2>1, SameInfo
  <2>3. BaseInv'
    BY <2>1 DEF IInv, BaseInv
  <2>4. OutcomeInv'
    <3>1. access' \in [op : {"read", "write"}, part : DOMAIN m'.parts, orig : 0..Modulus - 1]
      BY <2>1
    <3>2. Outcome(access.op, access.part, access.orig)' = Outcome(op, part, a)'
      BY <2>1
    <3> HIDE DEF Outcome
    <3> QED
      BY <2>1, <2>2, <3>1, <3>2 DEF OutcomeInv
  <2> QED
    BY <2>2, <2>3, <2>4 DEF IInv
<1>4. CASE Return
  <2>1. /\ UNCHANGED <<m, elided, info>> /\ stage # "init" /\ stage' = "idle"
        /\ access' = None /\ outcome' = Failure("NONE")
    BY <1>4 DEF Return
  <2>2. OrderInv' /\ ListInv'
    BY <2>1, SameInfo
  <2>3. BaseInv'
    BY <2>1 DEF IInv, BaseInv
  <2>4. OutcomeInv'
    BY <2>1 DEF OutcomeInv, None, Failure
  <2> QED
    BY <2>2, <2>3, <2>4 DEF IInv
<1>5. CASE UNCHANGED vars
  <2>1. /\ UNCHANGED <<m, elided, info, stage, access, outcome>>
    BY <1>5 DEF vars
  <2>2. OrderInv' /\ ListInv' /\ \A op, part, a : Outcome(op, part, a)' = Outcome(op, part, a)
    BY <2>1, SameInfo
  <2>3. BaseInv'
    BY <2>1 DEF IInv, BaseInv
  <2>4. OutcomeInv'
    <3>1. CASE stage = "done"
      <4>1. outcome' = Outcome(access.op, access.part, access.orig)
        BY <2>1, <3>1 DEF IInv, OutcomeInv
      <4>2. Outcome(access.op, access.part, access.orig)'
              = Outcome(access.op, access.part, access.orig)
        BY <2>1 DEF Outcome, Routed, Access, Failure, Candidates, PartsOf, Xgmi
      <4> HIDE DEF Outcome
      <4> QED
        BY <2>1, <3>1, <4>1, <4>2 DEF IInv, OutcomeInv
    <3>2. CASE stage # "done"
      BY <2>1, <3>2 DEF IInv, OutcomeInv, None, Failure
    <3> QED
      BY <3>1, <3>2
  <2> QED
    BY <2>2, <2>3, <2>4 DEF IInv
<1> QED
  BY <1>1, <1>2, <1>3, <1>4, <1>5 DEF Next

(* The invariant holds in every reachable state.                           *)
THEOREM Invariant == Spec => []IInv
<1>1. Init => IInv
  BY InitInv
<1>2. IInv /\ [Next]_vars => IInv'
  BY NextInv
<1> QED
  BY <1>1, <1>2, PTL DEF Spec

(* The list of every render node of the hive is complete and in physical   *)
(* order, though DRMNode::InitXGMIInfo sorts by ids that are still being   *)
(* read: whatever the order of the nodes' names and of the hive directory. *)
THEOREM RenderLists == Spec => []RenderListsSorted
<1>1. IInv => RenderListsSorted
  <2> SUFFICES ASSUME IInv, stage # "init", AllFound, AllNamed, NEW g \in m.hive, m.files[g] = 3
               PROVE  info[<<"render", g>>].nodes = Ordered
    BY DEF RenderListsSorted
  <2> DEFINE x == <<"render", g>>
  <2>1. x \in DOMAIN info
    <3>1. DOMAIN info = NodeKinds \X ToSet(m.drm)
      BY AllNodes DEF IInv, BaseInv
    <3>2. g \in ToSet(m.drm) /\ "render" \in NodeKinds
      BY DEF AllFound, NodeKinds
    <3> QED
      BY <3>1, <3>2
  <2>2. x[1] = "render" /\ x[2] = g
    OBVIOUS
  <2> HIDE DEF x
  <2>3. InPhysicalOrder(info[x].nodes)
    BY <2>1, <2>2 DEF IInv, ListInv
  <2>4. info[x].nodes = Ordered
    BY <2>3, OneOrder DEF IInv, BaseInv
  <2> QED
    BY <2>4 DEF x
<1> QED
  BY <1>1, Invariant, PTL

-----------------------------------------------------------------------------
(* The DRM nodes are of GPUs of the machine, and so is what they say.      *)
LEMMA InfoType ==
  ASSUME IInv
  PROVE  /\ DOMAIN info \subseteq NodeKinds \X m.gpus
         /\ \A x \in DOMAIN info :
              info[x] \in [hive : BOOLEAN, device : Nat, phys : Nat, nodes : Seq(m.gpus)]
<1> DEFINE D == Len(m.drm)
<1>1. m \in Machines /\ m.gpus \subseteq Nat /\ m.phys \in [m.gpus -> Nat]
  BY MachinesAssumption DEF IInv, BaseInv, MachineOK
<1>2. /\ D \in Nat /\ Len(DrmNodes) = D + D
      /\ \A i \in 1..D : m.drm[i] \in m.gpus
      /\ \A i \in 1..D : DrmNodes[i] = <<"card", m.drm[i]>>
      /\ \A i \in 1..D : DrmNodes[i + D] = <<"render", m.drm[i]>>
      /\ \A i \in 1..(D + D) : i \in 1..D \/ i - D \in 1..D
  BY <1>1, Nodes
<1> HIDE DEF D
<1>3. ASSUME NEW x \in DOMAIN info PROVE x \in NodeKinds \X m.gpus
  <2>1. PICK i \in 1..(D + D) : x = DrmNodes[i]
    BY <1>2 DEF IInv, OrderInv
  <2>2. "card" \in NodeKinds /\ "render" \in NodeKinds
    BY DEF NodeKinds
  <2>3. CASE i \in 1..D
    <3>1. x = <<"card", m.drm[i]>> /\ m.drm[i] \in m.gpus
      BY <1>2, <2>1, <2>3
    <3> QED
      BY <2>2, <3>1
  <2>4. CASE i - D \in 1..D
    <3>1. (i - D) + D = i
      BY <1>2
    <3>2. x = <<"render", m.drm[i - D]>> /\ m.drm[i - D] \in m.gpus
      BY <1>2, <2>1, <2>4, <3>1
    <3> QED
      BY <2>2, <3>2
  <2> QED
    BY <1>2, <2>3, <2>4
<1>4. ASSUME NEW x \in DOMAIN info
      PROVE  info[x] \in [hive : BOOLEAN, device : Nat, phys : Nat, nodes : Seq(m.gpus)]
  <2> DEFINE g == x[2]
             nodes == info[x].nodes
  <2>1. g \in m.gpus
    BY <1>3
  <2>2. nodes \in Seq(m.gpus)
    <3>1. nodes \in SetToSeqs(m.hive) \/ nodes = << >>
      BY DEF IInv, ListInv
    <3>2. << >> \in Seq(m.gpus)
      OBVIOUS
    <3> HIDE DEF nodes
    <3>3. CASE nodes \in SetToSeqs(m.hive)
      BY <1>1, <3>3, HiveList
    <3> QED
      BY <3>1, <3>2, <3>3
  <2>3. info[x] = Read(g, nodes)
    BY DEF IInv, ListInv
  <2> HIDE DEF g, nodes
  <2>4. DeviceId(g) \in Nat /\ PhysId(g) \in Nat
    BY <1>1, <2>1 DEF DeviceId, PhysId
  <2> QED
    BY <2>2, <2>3, <2>4 DEF Read
<1> QED
  BY <1>3, <1>4

(* What a partition knows of its GPU                                       *)
LEMMA PartInfo ==
  ASSUME IInv, stage # "init", NEW p \in DOMAIN m.parts
  PROVE  /\ m.parts[p] \in ToSet(m.drm) /\ m.parts[p] \in m.gpus
         /\ <<"render", m.parts[p]>> \in DOMAIN info
         /\ Xgmi(p) = Read(m.parts[p], Xgmi(p).nodes)
         /\ Xgmi(p).nodes \in Seq(m.gpus)
<1> DEFINE x == <<"render", m.parts[p]>>
<1>1. m \in Machines
  BY DEF IInv, BaseInv
<1>2. m.parts[p] \in ToSet(m.drm) /\ ToSet(m.drm) \subseteq m.gpus
  <2>1. m.drm \in Seq(m.gpus) /\ m.parts \in Seq(ToSet(m.drm))
    BY <1>1, MachinesAssumption DEF MachineOK
  <2>2. m.parts[p] \in ToSet(m.drm)
    BY <2>1
  <2>3. ToSet(m.drm) \subseteq m.gpus
    BY <2>1 DEF ToSet
  <2> QED
    BY <2>2, <2>3
<1>3. x \in DOMAIN info
  <2>1. "render" \in NodeKinds /\ DOMAIN info = NodeKinds \X ToSet(m.drm)
    BY <1>1, AllNodes DEF NodeKinds, IInv
  <2> QED
    BY <1>2, <2>1
<1>4. info[x] = Read(x[2], info[x].nodes) /\ x[2] = m.parts[p]
  BY <1>3 DEF IInv, ListInv
<1>5. info[x].nodes \in Seq(m.gpus)
  BY <1>3, InfoType
<1> QED
  BY <1>2, <1>3, <1>4, <1>5 DEF Xgmi

(* Every call ends in one of the ways of the C interface, at an offset of  *)
(* the width of an address.                                                *)
LEMMA OutcomeType ==
  ASSUME IInv, stage # "init", NEW op, NEW part \in DOMAIN m.parts, NEW a \in 0..Modulus - 1
  PROVE  /\ Outcome(op, part, a).status \in
               {"NONE", "OK", "NOT_PRIVILEGED", "OUT_OF_RANGE", "NULL_DEREF"}
         /\ Outcome(op, part, a).offset \in 0..Modulus - 1
<1> DEFINE found == Walk(Xgmi(part).nodes, m.size, a)
           Good(r) == /\ r.status \in
                           {"NONE", "OK", "NOT_PRIVILEGED", "OUT_OF_RANGE", "NULL_DEREF"}
                      /\ r.offset \in 0..Modulus - 1
<1>1. found.address \in 0..Modulus - 1
  <2>1. m.size \in [m.gpus -> Nat] /\ Xgmi(part).nodes \in Seq(m.gpus)
    BY PartInfo, MachinesAssumption DEF MachineOK, IInv, BaseInv
  <2>2. found \in [gpu : m.gpus \union {Nobody}, address : 0..Modulus - 1]
    BY <2>1, WalkType
  <2> HIDE DEF found
  <2> QED
    BY <2>2
<1>2. 0 \in 0..Modulus - 1
  BY ModulusAssumption
<1>3. \A s \in {"NOT_PRIVILEGED", "OUT_OF_RANGE", "NULL_DEREF"} : Good(Failure(s))
  BY <1>2 DEF Failure
<1>4. \A p, b : b \in 0..Modulus - 1 => Good(Access(p, b))
  BY DEF Access
<1>5. Outcome(op, part, a) \in {Failure("NOT_PRIVILEGED"), Failure("OUT_OF_RANGE"),
                                Failure("NULL_DEREF"), Access(part, a)}
      \/ \E p : Outcome(op, part, a) = Access(p, found.address)
  BY DEF Outcome, Routed
<1> HIDE DEF Good, found
<1>6. Good(Outcome(op, part, a))
  BY <1>1, <1>3, <1>4, <1>5
<1> QED
  BY <1>6 DEF Good

(* Type correctness                                                        *)
THEOREM TypeCorrect == Spec => []TypeOK
<1>1. IInv => TypeOK
  <2> SUFFICES ASSUME IInv PROVE TypeOK
    OBVIOUS
  <2>1. CASE stage = "done"
    <3>1. /\ access \in [op : {"read", "write"}, part : DOMAIN m.parts, orig : 0..Modulus - 1]
          /\ outcome = Outcome(access.op, access.part, access.orig)
      BY <2>1 DEF IInv, OutcomeInv
    <3>2. access.part \in DOMAIN m.parts /\ access.orig \in 0..Modulus - 1
      BY <3>1
    <3>3. access.op \in {"none", "read", "write"}
      BY <3>1
    <3> QED
      BY <2>1, <3>1, <3>2, <3>3, InfoType, OutcomeType DEF TypeOK, IInv, BaseInv
  <2>2. CASE stage # "done"
    <3>1. access.op = "none" /\ outcome.status = "NONE" /\ outcome.offset = 0
      BY <2>2 DEF IInv, OutcomeInv, None, Failure
    <3>2. 0 \in 0..Modulus - 1
      BY ModulusAssumption
    <3> QED
      BY <2>2, <3>1, <3>2, InfoType DEF TypeOK, IInv, BaseInv
  <2> QED
    BY <2>1, <2>2
<1> QED
  BY <1>1, Invariant, PTL

-----------------------------------------------------------------------------
(* A partition of the hive finds the GPU that owns an address, or nobody.  *)
LEMMA HiveWalk ==
  ASSUME IInv, stage # "init", AllNamed, NEW part \in DOMAIN m.parts, Xgmi(part).hive,
         NEW a \in 0..Modulus - 1
  PROVE  LET found == Walk(Xgmi(part).nodes, m.size, a)
         IN  /\ AllFound => Home(a) = IF found.gpu = Nobody THEN {} ELSE {found}
             /\ AllFound /\ found.gpu # Nobody => found.gpu \in m.hive
             /\ ~AllFound => found.gpu = Nobody
             /\ found \in [gpu : m.gpus \union {Nobody}, address : 0..Modulus - 1]
<1> DEFINE g == m.parts[part]
           x == <<"render", g>>
           nodes == Xgmi(part).nodes
           found == Walk(nodes, m.size, a)
<1>1. /\ m \in Machines /\ Nobody \notin m.gpus /\ m.size \in [m.gpus -> Nat]
      /\ Fits(Ordered, m.size)
  BY MachinesAssumption DEF IInv, BaseInv, MachineOK, Ordered
<1>2. m.files[g] = 3
  <2>1. \A h, s : Read(h, s).hive <=> m.files[h] = 3
    BY DEF Read
  <2> QED
    BY <2>1, PartInfo
<1>3. x \in DOMAIN info /\ nodes = info[x].nodes /\ nodes \in Seq(m.gpus)
  BY PartInfo DEF Xgmi
<1>4. x[1] = "render" /\ x[2] = g
  OBVIOUS
<1>5. found \in [gpu : m.gpus \union {Nobody}, address : 0..Modulus - 1]
  BY <1>1, <1>3, WalkType
<1> HIDE DEF x, g, nodes
<1>6. CASE AllFound
  <2>1. InPhysicalOrder(nodes)
    BY <1>2, <1>3, <1>4, <1>6 DEF IInv, ListInv
  <2>2. nodes = Ordered /\ ToSet(nodes) = m.hive
    BY <1>1, <2>1, OneOrder, HiveList DEF InPhysicalOrder
  <2>3. Home(a) = IF found.gpu = Nobody THEN {} ELSE {found}
    <3>1. Fits(nodes, m.size) /\ Home(a) = Homes(nodes, m.size, a)
      BY <1>1, <2>2 DEF Home
    <3>2. Homes(nodes, m.size, a) = IF found.gpu = Nobody THEN {} ELSE {found}
      BY <1>1, <1>3, <3>1, WalkGoesHome
    <3> QED
      BY <3>1, <3>2
  <2>4. ASSUME found.gpu # Nobody PROVE found.gpu \in m.hive
    <3>1. found \in Homes(nodes, m.size, a)
      BY <2>2, <2>3, <2>4 DEF Home
    <3> HIDE DEF found
    <3>2. PICK i \in DOMAIN nodes :
            found = [gpu |-> nodes[i], address |-> a - Base(nodes, m.size, i)]
      BY <3>1 DEF Homes
    <3>3. found.gpu = nodes[i]
      BY <3>2
    <3> QED
      BY <2>2, <3>2, <3>3 DEF ToSet
  <2> QED
    BY <1>5, <1>6, <2>3, <2>4 DEF nodes
<1>7. CASE ~AllFound
  <2>1. nodes = << >>
    BY <1>3, <1>4, <1>7 DEF IInv, ListInv
  <2>2. found = Turns(<< >>, m.size, a)[0]
    BY <2>1 DEF Walk
  <2>3. Turns(<< >>, m.size, a)[0] = [gpu |-> Nobody, address |-> a]
    <3>1. Len(<< >>) = 0 /\ 0 \in 0..0
      OBVIOUS
    <3> QED
      BY <3>1, TurnsUnfold
  <2>4. found.gpu = Nobody
    BY <2>2, <2>3
  <2> QED
    BY <1>5, <1>7, <2>4 DEF nodes
<1> QED
  BY <1>6, <1>7

(* The partitions found by a device id are those of the GPU.               *)
LEMMA PartsOfGpu ==
  ASSUME IInv, stage # "init", AllNamed, NEW g \in m.hive, g \in ToSet(m.drm)
  PROVE  PartsOf(g) = {p \in DOMAIN m.parts : m.parts[p] = g}
<1> DEFINE x == <<"card", g>>
<1>1. m \in Machines /\ m.hive \subseteq m.gpus /\ m.gpus \subseteq Nat \ {0}
  BY MachinesAssumption DEF IInv, BaseInv, MachineOK, Nobody
<1>2. \A h, nodes : Read(h, nodes).device = DeviceId(h)
  BY DEF Read
<1>3. DeviceId(g) = g
  <2>1. m.files[g] \in 0..3
    BY <1>1, MachinesAssumption DEF MachineOK
  <2> QED
    BY <2>1 DEF AllNamed, DeviceId
<1>4. info[x].device = g
  <2>1. "card" \in NodeKinds /\ DOMAIN info = NodeKinds \X ToSet(m.drm)
    BY <1>1, AllNodes DEF NodeKinds, IInv
  <2>2. x \in DOMAIN info /\ x[2] = g
    BY <2>1
  <2>3. info[x] = Read(g, info[x].nodes)
    BY <2>2 DEF IInv, ListInv
  <2> HIDE DEF x
  <2> QED
    BY <1>2, <1>3, <2>3
<1>5. ASSUME NEW p \in DOMAIN m.parts PROVE Xgmi(p).device = g <=> m.parts[p] = g
  <2>1. Xgmi(p).device = DeviceId(m.parts[p])
    BY <1>2, PartInfo
  <2>2. DeviceId(m.parts[p]) = m.parts[p] \/ DeviceId(m.parts[p]) = 0
    BY DEF DeviceId
  <2> QED
    BY <1>1, <1>3, <2>1, <2>2
<1> QED
  BY <1>4, <1>5 DEF PartsOf

(* What becomes of an access to the hive                                   *)
LEMMA RoutedCases ==
  ASSUME IInv, stage # "init", AllNamed, NEW part \in DOMAIN m.parts, Xgmi(part).hive,
         NEW a \in 0..Modulus - 1, NEW op
  PROVE  LET found  == Walk(Xgmi(part).nodes, m.size, a)
             result == Routed(op, part, a)
         IN  \/ /\ result = Failure("OUT_OF_RANGE")
                /\ \/ AllFound => Home(a) = {}
                   \/ found.gpu \in m.hive /\ \A p \in DOMAIN m.parts : m.parts[p] # found.gpu
             \/ \E p \in DOMAIN m.parts :
                  /\ m.parts[p] = found.gpu /\ Home(a) = {found}
                  /\ \/ p \in m.open /\ result = Access(p, found.address)
                     \/ p \notin m.open /\ result = Failure("NULL_DEREF")
<1> DEFINE found == Walk(Xgmi(part).nodes, m.size, a)
           servers == Candidates(op, part, found.gpu)
           server == CHOOSE p \in servers : \A q \in servers : p <= q
           result == Routed(op, part, a)
<1>1. /\ AllFound => Home(a) = IF found.gpu = Nobody THEN {} ELSE {found}
      /\ AllFound /\ found.gpu # Nobody => found.gpu \in m.hive
      /\ ~AllFound => found.gpu = Nobody
  BY HiveWalk
<1>2. result = IF found.gpu = Nobody \/ servers = {} THEN Failure("OUT_OF_RANGE")
               ELSE IF server \in m.open THEN Access(server, found.address)
                                         ELSE Failure("NULL_DEREF")
  BY DEF Routed
<1>3. servers = IF op = "read" /\ m.parts[part] = found.gpu THEN {part} ELSE PartsOf(found.gpu)
  BY DEF Candidates
<1> HIDE DEF found, servers, result
<1>4. CASE found.gpu = Nobody
  BY <1>1, <1>2, <1>4 DEF found, result
<1>5. CASE found.gpu # Nobody
  <2>1. AllFound /\ found.gpu \in m.hive /\ found.gpu \in ToSet(m.drm) /\ Home(a) = {found}
    BY <1>1, <1>5 DEF AllFound
  <2>2. PartsOf(found.gpu) = {p \in DOMAIN m.parts : m.parts[p] = found.gpu}
    BY <2>1, PartsOfGpu
  <2>3. /\ servers \subseteq {p \in DOMAIN m.parts : m.parts[p] = found.gpu}
        /\ servers = {} => \A p \in DOMAIN m.parts : m.parts[p] # found.gpu
    BY <1>3, <2>2
  <2>4. CASE servers = {}
    BY <1>2, <2>1, <2>3, <2>4 DEF found, result
  <2>5. CASE servers # {}
    <3>1. DOMAIN m.parts \subseteq Nat
      BY MachinesAssumption DEF IInv, BaseInv, MachineOK
    <3>2. servers \in SUBSET Nat
      BY <2>3, <3>1
    <3>3. \E p \in servers : \A q \in servers : p <= q
      BY <2>5, <3>2, LeastExists
    <3>4. server \in servers
      BY <3>3
    <3> HIDE DEF server
    <3>5. server \in DOMAIN m.parts /\ m.parts[server] = found.gpu
      BY <2>3, <3>4
    <3> QED
      BY <1>2, <1>5, <2>1, <2>5, <3>5 DEF found, result
  <2> QED
    BY <2>4, <2>5
<1> QED
  BY <1>4, <1>5

(* The call that is done, and whether it went into the hive                *)
LEMMA DoneCall ==
  ASSUME IInv, stage = "done"
  PROVE  /\ access.part \in DOMAIN m.parts /\ access.orig \in 0..Modulus - 1
         /\ m.files[m.parts[access.part]] = 3 <=> Xgmi(access.part).hive
         /\ outcome = Outcome(access.op, access.part, access.orig)
<1>1. /\ access \in [op : {"read", "write"}, part : DOMAIN m.parts, orig : 0..Modulus - 1]
      /\ outcome = Outcome(access.op, access.part, access.orig)
  BY DEF IInv, OutcomeInv
<1>2. access.part \in DOMAIN m.parts /\ access.orig \in 0..Modulus - 1
  BY <1>1
<1>3. \A h, s : Read(h, s).hive <=> m.files[h] = 3
  BY DEF Read
<1>4. Xgmi(access.part) = Read(m.parts[access.part], Xgmi(access.part).nodes)
  BY <1>2, PartInfo
<1>5. Xgmi(access.part).hive <=> m.files[m.parts[access.part]] = 3
  BY <1>3, <1>4
<1> QED
  BY <1>1, <1>2, <1>5

(* Partition::ReadVRAM and WriteVRAM: whichever partition of a hive is     *)
(* asked, an access that succeeds goes to the GPU that owns the address,   *)
(* at the offset the address has there.                                    *)
THEOREM Routing == Spec => []RoutedByHiveAddress
<1>1. IInv => RoutedByHiveAddress
  <2> SUFFICES ASSUME IInv, HiveAccess, AllNamed, outcome.status = "OK"
               PROVE  Home(access.orig) = {[gpu |-> outcome.gpu, address |-> outcome.offset]}
    BY DEF RoutedByHiveAddress
  <2> DEFINE part == access.part
             a == access.orig
             found == Walk(Xgmi(part).nodes, m.size, a)
  <2>1. /\ part \in DOMAIN m.parts /\ a \in 0..Modulus - 1 /\ Xgmi(part).hive
        /\ outcome = Outcome(access.op, part, a) /\ stage # "init"
    BY DoneCall DEF HiveAccess
  <2>2. \A s : Failure(s).status = s
    BY DEF Failure
  <2>3. outcome = Routed(access.op, part, a)
    BY <2>1, <2>2 DEF Outcome
  <2>4. found \in [gpu : m.gpus \union {Nobody}, address : 0..Modulus - 1]
    BY <2>1, HiveWalk
  <2>5. PICK p \in DOMAIN m.parts :
          /\ m.parts[p] = found.gpu /\ Home(a) = {found}
          /\ outcome = Access(p, found.address)
    BY <2>1, <2>2, <2>3, RoutedCases
  <2> HIDE DEF found
  <2>6. outcome.gpu = found.gpu /\ outcome.offset = found.address
    BY <2>5 DEF Access
  <2>7. found = [gpu |-> found.gpu, address |-> found.address]
    BY <2>4
  <2> QED
    BY <2>5, <2>6, <2>7
<1> QED
  BY <1>1, Invariant, PTL

(* An access fails only for want of a GPU that owns the address, or of     *)
(* debugfs for that GPU.                                                   *)
THEOREM Failures == Spec => []FailsForCause
<1>1. IInv => OutOfRangeOnlyOutside
  <2> SUFFICES ASSUME IInv, HiveAccess, AllNamed, outcome.status = "OUT_OF_RANGE", AllFound,
                      m.hive \subseteq ToSet(m.parts)
               PROVE  Home(access.orig) = {}
    BY DEF OutOfRangeOnlyOutside
  <2> DEFINE part == access.part
             a == access.orig
             found == Walk(Xgmi(part).nodes, m.size, a)
  <2>1. /\ part \in DOMAIN m.parts /\ a \in 0..Modulus - 1 /\ Xgmi(part).hive
        /\ outcome = Outcome(access.op, part, a) /\ stage # "init"
    BY DoneCall DEF HiveAccess
  <2>2. (\A s : Failure(s).status = s) /\ \A p, b : Access(p, b).status = "OK"
    BY DEF Failure, Access
  <2>3. outcome = Routed(access.op, part, a)
    BY <2>1, <2>2 DEF Outcome
  <2>4. \A g \in m.hive : \E p \in DOMAIN m.parts : m.parts[p] = g
    BY DEF ToSet
  <2> QED
    BY <2>1, <2>2, <2>3, <2>4, RoutedCases
<1>2. IInv => NullOnlyAtUnopened
  <2> SUFFICES ASSUME IInv, AllNamed, outcome.status = "NULL_DEREF"
               PROVE  \E x \in Home(access.orig), p \in DOMAIN m.parts :
                        m.parts[p] = x.gpu /\ p \notin m.open
    BY DEF NullOnlyAtUnopened
  <2> DEFINE part == access.part
             a == access.orig
             found == Walk(Xgmi(part).nodes, m.size, a)
  <2>1. (\A s : Failure(s).status = s) /\ \A p, b : Access(p, b).status = "OK"
    BY DEF Failure, Access
  <2>2. stage = "done"
    BY <2>1 DEF IInv, OutcomeInv
  <2>3. /\ part \in DOMAIN m.parts /\ a \in 0..Modulus - 1
        /\ outcome = Outcome(access.op, part, a)
    BY <2>2, DoneCall
  <2>4. outcome = Routed(access.op, part, a) /\ Xgmi(part).hive
    BY <2>1, <2>3 DEF Outcome
  <2>5. PICK p \in DOMAIN m.parts :
          m.parts[p] = found.gpu /\ Home(a) = {found} /\ p \notin m.open
    BY <2>1, <2>2, <2>3, <2>4, RoutedCases
  <2> QED
    BY <2>5
<1> QED
  BY <1>1, <1>2, Invariant, PTL DEF FailsForCause

-----------------------------------------------------------------------------
(* The memory accessors *)

Pcs == {"idle", "seek", "transfer", "answered", "crashed"}

AllCells == (Gpus \union {System}) \X Nat

TypeInv ==
  /\ size \in Sizes
  /\ opened \in [Handles -> SUBSET {"video", "system"}]
  /\ offset \in [Handles \X Kinds -> Nat]
  /\ call \in [Threads -> Calls]
  /\ pc \in [Threads -> Pcs]
  /\ serving \in [Threads -> [h : Handles, addr : Nat]]
  /\ kind \in [Threads -> Kinds]
  /\ touched \in [Threads -> SUBSET AllCells]
  /\ at \in [Threads -> Nat]
  /\ got \in [Threads -> -1 .. MaxCount]
  /\ alone \in [Threads -> BOOLEAN]

(* The files a call uses are those of a handle that may serve it, and of   *)
(* its region.                                                             *)
Served(t) ==
  /\ serving[t] \in Servers(call[t])
  /\ call[t].region \in {"video", "system"}
  /\ kind[t] = "vram" <=> call[t].region = "video"

(* Two calls that are under way on the same files know of each other.      *)
Overlap ==
  \A t, u \in Threads :
    /\ t # u /\ InCall(t) /\ InCall(u)
    /\ serving[t].h = serving[u].h /\ call[t].region = call[u].region
    => ~alone[t] /\ ~alone[u]

(* What a call has done that nobody overlapped: the offset it has set is   *)
(* still there, and it touched nothing it does not name.                   *)
Progress(t) ==
  /\ pc[t] = "idle" => touched[t] = {}
  /\ InCall(t) => Served(t)
  /\ alone[t] /\ pc[t] = "transfer" => offset[File(t)] = serving[t].addr
  /\ alone[t] => touched[t] \subseteq Named(call[t], call[t].count)
  /\ alone[t] /\ pc[t] = "answered" =>
       /\ Cardinality(Named(call[t], got[t])) = IF got[t] < 0 THEN 0 ELSE got[t]
       /\ Named(call[t], got[t]) \subseteq touched[t]

MemInv == TypeInv /\ Overlap /\ \A t \in Threads : Progress(t)

-----------------------------------------------------------------------------
LEMMA NoCallType == NoCall \in Calls /\ NoCall.h \in Handles
<1>1. \E h \in Handles : TRUE
  BY MemTransferAssumption
<1>2. (CHOOSE h \in Handles : TRUE) \in Handles
  BY <1>1
<1>3. /\ "other" \in Regions /\ "read" \in Ops /\ 0 \in 0..Modulus - 1 /\ 1 \in 1..MaxCount
  BY MemTransferAssumption, ModulusAssumption DEF Regions, Ops
<1> QED
  BY <1>2, <1>3 DEF NoCall, Calls

(* Who owns the address of a call on a partition's video memory            *)
InHive(c) == c.region = "video" /\ ~Local(c.h)

(* The handle that serves a call: its own, or one of the GPU that owns the *)
(* address, from the offset that the address has there.                    *)
LEMMA Serving ==
  ASSUME size \in Sizes, NEW c \in Calls, NEW s \in Servers(c)
  PROVE  /\ s \in [h : Handles, addr : Nat]
         /\ ~InHive(c) => s = [h |-> c.h, addr |-> c.addr]
         /\ InHive(c) => \E i \in 1..Len(Hive) :
              /\ Hive[i] = GpuOf[s.h]
              /\ Bases(Hive, size)[i - 1] <= c.addr
              /\ s.addr = c.addr - Bases(Hive, size)[i - 1]
              /\ s.addr < size[GpuOf[s.h]]
<1> DEFINE found == Walk(Hive, size, c.addr)
           own   == c.op = "read" /\ GpuOf[c.h] = found.gpu
           first == FirstPart(found.gpu)
           base  == Bases(Hive, size)
<1>1. /\ c.h \in Handles /\ c.addr \in Nat /\ c.addr \in 0..Modulus - 1
      /\ size \in [Gpus -> Nat] /\ Hive \in Seq(Gpus) /\ Nobody \notin Gpus /\ Fits(Hive, size)
      /\ GpuOf \in [Handles -> Gpus] /\ Parts \in Seq(Handles)
  BY MemTransferAssumption, ModulusAssumption DEF Calls
<1>2. CASE ~InHive(c)
  <2>1. s = [h |-> c.h, addr |-> c.addr]
    BY <1>2 DEF Servers, InHive
  <2> QED
    BY <1>1, <1>2, <2>1
<1>3. CASE InHive(c)
  <2>1. Servers(c) = IF found.gpu = Nobody \/ (~own /\ first = 0) THEN {}
                     ELSE {[h |-> IF own THEN c.h ELSE Parts[first], addr |-> found.address]}
    BY <1>3 DEF Servers, InHive
  <2>2. ~own /\ first # 0 => first \in 1..Len(Parts) /\ GpuOf[Parts[first]] = found.gpu
    <3> DEFINE I == {i \in 1..Len(Parts) : GpuOf[Parts[i]] = found.gpu}
    <3>1. first = IF I # {} THEN CHOOSE x \in I : \A y \in I : x <= y ELSE 0
      BY DEF FirstPart, SelectInSeq, Min
    <3>2. I # {} => \E x \in I : \A y \in I : x <= y
      <4>1. I \in SUBSET Nat
        OBVIOUS
      <4> HIDE DEF I
      <4> QED
        BY <4>1, LeastExists
    <3>3. first # 0 => first \in I
      BY <3>1, <3>2
    <3> QED
      BY <3>3
  <2>3. /\ Homes(Hive, size, c.addr) = IF found.gpu = Nobody THEN {} ELSE {found}
        /\ found \in [gpu : Gpus \union {Nobody}, address : 0..Modulus - 1]
        /\ found.gpu # Nobody => found.address < size[found.gpu]
    BY <1>1, WalkGoesHome
  <2> HIDE DEF found, first
  <2>4. /\ found.gpu # Nobody
        /\ s = [h |-> IF own THEN c.h ELSE Parts[first], addr |-> found.address]
        /\ own \/ first # 0
    BY <2>1
  <2>5. s.h \in Handles /\ GpuOf[s.h] = found.gpu /\ s.addr = found.address
    BY <1>1, <2>2, <2>4
  <2>6. PICK i \in 1..Len(Hive) :
          /\ found = [gpu |-> Hive[i], address |-> c.addr - base[i - 1]]
          /\ base[i - 1] <= c.addr
    <3>1. found \in Homes(Hive, size, c.addr)
      BY <2>3, <2>4
    <3>2. DOMAIN Hive = 1..Len(Hive)
      BY <1>1
    <3> QED
      BY <3>1, <3>2 DEF Homes, Base
  <2>7. found.address \in Nat /\ found.gpu = Hive[i] /\ found.address = c.addr - base[i - 1]
    BY <2>3, <2>6
  <2>8. s \in [h : Handles, addr : Nat]
    BY <2>4, <2>5, <2>7
  <2> QED
    BY <1>3, <2>3, <2>4, <2>5, <2>6, <2>7, <2>8
<1> QED
  BY <1>2, <1>3

(* OneHome, for the hive: the address of a byte of a GPU has one home.     *)
LEMMA HomeInHive ==
  ASSUME size \in Sizes, NEW x \in Nat, NEW i \in 1..Len(Hive), Owns(Hive, size, i, x)
  PROVE  Homes(Hive, size, x) = {[gpu |-> Hive[i], address |-> x - Base(Hive, size, i)]}
<1>1. Hive \in Seq(Gpus) /\ size \in [Gpus -> Nat]
  BY MemTransferAssumption
<1> QED
  BY <1>1, OneHome

(* Neighbouring cells *)
LEMMA CellsAre ==
  ASSUME NEW a \in Nat, NEW k \in Nat
  PROVE  /\ \A b \in Cells(a, k) : b \in Nat /\ b - a \in 0..k - 1 /\ a + (b - a) = b
         /\ \A j \in 0..k - 1 : a + j \in Cells(a, k)
         /\ IsFiniteSet(Cells(a, k)) /\ Cardinality(Cells(a, k)) = k
<1>1. a + k - 1 \in Int /\ Cells(a, k) = a .. a + k - 1
  BY DEF Cells
<1>2. IsFiniteSet(Cells(a, k)) /\ Cardinality(Cells(a, k)) = k
  BY <1>1, FS_Interval
<1> QED
  BY <1>1, <1>2

(* As long as it stays in the memory of the GPU that it starts in, a call  *)
(* names neighbouring cells of that memory, and as many as it transfers.   *)
LEMMA NamedCells ==
  ASSUME size \in Sizes, NEW c \in Calls, NEW s \in Servers(c), NEW k \in Nat,
         c.region = "video" => k = 0 \/ s.addr + k <= size[GpuOf[s.h]]
  PROVE  /\ Named(c, k) = {IF c.region = "video" THEN GpuOf[s.h] ELSE System}
                            \X Cells(s.addr, k)
         /\ Cardinality(Named(c, k)) = k
         /\ \A j \in 0..k - 1 :
              CellsAt(c.h, c.region, c.addr + j)
                = {<<IF c.region = "video" THEN GpuOf[s.h] ELSE System, s.addr + j>>}
<1> DEFINE mem == IF c.region = "video" THEN GpuOf[s.h] ELSE System
           base == Bases(Hive, size)
<1>1. /\ c.h \in Handles /\ c.addr \in Nat /\ s.h \in Handles /\ s.addr \in Nat
      /\ size \in [Gpus -> Nat] /\ Hive \in Seq(Gpus) /\ GpuOf \in [Handles -> Gpus]
  BY MemTransferAssumption, ModulusAssumption, Serving DEF Calls
<1>2. ASSUME NEW j \in 0..k - 1
      PROVE  CellsAt(c.h, c.region, c.addr + j) = {<<mem, s.addr + j>>}
  <2>1. CASE c.region # "video"
    <3>1. s.addr = c.addr
      BY <2>1, Serving DEF InHive
    <3> QED
      BY <2>1, <3>1 DEF CellsAt
  <2>2. CASE c.region = "video" /\ Local(c.h)
    <3>1. s.addr = c.addr /\ s.h = c.h
      BY <2>2, Serving DEF InHive
    <3> QED
      BY <2>2, <3>1 DEF CellsAt
  <2>3. CASE InHive(c)
    <3>1. PICK i \in 1..Len(Hive) :
            /\ Hive[i] = GpuOf[s.h] /\ base[i - 1] <= c.addr
            /\ s.addr = c.addr - base[i - 1]
      BY <2>3, Serving
    <3> DEFINE a == c.addr + j
    <3>2. base[i - 1] \in Nat /\ size[Hive[i]] \in Nat
      <4>1. i - 1 \in 0..Len(Hive)
        BY <1>1
      <4> QED
        BY <1>1, <4>1, Layout
    <3>3. s.addr + k <= size[Hive[i]]
      BY <2>3, <3>1 DEF InHive
    <3> HIDE DEF base
    <3>4. j \in Nat /\ j < k
      OBVIOUS
    <3>5. c.addr = base[i - 1] + s.addr
      BY <1>1, <3>1, <3>2
    <3>6. /\ a \in Nat /\ base[i - 1] <= a /\ a < base[i - 1] + size[Hive[i]]
          /\ a - base[i - 1] = s.addr + j
      <4> DEFINE b == base[i - 1]
                 z == size[Hive[i]]
                 x == s.addr
                 y == c.addr
      <4>1. b \in Nat /\ z \in Nat /\ x \in Nat /\ x + k <= z /\ y = b + x
        BY <1>1, <3>2, <3>3, <3>5
      <4> HIDE DEF b, z, x, y
      <4>2. y + j \in Nat /\ b <= y + j /\ y + j < b + z /\ (y + j) - b = x + j
        BY <3>4, <4>1
      <4> QED
        BY <4>2 DEF b, z, x, y
    <3> HIDE DEF a
    <3>7. Homes(Hive, size, a) = {[gpu |-> Hive[i], address |-> a - base[i - 1]]}
      BY <3>6, HomeInHive DEF base, Owns, Base
    <3>8. CellsAt(c.h, c.region, a) = {<<x.gpu, x.address>> : x \in Homes(Hive, size, a)}
      BY <2>3 DEF CellsAt, InHive
    <3>9. CellsAt(c.h, c.region, a) = {<<Hive[i], s.addr + j>>}
      BY <3>6, <3>7, <3>8
    <3> QED
      BY <2>3, <3>1, <3>9 DEF a, InHive
  <2> QED
    BY <2>1, <2>2, <2>3 DEF InHive
<1> HIDE DEF mem
<1>3. \A x : x \in Named(c, k) <=> \E j \in 0..k - 1 : x = <<mem, s.addr + j>>
  <2>1. \A x : x \in Named(c, k) <=>
              \E b \in Cells(c.addr, k) : x \in CellsAt(c.h, c.region, b)
    BY DEF Named
  <2>2. \A b \in Cells(c.addr, k) : b - c.addr \in 0..k - 1 /\ c.addr + (b - c.addr) = b
    BY <1>1, CellsAre
  <2>3. \A j \in 0..k - 1 : c.addr + j \in Cells(c.addr, k)
    BY <1>1, CellsAre
  <2>4. ASSUME NEW x, x \in Named(c, k) PROVE \E j \in 0..k - 1 : x = <<mem, s.addr + j>>
    <3>1. PICK b \in Cells(c.addr, k) : x \in CellsAt(c.h, c.region, b)
      BY <2>1, <2>4
    <3>2. CellsAt(c.h, c.region, c.addr + (b - c.addr)) = {<<mem, s.addr + (b - c.addr)>>}
      BY <1>2, <2>2
    <3>3. x = <<mem, s.addr + (b - c.addr)>>
      BY <2>2, <3>1, <3>2
    <3> QED
      BY <2>2, <3>3
  <2>5. ASSUME NEW j \in 0..k - 1 PROVE <<mem, s.addr + j>> \in Named(c, k)
    BY <1>2, <2>1, <2>3
  <2> QED
    BY <2>4, <2>5
<1>4. Named(c, k) = {mem} \X Cells(s.addr, k)
  <2>1. \A j \in 0..k - 1 : s.addr + j \in Cells(s.addr, k)
    BY <1>1, CellsAre
  <2>2. \A b \in Cells(s.addr, k) : b - s.addr \in 0..k - 1 /\ s.addr + (b - s.addr) = b
    BY <1>1, CellsAre
  <2>3. \A x : x \in Named(c, k) => x \in {mem} \X Cells(s.addr, k)
    BY <1>3, <2>1
  <2>4. ASSUME NEW b \in Cells(s.addr, k) PROVE <<mem, b>> \in Named(c, k)
    BY <1>3, <2>2
  <2>5. \A x \in {mem} \X Cells(s.addr, k) : x \in Named(c, k)
    BY <2>4
  <2> QED
    BY <2>3, <2>5
<1>5. Cardinality(Named(c, k)) = k
  <2> DEFINE S == Cells(s.addr, k)
             T == {mem} \X S
             f == [b \in S |-> <<mem, b>>]
  <2>1. IsFiniteSet(S) /\ Cardinality(S) = k
    BY <1>1, CellsAre
  <2>2. f \in Bijection(S, T)
    <3> HIDE DEF S
    <3>1. f \in [S -> T] /\ \A x, y \in S : f[x] = f[y] => x = y
      OBVIOUS
    <3>2. \A y \in T : \E x \in S : f[x] = y
      OBVIOUS
    <3> QED
      BY <3>1, <3>2 DEF Bijection, Injection, Surjection, IsInjective
  <2>3. Cardinality(T) = Cardinality(S)
    BY <2>1, <2>2, FS_Bijection DEF ExistsBijection
  <2> QED
    BY <1>4, <2>1, <2>3
<1> QED
  BY <1>2, <1>4, <1>5 DEF mem

(* A call that transfers more names more; one that failed names nothing.   *)
LEMMA NamedGrows ==
  ASSUME NEW c \in Calls, NEW k \in Int, NEW n \in Int, k <= n
  PROVE  Named(c, k) \subseteq Named(c, n)
<1>1. Cells(c.addr, k) \subseteq Cells(c.addr, n)
  BY ModulusAssumption DEF Cells, Calls
<1> QED
  BY <1>1 DEF Named

LEMMA NothingNamed ==
  ASSUME NEW c \in Calls PROVE Named(c, -1) = {} /\ Cardinality(Named(c, -1)) = 0
<1>1. Cells(c.addr, -1) = {}
  BY ModulusAssumption DEF Cells, Calls
<1>2. Named(c, -1) = {}
  BY <1>1 DEF Named
<1> QED
  BY <1>2, FS_EmptySet

-----------------------------------------------------------------------------
(* Progress after a step: who serves an address, and what it names, does   *)
(* not change.                                                             *)
LEMMA ProgressNext ==
  ASSUME NEW t \in Threads, size' = size,
         pc'[t] = "idle" => touched'[t] = {},
         pc'[t] \in {"seek", "transfer"} =>
           /\ serving'[t] \in Servers(call'[t])
           /\ call'[t].region \in {"video", "system"}
           /\ kind'[t] = "vram" <=> call'[t].region = "video",
         alone'[t] /\ pc'[t] = "transfer" =>
           offset'[<<serving'[t].h, kind'[t]>>] = serving'[t].addr,
         alone'[t] => touched'[t] \subseteq Named(call'[t], call'[t].count),
         alone'[t] /\ pc'[t] = "answered" =>
           /\ Cardinality(Named(call'[t], got'[t])) = IF got'[t] < 0 THEN 0 ELSE got'[t]
           /\ Named(call'[t], got'[t]) \subseteq touched'[t]
  PROVE  Progress(t)'
<1>1. Servers(call[t])' = Servers(call'[t])
  BY DEF Servers
<1>2. /\ Named(call[t], call[t].count)' = Named(call'[t], call'[t].count)
      /\ Named(call[t], got[t])' = Named(call'[t], got'[t])
  BY DEF Named, CellsAt, Cells
<1>3. InCall(t)' <=> pc'[t] \in {"seek", "transfer"}
  BY DEF InCall
<1>4. InCall(t)' => Served(t)'
  BY <1>1, <1>3 DEF Served
<1>5. alone'[t] /\ pc'[t] = "transfer" => offset'[File(t)'] = serving'[t].addr
  BY DEF File
<1> QED
  BY <1>2, <1>4, <1>5 DEF Progress

(* What a step of one thread leaves alone: the other threads' calls, and   *)
(* every offset but that of the file it uses.  A call that was overlapped  *)
(* stays overlapped.                                                       *)
OthersKept(t) ==
  /\ size' = size
  /\ \A u \in Threads \ {t} :
       /\ pc'[u] = pc[u] /\ call'[u] = call[u] /\ serving'[u] = serving[u]
       /\ kind'[u] = kind[u] /\ touched'[u] = touched[u] /\ got'[u] = got[u]
       /\ alone'[u] => alone[u]
  /\ \A f \in Handles \X Kinds : offset'[f] # offset[f] => InCall(t) /\ f = File(t)

(* Such a step moves no offset that another thread counts on: whoever      *)
(* uses the same file is not alone.                                        *)
LEMMA OthersProgress ==
  ASSUME MemInv, NEW t \in Threads, OthersKept(t), NEW u \in Threads \ {t}
  PROVE  Progress(u)'
<1>1. /\ Progress(u) /\ Progress(t) /\ Overlap
      /\ serving[u].h \in Handles /\ kind[u] \in Kinds
  BY DEF MemInv, TypeInv
<1>2. /\ size' = size /\ pc'[u] = pc[u] /\ call'[u] = call[u] /\ serving'[u] = serving[u]
      /\ kind'[u] = kind[u] /\ touched'[u] = touched[u] /\ got'[u] = got[u]
      /\ alone'[u] => alone[u]
  BY DEF OthersKept
<1>3. ASSUME alone[u], pc[u] = "transfer"
      PROVE  offset'[File(u)] = offset[File(u)]
  <2>1. File(u) \in Handles \X Kinds
    BY <1>1 DEF File
  <2>2. SUFFICES ASSUME InCall(t), File(u) = File(t) PROVE FALSE
    BY <2>1 DEF OthersKept
  <2>3. Served(u) /\ Served(t) /\ InCall(u)
    BY <1>1, <1>3, <2>2 DEF Progress, InCall
  <2>4. serving[u].h = serving[t].h /\ kind[u] = kind[t]
    BY <2>2 DEF File
  <2>5. call[u].region = call[t].region
    BY <2>3, <2>4 DEF Served
  <2> QED
    BY <1>1, <1>3, <2>2, <2>3, <2>4, <2>5 DEF Overlap
<1>4. alone'[u] /\ pc'[u] = "transfer" =>
        offset'[<<serving'[u].h, kind'[u]>>] = serving'[u].addr
  BY <1>1, <1>2, <1>3 DEF Progress, File
<1>5. pc'[u] \in {"seek", "transfer"} =>
        /\ serving'[u] \in Servers(call'[u])
        /\ call'[u].region \in {"video", "system"}
        /\ kind'[u] = "vram" <=> call'[u].region = "video"
  BY <1>1, <1>2 DEF Progress, InCall, Served
<1>6. /\ pc'[u] = "idle" => touched'[u] = {}
      /\ alone'[u] => touched'[u] \subseteq Named(call'[u], call'[u].count)
      /\ alone'[u] /\ pc'[u] = "answered" =>
           /\ Cardinality(Named(call'[u], got'[u])) = IF got'[u] < 0 THEN 0 ELSE got'[u]
           /\ Named(call'[u], got'[u]) \subseteq touched'[u]
  BY <1>1, <1>2 DEF Progress
<1> QED
  BY <1>2, <1>4, <1>5, <1>6, ProgressNext

(* A call that goes on, ends or does not begin overlaps with nobody new.   *)
LEMMA OverlapKept ==
  ASSUME MemInv, NEW t \in Threads, OthersKept(t),
         pc'[t] \in {"seek", "transfer"} =>
           /\ InCall(t) /\ call'[t] = call[t] /\ serving'[t] = serving[t]
           /\ alone'[t] => alone[t]
  PROVE  Overlap'
<1>1. SUFFICES ASSUME NEW u \in Threads, NEW v \in Threads, u # v,
                      pc'[u] \in {"seek", "transfer"}, pc'[v] \in {"seek", "transfer"},
                      serving'[u].h = serving'[v].h, call'[u].region = call'[v].region
               PROVE  ~alone'[u] /\ ~alone'[v]
  BY DEF Overlap, InCall
<1>2. ASSUME NEW w \in Threads, pc'[w] \in {"seek", "transfer"}
      PROVE  /\ InCall(w) /\ call'[w] = call[w] /\ serving'[w] = serving[w]
             /\ alone'[w] => alone[w]
  BY <1>2 DEF OthersKept, InCall
<1>3. /\ InCall(u) /\ InCall(v) /\ serving[u].h = serving[v].h
      /\ call[u].region = call[v].region
  BY <1>1, <1>2
<1>4. ~alone[u] /\ ~alone[v]
  BY <1>1, <1>3 DEF MemInv, Overlap
<1> QED
  BY <1>1, <1>2, <1>4

-----------------------------------------------------------------------------
LEMMA MemInitInv == MemInit => MemInv
<1> SUFFICES ASSUME MemInit PROVE MemInv
  OBVIOUS
<1>1. NoCall \in Calls /\ NoCall.h \in Handles /\ MaxCount \in Nat
  BY NoCallType, MemTransferAssumption
<1>2. TypeInv
  <2>1. opened \in [Handles -> SUBSET {"video", "system"}]
    BY DEF MemInit, OpenedWith
  <2>2. 0 \in Nat /\ 0 \in -1 .. MaxCount /\ "vram" \in Kinds /\ "idle" \in Pcs
    BY <1>1 DEF Kinds, Pcs
  <2> HIDE DEF NoCall
  <2> QED
    BY <1>1, <2>1, <2>2 DEF MemInit, TypeInv
<1>3. \A t \in Threads : pc[t] = "idle" /\ touched[t] = {}
  BY DEF MemInit
<1>4. Overlap
  BY <1>3 DEF Overlap, InCall
<1>5. \A t \in Threads : Progress(t)
  BY <1>3 DEF Progress, InCall
<1> QED
  BY <1>2, <1>4, <1>5 DEF MemInv

(* A call that is refused, or ends the process                             *)
LEMMA CallAlone ==
  ASSUME MemInv, NEW t \in Threads, NEW c \in Calls, Call(t, c),
         Refuse(t) \/ (pc' = [pc EXCEPT ![t] = "crashed"] /\ UNCHANGED <<serving, kind, alone, got>>)
  PROVE  MemInv'
<1>1. TypeInv /\ Progress(t) /\ pc[t] = "idle" /\ MaxCount \in Nat
  BY MemTransferAssumption DEF MemInv, Call
<1>2. /\ call' = [call EXCEPT ![t] = c]
      /\ size' = size /\ opened' = opened /\ offset' = offset /\ touched' = touched
      /\ at' = at /\ serving' = serving /\ kind' = kind /\ alone' = alone
  BY DEF Call, Refuse
<1>3. \/ pc' = [pc EXCEPT ![t] = "answered"] /\ got' = [got EXCEPT ![t] = -1]
      \/ pc' = [pc EXCEPT ![t] = "crashed"] /\ got' = got
  BY DEF Refuse
<1>4. TypeInv'
  <2>1. call' \in [Threads -> Calls]
    BY <1>1, <1>2 DEF TypeInv
  <2>2. pc' \in [Threads -> Pcs]
    BY <1>1, <1>3 DEF TypeInv, Pcs
  <2>3. got' \in [Threads -> -1 .. MaxCount]
    <3>1. -1 \in -1 .. MaxCount
      BY <1>1
    <3> QED
      BY <1>1, <1>3, <3>1 DEF TypeInv
  <2> QED
    BY <1>1, <1>2, <2>1, <2>2, <2>3 DEF TypeInv
<1>5. /\ pc'[t] \in {"answered", "crashed"} /\ call'[t] = c /\ touched'[t] = {}
      /\ pc'[t] = "answered" => got'[t] = -1
  BY <1>1, <1>2, <1>3 DEF TypeInv, Progress
<1>6. OthersKept(t)
  BY <1>1, <1>2, <1>3 DEF OthersKept, TypeInv
<1>7. Overlap'
  BY <1>5, <1>6, OverlapKept
<1>8. Progress(t)'
  <2>1. pc'[t] = "answered" =>
          /\ Cardinality(Named(call'[t], got'[t])) = IF got'[t] < 0 THEN 0 ELSE got'[t]
          /\ Named(call'[t], got'[t]) \subseteq touched'[t]
    BY <1>5, NothingNamed
  <2> QED
    BY <1>2, <1>5, <2>1, ProgressNext
<1> QED
  BY <1>4, <1>6, <1>7, <1>8, OthersProgress DEF MemInv

(* A call that is served knows of every call that is under way on the same *)
(* files, and they of it.                                                  *)
LEMMA CallServed ==
  ASSUME MemInv, NEW t \in Threads, NEW c \in Calls, Call(t, c),
         NEW s \in Servers(c), c.region \in opened[c.h], Serve(t, s, c.region)
  PROVE  MemInv'
<1>1. TypeInv /\ Overlap /\ Progress(t) /\ pc[t] = "idle" /\ size \in Sizes
  BY DEF MemInv, TypeInv, Call
<1>2. /\ call' = [call EXCEPT ![t] = c] /\ pc' = [pc EXCEPT ![t] = "seek"]
      /\ serving' = [serving EXCEPT ![t] = s]
      /\ kind' = [kind EXCEPT ![t] = IF c.region = "video" THEN "vram" ELSE "iomem"]
      /\ alone' = [u \in Threads |-> IF u = t THEN Rivals(t, s, c.region) = {}
                                      ELSE alone[u] /\ u \notin Rivals(t, s, c.region)]
      /\ size' = size /\ opened' = opened /\ offset' = offset /\ touched' = touched
      /\ at' = at /\ got' = got
  BY DEF Call, Serve
<1>3. s \in [h : Handles, addr : Nat] /\ c.region \in {"video", "system"}
  <2>1. c.h \in Handles
    BY DEF Calls
  <2> QED
    BY <1>1, <2>1, Serving DEF TypeInv
<1>4. TypeInv'
  <2>1. call' \in [Threads -> Calls]
    BY <1>1, <1>2 DEF TypeInv
  <2>2. pc' \in [Threads -> Pcs]
    BY <1>1, <1>2 DEF TypeInv, Pcs
  <2>3. serving' \in [Threads -> [h : Handles, addr : Nat]]
    BY <1>1, <1>2, <1>3 DEF TypeInv
  <2>4. kind' \in [Threads -> Kinds]
    BY <1>1, <1>2 DEF TypeInv, Kinds
  <2>5. alone' \in [Threads -> BOOLEAN]
    BY <1>1, <1>2 DEF TypeInv
  <2> QED
    BY <1>1, <1>2, <2>1, <2>2, <2>3, <2>4, <2>5 DEF TypeInv
<1>5. /\ pc'[t] = "seek" /\ call'[t] = c /\ serving'[t] = s /\ touched'[t] = {}
      /\ kind'[t] = "vram" <=> c.region = "video"
  BY <1>1, <1>2 DEF TypeInv, Progress
<1>6. OthersKept(t)
  BY <1>1, <1>2 DEF OthersKept, TypeInv
<1>7. Overlap'
  <2>1. ASSUME NEW u \in Threads \ {t}, InCall(u)',
               serving'[u].h = s.h, call'[u].region = c.region
        PROVE  ~alone'[t] /\ ~alone'[u]
    <3>1. u \in Rivals(t, s, c.region)
      BY <1>6, <2>1 DEF Rivals, OthersKept, InCall
    <3> QED
      BY <1>2, <3>1
  <2>2. ASSUME NEW u \in Threads \ {t}, NEW v \in Threads \ {t}, u # v, InCall(u)', InCall(v)',
               serving'[u].h = serving'[v].h, call'[u].region = call'[v].region
        PROVE  ~alone'[u] /\ ~alone'[v]
    <3>1. /\ InCall(u) /\ InCall(v) /\ serving[u].h = serving[v].h
          /\ call[u].region = call[v].region
      BY <1>6, <2>2 DEF OthersKept, InCall
    <3>2. ~alone[u] /\ ~alone[v]
      BY <1>1, <2>2, <3>1 DEF Overlap
    <3> QED
      BY <1>6, <3>2 DEF OthersKept
  <2>3. ASSUME NEW u \in Threads, NEW v \in Threads, u # v, InCall(u)', InCall(v)',
               serving'[u].h = serving'[v].h, call'[u].region = call'[v].region
        PROVE  ~alone'[u] /\ ~alone'[v]
    BY <1>5, <2>1, <2>2, <2>3
  <2> QED
    BY <2>3 DEF Overlap
<1>8. Progress(t)'
  BY <1>2, <1>3, <1>5, ProgressNext
<1> QED
  BY <1>4, <1>6, <1>7, <1>8, OthersProgress DEF MemInv

LEMMA CallInv == ASSUME MemInv, NEW t \in Threads, NEW c \in Calls, Call(t, c) PROVE MemInv'
<1>1. CASE c.region \notin opened[c.h] \/ Servers(c) = {}
  BY <1>1, CallAlone DEF Call
<1>2. CASE ~(c.region \notin opened[c.h] \/ Servers(c) = {})
  <2>1. PICK s \in Servers(c) :
          IF c.region \in opened[s.h] THEN Serve(t, s, c.region)
          ELSE /\ pc' = [pc EXCEPT ![t] = "crashed"]
               /\ UNCHANGED <<serving, kind, alone, got>>
    BY <1>2 DEF Call
  <2> QED
    BY <1>2, <2>1, CallAlone, CallServed
<1> QED
  BY <1>1, <1>2

(* An lseek, or a transfer that touched the cells T, has failed: there is  *)
(* another file to try, or nothing is said to have been transferred.       *)
LEMMA FailedInv ==
  ASSUME MemInv, NEW t \in Threads, InCall(t), Failed(t),
         UNCHANGED <<size, opened, call, serving, alone, offset>>,
         at' \in [Threads -> Nat],
         NEW T \in SUBSET AllCells, touched' = [touched EXCEPT ![t] = T],
         alone[t] => T \subseteq Named(call[t], call[t].count)
  PROVE  MemInv'
<1>1. TypeInv /\ Served(t) /\ call[t] \in Calls /\ MaxCount \in Nat
  BY MemTransferAssumption DEF MemInv, TypeInv, Progress
<1>2. \/ /\ kind[t] = "iomem" /\ kind' = [kind EXCEPT ![t] = "devmem"]
         /\ pc' = [pc EXCEPT ![t] = "seek"] /\ got' = got
      \/ /\ pc' = [pc EXCEPT ![t] = "answered"] /\ got' = [got EXCEPT ![t] = -1]
         /\ kind' = kind
  BY DEF Failed, TryDevmem
<1>3. TypeInv'
  <2>1. pc' \in [Threads -> Pcs] /\ kind' \in [Threads -> Kinds]
    BY <1>1, <1>2 DEF TypeInv, Pcs, Kinds
  <2>2. got' \in [Threads -> -1 .. MaxCount]
    <3>1. -1 \in -1 .. MaxCount
      BY <1>1
    <3> QED
      BY <1>1, <1>2, <3>1 DEF TypeInv
  <2>3. touched' \in [Threads -> SUBSET AllCells]
    BY <1>1 DEF TypeInv
  <2> QED
    BY <1>1, <2>1, <2>2, <2>3 DEF TypeInv
<1>4. /\ pc'[t] \in {"seek", "answered"} /\ touched'[t] = T
      /\ pc'[t] = "answered" => got'[t] = -1
      /\ kind'[t] = "vram" <=> kind[t] = "vram"
  BY <1>1, <1>2 DEF TypeInv
<1>5. OthersKept(t)
  BY <1>1, <1>2 DEF OthersKept, TypeInv
<1>6. Overlap'
  BY <1>5, OverlapKept
<1>7. Progress(t)'
  <2>1. pc'[t] = "answered" =>
          /\ Cardinality(Named(call'[t], got'[t])) = IF got'[t] < 0 THEN 0 ELSE got'[t]
          /\ Named(call'[t], got'[t]) \subseteq touched'[t]
    BY <1>1, <1>4, NothingNamed
  <2>2. /\ serving'[t] \in Servers(call'[t])
        /\ call'[t].region \in {"video", "system"}
        /\ kind'[t] = "vram" <=> call'[t].region = "video"
    BY <1>1, <1>4 DEF Served
  <2> QED
    BY <1>4, <2>1, <2>2, ProgressNext
<1> QED
  BY <1>3, <1>5, <1>6, <1>7, OthersProgress DEF MemInv

LEMMA SeekInv == ASSUME MemInv, NEW t \in Threads, Seek(t) PROVE MemInv'
<1>1. TypeInv /\ Progress(t) /\ InCall(t) /\ Served(t) /\ pc[t] = "seek"
  BY DEF MemInv, Seek, InCall, Progress
<1>2. CASE Failed(t) /\ UNCHANGED offset
  <2>1. /\ touched[t] \in SUBSET AllCells
        /\ touched' = [touched EXCEPT ![t] = touched[t]]
    BY <1>1 DEF TypeInv, Seek
  <2>2. alone[t] => touched[t] \subseteq Named(call[t], call[t].count)
    BY <1>1 DEF Progress
  <2>3. at' \in [Threads -> Nat] /\ UNCHANGED <<size, opened, call, serving, alone, offset>>
    BY <1>1, <1>2 DEF TypeInv, Seek
  <2> QED
    BY <1>1, <1>2, <2>1, <2>2, <2>3, FailedInv
<1>3. CASE /\ offset' = [offset EXCEPT ![File(t)] = serving[t].addr]
           /\ pc' = [pc EXCEPT ![t] = "transfer"]
           /\ UNCHANGED <<kind, got>>
  <2>1. UNCHANGED <<size, opened, call, serving, touched, at, alone>>
    BY DEF Seek
  <2>2. /\ File(t) \in Handles \X Kinds /\ serving[t].addr \in Nat
        /\ File(t) = <<serving[t].h, kind[t]>>
    BY <1>1 DEF File, TypeInv
  <2>3. TypeInv'
    <3>1. pc' \in [Threads -> Pcs]
      BY <1>1, <1>3 DEF TypeInv, Pcs
    <3>2. offset' \in [Handles \X Kinds -> Nat]
      BY <1>1, <1>3, <2>2 DEF TypeInv
    <3> QED
      BY <1>1, <1>3, <2>1, <3>1, <3>2 DEF TypeInv
  <2>4. OthersKept(t)
    BY <1>1, <1>3, <2>1, <2>2 DEF OthersKept, TypeInv
  <2>5. Overlap'
    BY <1>1, <2>1, <2>4, OverlapKept
  <2>6. pc'[t] = "transfer" /\ offset'[File(t)] = serving[t].addr
    BY <1>1, <1>3, <2>2 DEF TypeInv
  <2>7. Progress(t)'
    <3>1. /\ serving'[t] \in Servers(call'[t])
          /\ call'[t].region \in {"video", "system"}
          /\ kind'[t] = "vram" <=> call'[t].region = "video"
      BY <1>1, <1>3, <2>1 DEF Served
    <3>2. offset'[<<serving'[t].h, kind'[t]>>] = serving'[t].addr
      BY <1>3, <2>1, <2>2, <2>6
    <3>3. alone'[t] => touched'[t] \subseteq Named(call'[t], call'[t].count)
      BY <1>1, <2>1 DEF Progress
    <3> QED
      BY <2>1, <2>6, <3>1, <3>2, <3>3, ProgressNext
  <2> QED
    BY <2>3, <2>4, <2>5, <2>7, OthersProgress DEF MemInv
<1> QED
  BY <1>2, <1>3 DEF Seek

(* A transfer nobody interferes with starts where the lseek went, and what *)
(* it touches is what the call names of the first k cells.                 *)
LEMMA TransferNames ==
  ASSUME MemInv, NEW t \in Threads, pc[t] = "transfer", alone[t],
         NEW k \in 0 .. call[t].count, k <= Room(t)
  PROVE  /\ Named(call[t], k) = {Memory(t)} \X Cells(offset[File(t)], k)
         /\ Cardinality(Named(call[t], k)) = k
         /\ Named(call[t], k) \subseteq Named(call[t], call[t].count)
         /\ \A j \in 0..k - 1 : CellsAt(call[t].h, call[t].region, call[t].addr + j)
                                 = {<<Memory(t), offset[File(t)] + j>>}
<1> DEFINE c == call[t]
           s == serving[t]
<1>1. /\ TypeInv /\ Served(t) /\ size \in Sizes /\ c \in Calls /\ s \in Servers(c)
      /\ offset[File(t)] = s.addr /\ s.h \in Handles /\ s.addr \in Nat
  BY DEF MemInv, TypeInv, Progress, InCall, Served
<1>2. c.count \in Nat /\ k \in Nat /\ k <= c.count
  <2>1. c.count \in 1..MaxCount /\ MaxCount \in Nat
    BY <1>1, MemTransferAssumption DEF Calls
  <2> QED
    BY <2>1
<1>3. kind[t] = "vram" <=> c.region = "video"
  BY <1>1 DEF Served
<1>4. Memory(t) = IF c.region = "video" THEN GpuOf[s.h] ELSE System
  BY <1>3 DEF Memory
<1>5. c.region = "video" => k = 0 \/ s.addr + k <= size[GpuOf[s.h]]
  <2>1. SUFFICES ASSUME c.region = "video" PROVE k = 0 \/ s.addr + k <= size[GpuOf[s.h]]
    OBVIOUS
  <2>2. size[GpuOf[s.h]] \in Nat
    BY <1>1, MemTransferAssumption
  <2>3. Room(t) = IF s.addr >= size[GpuOf[s.h]] THEN 0 ELSE size[GpuOf[s.h]] - s.addr
    BY <1>1, <1>3, <1>4, <2>1 DEF Room
  <2> DEFINE z == size[GpuOf[s.h]]
             a == s.addr
  <2>4. z \in Nat /\ a \in Nat /\ k <= IF a >= z THEN 0 ELSE z - a
    BY <1>1, <2>2, <2>3
  <2> HIDE DEF z, a
  <2>5. k = 0 \/ a + k <= z
    BY <1>2, <2>4
  <2> QED
    BY <2>5 DEF z, a
<1> HIDE DEF c, s
<1>6. /\ Named(c, k) = {IF c.region = "video" THEN GpuOf[s.h] ELSE System} \X Cells(s.addr, k)
      /\ Cardinality(Named(c, k)) = k
      /\ \A j \in 0..k - 1 :
           CellsAt(c.h, c.region, c.addr + j)
             = {<<IF c.region = "video" THEN GpuOf[s.h] ELSE System, s.addr + j>>}
  BY <1>1, <1>2, <1>5, NamedCells
<1>7. Named(c, k) \subseteq Named(c, c.count)
  BY <1>1, <1>2, NamedGrows
<1> QED
  BY <1>1, <1>4, <1>6, <1>7 DEF c, s

LEMMA TransferInv == ASSUME MemInv, NEW t \in Threads, Transfer(t) PROVE MemInv'
<1>1. /\ TypeInv /\ Progress(t) /\ InCall(t) /\ Served(t) /\ pc[t] = "transfer"
      /\ call[t] \in Calls
  BY DEF MemInv, TypeInv, Transfer, InCall, Progress
<1>2. /\ File(t) \in Handles \X Kinds /\ offset[File(t)] \in Nat
      /\ File(t) = <<serving[t].h, kind[t]>>
  BY <1>1 DEF File, TypeInv
<1>3. /\ at' = [at EXCEPT ![t] = offset[File(t)]]
      /\ UNCHANGED <<size, opened, call, serving, alone>>
  BY DEF Transfer
<1>4. at' \in [Threads -> Nat] /\ at'[t] = offset[File(t)]
  BY <1>1, <1>2, <1>3 DEF TypeInv
<1>5. PICK k \in 0 .. call[t].count :
        /\ k <= Room(t)
        /\ touched' = [touched EXCEPT ![t] = @ \cup ({Memory(t)} \X Cells(at'[t], k))]
        /\ \/ /\ offset' = [offset EXCEPT ![File(t)] = @ + k]
              /\ got' = [got EXCEPT ![t] = k]
              /\ pc' = [pc EXCEPT ![t] = "answered"]
              /\ UNCHANGED kind
           \/ /\ Failed(t)
              /\ UNCHANGED offset
  BY DEF Transfer
<1>6. k \in Nat /\ k \in -1 .. MaxCount /\ k >= 0
  <2>1. call[t].count \in 1..MaxCount /\ MaxCount \in Nat
    BY <1>1, MemTransferAssumption DEF Calls
  <2> QED
    BY <2>1
<1> DEFINE New == {Memory(t)} \X Cells(offset[File(t)], k)
           T == touched[t] \cup New
<1>7. T \in SUBSET AllCells
  <2>1. Memory(t) \in Gpus \union {System}
    BY <1>1, MemTransferAssumption DEF Memory, TypeInv
  <2>2. \A b \in Cells(offset[File(t)], k) : b \in Nat
    BY <1>2, <1>6, CellsAre
  <2>3. New \subseteq AllCells
    BY <2>1, <2>2 DEF AllCells
  <2> QED
    BY <1>1, <2>3 DEF TypeInv
<1>8. touched' = [touched EXCEPT ![t] = T]
  BY <1>1, <1>4, <1>5 DEF TypeInv
<1>9. alone[t] => /\ New = Named(call[t], k) /\ Cardinality(Named(call[t], k)) = k
                  /\ Named(call[t], k) \subseteq Named(call[t], call[t].count)
  BY <1>1, <1>5, TransferNames
<1> HIDE DEF New
<1>10. alone[t] => T \subseteq Named(call[t], call[t].count)
  BY <1>1, <1>9 DEF Progress
<1>11. CASE Failed(t) /\ UNCHANGED offset
  <2> HIDE DEF T
  <2> QED
    BY <1>1, <1>3, <1>4, <1>7, <1>8, <1>10, <1>11, FailedInv
<1>12. CASE /\ offset' = [offset EXCEPT ![File(t)] = @ + k]
            /\ got' = [got EXCEPT ![t] = k]
            /\ pc' = [pc EXCEPT ![t] = "answered"]
            /\ UNCHANGED kind
  <2>1. TypeInv'
    <3>1. offset[File(t)] + k \in Nat
      BY <1>2, <1>6
    <3>2. offset' \in [Handles \X Kinds -> Nat]
      BY <1>1, <1>2, <1>12, <3>1 DEF TypeInv
    <3>3. pc' \in [Threads -> Pcs] /\ got' \in [Threads -> -1 .. MaxCount]
      BY <1>1, <1>6, <1>12 DEF TypeInv, Pcs
    <3>4. touched' \in [Threads -> SUBSET AllCells]
      BY <1>1, <1>7, <1>8 DEF TypeInv
    <3> QED
      BY <1>1, <1>3, <1>4, <1>12, <3>2, <3>3, <3>4 DEF TypeInv
  <2>2. OthersKept(t)
    BY <1>1, <1>2, <1>3, <1>8, <1>12 DEF OthersKept, TypeInv
  <2>3. pc'[t] = "answered" /\ got'[t] = k /\ touched'[t] = T
    BY <1>1, <1>8, <1>12 DEF TypeInv
  <2>4. Overlap'
    BY <2>2, <2>3, OverlapKept
  <2>5. Progress(t)'
    <3>1. alone'[t] =>
            /\ Cardinality(Named(call'[t], got'[t])) = IF got'[t] < 0 THEN 0 ELSE got'[t]
            /\ Named(call'[t], got'[t]) \subseteq touched'[t]
      BY <1>3, <1>6, <1>9, <2>3
    <3>2. alone'[t] => touched'[t] \subseteq Named(call'[t], call'[t].count)
      BY <1>3, <1>10, <2>3
    <3> HIDE DEF T
    <3> QED
      BY <1>3, <2>3, <3>1, <3>2, ProgressNext
  <2> QED
    BY <2>1, <2>2, <2>4, <2>5, OthersProgress DEF MemInv
<1> QED
  BY <1>5, <1>11, <1>12

LEMMA AnsweredInv == ASSUME MemInv, NEW t \in Threads, Answered(t) PROVE MemInv'
<1>1. TypeInv /\ pc[t] = "answered" /\ NoCall \in Calls /\ NoCall.h \in Handles
  BY NoCallType DEF MemInv, Answered
<1>2. /\ pc' = [pc EXCEPT ![t] = "idle"] /\ call' = [call EXCEPT ![t] = NoCall]
      /\ serving' = [serving EXCEPT ![t] = [h |-> NoCall.h, addr |-> 0]]
      /\ kind' = [kind EXCEPT ![t] = "vram"] /\ touched' = [touched EXCEPT ![t] = {}]
      /\ at' = [at EXCEPT ![t] = 0] /\ got' = [got EXCEPT ![t] = 0]
      /\ alone' = [alone EXCEPT ![t] = TRUE]
      /\ size' = size /\ opened' = opened /\ offset' = offset
  BY DEF Answered
<1> HIDE DEF NoCall
<1>3. TypeInv'
  <2>1. pc' \in [Threads -> Pcs] /\ kind' \in [Threads -> Kinds]
    BY <1>1, <1>2 DEF TypeInv, Pcs, Kinds
  <2>2. call' \in [Threads -> Calls] /\ touched' \in [Threads -> SUBSET AllCells]
    BY <1>1, <1>2 DEF TypeInv
  <2>3. serving' \in [Threads -> [h : Handles, addr : Nat]]
    BY <1>1, <1>2 DEF TypeInv
  <2>4. at' \in [Threads -> Nat] /\ alone' \in [Threads -> BOOLEAN]
    BY <1>1, <1>2 DEF TypeInv
  <2>5. got' \in [Threads -> -1 .. MaxCount]
    <3>1. 0 \in -1 .. MaxCount
      BY MemTransferAssumption
    <3> QED
      BY <1>1, <1>2, <3>1 DEF TypeInv
  <2> QED
    BY <1>1, <1>2, <2>1, <2>2, <2>3, <2>4, <2>5 DEF TypeInv
<1>4. OthersKept(t)
  BY <1>1, <1>2 DEF OthersKept, TypeInv
<1>5. pc'[t] = "idle" /\ touched'[t] = {}
  BY <1>1, <1>2 DEF TypeInv
<1>6. Overlap'
  BY <1>4, <1>5, OverlapKept
<1>7. Progress(t)'
  BY <1>2, <1>5, ProgressNext
<1> QED
  BY <1>3, <1>4, <1>6, <1>7, OthersProgress DEF MemInv

LEMMA MemNextInv == MemInv /\ [MemNext]_memvars => MemInv'
<1> SUFFICES ASSUME MemInv, [MemNext]_memvars PROVE MemInv'
  OBVIOUS
<1>1. ASSUME NEW t \in Threads, NEW c \in Calls, Call(t, c) PROVE MemInv'
  BY <1>1, CallInv
<1>2. ASSUME NEW t \in Threads, Seek(t) PROVE MemInv'
  BY <1>2, SeekInv
<1>3. ASSUME NEW t \in Threads, Transfer(t) PROVE MemInv'
  BY <1>3, TransferInv
<1>4. ASSUME NEW t \in Threads, Answered(t) PROVE MemInv'
  BY <1>4, AnsweredInv
<1>5. CASE UNCHANGED memvars
  <2>1. TypeInv'
    BY <1>5 DEF memvars, MemInv, TypeInv
  <2>2. Overlap'
    BY <1>5 DEF memvars, MemInv, Overlap, InCall
  <2>3. ASSUME NEW t \in Threads PROVE Progress(t)'
    <3>1. Progress(t)
      BY DEF MemInv
    <3> QED
      BY <1>5, <3>1, ProgressNext DEF memvars, Progress, InCall, Served, File
  <2> QED
    BY <2>1, <2>2, <2>3 DEF MemInv
<1> QED
  BY <1>1, <1>2, <1>3, <1>4, <1>5 DEF MemNext, FileStep

-----------------------------------------------------------------------------
(* The invariant, for every number of threads, handles and GPUs            *)
THEOREM MemInvariant == MemSpec => []MemInv
<1> QED
  BY MemInitInv, MemNextInv, PTL DEF MemSpec

(* The variables stay in their types, whatever the threads call: a call    *)
(* that is passed on is passed to a handle, to an offset.                  *)
THEOREM MemTypeCorrect == MemSpec => []MemTypeOK
<1>1. MemInv => MemTypeOK
  BY DEF MemInv, TypeInv, MemTypeOK, Regions, Pcs
<1> QED
  BY <1>1, MemInvariant, PTL

(* sift_device_read, sift_partition_read and their write counterparts: a   *)
(* call that no call on the same files overlaps touches nothing but the    *)
(* memory it names, and what it says it has transferred starts at its      *)
(* address without a gap, whichever partition's files serve it and         *)
(* wherever earlier calls have left their offsets.                         *)
THEOREM Touches == MemSpec => []TouchesWhatItNames
<1>1. MemInv => TouchesWhatItNames
  BY DEF MemInv, Progress, TouchesWhatItNames
<1> QED
  BY <1>1, MemInvariant, PTL

-----------------------------------------------------------------------------
(* Words: & is a number, not above either side's bits. *)

(* The beginning of Masked, up to n                                        *)
Masks(g, n) ==
  \A i \in 0 .. n : g[i] = [b \in Nat |-> IF i = 0 THEN 0
                                          ELSE 2 * g[i \div 2][b \div 2] + Lowest(i, b)]

LEMMA Halves ==
  ASSUME NEW n \in Nat
  PROVE  /\ n \div 2 \in Nat /\ n % 2 \in {0, 1} /\ n = (2 * (n \div 2)) + (n % 2)
         /\ n # 0 => n \div 2 < n
         /\ n \div 2 <= n
OBVIOUS

LEMMA MasksExist ==
  ASSUME NEW n \in Nat PROVE \E g : Masks(g, n)
<1> DEFINE S == {k \in Nat : \E g : Masks(g, k)}
<1>1. 0 \in S
  <2>1. Masks([i \in 0 .. 0 |-> [b \in Nat |-> 0]], 0)
    BY DEF Masks
  <2> QED
    BY <2>1
<1>2. ASSUME NEW k \in Nat, k \in S PROVE k + 1 \in S
  <2>1. PICK g : Masks(g, k)
    BY <1>2
  <2> DEFINE w == [b \in Nat |-> 2 * g[(k + 1) \div 2][b \div 2] + Lowest(k + 1, b)]
             h == [i \in 0 .. k + 1 |-> IF i = k + 1 THEN w ELSE g[i]]
             Row(f, i) == [b \in Nat |-> IF i = 0 THEN 0
                                         ELSE 2 * f[i \div 2][b \div 2] + Lowest(i, b)]
  <2>2. \A i \in 0 .. k : g[i] = Row(g, i)
    BY <2>1 DEF Masks
  <2>3. ASSUME NEW i \in 0 .. k + 1 PROVE i # 0 => i \div 2 \in 0 .. k /\ h[i \div 2] = g[i \div 2]
    <3>1. i \in Nat
      OBVIOUS
    <3>2. i # 0 => i \div 2 \in Nat /\ i \div 2 < i
      BY <3>1, Halves
    <3>3. i # 0 => i \div 2 \in 0 .. k /\ i \div 2 # k + 1 /\ i \div 2 \in 0 .. k + 1
      BY <3>2
    <3> HIDE DEF w
    <3> QED
      BY <3>3
  <2>4. ASSUME NEW i \in 0 .. k + 1 PROVE Row(h, i) = Row(g, i)
    <3> HIDE DEF h
    <3>1. CASE i = 0
      BY <3>1
    <3>2. CASE i # 0
      BY <2>3, <3>2
    <3> QED
      BY <3>1, <3>2
  <2>5. ASSUME NEW i \in 0 .. k + 1 PROVE h[i] = Row(g, i)
    <3>1. CASE i = k + 1
      <4>1. h[i] = w /\ i # 0
        BY <3>1
      <4>2. w = Row(g, k + 1)
        OBVIOUS
      <4> HIDE DEF w, h, Row
      <4> QED
        BY <3>1, <4>1, <4>2
    <3>2. CASE i # k + 1
      <4>1. i \in 0 .. k /\ h[i] = g[i]
        BY <3>2
      <4> HIDE DEF w, h, Row
      <4> QED
        BY <2>2, <4>1
    <3> QED
      BY <3>1, <3>2
  <2>6. \A i \in 0 .. k + 1 : h[i] = Row(h, i)
    <3> HIDE DEF h, Row
    <3> QED
      BY <2>4, <2>5
  <2> HIDE DEF h
  <2>7. Masks(h, k + 1)
    BY <2>6 DEF Masks
  <2> QED
    BY <2>7
<1>3. Nat \subseteq S
  <2> HIDE DEF S
  <2> QED
    BY <1>1, <1>2, Induction
<1> QED
  BY <1>3

LEMMA MasksAgree ==
  ASSUME NEW n \in Nat, NEW k \in 0 .. n, NEW g, NEW h, Masks(g, n), Masks(h, k)
  PROVE  \A i \in 0 .. k : g[i] = h[i]
<1> DEFINE bad == {i \in 0 .. k : g[i] # h[i]}
<1> SUFFICES ASSUME bad # {} PROVE FALSE
  OBVIOUS
<1>1. PICK i \in bad : \A j \in bad : i <= j
  <2>1. bad \in SUBSET Nat
    OBVIOUS
  <2> HIDE DEF bad
  <2> QED
    BY <2>1, LeastExists
<1>2. i \in 0 .. k /\ i \in 0 .. n /\ i \in Nat /\ g[i] # h[i]
  BY <1>1
<1>3. i # 0 => g[i \div 2] = h[i \div 2]
  <2> SUFFICES ASSUME i # 0 PROVE g[i \div 2] = h[i \div 2]
    OBVIOUS
  <2>1. i \div 2 \in 0 .. k /\ ~(i <= i \div 2)
    BY <1>2, Halves
  <2> QED
    BY <1>1, <2>1
<1>4. /\ g[i] = [b \in Nat |-> IF i = 0 THEN 0 ELSE 2 * g[i \div 2][b \div 2] + Lowest(i, b)]
      /\ h[i] = [b \in Nat |-> IF i = 0 THEN 0 ELSE 2 * h[i \div 2][b \div 2] + Lowest(i, b)]
  BY <1>2 DEF Masks
<1>5. g[i] = h[i]
  <2>1. CASE i = 0
    BY <1>4, <2>1
  <2>2. CASE i # 0
    BY <1>3, <1>4, <2>2
  <2> QED
    BY <2>1, <2>2
<1> QED
  BY <1>2, <1>5

(* Masked satisfies the equation it is defined by.                         *)
LEMMA MaskedUnfold ==
  ASSUME NEW a \in Nat, NEW b \in Nat
  PROVE  And(a, b) = IF a = 0 THEN 0 ELSE 2 * And(a \div 2, b \div 2) + Lowest(a, b)
<1> DEFINE G(k) == CHOOSE g : Masks(g, k)
           f == [n \in Nat |-> G(n)[n]]
           Row(p, i) == [c \in Nat |-> IF i = 0 THEN 0
                                       ELSE 2 * p[i \div 2][c \div 2] + Lowest(i, c)]
           Is(p) == p = [n \in Nat |-> Row(p, n)]
<1>1. \A k \in Nat : Masks(G(k), k)
  BY MasksExist
<1>2. ASSUME NEW n \in Nat PROVE f[n] = Row(f, n)
  <2>1. Masks(G(n), n)
    BY <1>1
  <2>2. G(n)[n] = Row(G(n), n)
    <3>1. n \in 0 .. n
      OBVIOUS
    <3> HIDE DEF G
    <3> QED
      BY <2>1, <3>1 DEF Masks
  <2>3. n # 0 => G(n)[n \div 2] = f[n \div 2]
    <3> SUFFICES ASSUME n # 0 PROVE G(n)[n \div 2] = f[n \div 2]
      OBVIOUS
    <3>1. n \div 2 \in Nat /\ n \div 2 \in 0 .. n /\ n \div 2 \in 0 .. n \div 2
      BY Halves
    <3>2. Masks(G(n \div 2), n \div 2)
      BY <1>1, <3>1
    <3> HIDE DEF G
    <3>3. G(n)[n \div 2] = G(n \div 2)[n \div 2]
      BY <2>1, <3>1, <3>2, MasksAgree
    <3> QED
      BY <3>1, <3>3
  <2> HIDE DEF G
  <2>4. f[n] = G(n)[n]
    OBVIOUS
  <2> HIDE DEF f
  <2>5. Row(G(n), n) = Row(f, n)
    <3>1. CASE n = 0
      BY <3>1
    <3>2. CASE n # 0
      BY <2>3, <3>2
    <3> QED
      BY <3>1, <3>2
  <2> QED
    BY <2>2, <2>4, <2>5
<1> HIDE DEF G
<1>3. Is(f)
  <2>1. f = [n \in Nat |-> f[n]]
    OBVIOUS
  <2> HIDE DEF f, Row
  <2> QED
    BY <1>2, <2>1
<1> HIDE DEF f
<1>4. Masked = CHOOSE p : Is(p)
  BY DEF Masked
<1>5. Is(Masked)
  <2> HIDE DEF Is
  <2> QED
    BY <1>3, <1>4
<1>6. Masked[a] = Row(Masked, a)
  <2> HIDE DEF Row
  <2> QED
    BY <1>5
<1> QED
  BY <1>6, Halves DEF And

LEMMA AndType ==
  ASSUME NEW a \in Nat, NEW b \in Nat PROVE And(a, b) \in Nat /\ And(a, b) <= b
<1> DEFINE Good(x) == \A y \in Nat : And(x, y) \in Nat /\ And(x, y) <= y
           bad == {x \in Nat : ~Good(x)}
<1> SUFFICES ASSUME bad # {} PROVE FALSE
  OBVIOUS
<1>1. PICK x \in bad : \A z \in bad : x <= z
  <2>1. bad \in SUBSET Nat
    OBVIOUS
  <2> HIDE DEF bad
  <2> QED
    BY <2>1, LeastExists
<1>2. x \in Nat /\ ~Good(x)
  OBVIOUS
<1>3. x # 0 => x \div 2 \in Nat /\ Good(x \div 2)
  <2> SUFFICES ASSUME x # 0 PROVE x \div 2 \in Nat /\ Good(x \div 2)
    OBVIOUS
  <2>1. x \div 2 \in Nat /\ ~(x <= x \div 2)
    BY <1>2, Halves
  <2> HIDE DEF Good
  <2> QED
    BY <1>1, <2>1
<1>4. ASSUME NEW y \in Nat PROVE And(x, y) \in Nat /\ And(x, y) <= y
  <2>1. CASE x = 0
    BY <1>2, <2>1, MaskedUnfold
  <2>2. CASE x # 0
    <3> DEFINE u == And(x \div 2, y \div 2)
               w == y \div 2
               r == y % 2
               l == Lowest(x, y)
    <3>1. w \in Nat /\ r \in {0, 1} /\ y = 2 * w + r
      BY Halves
    <3>2. u \in Nat /\ u <= w
      BY <1>3, <2>2, <3>1
    <3>3. And(x, y) = 2 * u + l
      BY <1>2, <2>2, MaskedUnfold
    <3>4. l \in {0, 1} /\ l <= r
      BY <3>1 DEF Lowest
    <3> HIDE DEF u, w, r, l
    <3> QED
      BY <3>1, <3>2, <3>3, <3>4
  <2> QED
    BY <2>1, <2>2
<1> QED
  BY <1>2, <1>4

(* Division with a remainder has one result.                               *)
LEMMA Quotient ==
  ASSUME NEW n \in Nat \ {0}, NEW q \in Int, NEW r \in 0 .. n - 1, NEW a \in Int,
         a = n * q + r
  PROVE  a \div n = q /\ a % n = r
<1> DEFINE p == a \div n
           s == a % n
<1>1. p \in Int /\ s \in 0 .. n - 1 /\ a = n * p + s
  OBVIOUS
<1> HIDE DEF p, s
<1>2. ASSUME p > q PROVE FALSE
  <2>1. n * (p - q) >= n
    <3>1. p - q >= 1
      BY <1>1, <1>2
    <3> QED
      BY <1>1, <3>1
  <2>2. n * (p - q) = n * p - n * q
    BY <1>1
  <2>3. n * p \in Int /\ n * q \in Int
    BY <1>1
  <2> QED
    BY <1>1, <2>1, <2>2, <2>3
<1>3. ASSUME p < q PROVE FALSE
  <2>1. n * (q - p) >= n
    <3>1. q - p >= 1
      BY <1>1, <1>3
    <3> QED
      BY <1>1, <3>1
  <2>2. n * (q - p) = n * q - n * p
    BY <1>1
  <2>3. n * p \in Int /\ n * q \in Int
    BY <1>1
  <2> QED
    BY <1>1, <2>1, <2>2, <2>3
<1>4. p = q
  BY <1>1, <1>2, <1>3
<1>5. s = r
  <2>1. n * q \in Int
    OBVIOUS
  <2> QED
    BY <1>1, <1>4, <2>1
<1> QED
  BY <1>4, <1>5 DEF p, s

(* A power of two that is not 1 is twice another.                          *)
LEMMA HalfPower ==
  ASSUME NEW n \in Nat, PowerOfTwo(n), n # 1
  PROVE  \E h \in Nat : h # 0 /\ h < n /\ n = 2 * h /\ PowerOfTwo(h)
<1> DEFINE h == n \div 2
<1>1. n > 1 /\ n \in 2 .. n
  BY DEF PowerOfTwo
<1>2. n % n = 0
  <2>1. n \in Nat \ {0} /\ 1 \in Int /\ 0 \in 0 .. n - 1 /\ n \in Int /\ n = n * 1 + 0
    BY <1>1
  <2> QED
    BY <2>1, Quotient
<1>3. n % 2 = 0
  BY <1>1, <1>2 DEF PowerOfTwo
<1>4. h \in Nat /\ n = 2 * h
  BY <1>3, Halves
<1> HIDE DEF h
<1>5. h # 0 /\ h < n
  BY <1>1, <1>4
<1>6. ASSUME NEW d \in 2 .. h, h % d = 0 PROVE d % 2 = 0
  <2> DEFINE q == h \div d
  <2>1. d \in Nat \ {0} /\ d \in 2 .. n
    BY <1>4, <1>5
  <2>2. q \in Int /\ h = d * q
    <3>1. q \in Int /\ h = (d * q) + (h % d)
      BY <1>4, <2>1
    <3>2. d * q \in Int
      BY <2>1, <3>1
    <3> HIDE DEF q
    <3> QED
      BY <1>6, <3>1, <3>2
  <2> HIDE DEF q
  <2>3. n = d * (2 * q) + 0
    <3>1. n = 2 * (d * q) /\ d * q \in Int
      BY <1>4, <2>1, <2>2
    <3>2. 2 * (d * q) = d * (2 * q)
      BY <2>1, <2>2
    <3> QED
      BY <3>1, <3>2
  <2>4. n % d = 0
    <3> DEFINE z == 2 * q
    <3>1. z \in Int /\ 0 \in 0 .. d - 1 /\ n \in Int /\ n = d * z + 0
      BY <2>1, <2>2, <2>3
    <3> HIDE DEF z
    <3> QED
      BY <2>1, <3>1, Quotient
  <2> QED
    BY <2>1, <2>4 DEF PowerOfTwo
<1>7. PowerOfTwo(h)
  BY <1>4, <1>5, <1>6 DEF PowerOfTwo
<1> QED
  BY <1>4, <1>5, <1>7

(* A property of 1 that goes from a number to twice it is one of all       *)
(* powers of two.                                                          *)
LEMMA PowersOfTwo ==
  ASSUME NEW S, 1 \in S, \A h \in Nat \ {0} : PowerOfTwo(h) /\ h \in S => 2 * h \in S
  PROVE  \A n \in Nat : PowerOfTwo(n) => n \in S
<1> DEFINE bad == {n \in Nat : PowerOfTwo(n) /\ n \notin S}
<1> SUFFICES ASSUME bad # {} PROVE FALSE
  OBVIOUS
<1>1. PICK n \in bad : \A k \in bad : n <= k
  <2>1. bad \in SUBSET Nat
    OBVIOUS
  <2> HIDE DEF bad
  <2> QED
    BY <2>1, LeastExists
<1>2. n \in Nat /\ PowerOfTwo(n) /\ n \notin S /\ n # 1
  OBVIOUS
<1>3. PICK h \in Nat : h # 0 /\ h < n /\ n = 2 * h /\ PowerOfTwo(h)
  BY <1>2, HalfPower
<1>4. h \in S
  <2>1. ~(n <= h)
    BY <1>2, <1>3
  <2> QED
    BY <1>1, <1>3, <2>1
<1> QED
  BY <1>2, <1>3, <1>4

(* virt & (size - 1): the offset in a fragment whose size is a power of two *)
LEMMA AndRemainder ==
  ASSUME NEW n \in Nat, PowerOfTwo(n) PROVE \A v \in Nat : And(v, n - 1) = v % n
<1> DEFINE S == {k \in Nat : \A v \in Nat : And(v, k - 1) = v % k}
<1>1. 1 \in S
  <2>1. ASSUME NEW v \in Nat PROVE And(v, 1 - 1) = v % 1
    <3>1. And(v, 0) \in Nat /\ And(v, 0) <= 0
      BY AndType
    <3>2. v % 1 = 0
      OBVIOUS
    <3> QED
      BY <3>1, <3>2
  <2> QED
    BY <2>1
<1>2. ASSUME NEW h \in Nat \ {0}, h \in S PROVE 2 * h \in S
  <2>1. ASSUME NEW v \in Nat PROVE And(v, 2 * h - 1) = v % (2 * h)
    <3> DEFINE k == 2 * h
               w == v \div 2
               r == v % 2
               x == w % h
               q == w \div h
    <3>1. w \in Nat /\ r \in {0, 1} /\ v = 2 * w + r
      BY Halves
    <3>2. And(w, h - 1) = x
      BY <1>2, <3>1
    <3>3. x \in 0 .. h - 1 /\ q \in Int /\ w = h * q + x
      BY <3>1
    <3>4. (k - 1) \div 2 = h - 1 /\ (k - 1) % 2 = 1 /\ k - 1 \in Nat
      OBVIOUS
    <3>5. Lowest(v, k - 1) = r
      BY <3>1, <3>4 DEF Lowest
    <3>6. And(v, k - 1) = 2 * x + r
      <4>1. CASE v = 0
        <5>1. And(v, k - 1) = 0
          BY <3>4, <4>1, MaskedUnfold
        <5>2. w = 0 /\ r = 0
          BY <3>1, <4>1
        <5>3. x = 0
          <6>1. 0 = h * 0 + 0 /\ 0 \in 0 .. h - 1
            OBVIOUS
          <6>2. 0 % h = 0
            BY <6>1, Quotient
          <6> QED
            BY <5>2, <6>2
        <5> QED
          BY <5>1, <5>2, <5>3
      <4>2. CASE v # 0
        <5>1. And(v, k - 1) = 2 * And(w, (k - 1) \div 2) + Lowest(v, k - 1)
          BY <3>4, <4>2, MaskedUnfold
        <5> HIDE DEF x, r, w
        <5> QED
          BY <3>2, <3>4, <3>5, <5>1
      <4> QED
        BY <4>1, <4>2
    <3> HIDE DEF x, r, w, q
    <3>7. v = k * q + (2 * x + r) /\ 2 * x + r \in 0 .. k - 1
      <4>1. k * q = 2 * (h * q) /\ h * q \in Int
        BY <3>3
      <4> QED
        BY <3>1, <3>3, <4>1
    <3>8. k \in Nat \ {0}
      OBVIOUS
    <3> HIDE DEF k
    <3>9. v % k = 2 * x + r
      <4> DEFINE z == 2 * x + r
      <4>1. z \in 0 .. k - 1 /\ v = k * q + z /\ q \in Int /\ v \in Int
        BY <3>3, <3>7
      <4> HIDE DEF z
      <4>2. v % k = z
        BY <3>8, <4>1, Quotient
      <4> QED
        BY <4>2 DEF z
    <3> QED
      BY <3>6, <3>9 DEF k
  <2> QED
    BY <2>1
<1> HIDE DEF S
<1>3. n \in S
  BY <1>1, <1>2, PowersOfTwo
<1> QED
  BY <1>3 DEF S

(* pa | offset: what lies at a multiple of a power of two has no bit in    *)
(* common with anything less.                                              *)
LEMMA AndApart ==
  ASSUME NEW n \in Nat, PowerOfTwo(n)
  PROVE  \A p \in Nat : \A l \in 0 .. n - 1 : p % n = 0 => And(p, l) = 0
<1> DEFINE S == {k \in Nat : \A p \in Nat : \A l \in 0 .. k - 1 : p % k = 0 => And(p, l) = 0}
<1>1. 1 \in S
  <2>1. ASSUME NEW p \in Nat, NEW l \in 0 .. 1 - 1 PROVE And(p, l) = 0
    <3>1. l = 0 /\ And(p, l) \in Nat /\ And(p, l) <= l
      BY AndType
    <3> QED
      BY <3>1
  <2> QED
    BY <2>1
<1>2. ASSUME NEW h \in Nat \ {0}, h \in S PROVE 2 * h \in S
  <2>1. ASSUME NEW p \in Nat, NEW l \in 0 .. 2 * h - 1, p % (2 * h) = 0 PROVE And(p, l) = 0
    <3> DEFINE k == 2 * h
               q == p \div k
    <3>1. k \in Nat \ {0}
      OBVIOUS
    <3>2. q \in Int /\ p = k * q
      <4>1. p % k = 0
        BY <2>1
      <4> HIDE DEF k
      <4>2. q \in Int /\ p = (k * q) + (p % k)
        BY <3>1
      <4>3. k * q \in Int
        BY <3>1, <4>2
      <4> HIDE DEF q
      <4> QED
        BY <4>1, <4>2, <4>3
    <3> HIDE DEF q
    <3>3. p = 2 * (h * q) + 0 /\ h * q \in Int
      BY <3>2
    <3>4. p \div 2 = h * q /\ p % 2 = 0
      <4> DEFINE z == h * q
      <4>1. z \in Int /\ p = 2 * z + 0 /\ 0 \in 0 .. 2 - 1 /\ 2 \in Nat \ {0} /\ p \in Int
        BY <3>3
      <4> HIDE DEF z
      <4>2. p \div 2 = z /\ p % 2 = 0
        BY <4>1, Quotient
      <4> QED
        BY <4>2 DEF z
    <3>5. p \div 2 \in Nat /\ (p \div 2) % h = 0
      <4>1. p \div 2 \in Nat
        BY Halves
      <4>2. p \div 2 = h * q + 0 /\ 0 \in 0 .. h - 1
        BY <3>3, <3>4
      <4> QED
        BY <3>2, <4>1, <4>2, Quotient
    <3>6. l \in Nat /\ l \div 2 \in 0 .. h - 1
      <4>1. l \in Nat /\ l < 2 * h
        OBVIOUS
      <4>2. l \div 2 \in Nat /\ l >= 2 * (l \div 2)
        BY <4>1, Halves
      <4> QED
        BY <4>1, <4>2
    <3>7. And(p \div 2, l \div 2) = 0
      BY <1>2, <3>5, <3>6
    <3>8. Lowest(p, l) = 0
      BY <3>4 DEF Lowest
    <3> QED
      BY <3>6, <3>7, <3>8, MaskedUnfold
  <2> QED
    BY <2>1
<1> HIDE DEF S
<1>3. n \in S
  BY <1>1, <1>2, PowersOfTwo
<1> QED
  BY <1>3 DEF S

-----------------------------------------------------------------------------
(* read_mem *)

(* The cells an answered call names are those it transferred, one by one.  *)
Answers(t) ==
  alone[t] /\ pc[t] = "answered" =>
    /\ got[t] <= call[t].count
    /\ \A j \in 0 .. got[t] - 1 :
         CellsAt(call[t].h, call[t].region, call[t].addr + j) = {<<Memory(t), at[t] + j>>}

(* Everything is where the command says it prints it from.                 *)
Exact == req.physical \/ \A f \in ToSet(req.list) : Aligned(f)

HomeOf(a) == CHOOSE f \in ToSet(req.list) : a \in Cells(f.va, f.size)

(* The cell that an address of the range stands for                        *)
Source(a) ==
  IF req.physical THEN CellsAt(Part, req.region, a)
  ELSE CellsAt(Part, HomeOf(a).region, HomeOf(a).pa + (a - HomeOf(a).va))

ReadTypes ==
  /\ tool \in BOOLEAN /\ req \in Requests
  /\ line \in {"start", "translate", "walk", "copy", "ended"}
  /\ ret \in {"none", "0", "-1", "exit"}
  /\ current \in Nat /\ virt \in Nat /\ left \in 0 .. req.size /\ todo \in 0 .. req.size
  /\ phys \in [region : Regions, addr : Nat]
  /\ out \in Seq(AllCells)

(* The loop over the fragments: it is at the address that is left, and, as *)
(* long as the masks are right, in the fragment that has it.               *)
Walking ==
  /\ ~req.physical
  /\ current \in 1 .. Len(req.list) + 1
  /\ virt + left = req.addr + req.size
  /\ Exact /\ left > 0 =>
       current <= Len(req.list) /\ virt \in Cells(Fragment.va, Fragment.size)

(* The loop over the buffer *)
Copying ==
  IF req.physical
  THEN /\ phys.region = req.region
       /\ phys.addr + todo = req.addr + req.size
       /\ Len(out) + todo = req.size
  ELSE /\ Walking /\ MoreToRead /\ Fragment.valid
       /\ phys.region = Fragment.region
       /\ todo <= CurrentSize
       /\ phys.addr + todo = PhysOf.addr + CurrentSize
       /\ Len(out) + todo + left = req.size + CurrentSize

(* The call under way is that of ReadChunk.                                *)
Asking ==
  call[Main] = [h |-> Part, region |-> phys.region, op |-> "read",
                addr |-> phys.addr, count |-> Chunk]

LineInv ==
  /\ line \in {"start", "translate"} =>
       out = << >> /\ virt = req.addr /\ left = req.size /\ ret = "none"
  /\ line = "translate" => ~req.physical
  /\ line = "walk" => Walking /\ Len(out) + left = req.size /\ ret = "none"
  /\ line = "copy" => Copying /\ ret = "none"
  /\ line = "ended" => Len(out) <= req.size /\ (ret = "0" /\ Exact => Len(out) = req.size)

(* The command has one thread, and that has one call.                      *)
OneThread ==
  IF tool
  THEN /\ alone[Main] /\ \A t \in Threads \ {Main} : pc[t] = "idle"
       /\ pc[Main] # "idle" => line = "copy" /\ todo > 0 /\ Asking
  ELSE line = "start"

(* What was printed *)
OutInv ==
  \A i \in 1 .. Len(out) :
    /\ ~req.physical => \E f \in ToSet(req.list) : f.valid /\ out[i] \in CellsOf(f)
    /\ Exact => Source(req.addr + i - 1) = {out[i]}

ToolInv == ReadTypes /\ LineInv /\ OneThread /\ OutInv

ReadInv == MemInv /\ (\A t \in Threads : Answers(t)) /\ ToolInv

-----------------------------------------------------------------------------
LEMMA AnswersNext ==
  ASSUME MemInv, \A t \in Threads : Answers(t), [MemNext]_memvars
  PROVE  \A t \in Threads : Answers(t)'
<1> SUFFICES ASSUME NEW t \in Threads PROVE Answers(t)'
  OBVIOUS
<1>1. TypeInv /\ Progress(t) /\ Answers(t)
  BY DEF MemInv
<1>2. ASSUME size' = size, pc'[t] = pc[t], call'[t] = call[t], serving'[t] = serving[t],
             kind'[t] = kind[t], at'[t] = at[t], got'[t] = got[t], alone'[t] => alone[t]
      PROVE  Answers(t)'
  BY <1>1, <1>2 DEF Answers, Memory, CellsAt
<1>3. ASSUME pc'[t] = "answered" => got'[t] = -1 /\ call'[t].count \in Nat
      PROVE  Answers(t)'
  BY <1>3 DEF Answers
<1>4. CASE UNCHANGED memvars
  BY <1>2, <1>4 DEF memvars
<1>5. ASSUME NEW u \in Threads, NEW c \in Calls, Call(u, c) PROVE Answers(t)'
  <2>1. /\ pc[u] = "idle" /\ call' = [call EXCEPT ![u] = c]
        /\ UNCHANGED <<size, opened, offset, touched, at>>
    BY <1>5 DEF Call
  <2>2. \/ Refuse(u)
        \/ \E s \in Servers(c) : Serve(u, s, c.region)
        \/ pc' = [pc EXCEPT ![u] = "crashed"] /\ UNCHANGED <<serving, kind, alone, got>>
    BY <1>5 DEF Call
  <2>3. CASE u = t
    <3>1. call'[t].count \in Nat
      <4>1. c.count \in 1..MaxCount /\ MaxCount \in Nat
        BY MemTransferAssumption DEF Calls
      <4>2. call'[t] = c
        BY <1>1, <2>1, <2>3 DEF TypeInv
      <4> QED
        BY <4>1, <4>2
    <3>2. pc'[t] = "answered" => got'[t] = -1
      BY <1>1, <2>2, <2>3 DEF TypeInv, Refuse, Serve
    <3> QED
      BY <1>3, <3>1, <3>2
  <2>4. CASE u # t
    <3>1. /\ pc'[t] = pc[t] /\ serving'[t] = serving[t] /\ kind'[t] = kind[t]
          /\ got'[t] = got[t]
          /\ alone'[t] => alone[t]
      BY <1>1, <2>2, <2>4 DEF TypeInv, Refuse, Serve
    <3>2. call'[t] = call[t]
      BY <1>1, <2>1, <2>4 DEF TypeInv
    <3> QED
      BY <1>2, <2>1, <3>1, <3>2
  <2> QED
    BY <2>3, <2>4
<1>6. ASSUME NEW u \in Threads, FileStep(u), u # t PROVE Answers(t)'
  <2>1. UNCHANGED <<size, call, serving, alone>>
    BY <1>6 DEF FileStep, Seek, Transfer
  <2>2. pc'[t] = pc[t] /\ kind'[t] = kind[t] /\ at'[t] = at[t] /\ got'[t] = got[t]
    BY <1>1, <1>6 DEF TypeInv, FileStep, Seek, Transfer, Failed, TryDevmem
  <2> QED
    BY <1>2, <2>1, <2>2
<1>7. ASSUME NEW u \in Threads, Answered(u) PROVE Answers(t)'
  <2>1. CASE u = t
    BY <1>1, <1>3, <1>7, <2>1 DEF TypeInv, Answered
  <2>2. CASE u # t
    <3>1. /\ size' = size /\ pc'[t] = pc[t] /\ call'[t] = call[t]
          /\ serving'[t] = serving[t] /\ kind'[t] = kind[t] /\ at'[t] = at[t]
          /\ got'[t] = got[t] /\ alone'[t] = alone[t]
      BY <1>1, <1>7, <2>2 DEF TypeInv, Answered
    <3> QED
      BY <1>2, <3>1
  <2> QED
    BY <2>1, <2>2
<1>8. call[t].count \in Nat
  <2>1. call[t].count \in 1..MaxCount /\ MaxCount \in Nat
    BY <1>1, MemTransferAssumption DEF TypeInv, Calls
  <2> QED
    BY <2>1
<1>9. ASSUME Failed(t), call' = call PROVE Answers(t)'
  BY <1>1, <1>3, <1>8, <1>9 DEF TypeInv, Failed, TryDevmem
<1>10. CASE Seek(t)
  <2>1. call' = call
    BY <1>10 DEF Seek
  <2>2. Failed(t) \/ pc' = [pc EXCEPT ![t] = "transfer"]
    BY <1>10 DEF Seek
  <2>3. CASE pc' = [pc EXCEPT ![t] = "transfer"]
    BY <1>1, <1>3, <2>3 DEF TypeInv
  <2> QED
    BY <1>9, <2>1, <2>2, <2>3
<1>11. CASE Transfer(t)
  <2>1. /\ pc[t] = "transfer" /\ UNCHANGED <<size, opened, call, serving, alone>>
        /\ at'[t] = offset[File(t)]
    BY <1>1, <1>11 DEF Transfer, TypeInv
  <2>2. PICK k \in 0 .. call[t].count :
          /\ k <= Room(t)
          /\ \/ Failed(t)
             \/ /\ got' = [got EXCEPT ![t] = k]
                /\ pc' = [pc EXCEPT ![t] = "answered"]
                /\ UNCHANGED kind
    BY <1>11 DEF Transfer
  <2>3. CASE /\ got' = [got EXCEPT ![t] = k]
             /\ pc' = [pc EXCEPT ![t] = "answered"]
             /\ UNCHANGED kind
    <3>1. got'[t] = k /\ kind' = kind
      BY <1>1, <2>3 DEF TypeInv
    <3>2. ASSUME alone[t]
          PROVE  \A j \in 0 .. k - 1 : CellsAt(call[t].h, call[t].region, call[t].addr + j)
                                         = {<<Memory(t), offset[File(t)] + j>>}
      BY <2>1, <2>2, <3>2, TransferNames
    <3>3. k <= call[t].count
      BY <1>8
    <3>4. Memory(t)' = Memory(t)
      BY <2>1, <3>1 DEF Memory
    <3>5. \A h, region, a : CellsAt(h, region, a)' = CellsAt(h, region, a)
      BY <2>1 DEF CellsAt
    <3>6. alone' = alone /\ call' = call
      BY <2>1
    <3> QED
      BY <2>1, <3>1, <3>2, <3>3, <3>4, <3>5, <3>6 DEF Answers
  <2> QED
    BY <1>9, <2>1, <2>2, <2>3
<1> QED
  BY <1>4, <1>5, <1>6, <1>7, <1>10, <1>11 DEF MemNext, FileStep

-----------------------------------------------------------------------------
LEMMA RequestIs ==
  ASSUME req \in Requests
  PROVE  /\ req.physical \in BOOLEAN /\ req.addr \in Nat /\ req.size \in Nat /\ req.size # 0
         /\ req.physical => req.region \in Regions /\ req.addr + req.size <= Modulus
         /\ ~req.physical => ListOK(req)
BY ReadMemAssumption DEF RequestOK, Regions

(* Where the masks of read_virt_addr lead: not out of the fragment, and to *)
(* the offset in it if its size is a power of two.                         *)
LEMMA InFragment ==
  ASSUME req \in Requests, Walking, MoreToRead, virt \in Nat, left \in 0 .. req.size
  PROVE  /\ current \in 1 .. Len(req.list) /\ Fragment \in ToSet(req.list)
         /\ Fragment \in FragmentType /\ Fragment.pa + Fragment.size <= Modulus
         /\ LowerBits \in Nat /\ LowerBits < Fragment.size
         /\ CurrentSize = IF Fragment.size - LowerBits < left
                          THEN Fragment.size - LowerBits ELSE left
         /\ CurrentSize \in 1 .. left
         /\ PhysOf.region = Fragment.region
         /\ PhysOf.addr \in Nat /\ Fragment.pa <= PhysOf.addr
         /\ PhysOf.addr + CurrentSize <= Fragment.pa + Fragment.size
         /\ Exact => /\ LowerBits = virt - Fragment.va
                     /\ PhysOf.addr = Fragment.pa + (virt - Fragment.va)
<1> DEFINE va == Fragment.va
           n  == Fragment.size
           pa == Fragment.pa
           low == And(virt, n - 1)
           both == And(pa, low)
<1>1. /\ ~req.physical /\ ListOK(req) /\ left \in Nat /\ left > 0
      /\ current \in 1 .. Len(req.list)
  BY RequestIs DEF Walking, MoreToRead
<1>2. /\ Fragment = req.list[current] /\ Fragment \in FragmentType
      /\ Fragment \in ToSet(req.list) /\ pa + n <= Modulus
  BY <1>1 DEF Fragment, ListOK, ToSet
<1>3. va \in Nat /\ n \in Nat /\ n > 0 /\ pa \in Nat
  BY <1>2 DEF FragmentType
<1>4. Exact => Aligned(Fragment) /\ virt \in va .. va + n - 1
  BY <1>1, <1>2 DEF Exact, Walking, Cells
<1>5. /\ LowerBits = low /\ PhysOf.region = Fragment.region
      /\ PhysOf.addr = (pa + low) - both
      /\ CurrentSize = IF n - low < left THEN n - low ELSE left
  BY DEF LowerBits, PhysOf, CurrentSize, Or
<1> HIDE DEF va, n, pa
<1>6. low \in Nat /\ low < n /\ both \in Nat /\ both <= low
  <2>1. n - 1 \in Nat
    BY <1>3
  <2>2. low \in Nat /\ low <= n - 1
    BY <2>1, AndType
  <2> HIDE DEF low
  <2>3. both \in Nat /\ both <= low
    BY <1>3, <2>2, AndType
  <2> QED
    BY <1>3, <2>2, <2>3
<1>7. Exact => low = virt - va /\ both = 0
  <2> SUFFICES ASSUME Exact PROVE low = virt - va /\ both = 0
    OBVIOUS
  <2>1. PowerOfTwo(n) /\ va % n = 0 /\ pa % n = 0 /\ virt \in va .. va + n - 1
    BY <1>4 DEF Aligned, va, n, pa
  <2>2. low = virt % n
    BY <1>3, <2>1, AndRemainder
  <2>3. virt % n = virt - va
    <3> DEFINE q == va \div n
               r == virt - va
    <3>1. q \in Int /\ va = (n * q) + (va % n)
      BY <1>3
    <3>2. n * q \in Int
      BY <1>3, <3>1
    <3> HIDE DEF q
    <3>3. r \in 0 .. n - 1 /\ virt = n * q + r /\ n \in Nat \ {0} /\ virt \in Int
      BY <1>3, <2>1, <3>1, <3>2
    <3> HIDE DEF r
    <3>4. virt % n = r
      BY <3>1, <3>3, Quotient
    <3> QED
      BY <3>4 DEF r
  <2>4. low \in 0 .. n - 1
    BY <1>3, <1>6
  <2> HIDE DEF low
  <2>5. both = 0
    BY <1>3, <2>1, <2>4, AndApart
  <2> QED
    BY <2>2, <2>3, <2>5
<1> HIDE DEF low, both
<1>8. CurrentSize \in 1 .. left /\ CurrentSize <= n - low
  BY <1>1, <1>3, <1>5, <1>6
<1>9. /\ PhysOf.addr \in Nat /\ pa <= PhysOf.addr /\ PhysOf.addr + CurrentSize <= pa + n
  <2> DEFINE c == CurrentSize
             p == PhysOf.addr
  <2>1. c \in 1 .. left /\ c <= n - low /\ p = (pa + low) - both
    BY <1>5, <1>8
  <2> HIDE DEF c, p
  <2>2. p \in Nat /\ pa <= p /\ p + c <= pa + n
    BY <1>1, <1>3, <1>6, <2>1
  <2> QED
    BY <2>2 DEF c, p
<1>10. Exact => PhysOf.addr = pa + (virt - va)
  BY <1>3, <1>5, <1>6, <1>7
<1> QED
  BY <1>1, <1>2, <1>5, <1>6, <1>7, <1>8, <1>9, <1>10 DEF va, n, pa

LEMMA ListFacts ==
  ASSUME NEW r, ListOK(r)
  PROVE  /\ Len(r.list) \in Nat /\ ToSet(r.list) = {r.list[k] : k \in 1 .. Len(r.list)}
         /\ \A k \in 1 .. Len(r.list) : r.list[k].va \in Nat /\ r.list[k].size \in Nat
         /\ \A k \in 1 .. Len(r.list) - 1 :
              r.list[k + 1].va = r.list[k].va + r.list[k].size
<1> DEFINE l == r.list
<1>1. l \in Seq(FragmentType)
  BY DEF ListOK
<1>2. Len(l) \in Nat /\ DOMAIN l = 1 .. Len(l)
  BY <1>1, LenProperties
<1>3. \A k \in 1 .. Len(l) : l[k] \in FragmentType
  <2> HIDE DEF l
  <2> QED
    BY <1>1
<1>4. \A k \in 1 .. Len(l) : l[k].va \in Nat /\ l[k].size \in Nat
  <2> HIDE DEF l
  <2> QED
    BY <1>3 DEF FragmentType
<1> QED
  BY <1>2, <1>4 DEF ListOK, ToSet

(* The fragments of a list do not overlap.                                 *)
LEMMA FragmentsApart ==
  ASSUME NEW r, ListOK(r), NEW i \in 1 .. Len(r.list), NEW j \in 1 .. Len(r.list), i < j
  PROVE  r.list[i].va + r.list[i].size <= r.list[j].va
<1> DEFINE l == r.list
           N == Len(l)
           S == {k \in Nat : i + 1 + k <= N => l[i].va + l[i].size <= l[i + 1 + k].va}
<1>1. /\ N \in Nat /\ \A k \in 1 .. N : l[k].va \in Nat /\ l[k].size \in Nat
      /\ \A k \in 1 .. N - 1 : l[k + 1].va = l[k].va + l[k].size
  BY ListFacts
<1> HIDE DEF l, N
<1>2. 0 \in S
  <2> SUFFICES ASSUME i + 1 <= N PROVE l[i].va + l[i].size <= l[i + 1].va
    OBVIOUS
  <2>1. i \in 1 .. N - 1 /\ i \in 1 .. N /\ i + 1 \in 1 .. N
    BY <1>1 DEF N, l
  <2>2. l[i + 1].va = l[i].va + l[i].size /\ l[i + 1].va \in Nat
    BY <1>1, <2>1
  <2> QED
    BY <2>2
<1>3. ASSUME NEW k \in Nat, k \in S PROVE k + 1 \in S
  <2> DEFINE p == i + 1 + k
  <2> SUFFICES ASSUME i + 1 + (k + 1) <= N
               PROVE  l[i].va + l[i].size <= l[i + 1 + (k + 1)].va
    OBVIOUS
  <2>1. /\ i \in 1 .. N /\ p \in 1 .. N /\ p \in 1 .. N - 1 /\ p + 1 \in 1 .. N /\ p <= N
        /\ i + 1 + (k + 1) = p + 1
    BY <1>1 DEF N, l
  <2>2. l[i].va + l[i].size <= l[p].va
    BY <1>3, <2>1
  <2> HIDE DEF p
  <2>3. /\ l[i].va \in Nat /\ l[i].size \in Nat /\ l[p].va \in Nat /\ l[p].size \in Nat
        /\ l[p + 1].va = l[p].va + l[p].size
    BY <1>1, <2>1
  <2> DEFINE e == l[i].va + l[i].size
             b == l[p].va
             s == l[p].size
  <2>4. e \in Nat /\ b \in Nat /\ s \in Nat /\ e <= b /\ l[p + 1].va = b + s
    BY <2>2, <2>3
  <2> HIDE DEF e, b, s
  <2>5. e <= l[p + 1].va
    BY <2>4
  <2> QED
    BY <2>1, <2>5 DEF e
<1>4. Nat \subseteq S
  <2> HIDE DEF S
  <2> QED
    BY <1>2, <1>3, Induction
<1>5. j - (i + 1) \in Nat /\ i + 1 + (j - (i + 1)) = j /\ j <= N
  BY <1>1 DEF N, l
<1>6. j - (i + 1) \in S
  BY <1>4, <1>5
<1>7. l[i].va + l[i].size <= l[j].va
  BY <1>5, <1>6
<1> QED
  BY <1>7 DEF l

(* So an address is in one of them.                                        *)
LEMMA OneFragment ==
  ASSUME req \in Requests, ~req.physical, NEW i \in 1 .. Len(req.list), NEW a \in Nat,
         a \in Cells(req.list[i].va, req.list[i].size)
  PROVE  HomeOf(a) = req.list[i]
<1> DEFINE l == req.list
<1>1. ListOK(req)
  BY RequestIs
<1>2. /\ Len(l) \in Nat /\ ToSet(l) = {l[k] : k \in 1 .. Len(l)}
      /\ \A k \in 1 .. Len(l) : l[k].va \in Nat /\ l[k].size \in Nat
  BY <1>1, ListFacts
<1>3. ASSUME NEW k \in 1 .. Len(l), a \in Cells(l[k].va, l[k].size) PROVE k = i
  <2>1. /\ l[k].va <= a /\ a < l[k].va + l[k].size
        /\ l[i].va <= a /\ a < l[i].va + l[i].size
        /\ i \in Nat /\ k \in Nat
    <3>1. a \in Cells(l[i].va, l[i].size) /\ a \in Cells(l[k].va, l[k].size)
      BY <1>3
    <3>2. /\ l[i].va \in Nat /\ l[i].size \in Nat /\ l[k].va \in Nat /\ l[k].size \in Nat
          /\ i \in Nat /\ k \in Nat
      BY <1>2
    <3> HIDE DEF l
    <3>3. \A v, n \in Nat : a \in Cells(v, n) => v <= a /\ a < v + n
      BY DEF Cells
    <3> QED
      BY <3>1, <3>2, <3>3
  <2>2. ~(k < i)
    <3> SUFFICES ASSUME k < i PROVE FALSE
      OBVIOUS
    <3>1. l[k].va + l[k].size <= l[i].va
      BY <1>1, FragmentsApart
    <3>2. l[i].va \in Nat /\ l[i].size \in Nat /\ l[k].va \in Nat /\ l[k].size \in Nat
      BY <1>2
    <3> HIDE DEF l
    <3> QED
      BY <2>1, <3>1, <3>2
  <2>3. ~(i < k)
    <3> SUFFICES ASSUME i < k PROVE FALSE
      OBVIOUS
    <3>1. l[i].va + l[i].size <= l[k].va
      BY <1>1, FragmentsApart
    <3>2. l[i].va \in Nat /\ l[i].size \in Nat /\ l[k].va \in Nat /\ l[k].size \in Nat
      BY <1>2
    <3> HIDE DEF l
    <3> QED
      BY <2>1, <3>1, <3>2
  <2> QED
    BY <2>2, <2>3
<1>4. \A f \in ToSet(l) : a \in Cells(f.va, f.size) => f = l[i]
  BY <1>2, <1>3
<1>5. l[i] \in ToSet(l) /\ a \in Cells(l[i].va, l[i].size)
  BY <1>2
<1> QED
  BY <1>4, <1>5 DEF HomeOf

-----------------------------------------------------------------------------
(* What the loop over the buffer is at                                     *)
LEMMA CopyFacts ==
  ASSUME ReadTypes, LineInv, line = "copy"
  PROVE  /\ todo \in Nat /\ phys.addr \in Nat /\ phys.addr + todo <= Modulus
         /\ Len(out) \in Nat /\ Len(out) + todo <= req.size /\ req.size \in Nat
         /\ phys.region \in Regions
         /\ Chunk \in Nat /\ Chunk <= todo /\ Chunk <= BufSize
         /\ todo > 0 => Chunk > 0
<1>1. /\ req \in Requests /\ req.size \in Nat /\ req.addr \in Nat
      /\ todo \in Nat /\ phys.addr \in Nat /\ phys.region \in Regions
      /\ Len(out) \in Nat /\ virt \in Nat /\ left \in 0 .. req.size /\ left \in Nat
      /\ req.physical => req.addr + req.size <= Modulus
  BY RequestIs, LenProperties DEF ReadTypes
<1>2. BufSize \in Nat /\ BufSize > 0
  BY ReadMemAssumption, MemTransferAssumption
<1>3. Chunk \in Nat /\ Chunk <= todo /\ Chunk <= BufSize /\ (todo > 0 => Chunk > 0)
  BY <1>1, <1>2 DEF Chunk
<1>4. Copying
  BY DEF LineInv
<1> DEFINE a == phys.addr
           k == Len(out)
           z == req.size
<1>5. a + todo <= Modulus /\ k + todo <= z
  <2>1. CASE req.physical
    <3>1. a + todo = req.addr + z /\ k + todo = z
      BY <1>4, <2>1 DEF Copying
    <3> QED
      BY <1>1, <2>1, <3>1
  <2>2. CASE ~req.physical
    <3> DEFINE c == CurrentSize
               p == PhysOf.addr
               e == Fragment.pa + Fragment.size
    <3>1. Walking /\ MoreToRead /\ a + todo = p + c /\ k + todo + left = z + c
      BY <1>4, <2>2 DEF Copying
    <3>2. c \in 1 .. left /\ p \in Nat /\ p + c <= e /\ e <= Modulus /\ e \in Nat
      <4>1. /\ Fragment \in FragmentType /\ c \in 1 .. left /\ p \in Nat
            /\ p + c <= Fragment.pa + Fragment.size
            /\ Fragment.pa + Fragment.size <= Modulus
        BY <1>1, <3>1, InFragment
      <4> HIDE DEF c, p
      <4>2. Fragment.pa \in Nat /\ Fragment.size \in Nat
        BY <4>1 DEF FragmentType
      <4>3. e \in Nat
        BY <4>2
      <4> QED
        BY <4>1, <4>3
    <3>3. Modulus \in Nat /\ a \in Nat /\ k \in Nat /\ z \in Nat
      BY <1>1, ModulusAssumption
    <3> HIDE DEF c, p, e, a, k, z
    <3> QED
      BY <1>1, <3>1, <3>2, <3>3
  <2> QED
    BY <2>1, <2>2
<1> QED
  BY <1>1, <1>3, <1>5

(* What read_phys_addr asks for is a call that the library takes.          *)
ChunkCall == [h |-> Part, region |-> phys.region, op |-> "read",
              addr |-> phys.addr, count |-> Chunk]

LEMMA ChunkIsCall ==
  ASSUME ReadTypes, LineInv, line = "copy", todo > 0 PROVE ChunkCall \in Calls
<1>1. /\ phys.addr \in Nat /\ phys.addr + todo <= Modulus /\ phys.region \in Regions
      /\ Chunk \in Nat /\ Chunk <= BufSize /\ Chunk > 0 /\ todo \in Nat
  BY CopyFacts
<1>2. /\ Part \in Handles /\ BufSize \in 1 .. MaxCount /\ MaxCount \in Nat /\ Modulus \in Nat
      /\ "read" \in Ops
  BY ReadMemAssumption, MemTransferAssumption, ModulusAssumption DEF Ops
<1>3. phys.addr \in 0 .. Modulus - 1 /\ Chunk \in 1 .. MaxCount
  <2> DEFINE a == phys.addr
             c == Chunk
  <2>1. a \in Nat /\ a + todo <= Modulus /\ c \in Nat /\ c <= BufSize /\ c > 0
    BY <1>1
  <2>3. todo \in Nat /\ todo > 0
    BY <1>1
  <2> HIDE DEF a, c
  <2>2. a \in 0 .. Modulus - 1 /\ c \in 1 .. MaxCount
    BY <1>2, <2>1, <2>3
  <2> QED
    BY <2>2 DEF a, c
<1> QED
  BY <1>1, <1>2, <1>3 DEF ChunkCall, Calls

(* Every step of ReadMem is one of a process whose threads make any calls. *)
LEMMA ReadStepIsMemStep ==
  ASSUME ReadInv, [ReadNext]_readvars PROVE [MemNext]_memvars
<1>1. CASE UNCHANGED readvars
  BY <1>1 DEF readvars
<1>2. ASSUME NEW t \in Threads, Alive, AnyCall(t) PROVE MemNext
  BY <1>2, ReadMemAssumption DEF AnyCall, MemNext
<1>3. ASSUME NEW t \in Threads, Alive, AnyAnswer(t) \/ Kernel(t) PROVE MemNext
  BY <1>3 DEF AnyAnswer, Kernel, MemNext
<1>4. ASSUME Alive, Tool PROVE [MemNext]_memvars
  <2>1. CASE ReadPhysical \/ CreateXlator \/ Translate \/ NextFragment \/ WalkEnds \/ Copied
    BY <2>1 DEF ReadPhysical, CreateXlator, Translate, NextFragment, WalkEnds, Copied, Same
  <2>2. CASE ReadChunk
    <3>1. ChunkCall \in Calls
      BY <2>2, ChunkIsCall DEF ReadInv, ToolInv, ReadChunk, At
    <3> QED
      BY <1>4, <2>2, <3>1, ReadMemAssumption DEF ReadChunk, ChunkCall, MemNext
  <2>3. CASE PrintChunk \/ ReadFailed
    BY <1>4, <2>3, ReadMemAssumption DEF PrintChunk, ReadFailed, MemNext
  <2> QED
    BY <1>4, <2>1, <2>2, <2>3 DEF Tool
<1> QED
  BY <1>1, <1>2, <1>3, <1>4 DEF ReadNext

LEMMA SizeStays == ASSUME [MemNext]_memvars PROVE size' = size
BY DEF MemNext, memvars, FileStep, Seek, Transfer, Answered, Call

(* What was printed stays printed.                                         *)
LEMMA OutStays ==
  ASSUME OutInv, size' = size, req' = req, out' = out PROVE OutInv'
<1>1. \A h, region, a : CellsAt(h, region, a)' = CellsAt(h, region, a)
  BY DEF CellsAt
<1>2. /\ \A f : CellsOf(f)' = CellsOf(f)
      /\ \A a : Source(a)' = Source(a)
      /\ Exact' = Exact
  BY <1>1 DEF CellsOf, Source, HomeOf, Exact
<1> QED
  BY <1>2 DEF OutInv

(* The kernel, and another program, change nothing that the command keeps. *)
LEMMA SameTool ==
  ASSUME req' = req, UNCHANGED toolvars
  PROVE  /\ Walking' <=> Walking
         /\ Copying' <=> Copying
         /\ Exact' <=> Exact
         /\ Chunk' = Chunk
BY DEF toolvars, Walking, Copying, Exact, Chunk, Fragment, MoreToRead, CurrentSize, LowerBits,
       PhysOf

(* PrintChunk prints what it asked for, from where the command is.         *)
LEMMA PrintFacts ==
  ASSUME ReadInv, tool, line = "copy", pc[Main] = "answered", got[Main] >= 0
  PROVE  /\ got[Main] \in Nat /\ got[Main] <= todo
         /\ Taken \in Seq(AllCells) /\ Len(Taken) = got[Main]
         /\ \A n \in 1 .. got[Main] :
              /\ ~req.physical =>
                   \E f \in ToSet(req.list) : f.valid /\ Taken[n] \in CellsOf(f)
              /\ Exact => Source(req.addr + (Len(out) + n) - 1) = {Taken[n]}
<1> DEFINE g == got[Main]
           k == Len(out)
           p == phys.addr
<1>1. /\ ReadTypes /\ LineInv /\ Main \in Threads /\ Answers(Main) /\ alone[Main]
      /\ TypeInv
  BY ReadMemAssumption DEF ReadInv, ToolInv, OneThread, MemInv
<1>2. call[Main] = ChunkCall /\ todo > 0
  BY DEF ReadInv, ToolInv, OneThread, Asking, ChunkCall
<1>3. /\ todo \in Nat /\ p \in Nat /\ k \in Nat /\ Chunk \in Nat /\ Chunk <= todo
      /\ req.size \in Nat /\ req.addr \in Nat /\ virt \in Nat /\ left \in 0 .. req.size
      /\ left \in Nat /\ req \in Requests
  BY <1>1, CopyFacts, RequestIs DEF ReadTypes
<1>4. g \in Nat /\ g <= todo
  <2>1. g \in -1 .. MaxCount /\ MaxCount \in Nat
    BY <1>1, MemTransferAssumption DEF TypeInv
  <2>2. g <= Chunk
    BY <1>1, <1>2 DEF Answers, ChunkCall
  <2>3. g >= 0
    OBVIOUS
  <2> HIDE DEF g
  <2> QED
    BY <1>3, <2>1, <2>2, <2>3
<1>5. \A j \in 0 .. g - 1 :
        CellsAt(Part, phys.region, p + j) = {<<Memory(Main), at[Main] + j>>}
  BY <1>1, <1>2 DEF Answers, ChunkCall
<1>6. /\ at[Main] \in Nat /\ Memory(Main) \in Gpus \union {System}
  BY <1>1, MemTransferAssumption DEF TypeInv, Memory
<1>7. Taken = [i \in 1 .. g |-> <<Memory(Main), at[Main] + i - 1>>]
  BY DEF Taken
<1> HIDE DEF g, k, p
<1>8. Taken \in Seq(AllCells) /\ Len(Taken) = g
  <2>1. \A i \in 1 .. g : <<Memory(Main), at[Main] + i - 1>> \in AllCells
    BY <1>4, <1>6 DEF AllCells
  <2>2. Taken \in [1 .. g -> AllCells]
    BY <1>7, <2>1
  <2> QED
    BY <1>4, <2>2
<1>9. ASSUME NEW n \in 1 .. g
      PROVE  /\ ~req.physical =>
                  \E f \in ToSet(req.list) : f.valid /\ Taken[n] \in CellsOf(f)
             /\ Exact => Source(req.addr + (k + n) - 1) = {Taken[n]}
  <2> DEFINE a == req.addr + (k + n) - 1
  <2>1. n \in Nat /\ n >= 1 /\ n <= g /\ n - 1 \in 0 .. g - 1
    BY <1>4
  <2>2. CellsAt(Part, phys.region, p + (n - 1)) = {Taken[n]}
    <3>1. at[Main] + n - 1 = at[Main] + (n - 1)
      BY <1>6, <2>1
    <3>2. CellsAt(Part, phys.region, p + (n - 1)) = {<<Memory(Main), at[Main] + (n - 1)>>}
      BY <1>5, <2>1
    <3> QED
      BY <1>7, <3>1, <3>2
  <2>3. Copying
    BY <1>1 DEF LineInv
  <2>4. CASE req.physical
    <3>1. phys.region = req.region /\ p + todo = req.addr + req.size /\ k + todo = req.size
      BY <2>3, <2>4 DEF Copying, p, k
    <3>2. a = p + (n - 1)
      BY <1>3, <2>1, <3>1
    <3>3. Source(a) = CellsAt(Part, req.region, a)
      BY <2>4 DEF Source
    <3> QED
      BY <2>2, <2>4, <3>1, <3>2, <3>3
  <2>5. CASE ~req.physical
    <3> DEFINE va == Fragment.va
               pa == Fragment.pa
               s  == Fragment.size
               c  == CurrentSize
               b  == PhysOf.addr
               low == LowerBits
    <3>1. /\ Walking /\ MoreToRead /\ Fragment.valid
          /\ phys.region = Fragment.region
          /\ todo <= c /\ p + todo = b + c /\ k + todo + left = req.size + c
      BY <2>3, <2>5 DEF Copying, p, k
    <3>2. virt + left = req.addr + req.size
      BY <3>1 DEF Walking
    <3>3. /\ current \in 1 .. Len(req.list) /\ Fragment \in ToSet(req.list)
          /\ Fragment \in FragmentType
          /\ c \in 1 .. left /\ b \in Nat /\ pa <= b /\ b + c <= pa + s
          /\ low \in Nat /\ low < s
          /\ Exact => low = virt - va /\ b = pa + (virt - va)
      BY <1>3, <3>1, InFragment
    <3>4. va \in Nat /\ pa \in Nat /\ s \in Nat
      BY <3>3 DEF FragmentType
    <3>5. CellsOf(Fragment) = UNION {CellsAt(Part, Fragment.region, x) : x \in Cells(pa, s)}
      BY DEF CellsOf
    <3> HIDE DEF va, pa, s, c, b, low
    <3>6. p + (n - 1) \in Cells(pa, s)
      <4>1. pa <= p + (n - 1) /\ p + (n - 1) < pa + s /\ p + (n - 1) \in Nat
        BY <1>3, <1>4, <2>1, <3>1, <3>3, <3>4
      <4> QED
        BY <3>4, <4>1 DEF Cells
    <3>7. Taken[n] \in CellsOf(Fragment)
      BY <2>2, <3>1, <3>5, <3>6
    <3>8. ASSUME Exact PROVE Source(a) = {Taken[n]}
      <4>1. /\ low = virt - va /\ b = pa + (virt - va)
        BY <3>3, <3>8
      <4>2. a \in Nat /\ va <= a /\ a < va + s /\ pa + (a - va) = p + (n - 1)
        <5> DEFINE z == req.size
                   w == req.addr
        <5>1. c \in Nat /\ z \in Nat /\ w \in Nat /\ virt + left = w + z
          BY <1>3, <3>2, <3>3
        <5>2. k + todo + left = z + c /\ p + todo = b + c /\ todo <= c /\ a = w + (k + n) - 1
          BY <3>1
        <5> HIDE DEF a, z, w
        <5>3. a = virt + (c - todo) + (n - 1) /\ p = b + (c - todo)
          BY <1>3, <2>1, <3>3, <5>1, <5>2
        <5>4. c - todo \in Nat /\ (c - todo) + n <= c
          BY <1>3, <1>4, <2>1, <5>1, <5>2
        <5>5. va <= virt
          BY <1>3, <3>3, <3>4, <4>1
        <5> QED
          BY <1>3, <2>1, <3>3, <3>4, <4>1, <5>1, <5>3, <5>4, <5>5
      <4> HIDE DEF a
      <4>3. a \in Cells(va, s)
        BY <3>4, <4>2 DEF Cells
      <4>4. HomeOf(a) = Fragment
        <5>1. Fragment = req.list[current]
          BY DEF Fragment
        <5> QED
          BY <1>3, <2>5, <3>3, <4>2, <4>3, <5>1, OneFragment DEF va, s
      <4>5. Source(a) = CellsAt(Part, Fragment.region, pa + (a - va))
        BY <2>5, <4>4 DEF Source, pa, va
      <4> QED
        BY <2>2, <3>1, <4>2, <4>5
    <3> QED
      BY <2>5, <3>1, <3>3, <3>7, <3>8
  <2> QED
    BY <2>4, <2>5
<1> QED
  BY <1>4, <1>8, <1>9 DEF g, k

-----------------------------------------------------------------------------
LEMMA ReadInitInv == ReadInit => ReadInv
<1> SUFFICES ASSUME ReadInit PROVE ReadInv
  OBVIOUS
<1>1. /\ MemInit /\ tool \in BOOLEAN /\ line = "start" /\ ret = "none" /\ current = 0
      /\ virt = req.addr /\ left = req.size /\ phys = NoPhys /\ todo = 0 /\ out = << >>
  BY DEF ReadInit
<1>2. req \in Requests
  <2>1. \E r \in Requests : TRUE
    BY ReadMemAssumption
  <2> QED
    BY <2>1 DEF ReadInit
<1>3. MemInv
  BY <1>1, MemInitInv
<1>4. \A t \in Threads : pc[t] = "idle" /\ alone[t]
  BY <1>1 DEF MemInit
<1>5. req.addr \in Nat /\ req.size \in Nat
  BY <1>2, RequestIs
<1>6. ReadTypes
  BY <1>1, <1>2, <1>5 DEF ReadTypes, NoPhys, Regions
<1>7. LineInv /\ OutInv
  BY <1>1 DEF LineInv, OutInv
<1>8. OneThread
  BY <1>1, <1>4, ReadMemAssumption DEF OneThread
<1>9. \A t \in Threads : Answers(t)
  BY <1>4 DEF Answers
<1> QED
  BY <1>3, <1>6, <1>7, <1>8, <1>9 DEF ReadInv, ToolInv

(* A step of the command between two calls                                 *)
LEMMA Quiet ==
  ASSUME ReadInv, tool, Same, out' = out, pc[Main] = "idle", ReadTypes', LineInv'
  PROVE  ToolInv'
<1>1. /\ size' = size /\ req' = req /\ tool' = tool /\ pc' = pc /\ alone' = alone
  BY DEF Same, memvars
<1>2. OutInv'
  BY <1>1, OutStays DEF ReadInv, ToolInv
<1>3. OneThread'
  BY <1>1 DEF ReadInv, ToolInv, OneThread
<1> QED
  BY <1>2, <1>3 DEF ToolInv

LEMMA ReadPhysicalInv == ASSUME ReadInv, ReadPhysical PROVE ToolInv'
<1>1. /\ tool /\ line = "start" /\ req.physical /\ Same /\ ReadTypes /\ LineInv
      /\ line' = "copy" /\ phys' = [region |-> req.region, addr |-> req.addr]
      /\ todo' = req.size /\ UNCHANGED <<current, virt, left, out, ret>>
      /\ req' = req /\ tool' = tool
  BY DEF ReadPhysical, At, Same, ReadInv, ToolInv
<1>2. pc[Main] = "idle"
  BY <1>1 DEF ReadInv, ToolInv, OneThread
<1>3. req.addr \in Nat /\ req.size \in Nat /\ req.region \in Regions
  BY <1>1, RequestIs DEF ReadTypes
<1>4. ReadTypes'
  BY <1>1, <1>3 DEF ReadTypes
<1>5. out = << >> /\ ret = "none"
  BY <1>1 DEF LineInv
<1>6. Copying'
  BY <1>1, <1>3, <1>5 DEF Copying
<1>7. LineInv'
  BY <1>1, <1>5, <1>6 DEF LineInv
<1> QED
  BY <1>1, <1>2, <1>4, <1>7, Quiet

LEMMA CreateXlatorInv == ASSUME ReadInv, CreateXlator PROVE ToolInv'
<1>1. /\ tool /\ line = "start" /\ ~req.physical /\ Same /\ ReadTypes /\ LineInv
      /\ \/ line' = "translate" /\ ret' = ret
         \/ line' = "ended" /\ ret' = "-1"
      /\ UNCHANGED <<current, virt, left, phys, todo, out>>
      /\ req' = req /\ tool' = tool
  BY DEF CreateXlator, At, End, Same, ReadInv, ToolInv
<1>2. pc[Main] = "idle"
  BY <1>1 DEF ReadInv, ToolInv, OneThread
<1>3. ReadTypes'
  BY <1>1 DEF ReadTypes
<1>4. out = << >> /\ virt = req.addr /\ left = req.size /\ ret = "none"
  BY <1>1 DEF LineInv
<1>5. Len(out) <= req.size
  BY <1>1, <1>4, RequestIs DEF ReadTypes
<1>6. LineInv'
  BY <1>1, <1>4, <1>5 DEF LineInv
<1> QED
  BY <1>1, <1>2, <1>3, <1>6, Quiet

LEMMA TranslateInv == ASSUME ReadInv, Translate PROVE ToolInv'
<1>1. /\ tool /\ line = "translate" /\ Same /\ ReadTypes /\ LineInv
      /\ \/ line' = "walk" /\ ret' = ret /\ current' = 1
         \/ line' = "ended" /\ ret' = "-1" /\ current' = current
      /\ UNCHANGED <<virt, left, phys, todo, out>>
      /\ req' = req /\ tool' = tool
  BY DEF Translate, At, End, Same, ReadInv, ToolInv
<1>2. pc[Main] = "idle"
  BY <1>1 DEF ReadInv, ToolInv, OneThread
<1>3. ReadTypes'
  BY <1>1 DEF ReadTypes
<1>4. /\ out = << >> /\ virt = req.addr /\ left = req.size /\ ret = "none" /\ ~req.physical
  BY <1>1 DEF LineInv
<1>5. Len(out) = 0 /\ req.size \in Nat /\ req.addr \in Nat /\ ListOK(req)
  BY <1>1, <1>4, RequestIs DEF ReadTypes
<1>6. CASE line' = "ended"
  <2>1. LineInv'
    BY <1>1, <1>4, <1>5, <1>6 DEF LineInv
  <2> QED
    BY <1>1, <1>2, <1>3, <2>1, Quiet
<1>7. CASE line' = "walk"
  <2> DEFINE f == req.list[1]
  <2>1. /\ Len(req.list) \in Nat /\ Len(req.list) > 0 /\ f.va \in Nat /\ f.size \in Nat
        /\ f.va <= req.addr /\ req.addr < f.va + f.size
    <3>1. Len(req.list) \in Nat /\ Len(req.list) > 0
      BY <1>5, ListFacts DEF ListOK
    <3>2. 1 \in 1 .. Len(req.list)
      BY <3>1
    <3>3. f.va \in Nat /\ f.size \in Nat
      BY <1>5, <3>2, ListFacts
    <3> QED
      BY <1>5, <3>1, <3>3 DEF ListOK
  <2>2. req.addr \in Cells(f.va, f.size)
    BY <1>5, <2>1 DEF Cells
  <2>3. current' = 1 /\ Fragment' = f
    BY <1>1, <1>7 DEF Fragment
  <2>4. current' \in 1 .. Len(req.list) + 1 /\ current' <= Len(req.list)
    BY <2>1, <2>3
  <2>5. virt' + left' = req.addr + req.size /\ virt' = req.addr /\ left' = req.size
    BY <1>1, <1>4
  <2>6. Walking'
    BY <1>1, <1>4, <2>2, <2>3, <2>4, <2>5 DEF Walking
  <2>7. Len(out) + left = req.size
    BY <1>4, <1>5
  <2>8. LineInv'
    BY <1>1, <1>4, <1>7, <2>6, <2>7 DEF LineInv
  <2> QED
    BY <1>1, <1>2, <1>3, <2>8, Quiet
<1> QED
  BY <1>1, <1>6, <1>7

LEMMA NextFragmentInv == ASSUME ReadInv, NextFragment PROVE ToolInv'
<1>1. /\ tool /\ line = "walk" /\ MoreToRead /\ Same /\ ReadTypes /\ LineInv
      /\ IF Fragment.valid
         THEN line' = "copy" /\ ret' = ret /\ phys' = PhysOf /\ todo' = CurrentSize
         ELSE line' = "ended" /\ ret' = "-1" /\ UNCHANGED <<phys, todo>>
      /\ current' = current /\ virt' = virt /\ left' = left /\ out' = out
      /\ req' = req /\ tool' = tool
  BY DEF NextFragment, At, End, Same, ReadInv, ToolInv
<1>2. pc[Main] = "idle"
  BY <1>1 DEF ReadInv, ToolInv, OneThread
<1>3. Walking /\ Len(out) + left = req.size /\ ret = "none" /\ ~req.physical
  BY <1>1 DEF LineInv, Walking
<1>4. /\ req \in Requests /\ req.size \in Nat /\ Len(out) \in Nat
      /\ left \in 0 .. req.size /\ left \in Nat /\ virt \in Nat
  BY <1>1, RequestIs, LenProperties DEF ReadTypes
<1>5. CASE ~Fragment.valid
  <2>1. ReadTypes'
    BY <1>1, <1>5 DEF ReadTypes
  <2>2. Len(out) <= req.size
    BY <1>3, <1>4
  <2>3. LineInv'
    BY <1>1, <1>5, <2>2 DEF LineInv
  <2> QED
    BY <1>1, <1>2, <2>1, <2>3, Quiet
<1>6. CASE Fragment.valid
  <2>1. /\ CurrentSize \in 1 .. left /\ PhysOf.addr \in Nat
        /\ PhysOf.region = Fragment.region /\ Fragment \in FragmentType
    BY <1>1, <1>3, <1>4, InFragment
  <2>2. Fragment.region \in Regions
    BY <2>1 DEF FragmentType, Regions
  <2>3. PhysOf = [region |-> Fragment.region, addr |-> PhysOf.addr]
    BY DEF PhysOf
  <2>4. CurrentSize \in 0 .. req.size /\ CurrentSize \in Nat
    BY <1>4, <2>1
  <2>5. phys' = PhysOf /\ todo' = CurrentSize /\ line' = "copy" /\ ret' = ret
    BY <1>1, <1>6
  <2>6. ReadTypes'
    BY <1>1, <2>1, <2>2, <2>3, <2>4, <2>5 DEF ReadTypes
  <2>7. /\ Fragment' = Fragment /\ CurrentSize' = CurrentSize /\ PhysOf' = PhysOf
        /\ MoreToRead' = MoreToRead /\ Walking' = Walking
    BY <1>1 DEF Fragment, CurrentSize, PhysOf, LowerBits, MoreToRead, Walking, Exact
  <2>8. Copying'
    <3> DEFINE c == CurrentSize
               p == PhysOf.addr
               k == Len(out)
    <3>1. phys'.addr = p /\ todo' = c /\ k + left = req.size /\ c \in Nat
      BY <1>3, <2>4, <2>5
    <3> HIDE DEF c, p, k
    <3>2. todo' <= c /\ phys'.addr + todo' = p + c /\ k + todo' + left = req.size + c
      <4>1. k \in Nat /\ left \in Nat
        BY <1>4 DEF k
      <4> QED
        BY <3>1, <4>1
    <3> QED
      BY <1>1, <1>3, <1>6, <2>1, <2>5, <2>7, <3>2 DEF Copying, c, p, k
  <2>9. LineInv'
    BY <1>1, <1>3, <2>5, <2>8 DEF LineInv
  <2> QED
    BY <1>1, <1>2, <2>6, <2>9, Quiet
<1> QED
  BY <1>5, <1>6

LEMMA WalkEndsInv == ASSUME ReadInv, WalkEnds PROVE ToolInv'
<1>1. /\ tool /\ line = "walk" /\ ~MoreToRead /\ Same /\ ReadTypes /\ LineInv
      /\ line' = "ended" /\ ret' = "0"
      /\ UNCHANGED <<current, virt, left, phys, todo, out>>
      /\ req' = req /\ tool' = tool
  BY DEF WalkEnds, At, End, Same, ReadInv, ToolInv
<1>2. pc[Main] = "idle"
  BY <1>1 DEF ReadInv, ToolInv, OneThread
<1>3. Walking /\ Len(out) + left = req.size
  BY <1>1 DEF LineInv
<1>4. req.size \in Nat /\ Len(out) \in Nat /\ left \in Nat
  BY <1>1, RequestIs, LenProperties DEF ReadTypes
<1>5. Len(out) <= req.size
  BY <1>3, <1>4
<1>6. Exact => Len(out) = req.size
  <2>1. Exact => left = 0
    BY <1>1, <1>3, <1>4 DEF Walking, MoreToRead
  <2> QED
    BY <1>3, <1>4, <2>1
<1>7. ReadTypes'
  BY <1>1 DEF ReadTypes
<1>8. Exact' = Exact
  BY <1>1 DEF Exact
<1>9. LineInv'
  BY <1>1, <1>5, <1>6, <1>8 DEF LineInv
<1> QED
  BY <1>1, <1>2, <1>7, <1>9, Quiet

LEMMA CopiedInv == ASSUME ReadInv, Copied PROVE ToolInv'
<1>1. /\ tool /\ line = "copy" /\ todo = 0 /\ pc[Main] = "idle" /\ Same
      /\ ReadTypes /\ LineInv
      /\ IF req.physical
         THEN line' = "ended" /\ ret' = "0" /\ UNCHANGED <<current, virt, left>>
         ELSE /\ line' = "walk" /\ ret' = ret /\ left' = left - CurrentSize
              /\ virt' = virt + CurrentSize /\ current' = current + 1
      /\ phys' = phys /\ todo' = todo /\ out' = out
      /\ req' = req /\ tool' = tool
  BY DEF Copied, At, End, Same, ReadInv, ToolInv
<1>2. Copying /\ ret = "none"
  BY <1>1 DEF LineInv
<1>3. /\ req \in Requests /\ req.size \in Nat /\ req.addr \in Nat /\ Len(out) \in Nat
      /\ left \in 0 .. req.size /\ left \in Nat /\ virt \in Nat /\ phys.addr \in Nat
      /\ current \in Nat
  BY <1>1, RequestIs, LenProperties DEF ReadTypes
<1>4. CASE req.physical
  <2>1. Len(out) = req.size
    BY <1>1, <1>2, <1>3, <1>4 DEF Copying
  <2>2. ReadTypes'
    BY <1>1, <1>4 DEF ReadTypes
  <2>3. Len(out) <= req.size
    BY <1>3, <2>1
  <2>4. LineInv'
    BY <1>1, <1>4, <2>1, <2>3 DEF LineInv
  <2> QED
    BY <1>1, <2>2, <2>4, Quiet
<1>5. CASE ~req.physical
  <2> DEFINE c   == CurrentSize
             p   == PhysOf.addr
             k   == Len(out)
             l   == req.list
             va  == Fragment.va
             n   == Fragment.size
             low == LowerBits
             z   == req.size
             w   == req.addr
  <2>1. /\ Walking /\ MoreToRead /\ k + todo + left = z + c
        /\ line' = "walk" /\ ret' = ret /\ left' = left - c /\ virt' = virt + c
        /\ current' = current + 1
    BY <1>1, <1>2, <1>5 DEF Copying
  <2>2. /\ current \in 1 .. Len(l) /\ c \in 1 .. left /\ low \in Nat /\ low < n
        /\ c = IF n - low < left THEN n - low ELSE left
        /\ Exact => low = virt - va
        /\ Fragment \in FragmentType
    BY <1>3, <2>1, InFragment
  <2>3. va \in Nat /\ n \in Nat
    BY <2>2 DEF FragmentType
  <2>4. virt + left = w + z
    BY <2>1 DEF Walking
  <2>5. ListOK(req) /\ Fragment = l[current]
    BY <1>3, <1>5, RequestIs DEF Fragment
  <2>6. /\ Len(l) \in Nat
        /\ \A i \in 1 .. Len(l) : l[i].va \in Nat /\ l[i].size \in Nat
        /\ \A i \in 1 .. Len(l) - 1 : l[i + 1].va = l[i].va + l[i].size
        /\ w + z <= l[Len(l)].va + l[Len(l)].size
    BY <2>5, ListFacts DEF ListOK
  <2>7. z \in Nat /\ w \in Nat /\ k \in Nat
    BY <1>3
  <2>8. va = l[current].va /\ n = l[current].size
    BY <2>5
  <2> HIDE DEF c, p, k, l, va, n, low, z, w
  <2>9. /\ left' \in 0 .. z /\ left' \in Nat /\ virt' \in Nat /\ current' \in Nat
        /\ current' \in 1 .. Len(l) + 1
        /\ virt' + left' = w + z /\ k + left' = z
    <3>1. c \in Nat /\ c <= left /\ left \in Nat /\ virt \in Nat /\ todo = 0
      BY <1>1, <1>3, <2>2
    <3>2. left' = left - c /\ virt' = virt + c /\ k + left = z + c
      <4>1. k + todo + left = z + c
        BY <2>1
      <4> QED
        BY <2>1, <2>7, <3>1, <4>1
    <3>3. /\ left' \in 0 .. z /\ left' \in Nat /\ virt' \in Nat
          /\ virt' + left' = w + z /\ k + left' = z
      BY <2>4, <2>7, <3>1, <3>2
    <3>4. current' \in Nat /\ current' \in 1 .. Len(l) + 1
      BY <2>1, <2>2, <2>6
    <3> QED
      BY <3>3, <3>4
  <2>10. ASSUME Exact, left' > 0
         PROVE  current' <= Len(l) /\ virt' \in Cells(l[current'].va, l[current'].size)
    <3>1. c = n - low /\ low = virt - va
      BY <1>3, <2>1, <2>2, <2>3, <2>10
    <3>2. virt' = va + n
      BY <1>3, <2>1, <2>2, <2>3, <3>1
    <3>3. current # Len(l)
      <4> SUFFICES ASSUME current = Len(l) PROVE FALSE
        OBVIOUS
      <4>1. w + z <= va + n
        BY <2>6, <2>8
      <4>2. virt' + left' = w + z /\ left' > 0 /\ left' \in Nat /\ virt' \in Nat
        BY <2>9, <2>10
      <4> DEFINE v == virt'
                 x == left'
      <4>3. v = va + n /\ v + x = w + z /\ x > 0 /\ x \in Nat /\ v \in Nat
        BY <3>2, <4>2
      <4> HIDE DEF v, x
      <4> QED
        BY <2>3, <2>7, <4>1, <4>3
    <3>4. current \in 1 .. Len(l) - 1 /\ current' \in 1 .. Len(l)
      BY <2>1, <2>2, <2>6, <3>3
    <3>5. l[current'].va = va + n /\ l[current'].size \in Nat
      BY <2>1, <2>6, <2>8, <3>4
    <3>6. l[current'].size > 0
      <4>1. l \in Seq(FragmentType) /\ DOMAIN l = 1 .. Len(l)
        BY <2>5 DEF ListOK, l
      <4>2. l[current'] \in FragmentType
        BY <3>4, <4>1
      <4> QED
        BY <3>5, <4>2 DEF FragmentType
    <3>7. virt' \in Cells(l[current'].va, l[current'].size)
      <4> DEFINE s == l[current'].size
                 e == l[current'].va
                 v == virt'
      <4>1. s \in Nat /\ s > 0 /\ e = v /\ v \in Nat
        BY <2>9, <3>2, <3>5, <3>6
      <4> HIDE DEF s, e, v
      <4>2. v \in Cells(e, s)
        BY <4>1 DEF Cells
      <4> QED
        BY <4>2 DEF e, s, v
    <3>8. current' <= Len(l)
      BY <2>6, <3>4
    <3> QED
      BY <3>7, <3>8
  <2>11. Walking'
    <3>1. Fragment' = l[current'] /\ Exact' = Exact
      BY <1>1 DEF Fragment, Exact, l
    <3>2. ~req'.physical /\ current' \in 1 .. Len(l) + 1 /\ virt' + left' = w + z
      BY <1>1, <1>5, <2>9
    <3> QED
      BY <1>1, <2>10, <3>1, <3>2 DEF Walking, l, w, z
  <2>12. ReadTypes'
    BY <1>1, <1>3, <2>1, <2>9 DEF ReadTypes, z
  <2>13. LineInv'
    BY <1>1, <1>2, <2>1, <2>9, <2>11 DEF LineInv, k, z
  <2> QED
    BY <1>1, <2>12, <2>13, Quiet
<1> QED
  BY <1>4, <1>5

(* A step that changes nothing that the command keeps                      *)
LEMMA CommandKept ==
  ASSUME ReadInv, size' = size, tool' = tool, req' = req, UNCHANGED toolvars, OneThread'
  PROVE  ToolInv'
<1>1. /\ ReadTypes /\ LineInv /\ OutInv
      /\ line' = line /\ current' = current /\ virt' = virt /\ left' = left
      /\ phys' = phys /\ todo' = todo /\ out' = out /\ ret' = ret
  BY DEF ReadInv, ToolInv, toolvars
<1>2. (Walking' <=> Walking) /\ (Copying' <=> Copying) /\ (Exact' <=> Exact)
  BY SameTool
<1>3. ReadTypes'
  BY <1>1 DEF ReadTypes
<1>4. LineInv'
  BY <1>1, <1>2 DEF LineInv
<1>5. OutInv'
  BY <1>1, OutStays
<1> QED
  BY <1>3, <1>4, <1>5 DEF ToolInv

LEMMA AnyProgram ==
  ASSUME ReadInv, [MemNext]_memvars, ~tool, UNCHANGED <<tool, req, toolvars>> PROVE ToolInv'
<1>1. line' = line /\ tool' = tool /\ req' = req /\ UNCHANGED toolvars
  BY DEF toolvars
<1>2. OneThread'
  BY <1>1 DEF ReadInv, ToolInv, OneThread
<1>3. size' = size
  BY SizeStays
<1> QED
  BY <1>1, <1>2, <1>3, CommandKept

LEMMA KernelInv == ASSUME ReadInv, NEW t \in Threads, Kernel(t) PROVE ToolInv'
<1>1. /\ FileStep(t) /\ tool' = tool /\ req' = req /\ UNCHANGED toolvars
      /\ phys' = phys /\ todo' = todo /\ line' = line
  BY DEF Kernel, toolvars
<1>2. /\ size' = size /\ call' = call /\ alone' = alone
      /\ pc[t] \in {"seek", "transfer"}
  BY <1>1 DEF FileStep, Seek, Transfer
<1>3. pc \in [Threads -> Pcs]
  BY DEF ReadInv, MemInv, TypeInv
<1>4. \A u \in Threads \ {t} : pc'[u] = pc[u]
  BY <1>1, <1>3 DEF FileStep, Seek, Transfer, Failed, TryDevmem
<1>5. OneThread'
  <2>1. CASE ~tool
    BY <1>1, <2>1 DEF ReadInv, ToolInv, OneThread
  <2>2. CASE tool
    <3>1. /\ alone[Main] /\ \A u \in Threads \ {Main} : pc[u] = "idle"
          /\ pc[Main] # "idle" => line = "copy" /\ todo > 0 /\ Asking
      BY <2>2 DEF ReadInv, ToolInv, OneThread
    <3>2. t = Main
      BY <1>2, <3>1
    <3>3. Chunk' = Chunk
      BY <1>1 DEF Chunk
    <3>4. Asking'
      BY <1>1, <1>2, <3>1, <3>2, <3>3 DEF Asking
    <3> QED
      BY <1>1, <1>2, <1>4, <2>2, <3>1, <3>2, <3>4 DEF OneThread
  <2> QED
    BY <2>1, <2>2
<1> QED
  BY <1>1, <1>2, <1>5, CommandKept

LEMMA ReadChunkInv == ASSUME ReadInv, ReadChunk PROVE ToolInv'
<1>1. /\ tool /\ line = "copy" /\ todo > 0 /\ Call(Main, ChunkCall) /\ tool' = tool
      /\ req' = req /\ UNCHANGED toolvars /\ phys' = phys /\ todo' = todo /\ line' = line
  BY DEF ReadChunk, At, ChunkCall, toolvars
<1>2. /\ Main \in Threads /\ pc \in [Threads -> Pcs] /\ call \in [Threads -> Calls]
      /\ alone \in [Threads -> BOOLEAN]
  BY ReadMemAssumption DEF ReadInv, MemInv, TypeInv
<1>3. alone[Main] /\ \A u \in Threads \ {Main} : pc[u] = "idle"
  BY <1>1 DEF ReadInv, ToolInv, OneThread
<1>4. /\ size' = size /\ call' = [call EXCEPT ![Main] = ChunkCall]
      /\ \/ Refuse(Main)
         \/ \E s \in Servers(ChunkCall) : Serve(Main, s, ChunkCall.region)
         \/ pc' = [pc EXCEPT ![Main] = "crashed"] /\ UNCHANGED <<serving, kind, alone, got>>
  BY <1>1 DEF Call
<1>5. \A u \in Threads \ {Main} : pc'[u] = pc[u]
  BY <1>2, <1>4 DEF Refuse, Serve
<1>6. \A s, region : Rivals(Main, s, region) = {}
  BY <1>3 DEF Rivals, InCall
<1>7. alone'[Main]
  <2>1. CASE \E s \in Servers(ChunkCall) : Serve(Main, s, ChunkCall.region)
    BY <1>2, <1>6, <2>1 DEF Serve
  <2>2. CASE alone' = alone
    BY <1>3, <2>2
  <2> QED
    BY <1>4, <2>1, <2>2 DEF Refuse
<1>8. Asking'
  <2>1. call'[Main] = ChunkCall
    BY <1>2, <1>4
  <2>2. Chunk' = Chunk
    BY <1>1 DEF Chunk
  <2> QED
    BY <1>1, <2>1, <2>2 DEF Asking, ChunkCall
<1>9. OneThread'
  BY <1>1, <1>3, <1>5, <1>7, <1>8 DEF OneThread
<1> QED
  BY <1>1, <1>4, <1>9, CommandKept

(* The answer is taken.                                                    *)
LEMMA AnswerTaken ==
  ASSUME ReadInv, tool, tool' = tool, Answered(Main) PROVE OneThread' /\ size' = size
<1>1. /\ Main \in Threads /\ pc \in [Threads -> Pcs] /\ alone \in [Threads -> BOOLEAN]
  BY ReadMemAssumption DEF ReadInv, MemInv, TypeInv
<1>2. /\ pc' = [pc EXCEPT ![Main] = "idle"] /\ alone' = [alone EXCEPT ![Main] = TRUE]
      /\ size' = size
  BY DEF Answered
<1>3. \A u \in Threads \ {Main} : pc[u] = "idle"
  BY DEF ReadInv, ToolInv, OneThread
<1> QED
  BY <1>1, <1>2, <1>3 DEF OneThread

(* The process ends without an answer that is printed.                     *)
LEMMA GivenUp ==
  ASSUME ReadInv, tool, tool' = tool, req' = req, Answered(Main), line = "copy",
         line' = "ended", ret' \in {"-1", "exit"},
         UNCHANGED <<current, virt, left, phys, todo, out>>
  PROVE  ToolInv'
<1>1. ReadTypes /\ LineInv /\ OutInv
  BY DEF ReadInv, ToolInv
<1>2. Len(out) <= req.size
  <2>1. Len(out) \in Nat /\ todo \in Nat /\ req.size \in Nat /\ Len(out) + todo <= req.size
    BY <1>1, CopyFacts
  <2> QED
    BY <2>1
<1>3. OneThread' /\ size' = size
  BY AnswerTaken
<1>4. ReadTypes'
  BY <1>1 DEF ReadTypes
<1>5. LineInv'
  BY <1>2 DEF LineInv
<1>6. OutInv'
  BY <1>1, <1>3, OutStays
<1> QED
  BY <1>3, <1>4, <1>5, <1>6 DEF ToolInv

LEMMA ReadFailedInv == ASSUME ReadInv, ReadFailed PROVE ToolInv'
BY GivenUp DEF ReadFailed, At, End

LEMMA Appended ==
  ASSUME NEW S, NEW s \in Seq(S), NEW u \in Seq(S)
  PROVE  /\ s \o u \in Seq(S) /\ Len(s \o u) = Len(s) + Len(u)
         /\ \A i \in 1 .. Len(s) : (s \o u)[i] = s[i]
         /\ \A n \in 1 .. Len(u) : (s \o u)[Len(s) + n] = u[n]
<1>1. Len(s) \in Nat /\ Len(u) \in Nat
  BY LenProperties
<1>2. /\ s \o u \in Seq(S) /\ Len(s \o u) = Len(s) + Len(u)
      /\ \A i \in 1 .. Len(s) + Len(u) :
           (s \o u)[i] = IF i <= Len(s) THEN s[i] ELSE u[i - Len(s)]
  BY ConcatProperties
<1>3. ASSUME NEW n \in 1 .. Len(u) PROVE (s \o u)[Len(s) + n] = u[n]
  <2>1. /\ Len(s) + n \in 1 .. Len(s) + Len(u) /\ ~(Len(s) + n <= Len(s))
        /\ Len(s) + n - Len(s) = n
    BY <1>1
  <2> QED
    BY <1>2, <2>1
<1>4. ASSUME NEW i \in 1 .. Len(s) PROVE (s \o u)[i] = s[i]
  <2>1. i \in 1 .. Len(s) + Len(u) /\ i <= Len(s)
    BY <1>1
  <2> QED
    BY <1>2, <2>1
<1> QED
  BY <1>2, <1>3, <1>4

LEMMA PrintChunkInv == ASSUME ReadInv, PrintChunk PROVE ToolInv'
<1>1. /\ tool /\ tool' = tool /\ req' = req /\ line = "copy" /\ got[Main] >= 0
      /\ Answered(Main) /\ pc[Main] = "answered"
      /\ current' = current /\ virt' = virt /\ left' = left
  BY DEF PrintChunk, At, Answered
<1>2. CASE End("exit") /\ UNCHANGED <<out, todo, phys>>
  BY <1>1, <1>2, GivenUp DEF End
<1>3. CASE /\ out' = out \o Taken /\ todo' = todo - got[Main]
           /\ phys' = [phys EXCEPT !.addr = @ + got[Main]]
           /\ line' = line /\ ret' = ret
  <2> DEFINE g == got[Main]
             k == Len(out)
  <2>1. /\ ReadTypes /\ LineInv /\ OutInv /\ Copying /\ ret = "none"
        /\ OneThread' /\ size' = size
    BY <1>1, AnswerTaken DEF ReadInv, ToolInv, LineInv
  <2>2. /\ g \in Nat /\ g <= todo /\ Taken \in Seq(AllCells) /\ Len(Taken) = g
        /\ \A n \in 1 .. g :
             /\ ~req.physical => \E f \in ToSet(req.list) : f.valid /\ Taken[n] \in CellsOf(f)
             /\ Exact => Source(req.addr + (k + n) - 1) = {Taken[n]}
    BY <1>1, PrintFacts
  <2>3. /\ todo \in Nat /\ phys.addr \in Nat /\ k \in Nat /\ req.size \in Nat
        /\ todo \in 0 .. req.size /\ out \in Seq(AllCells) /\ left \in Nat
        /\ phys \in [region : Regions, addr : Nat] /\ req \in Requests /\ virt \in Nat
        /\ left \in 0 .. req.size
    BY <2>1, CopyFacts, <1>1, LenProperties DEF ReadTypes
  <2>4. /\ out' \in Seq(AllCells) /\ Len(out') = k + g
        /\ \A i \in 1 .. k : out'[i] = out[i]
        /\ \A n \in 1 .. g : out'[k + n] = Taken[n]
    <3>1. out' = out \o Taken
      BY <1>3
    <3> QED
      BY <2>2, <2>3, <3>1, Appended
  <2>5. phys'.region = phys.region /\ phys'.addr = phys.addr + g
        /\ phys' = [region |-> phys.region, addr |-> phys.addr + g]
    BY <1>3, <2>3
  <2>6. todo' = todo - g /\ line' = "copy" /\ ret' = "none"
    BY <1>1, <1>3, <2>1
  <2> HIDE DEF g, k
  <2>7. todo' \in 0 .. req.size /\ phys.addr + g \in Nat
    BY <2>2, <2>3, <2>6
  <2>8. ReadTypes'
    <3>1. phys' \in [region : Regions, addr : Nat]
      BY <2>3, <2>5, <2>7
    <3> QED
      BY <1>1, <1>3, <2>1, <2>4, <2>7, <3>1 DEF ReadTypes
  <2>9. /\ Fragment' = Fragment /\ CurrentSize' = CurrentSize /\ PhysOf' = PhysOf
        /\ MoreToRead' = MoreToRead /\ Walking' = Walking /\ Exact' = Exact
    BY <1>1 DEF Fragment, CurrentSize, PhysOf, LowerBits, MoreToRead, Walking, Exact
  <2>10. Copying'
    <3> DEFINE a == phys.addr
               z == req.size
               x == todo'
    <3>1. phys'.addr = a + g /\ Len(out') = k + g /\ x = todo - g /\ x \in Nat
      BY <2>4, <2>5, <2>6, <2>7
    <3>2. a \in Nat /\ z \in Nat /\ k \in Nat /\ todo \in Nat /\ g \in Nat
      BY <2>2, <2>3
    <3>3. CASE req.physical
      <4> DEFINE e == req.addr + z
      <4>1. phys.region = req.region /\ a + todo = e /\ k + todo = z
        BY <2>1, <3>3 DEF Copying, k
      <4> HIDE DEF a, z, x, e
      <4>2. (a + g) + x = e /\ (k + g) + x = z
        BY <3>1, <3>2, <4>1
      <4> QED
        BY <1>1, <2>5, <3>1, <3>3, <4>1, <4>2 DEF Copying, e, z, x
    <3>4. CASE ~req.physical
      <4> DEFINE c == CurrentSize
                 p == PhysOf.addr
      <4>1. /\ Walking /\ MoreToRead /\ Fragment.valid /\ phys.region = Fragment.region
            /\ todo <= c /\ a + todo = p + c /\ k + todo + left = z + c
        BY <2>1, <3>4 DEF Copying, k
      <4>2. c \in 1 .. left /\ p \in Nat
        BY <2>3, <4>1, InFragment
      <4> HIDE DEF a, z, x, c, p
      <4>3. x <= c /\ (a + g) + x = p + c /\ (k + g) + x + left = z + c
        BY <2>2, <2>3, <3>1, <3>2, <4>1, <4>2
      <4> QED
        BY <1>1, <2>5, <2>9, <3>1, <3>4, <4>1, <4>3 DEF Copying, z, x, c, p
    <3> QED
      BY <3>3, <3>4
  <2>11. LineInv'
    BY <2>6, <2>10 DEF LineInv
  <2>12. OutInv'
    <3>1. \A h, region, b : CellsAt(h, region, b)' = CellsAt(h, region, b)
      BY <2>1 DEF CellsAt
    <3>2. /\ \A f : CellsOf(f)' = CellsOf(f)
          /\ \A b : Source(b)' = Source(b)
      BY <1>1, <3>1 DEF CellsOf, Source, HomeOf
    <3> SUFFICES ASSUME NEW i \in 1 .. k + g
                 PROVE  /\ ~req.physical =>
                             \E f \in ToSet(req.list) : f.valid /\ out'[i] \in CellsOf(f)
                        /\ Exact => Source(req.addr + i - 1) = {out'[i]}
      BY <1>1, <2>4, <2>9, <3>2 DEF OutInv
    <3>3. CASE i \in 1 .. k
      BY <2>1, <2>4, <3>3 DEF OutInv, k
    <3>4. CASE i \notin 1 .. k
      <4>1. i - k \in 1 .. g /\ k + (i - k) = i
        BY <2>2, <2>3, <3>4
      <4> QED
        BY <2>2, <2>4, <4>1
    <3> QED
      BY <3>3, <3>4
  <2> QED
    BY <2>1, <2>8, <2>11, <2>12 DEF ToolInv
<1> QED
  BY <1>2, <1>3 DEF PrintChunk

LEMMA ReadStep == ReadInv /\ [ReadNext]_readvars => ReadInv'
<1> SUFFICES ASSUME ReadInv, [ReadNext]_readvars PROVE ReadInv'
  OBVIOUS
<1>1. [MemNext]_memvars
  BY ReadStepIsMemStep
<1>2. MemInv' /\ \A t \in Threads : Answers(t)'
  BY <1>1, MemNextInv, AnswersNext DEF ReadInv
<1>3. ToolInv'
  <2>1. CASE UNCHANGED readvars
    <3>1. /\ size' = size /\ tool' = tool /\ req' = req /\ UNCHANGED toolvars
          /\ pc' = pc /\ call' = call /\ alone' = alone
          /\ line' = line /\ todo' = todo /\ phys' = phys
      BY <2>1 DEF readvars, memvars, toolvars
    <3>2. Asking' <=> Asking
      BY <3>1 DEF Asking, Chunk
    <3>3. OneThread'
      BY <3>1, <3>2 DEF ReadInv, ToolInv, OneThread
    <3> QED
      BY <3>1, <3>3, CommandKept
  <2>2. ASSUME NEW t \in Threads, AnyCall(t) \/ AnyAnswer(t) PROVE ToolInv'
    BY <1>1, <2>2, AnyProgram DEF AnyCall, AnyAnswer
  <2>3. ASSUME NEW t \in Threads, Kernel(t) PROVE ToolInv'
    BY <2>3, KernelInv
  <2>4. ASSUME Tool PROVE ToolInv'
    BY <2>4, ReadPhysicalInv, CreateXlatorInv, TranslateInv, NextFragmentInv, WalkEndsInv,
       ReadChunkInv, PrintChunkInv, ReadFailedInv, CopiedInv DEF Tool
  <2> QED
    BY <2>1, <2>2, <2>3, <2>4 DEF ReadNext
<1> QED
  BY <1>2, <1>3 DEF ReadInv

-----------------------------------------------------------------------------
(* The invariant of the command, for every request, buffer and list        *)
THEOREM ReadInvariant == ReadSpec => []ReadInv
<1> QED
  BY ReadInitInv, ReadStep, PTL DEF ReadSpec

(* read_mem uses the library as any program may: its steps are steps of    *)
(* MemSpec, whose theorems hold of it.                                     *)
THEOREM ReadUsesTheLibrary == ReadSpec => MemSpec
<1>1. ReadInit => MemInit
  BY DEF ReadInit
<1>2. ReadInv /\ [ReadNext]_readvars => [MemNext]_memvars
  BY ReadStepIsMemStep
<1> QED
  BY <1>1, <1>2, ReadInvariant, PTL DEF ReadSpec, MemSpec

(* The command's variables, and those of the calls it makes, stay in their *)
(* types: no size goes below 0.                                            *)
THEOREM ReadTypeCorrect == ReadSpec => []ReadTypeOK
<1>1. MemInv => MemTypeOK
  BY DEF MemInv, TypeInv, MemTypeOK, Regions, Pcs
<1>2. ReadInv => ReadTypeOK
  <2> SUFFICES ASSUME ReadInv PROVE ReadTypeOK
    OBVIOUS
  <2>1. ReadTypes /\ MemTypeOK
    BY <1>1 DEF ReadInv, ToolInv
  <2>2. req.size \in Nat
    BY <2>1, RequestIs DEF ReadTypes
  <2> QED
    BY <2>1, <2>2 DEF ReadTypes, ReadTypeOK
<1> QED
  BY <1>2, ReadInvariant, PTL

(* Never is more printed than was asked for.                               *)
LEMMA NotTooMuch == ReadInv => Len(out) \in Nat /\ req.size \in Nat /\ Len(out) <= req.size
<1> SUFFICES ASSUME ReadInv PROVE Len(out) \in Nat /\ req.size \in Nat /\ Len(out) <= req.size
  OBVIOUS
<1>1. ReadTypes /\ LineInv
  BY DEF ReadInv, ToolInv
<1>2. Len(out) \in Nat /\ req.size \in Nat /\ left \in Nat
  BY <1>1, RequestIs, LenProperties DEF ReadTypes
<1>3. CASE line \in {"start", "translate"}
  <2>1. out = << >>
    BY <1>1, <1>3 DEF LineInv
  <2> QED
    BY <1>2, <2>1
<1>4. CASE line = "walk"
  <2>1. Len(out) + left = req.size
    BY <1>1, <1>4 DEF LineInv
  <2> QED
    BY <1>2, <2>1
<1>5. CASE line = "copy"
  <2>1. todo \in Nat /\ Len(out) + todo <= req.size
    BY <1>1, <1>5, CopyFacts
  <2> QED
    BY <1>2, <2>1
<1>6. CASE line = "ended"
  BY <1>1, <1>2, <1>6 DEF LineInv
<1> QED
  BY <1>1, <1>3, <1>4, <1>5, <1>6 DEF ReadTypes

(* read_virt_addr: whatever the sizes of the fragments, and wherever they  *)
(* lie, what the command prints is memory that the range is mapped to, and *)
(* no more than was asked for.                                             *)
THEOREM OnlyMapped == ReadSpec => []PrintsOnlyMapped
<1>1. ReadInv => PrintsOnlyMapped
  <2> SUFFICES ASSUME ReadInv, ~req.physical PROVE
        /\ ToSet(out) \subseteq UNION {CellsOf(f) : f \in {g \in ToSet(req.list) : g.valid}}
        /\ Len(out) <= req.size
    BY DEF PrintsOnlyMapped
  <2>1. OutInv /\ out \in Seq(AllCells)
    BY DEF ReadInv, ToolInv, ReadTypes
  <2>2. ToSet(out) = {out[i] : i \in 1 .. Len(out)}
    BY <2>1 DEF ToSet
  <2>3. \A i \in 1 .. Len(out) : \E f \in ToSet(req.list) : f.valid /\ out[i] \in CellsOf(f)
    BY <2>1 DEF OutInv
  <2> QED
    BY <2>2, <2>3, NotTooMuch
<1> QED
  BY <1>1, ReadInvariant, PTL

(* What Expected is                                                        *)
LEMMA ExpectedIs ==
  ASSUME req.size \in Nat
  PROVE  \E owned \in 0 .. req.size :
           /\ owned # 0 => Source(req.addr + owned - 1) = {}
           /\ Expected = [i \in 1 .. IF owned = 0 THEN req.size ELSE owned - 1 |->
                            CHOOSE x \in Source(req.addr + i - 1) : TRUE]
<1> DEFINE range == [i \in 1 .. req.size |-> Source(req.addr + i - 1)]
           I == {i \in 1 .. Len(range) : range[i] = {}}
           owned == IF I # {} THEN CHOOSE x \in I : \A y \in I : x <= y ELSE 0
           last == IF owned = 0 THEN req.size ELSE owned - 1
           any(S) == CHOOSE x \in S : TRUE
<1>1. Expected = [i \in 1 .. last |-> any(range[i])]
  BY DEF Expected, SelectInSeq, Min, Source, HomeOf
<1>2. Len(range) = req.size
  OBVIOUS
<1>3. I = {i \in 1 .. req.size : Source(req.addr + i - 1) = {}}
  BY <1>2
<1>4. I # {} => owned \in I
  <2>1. I \in SUBSET Nat
    BY <1>2
  <2> HIDE DEF I
  <2> QED
    BY <2>1, LeastExists
<1>5. I = {} => owned = 0
  OBVIOUS
<1> HIDE DEF I, owned, any
<1>6. owned \in 0 .. req.size /\ (owned # 0 => Source(req.addr + owned - 1) = {})
  BY <1>3, <1>4, <1>5
<1>7. \A i \in 1 .. last : range[i] = Source(req.addr + i - 1)
  BY <1>6
<1>8. Expected = [i \in 1 .. last |-> any(Source(req.addr + i - 1))]
  BY <1>1, <1>7
<1> QED
  BY <1>6, <1>8 DEF any

(* read_virt_addr and read_phys_addr: when the fragments are powers of two *)
(* in size and lie on a multiple of it, the command prints the range, from *)
(* its start and in order, whatever the buffer, the fragments and the      *)
(* short reads, and returns 0 only after all of it.                        *)
THEOREM RangePrinted == ReadSpec => []PrintsTheRange
<1>1. ReadInv => PrintsTheRange
  <2> SUFFICES ASSUME ReadInv, \A f \in ToSet(req.list) : Aligned(f)
               PROVE  /\ IsPrefix(out, Expected)
                      /\ ret = "0" => out = Expected /\ Len(out) = req.size
    BY DEF PrintsTheRange
  <2> DEFINE k == Len(out)
             z == req.size
  <2>1. Exact /\ OutInv /\ LineInv /\ ReadTypes /\ out \in Seq(AllCells)
    BY DEF Exact, ReadInv, ToolInv, ReadTypes
  <2>2. k \in Nat /\ z \in Nat /\ k <= z /\ req.addr \in Nat
    BY <2>1, NotTooMuch, RequestIs DEF ReadTypes
  <2>3. \A i \in 1 .. k : Source(req.addr + i - 1) = {out[i]}
    BY <2>1 DEF OutInv
  <2>4. PICK owned \in 0 .. z :
          /\ owned # 0 => Source(req.addr + owned - 1) = {}
          /\ Expected = [i \in 1 .. IF owned = 0 THEN z ELSE owned - 1 |->
                           CHOOSE x \in Source(req.addr + i - 1) : TRUE]
    BY <2>2, ExpectedIs
  <2> DEFINE last == IF owned = 0 THEN z ELSE owned - 1
  <2> HIDE DEF k, z
  <2>5. owned # 0 => k < owned
    <3> SUFFICES ASSUME owned # 0, owned <= k PROVE FALSE
      BY <2>2
    <3>1. owned \in 1 .. k
      BY <2>2
    <3> QED
      BY <2>3, <2>4, <3>1
  <2>6. last \in Nat /\ k <= last
    BY <2>2, <2>5
  <2>7. Expected = [i \in 1 .. last |-> CHOOSE x \in Source(req.addr + i - 1) : TRUE]
    BY <2>4
  <2>8. k = z => last = k
    BY <2>2, <2>5
  <2> HIDE DEF last
  <2>9. \A i \in 1 .. k : Expected[i] = out[i]
    <3> SUFFICES ASSUME NEW i \in 1 .. k PROVE Expected[i] = out[i]
      OBVIOUS
    <3>1. i \in 1 .. last
      BY <2>2, <2>6
    <3>2. Expected[i] = CHOOSE x \in Source(req.addr + i - 1) : TRUE
      BY <2>7, <3>1
    <3> QED
      BY <2>3, <3>2
  <2>10. Len(Expected) = last /\ DOMAIN Expected = 1 .. last
    BY <2>6, <2>7
  <2>11. IsPrefix(out, Expected)
    <3>1. SubSeq(out, 1, k) = [i \in 1 .. k |-> out[i]]
      BY <2>2 DEF k
    <3>2. SubSeq(Expected, 1, k) = [i \in 1 .. k |-> Expected[i]]
      BY <2>2, <2>6, <2>10
    <3> QED
      BY <2>6, <2>9, <2>10, <3>1, <3>2 DEF IsPrefix, k
  <2>12. ASSUME ret = "0" PROVE out = Expected /\ Len(out) = req.size
    <3>1. k = z
      BY <2>1, <2>12 DEF LineInv, ReadTypes, k, z
    <3>2. out = [i \in 1 .. k |-> out[i]]
      BY <2>1 DEF k
    <3>3. Expected = [i \in 1 .. k |-> Expected[i]]
      BY <2>7, <2>8, <3>1
    <3> QED
      BY <2>9, <3>1, <3>2, <3>3 DEF k, z
  <2> QED
    BY <2>11, <2>12
<1> QED
  BY <1>1, ReadInvariant, PTL
=============================================================================
