-------------------------- MODULE EnumerationProofs --------------------------
(***************************************************************************)
(* Theorems of Enumeration, for any machine: any number of nodes, devices  *)
(* and partitions, listed in any order.                                    *)
(***************************************************************************)
EXTENDS Enumeration, FiniteSetTheorems, SequenceTheorems, WellFoundedInduction, TLAPS

(* A set of natural numbers that is not empty has a least one.             *)
LEMMA LeastExists ==
  ASSUME NEW S \in SUBSET Nat, S # {} PROVE \E i \in S : \A j \in S : i <= j
<1>1. PICK i \in S : \A j \in S : ~(<<j, i>> \in OpToRel(<, Nat))
  BY NatLessThanWellFounded, WFMin, Zenon
<1>2. \A j \in S : ~(j < i)
  BY <1>1 DEF OpToRel
<1> QED
  BY <1>2

(* Induction over the natural numbers, for a set of them                   *)
LEMMA Induction ==
  ASSUME NEW S, 0 \in S, \A n \in Nat : n \in S => n + 1 \in S
  PROVE  Nat \subseteq S
<1> SUFFICES ASSUME Nat \ S # {} PROVE FALSE
  OBVIOUS
<1>1. PICK i \in Nat \ S : \A j \in Nat \ S : i <= j
  BY LeastExists
<1>2. i # 0 /\ i - 1 \in Nat
  BY <1>1
<1>3. i - 1 \in S
  BY <1>1, <1>2
<1> QED
  BY <1>1, <1>2, <1>3

(* A set of natural numbers with a bound has a greatest one.               *)
LEMMA GreatestExists ==
  ASSUME NEW N \in Nat, NEW S \in SUBSET (0..N), S # {}
  PROVE  \E i \in S : \A j \in S : j <= i
<1> DEFINE gaps == {N - i : i \in S}
<1>1. \A i \in S : i \in Nat /\ N - i \in Nat
  OBVIOUS
<1>2. gaps \in SUBSET Nat /\ gaps # {}
  BY <1>1
<1>3. PICK g \in gaps : \A h \in gaps : g <= h
  <2> HIDE DEF gaps
  <2> QED
    BY <1>2, LeastExists
<1>4. PICK i \in S : g = N - i
  BY <1>3
<1>5. ASSUME NEW j \in S PROVE j <= i
  <2>1. N - i <= N - j
    BY <1>3, <1>4
  <2> QED
    BY <1>1, <2>1
<1> QED
  BY <1>5

(* g is the values of a loop that starts with v, after 0..N turns.         *)
Iterates(g, N, V, v, step) ==
  /\ g \in [0..N -> V] /\ g[0] = v
  /\ \A n \in 0..N - 1 : g[n + 1] = step[<<n, g[n]>>]

(* What a function defined by recursion needs to exist                     *)
LEMMA Loop ==
  ASSUME NEW N \in Nat, NEW V, NEW v \in V, NEW step \in [(0..N - 1) \X V -> V]
  PROVE  \E g : Iterates(g, N, V, v, step)
<1> DEFINE Is(g, k) == /\ g \in [0..k -> V] /\ g[0] = v
                       /\ \A n \in 0..k - 1 : g[n + 1] = step[<<n, g[n]>>]
           S == {k \in Nat : k <= N => \E g : Is(g, k)}
<1>1. 0 \in S
  <2>1. Is([n \in 0..0 |-> v], 0)
    OBVIOUS
  <2> QED
    BY <2>1
<1>2. ASSUME NEW k \in Nat, k \in S PROVE k + 1 \in S
  <2>1. SUFFICES ASSUME k + 1 <= N PROVE \E g : Is(g, k + 1)
    OBVIOUS
  <2>2. PICK g : Is(g, k)
    BY <1>2, <2>1
  <2> DEFINE w == step[<<k, g[k]>>]
             h == [n \in 0..(k + 1) |-> IF n = k + 1 THEN w ELSE g[n]]
  <2>3. w \in V
    <3>1. k \in 0..N - 1 /\ g[k] \in V
      BY <2>1, <2>2
    <3> QED
      BY <3>1
  <2>4. /\ g \in [0..k -> V] /\ g[0] = v
        /\ \A n \in 0..k - 1 : g[n + 1] = step[<<n, g[n]>>]
    BY <2>2
  <2> HIDE DEF Is, w
  <2>5. h \in [0..(k + 1) -> V] /\ h[0] = v
    BY <2>3, <2>4
  <2>6. ASSUME NEW n \in 0..k PROVE h[n + 1] = step[<<n, h[n]>>]
    <3>1. CASE n = k
      <4>1. h[k + 1] = w /\ h[k] = g[k]
        OBVIOUS
      <4> QED
        BY <3>1, <4>1 DEF w
    <3>2. CASE n # k
      <4>1. /\ n \in 0..k - 1 /\ n \in 0..(k + 1) /\ n + 1 \in 0..(k + 1)
            /\ n # k + 1 /\ n + 1 # k + 1
        BY <3>2
      <4>2. h[n + 1] = g[n + 1] /\ h[n] = g[n]
        BY <4>1
      <4>3. g[n + 1] = step[<<n, g[n]>>]
        BY <2>4, <4>1
      <4> QED
        BY <4>2, <4>3
    <3> QED
      BY <3>1, <3>2
  <2>7. Is(h, k + 1)
    <3>1. \A n \in 0..(k + 1) - 1 : n \in 0..k
      OBVIOUS
    <3> HIDE DEF h
    <3> QED
      BY <2>5, <2>6, <3>1 DEF Is
  <2> QED
    BY <2>7
<1>3. \E g : Is(g, N)
  <2> HIDE DEF Is
  <2>1. Nat \subseteq S
    BY <1>1, <1>2, Induction
  <2> QED
    BY <2>1
<1> QED
  BY <1>3 DEF Iterates

-----------------------------------------------------------------------------
(* The members of S below x, and how many they are                         *)
Below(S, x) == {y \in S : y < x}
RankIn(S, x) == Cardinality(Below(S, x))

LEMMA RanksCount ==
  ASSUME NEW S \in SUBSET Nat, IsFiniteSet(S)
  PROVE  /\ Cardinality(S) \in Nat
         /\ \A x \in S : RankIn(S, x) \in 0..Cardinality(S) - 1
         /\ \A x, y \in S : x < y => RankIn(S, x) < RankIn(S, y)
         /\ \A x, y \in S : RankIn(S, x) = RankIn(S, y) => x = y
         /\ \A r \in 0..Cardinality(S) - 1 : \E x \in S : RankIn(S, x) = r
<1> DEFINE C == Cardinality(S)
           R == 0..C - 1
           f == [x \in S |-> RankIn(S, x)]
<1>1. C \in Nat
  BY FS_CardinalityType
<1> \A x \in S : x \in Nat
  OBVIOUS
<1>2. \A x \in S : IsFiniteSet(Below(S, x)) /\ Cardinality(Below(S, x)) \in Nat
  <2> TAKE x \in S
  <2>1. Below(S, x) \in SUBSET S
    BY DEF Below
  <2> QED
    BY <2>1, FS_Subset, FS_CardinalityType
<1>3. ASSUME NEW x \in S
      PROVE  /\ IsFiniteSet(Below(S, x) \union {x})
             /\ Cardinality(Below(S, x) \union {x}) = RankIn(S, x) + 1
  <2>1. x \notin Below(S, x)
    BY DEF Below
  <2> QED
    BY <1>2, <2>1, FS_AddElement DEF RankIn
<1>4. ASSUME NEW x \in S PROVE RankIn(S, x) \in R
  <2>1. Below(S, x) \union {x} \in SUBSET S
    BY DEF Below
  <2>2. Cardinality(Below(S, x) \union {x}) <= C
    BY <2>1, FS_Subset
  <2>3. RankIn(S, x) + 1 <= C /\ RankIn(S, x) \in Nat
    BY <1>2, <1>3, <2>2 DEF RankIn
  <2> QED
    BY <1>1, <2>3
<1>5. ASSUME NEW x \in S, NEW y \in S, x < y PROVE RankIn(S, x) < RankIn(S, y)
  <2>1. Below(S, x) \union {x} \in SUBSET Below(S, y)
    <3>1. \A z \in S : z < x => z < y
      BY <1>5
    <3> QED
      BY <1>5, <3>1 DEF Below
  <2>2. Cardinality(Below(S, x) \union {x}) <= Cardinality(Below(S, y))
    BY <1>2, <2>1, FS_Subset
  <2>3. RankIn(S, x) + 1 <= RankIn(S, y) /\ RankIn(S, x) \in Nat /\ RankIn(S, y) \in Nat
    BY <1>2, <1>3, <2>2 DEF RankIn
  <2> QED
    BY <2>3
<1>6. ASSUME NEW x \in S, NEW y \in S, RankIn(S, x) = RankIn(S, y) PROVE x = y
  <2>1. x \in Nat /\ y \in Nat /\ RankIn(S, x) \in Nat /\ RankIn(S, y) \in Nat
    BY <1>2 DEF RankIn
  <2> QED
    BY <1>5, <1>6, <2>1
<1>7. f \in Injection(S, R)
  <2>1. f \in [S -> R]
    BY <1>4
  <2>2. \A x, y \in S : f[x] = f[y] => x = y
    BY <1>6
  <2> QED
    BY <2>1, <2>2 DEF Injection, IsInjective
<1>8. IsFiniteSet(R) /\ Cardinality(R) = C
  <2> HIDE DEF C
  <2>1. Cardinality(0..C - 1) = C /\ IsFiniteSet(0..C - 1)
    BY <1>1, FS_Interval
  <2> QED
    BY <2>1
<1> HIDE DEF R, f
<1>9. f \in Surjection(S, R)
  BY <1>7, <1>8, FS_Injection
<1>10. \A r \in R : \E x \in S : RankIn(S, x) = r
  BY <1>9 DEF Surjection, f
<1> QED
  BY <1>1, <1>4, <1>5, <1>6, <1>10 DEF R

LEMMA InOrderAt ==
  ASSUME NEW S \in SUBSET Nat, IsFiniteSet(S), NEW x \in S
  PROVE  /\ RankIn(S, x) + 1 \in 1..Cardinality(S)
         /\ InOrder(S)[RankIn(S, x) + 1] = x
<1> DEFINE n == RankIn(S, x) + 1
<1>1. n \in 1..Cardinality(S) /\ RankIn(S, x) = n - 1
  BY RanksCount
<1>2. \A y \in S : RankIn(S, y) = n - 1 => y = x
  BY <1>1, RanksCount
<1> HIDE DEF n
<1>3. InOrder(S)[n] = CHOOSE y \in S : RankIn(S, y) = n - 1
  BY <1>1 DEF InOrder, RankIn, Below
<1> QED
  BY <1>1, <1>2, <1>3 DEF n

(* InOrder is what its name says. *)
LEMMA InOrderIs ==
  ASSUME NEW S \in SUBSET Nat, IsFiniteSet(S)
  PROVE  /\ InOrder(S) \in Seq(S)
         /\ Len(InOrder(S)) = Cardinality(S)
         /\ DOMAIN InOrder(S) = 1..Cardinality(S)
         /\ \A n \in 1..Cardinality(S) : InOrder(S)[n] \in S /\ RankIn(S, InOrder(S)[n]) = n - 1
         /\ \A n, k \in 1..Cardinality(S) : n < k => InOrder(S)[n] < InOrder(S)[k]
         /\ \A x \in S : \E n \in 1..Cardinality(S) : InOrder(S)[n] = x
<1> DEFINE C == Cardinality(S)
           o == InOrder(S)
<1>1. C \in Nat /\ \A r \in 0..C - 1 : \E x \in S : RankIn(S, x) = r
  BY RanksCount
<1>2. DOMAIN o = 1..C /\ o = [n \in 1..C |-> o[n]]
  <2> DEFINE pick(n) == CHOOSE x \in S : Cardinality({y \in S : y < x}) = n - 1
  <2>1. o = [n \in 1..C |-> pick(n)]
    BY DEF InOrder
  <2> HIDE DEF o, C, pick
  <2> QED
    BY <2>1
<1>3. ASSUME NEW n \in 1..C PROVE o[n] \in S /\ RankIn(S, o[n]) = n - 1
  <2>1. n - 1 \in 0..C - 1
    BY <1>1
  <2>2. PICK x \in S : RankIn(S, x) = n - 1
    BY <1>1, <2>1
  <2>3. (n - 1) + 1 = n
    BY <1>1
  <2>4. o[n] = x
    BY <2>2, <2>3, InOrderAt
  <2> QED
    BY <2>2, <2>4
<1>4. ASSUME NEW n \in 1..C, NEW k \in 1..C, n < k PROVE o[n] < o[k]
  <2>1. /\ o[n] \in S /\ o[k] \in S /\ o[n] \in Nat /\ o[k] \in Nat
        /\ RankIn(S, o[n]) = n - 1 /\ RankIn(S, o[k]) = k - 1
    BY <1>3
  <2>2. ~(RankIn(S, o[k]) < RankIn(S, o[n])) /\ RankIn(S, o[k]) # RankIn(S, o[n])
    BY <1>1, <1>4, <2>1
  <2>3. ~(o[k] < o[n]) /\ o[k] # o[n]
    BY <2>1, <2>2, RanksCount
  <2> QED
    BY <2>1, <2>3
<1>5. o \in Seq(S) /\ Len(o) = C
  <2> HIDE DEF C, o
  <2>1. o \in [1..C -> S]
    BY <1>2, <1>3
  <2> QED
    BY <1>1, <2>1
<1>6. \A x \in S : \E n \in 1..C : o[n] = x
  BY InOrderAt
<1> QED
  BY <1>2, <1>3, <1>4, <1>5, <1>6

(* A rising sequence is its members in order.                              *)
LEMMA InOrderOf ==
  ASSUME NEW N \in Nat, NEW f \in [1..N -> Nat], \A i, j \in 1..N : i < j => f[i] < f[j],
         NEW S, S = {f[i] : i \in 1..N}
  PROVE  IsFiniteSet(S) /\ Cardinality(S) = N /\ InOrder(S) = f
<1>1. S \in SUBSET Nat
  OBVIOUS
<1>2. f \in Bijection(1..N, S)
  <2>1. ASSUME NEW i \in 1..N, NEW j \in 1..N, f[i] = f[j] PROVE i = j
    <3>1. ~(f[i] < f[j]) /\ ~(f[j] < f[i])
      BY <2>1
    <3> QED
      BY <3>1
  <2> QED
    BY <2>1 DEF Bijection, Injection, Surjection, IsInjective
<1>3. IsFiniteSet(S) /\ Cardinality(S) = N
  <2> DEFINE X == 1..N
  <2>1. IsFiniteSet(X) /\ Cardinality(X) = N
    BY FS_Interval
  <2>2. ExistsBijection(X, S)
    BY <1>2 DEF ExistsBijection
  <2> HIDE DEF X
  <2> QED
    BY <2>1, <2>2, FS_Bijection
<1>4. ASSUME NEW i \in 1..N PROVE RankIn(S, f[i]) = i - 1
  <2> DEFINE g == [j \in 1..(i - 1) |-> f[j]]
  <2>1. \A j \in 1..N : f[j] < f[i] <=> j < i
    <3> TAKE j \in 1..N
    <3>1. (j < i => f[j] < f[i]) /\ (i < j => f[i] < f[j])
      OBVIOUS
    <3> QED
      BY <3>1
  <2>2. \A j \in 1..(i - 1) : j \in 1..N /\ j < i
    OBVIOUS
  <2>3. \A j \in 1..N : j < i => j \in 1..(i - 1)
    OBVIOUS
  <2>4. g \in Bijection(1..(i - 1), Below(S, f[i]))
    <3>1. g \in [1..(i - 1) -> Below(S, f[i])]
      BY <2>1, <2>2 DEF Below
    <3>2. \A j, k \in 1..(i - 1) : g[j] = g[k] => j = k
      BY <1>2, <2>2 DEF Bijection, Injection, IsInjective
    <3>3. \A y \in Below(S, f[i]) : \E j \in 1..(i - 1) : g[j] = y
      <4> TAKE y \in Below(S, f[i])
      <4>1. PICK j \in 1..N : y = f[j] /\ f[j] < f[i]
        BY DEF Below
      <4>2. j \in 1..(i - 1)
        BY <2>1, <2>3, <4>1
      <4> QED
        BY <4>1, <4>2
    <3> QED
      BY <3>1, <3>2, <3>3 DEF Bijection, Injection, Surjection, IsInjective
  <2>5. ExistsBijection(1..(i - 1), Below(S, f[i]))
    BY <2>4 DEF ExistsBijection
  <2>6. i - 1 \in Nat
    OBVIOUS
  <2> DEFINE n == i - 1
  <2> HIDE DEF n
  <2>7. Cardinality(Below(S, f[i])) = n
    BY <2>5, <2>6, FS_CountingElements DEF n
  <2> QED
    BY <2>7 DEF n, RankIn
<1>5. ASSUME NEW i \in 1..N PROVE InOrder(S)[i] = f[i]
  <2>1. f[i] \in S /\ RankIn(S, f[i]) + 1 = i
    BY <1>4
  <2> QED
    BY <1>1, <1>3, <2>1, InOrderAt
<1>6. DOMAIN InOrder(S) = 1..N /\ InOrder(S) = [n \in 1..N |-> InOrder(S)[n]]
  <2> DEFINE pick(n) == CHOOSE x \in S : Cardinality({y \in S : y < x}) = n - 1
             o == InOrder(S)
  <2>1. o = [n \in 1..N |-> pick(n)]
    BY <1>3 DEF InOrder
  <2> HIDE DEF o, pick
  <2>2. DOMAIN o = 1..N /\ o = [n \in 1..N |-> o[n]]
    BY <2>1
  <2> QED
    BY <2>2 DEF o
<1>7. InOrder(S) = f
  BY <1>5, <1>6
<1> QED
  BY <1>3, <1>7

-----------------------------------------------------------------------------
LEMMA OneReversed == ASSUME NEW x PROVE Reverse(<<x>>) = <<x>>
<1>1. <<x>> \in Seq({x}) /\ Len(<<x>>) = 1 /\ <<x>>[1] = x
  OBVIOUS
<1>2. Reverse(<<x>>) = [i \in 1..1 |-> x]
  BY <1>1 DEF Reverse
<1>3. [i \in 1..1 |-> x] \in Seq({x}) /\ Len([i \in 1..1 |-> x]) = 1
  OBVIOUS
<1> QED
  BY <1>1, <1>2, <1>3

LEMMA TwoReversed == ASSUME NEW x, NEW y PROVE Len(Reverse(<<x, y>>)) = 2
<1>1. /\ <<x, y>> \in Seq({x, y}) /\ Len(<<x, y>>) = 2
      /\ <<x, y>>[1] = x /\ <<x, y>>[2] = y
  OBVIOUS
<1>2. Reverse(<<x, y>>) = [i \in 1..2 |-> <<x, y>>[(2 - i) + 1]]
  BY <1>1 DEF Reverse
<1>3. Len([i \in 1..2 |-> <<x, y>>[(2 - i) + 1]]) = 2
  OBVIOUS
<1> QED
  BY <1>2, <1>3

(* The regular expressions find a line by its whole name, but for the one  *)
(* that ends like another, and the one that finds nothing.                 *)
LEMMA FindsWhole ==
  ASSUME NEW field, NEW name, name # "sdma_fw_version"
  PROVE  Finds(field, name) <=> field # "num_gws" /\ field = name
<1>1. Parts(name) = <<name>> /\ Len(<<name>>) = 1
  BY DEF Parts
<1>2. CASE field = "sdma_fw_version"
  <2>1. Parts(field) = <<"sdma_", "fw_version">>
    BY <1>2 DEF Parts
  <2>2. ~IsSuffix(Parts(field), Parts(name))
    BY <1>1, <2>1, OneReversed, TwoReversed DEF IsSuffix, IsPrefix
  <2> QED
    BY <1>2, <2>2 DEF Finds
<1>3. CASE field # "sdma_fw_version"
  <2>1. Parts(field) = <<field>> /\ Len(<<field>>) = 1
    BY <1>3 DEF Parts
  <2>2. SubSeq(<<field>>, 1, 1)[1] = field /\ SubSeq(<<name>>, 1, 1)[1] = name
    OBVIOUS
  <2>3. IsSuffix(<<field>>, <<name>>) <=> field = name
    BY <1>1, <2>1, <2>2, OneReversed DEF IsSuffix, IsPrefix
  <2> QED
    BY <1>1, <2>1, <2>3 DEF Finds
<1> QED
  BY <1>2, <1>3

LEMMA SomeNames ==
  /\ "none" \notin Names
  /\ {"simd_count", "num_xcc", "domain", "location_id", "device_id", "num_gws",
      "fw_version", "sdma_fw_version", "drm_render_minor"} \subseteq Names
BY DEF Names, Fields, ToSet

(* The field that a line is stored in, by the name on the line             *)
LEMMA FieldOfName ==
  ASSUME NEW name \in Names
  PROVE  /\ FieldOf[name] \in Names \union {"none"}
         /\ name \notin {"num_gws", "sdma_fw_version"} => FieldOf[name] = name
         /\ name = "num_gws" => FieldOf[name] = "none"
         /\ name = "sdma_fw_version" =>
              FieldOf[name] \in {"fw_version", "sdma_fw_version", "none"}
<1> DEFINE I == {i \in 1..Len(Fields) : Finds(Fields[i], name)}
           first == CHOOSE i \in I : \A j \in I : i <= j
<1>1. I # {} => first \in I /\ first # 0
  <2>1. I \in SUBSET Nat /\ 0 \notin I
    OBVIOUS
  <2> HIDE DEF I
  <2> QED
    BY <2>1, LeastExists
<1>2. \A i \in 1..Len(Fields) : Fields[i] \in Names
  BY DEF Names, ToSet, Fields
<1>3. FieldOf[name] = IF I = {} THEN "none" ELSE Fields[first]
  <2>1. SelectInSeq(Fields, LAMBDA field : Finds(field, name)) = IF I # {} THEN first ELSE 0
    BY DEF SelectInSeq, Min
  <2> HIDE DEF I, first
  <2>2. FieldOf[name] = LET i == SelectInSeq(Fields, LAMBDA field : Finds(field, name))
                        IN  IF i = 0 THEN "none" ELSE Fields[i]
    BY DEF FieldOf
  <2> QED
    BY <1>1, <2>1, <2>2
<1>4. \E i \in 1..Len(Fields) : Fields[i] = name
  BY DEF Names, ToSet, Fields
<1> HIDE DEF first
<1>5. CASE name = "sdma_fw_version"
  <2>1. \A field : Finds(field, name) => field \in {"fw_version", "sdma_fw_version"}
    <3> TAKE field
    <3>1. Parts(name) = <<"sdma_", "fw_version">>
      BY <1>5 DEF Parts
    <3>2. CASE field # "sdma_fw_version"
      <4>1. Parts(field) = <<field>>
        BY <3>2 DEF Parts
      <4>2. Reverse(<<"sdma_", "fw_version">>)[1] = "fw_version"
        <5>1. Len(<<"sdma_", "fw_version">>) = 2 /\ <<"sdma_", "fw_version">>[2] = "fw_version"
          OBVIOUS
        <5> QED
          BY <5>1 DEF Reverse
      <4>3. Len(<<field>>) = 1 /\ SubSeq(<<field>>, 1, 1)[1] = field
        OBVIOUS
      <4> DEFINE r == Reverse(<<"sdma_", "fw_version">>)
      <4>4. SubSeq(r, 1, 1)[1] = r[1]
        <5> HIDE DEF r
        <5> QED
          OBVIOUS
      <4>5. IsSuffix(<<field>>, <<"sdma_", "fw_version">>) => field = "fw_version"
        BY <4>2, <4>3, <4>4, OneReversed DEF IsSuffix, IsPrefix
      <4> QED
        BY <3>1, <4>1, <4>5 DEF Finds
    <3> QED
      BY <3>2
  <2> QED
    BY <1>1, <1>2, <1>3, <1>5, <2>1
<1>6. CASE name # "sdma_fw_version"
  <2>1. \A field : Finds(field, name) <=> field # "num_gws" /\ field = name
    BY <1>6, FindsWhole
  <2>2. CASE name = "num_gws"
    <3>1. I = {}
      BY <2>1, <2>2
    <3> QED
      BY <1>3, <1>6, <2>2, <3>1
  <2>3. CASE name # "num_gws"
    <3>1. I # {}
      BY <1>4, <2>1, <2>3
    <3>2. Fields[first] = name
      BY <1>1, <2>1, <3>1
    <3> QED
      BY <1>3, <1>6, <2>3, <3>1, <3>2
  <2> QED
    BY <2>2, <2>3
<1> QED
  BY <1>5, <1>6

PropsType == [Names -> Nat]
Lines == Seq([name : Names, value : Nat])

LEMMA StoredType ==
  ASSUME NEW props \in PropsType, NEW l \in [name : Names, value : Nat]
  PROVE  Stored(props, l) \in PropsType
<1>1. FieldOf[l.name] \in Names \union {"none"}
  BY FieldOfName
<1> QED
  BY <1>1 DEF Stored, PropsType

(* Parses satisfies the equation it is defined by.                         *)
LEMMA ParsesUnfold ==
  ASSUME NEW lines \in Lines
  PROVE  /\ Parses(lines)[0] = [field \in Names |-> 0]
         /\ \A n \in 0..Len(lines) - 1 :
              Parses(lines)[n + 1] = Stored(Parses(lines)[n], lines[n + 1])
<1> DEFINE N == Len(lines)
           zero == [field \in Names |-> 0]
           step == [x \in (0..N - 1) \X PropsType |-> Stored(x[2], lines[x[1] + 1])]
           Is(g) == g = [n \in 0..N |-> IF n = 0 THEN zero ELSE Stored(g[n - 1], lines[n])]
<1>1. N \in Nat /\ \A n \in 1..N : lines[n] \in [name : Names, value : Nat]
  BY LenProperties DEF Lines
<1>2. zero \in PropsType
  BY DEF PropsType
<1> HIDE DEF zero, N
<1>3. step \in [(0..N - 1) \X PropsType -> PropsType]
  <2>1. ASSUME NEW x \in (0..N - 1) \X PropsType PROVE Stored(x[2], lines[x[1] + 1]) \in PropsType
    <3>1. x[2] \in PropsType /\ x[1] \in 0..N - 1
      OBVIOUS
    <3>2. x[1] + 1 \in 1..N
      BY <1>1, <3>1
    <3>3. lines[x[1] + 1] \in [name : Names, value : Nat]
      BY <1>1, <3>2
    <3> QED
      BY <3>1, <3>3, StoredType
  <2> QED
    BY <2>1
<1>4. PICK g \in [0..N -> PropsType] :
        g[0] = zero /\ \A n \in 0..N - 1 : g[n + 1] = step[<<n, g[n]>>]
  <2>1. N \in Nat
    BY <1>1
  <2> HIDE DEF step
  <2>2. \E g : Iterates(g, N, PropsType, zero, step)
    BY <2>1, <1>2, <1>3, Loop
  <2> QED
    BY <2>2 DEF Iterates
<1>5. \A n \in 0..N : g[n] = IF n = 0 THEN zero ELSE Stored(g[n - 1], lines[n])
  <2>1. ASSUME NEW n \in 0..N, n # 0 PROVE g[n] = Stored(g[n - 1], lines[n])
    <3>1. n - 1 \in 0..N - 1 /\ n - 1 \in 0..N /\ (n - 1) + 1 = n
      BY <1>1, <2>1
    <3>2. g[n - 1] \in PropsType
      BY <3>1
    <3>3. <<n - 1, g[n - 1]>> \in (0..N - 1) \X PropsType
      BY <3>1, <3>2
    <3>4. step[<<n - 1, g[n - 1]>>] = Stored(g[n - 1], lines[(n - 1) + 1])
      BY <3>3
    <3> QED
      BY <1>4, <3>1, <3>4
  <2> QED
    BY <1>4, <2>1
<1>6. Is(g)
  BY <1>5
<1>7. Parses(lines) = CHOOSE f : Is(f)
  BY DEF Parses, N, zero
<1>8. Is(Parses(lines))
  <2> HIDE DEF Is
  <2> QED
    BY <1>6, <1>7
<1>9. \A n \in 0..N :
        Parses(lines)[n] = IF n = 0 THEN zero ELSE Stored(Parses(lines)[n - 1], lines[n])
  BY <1>8
<1>10. Parses(lines)[0] = zero
  BY <1>1, <1>9
<1>11. ASSUME NEW n \in 0..N - 1
       PROVE  Parses(lines)[n + 1] = Stored(Parses(lines)[n], lines[n + 1])
  <2>1. n + 1 \in 0..N /\ n + 1 # 0 /\ (n + 1) - 1 = n
    BY <1>1
  <2> QED
    BY <1>9, <2>1
<1> QED
  BY <1>10, <1>11 DEF N, zero

-----------------------------------------------------------------------------
(* Every field is as it was, or has the value of a line stored in it.      *)
LEMMA ParsesFrom ==
  ASSUME NEW lines \in Lines, NEW n \in 0..Len(lines)
  PROVE  /\ Parses(lines)[n] \in PropsType
         /\ \A f \in Names :
              \/ /\ Parses(lines)[n][f] = 0
                 /\ ~\E j \in 1..n : FieldOf[lines[j].name] = f
              \/ \E j \in 1..n : /\ FieldOf[lines[j].name] = f
                                  /\ Parses(lines)[n][f] = lines[j].value
<1> DEFINE P == Parses(lines)
           From(k, f) == \/ /\ P[k][f] = 0
                            /\ ~\E j \in 1..k : FieldOf[lines[j].name] = f
                         \/ \E j \in 1..k : /\ FieldOf[lines[j].name] = f
                                             /\ P[k][f] = lines[j].value
           S == {k \in Nat : k <= Len(lines) =>
                   P[k] \in PropsType /\ \A f \in Names : From(k, f)}
<1>1. Len(lines) \in Nat /\ \A k \in 1..Len(lines) : lines[k] \in [name : Names, value : Nat]
  BY LenProperties DEF Lines
<1>2. 0 \in S
  <2>1. P[0] = [field \in Names |-> 0]
    BY ParsesUnfold
  <2>2. P[0] \in PropsType /\ \A f \in Names : P[0][f] = 0
    BY <2>1 DEF PropsType
  <2> QED
    BY <2>2
<1>3. ASSUME NEW k \in Nat, k \in S PROVE k + 1 \in S
  <2>1. SUFFICES ASSUME k + 1 <= Len(lines)
                 PROVE  P[k + 1] \in PropsType /\ \A f \in Names : From(k + 1, f)
    OBVIOUS
  <2> DEFINE l == lines[k + 1]
  <2>2. k \in 0..Len(lines) - 1 /\ k + 1 \in 1..Len(lines) /\ k <= Len(lines)
    BY <1>1, <2>1
  <2>3. P[k + 1] = Stored(P[k], l)
    BY <2>2, ParsesUnfold
  <2>4. l \in [name : Names, value : Nat]
    BY <1>1, <2>2
  <2>5. P[k] \in PropsType /\ \A f \in Names : From(k, f)
    BY <1>3, <2>2
  <2> HIDE DEF P
  <2>6. P[k + 1] \in PropsType
    BY <2>3, <2>4, <2>5, StoredType
  <2>7. ASSUME NEW f \in Names PROVE From(k + 1, f)
    <3>1. CASE FieldOf[l.name] = f
      <4>1. FieldOf[l.name] # "none"
        BY <3>1, SomeNames
      <4>2. P[k + 1][f] = l.value
        BY <2>3, <2>5, <3>1, <4>1 DEF Stored, PropsType
      <4>3. k + 1 \in 1..k + 1
        OBVIOUS
      <4> QED
        BY <3>1, <4>2, <4>3
    <3>2. CASE FieldOf[l.name] # f
      <4>1. P[k + 1][f] = P[k][f]
        BY <2>3, <2>5, <3>2 DEF Stored, PropsType
      <4>2. \A j \in 1..k + 1 : j \in 1..k \/ j = k + 1
        OBVIOUS
      <4>3. \A j \in 1..k : j \in 1..k + 1
        OBVIOUS
      <4>4. From(k, f)
        BY <2>5
      <4> QED
        BY <3>2, <4>1, <4>2, <4>3, <4>4
    <3> QED
      BY <3>1, <3>2
  <2> QED
    BY <2>6, <2>7
<1>4. n \in S
  <2> HIDE DEF S
  <2>1. Nat \subseteq S
    BY <1>2, <1>3, Induction
  <2> QED
    BY <1>1, <2>1
<1> QED
  BY <1>1, <1>4

(* Directories and entries of the environment variable as a machine has them *)
Dirs == [instance : Nat, readable : BOOLEAN, lines : Lines]
Entries == Seq([fits : BOOLEAN, domain : Nat, bus : Nat, device : Nat,
                function : Nat, id : Nat])

LEMMA OverrideType ==
  ASSUME NEW props \in PropsType,
         NEW entry \in [fits : BOOLEAN, domain : Nat, bus : Nat, device : Nat,
                        function : Nat, id : Nat]
  PROVE  Override(props, entry) \in PropsType
BY SomeNames DEF Override, PropsType

(* Overrides satisfies the equation it is defined by.                      *)
LEMMA OverridesUnfold ==
  ASSUME NEW props \in PropsType, NEW entries \in Entries
  PROVE  /\ Overrides(props, entries)[0] = props
         /\ \A n \in 0..Len(entries) - 1 :
              Overrides(props, entries)[n + 1]
                = Override(Overrides(props, entries)[n], entries[n + 1])
<1> DEFINE N == Len(entries)
           Entry == [fits : BOOLEAN, domain : Nat, bus : Nat, device : Nat,
                     function : Nat, id : Nat]
           step == [x \in (0..N - 1) \X PropsType |-> Override(x[2], entries[x[1] + 1])]
           Is(g) == g = [n \in 0..N |-> IF n = 0 THEN props
                                        ELSE Override(g[n - 1], entries[n])]
<1>1. N \in Nat /\ \A n \in 1..N : entries[n] \in Entry
  BY LenProperties DEF Entries
<1> HIDE DEF N
<1>2. step \in [(0..N - 1) \X PropsType -> PropsType]
  <2>1. ASSUME NEW x \in (0..N - 1) \X PropsType
        PROVE  Override(x[2], entries[x[1] + 1]) \in PropsType
    <3>1. x[2] \in PropsType /\ x[1] \in 0..N - 1
      OBVIOUS
    <3>2. x[1] + 1 \in 1..N
      BY <1>1, <3>1
    <3>3. entries[x[1] + 1] \in Entry
      BY <1>1, <3>2
    <3> QED
      BY <3>1, <3>3, OverrideType
  <2> QED
    BY <2>1
<1>3. PICK g \in [0..N -> PropsType] :
        g[0] = props /\ \A n \in 0..N - 1 : g[n + 1] = step[<<n, g[n]>>]
  <2>1. N \in Nat
    BY <1>1
  <2> HIDE DEF step
  <2>2. \E g : Iterates(g, N, PropsType, props, step)
    BY <2>1, <1>2, Loop
  <2> QED
    BY <2>2 DEF Iterates
<1>4. \A n \in 0..N : g[n] = IF n = 0 THEN props ELSE Override(g[n - 1], entries[n])
  <2>1. ASSUME NEW n \in 0..N, n # 0 PROVE g[n] = Override(g[n - 1], entries[n])
    <3>1. n - 1 \in 0..N - 1 /\ n - 1 \in 0..N /\ (n - 1) + 1 = n
      BY <1>1, <2>1
    <3>2. <<n - 1, g[n - 1]>> \in (0..N - 1) \X PropsType
      BY <3>1
    <3>3. step[<<n - 1, g[n - 1]>>] = Override(g[n - 1], entries[(n - 1) + 1])
      BY <3>2
    <3> QED
      BY <1>3, <3>1, <3>3
  <2> QED
    BY <1>3, <2>1
<1>5. Is(g)
  BY <1>4
<1>6. Overrides(props, entries) = CHOOSE f : Is(f)
  BY DEF Overrides, N
<1>7. Is(Overrides(props, entries))
  <2> HIDE DEF Is
  <2> QED
    BY <1>5, <1>6
<1> DEFINE O == Overrides(props, entries)
<1>8. \A n \in 0..N : O[n] = IF n = 0 THEN props ELSE Override(O[n - 1], entries[n])
  BY <1>7
<1> HIDE DEF O
<1>9. O[0] = props
  BY <1>1, <1>8
<1>10. ASSUME NEW n \in 0..N - 1 PROVE O[n + 1] = Override(O[n], entries[n + 1])
  <2>1. n + 1 \in 0..N /\ n + 1 # 0 /\ (n + 1) - 1 = n
    BY <1>1
  <2> QED
    BY <1>8, <2>1
<1> QED
  BY <1>9, <1>10 DEF N, O

(* An entry changes the device id of the node it is for, and nothing else. *)
LEMMA OverridesFrom ==
  ASSUME NEW props \in PropsType, NEW entries \in Entries, NEW n \in 0..Len(entries)
  PROVE  /\ Overrides(props, entries)[n] \in PropsType
         /\ \A f \in Names \ {"device_id"} : Overrides(props, entries)[n][f] = props[f]
         /\ (\A j \in 1..n : ~NamesNode(entries[j], props)) =>
              Overrides(props, entries)[n].device_id = props.device_id
         /\ \A j \in 1..n :
              NamesNode(entries[j], props)
              /\ (\A k \in 1..n : NamesNode(entries[k], props) => k <= j) =>
                Overrides(props, entries)[n].device_id = entries[j].id
<1> DEFINE O == Overrides(props, entries)
           Hit(j) == NamesNode(entries[j], props)
           Kept(k) == O[k] \in PropsType /\ \A f \in Names \ {"device_id"} : O[k][f] = props[f]
           Old(k) == (\A j \in 1..k : ~Hit(j)) => O[k].device_id = props.device_id
           Last1(k) == \A j \in 1..k : Hit(j) /\ (\A i \in 1..k : Hit(i) => i <= j) =>
                         O[k].device_id = entries[j].id
           S == {k \in Nat : k <= Len(entries) => Kept(k) /\ Old(k) /\ Last1(k)}
<1>1. /\ Len(entries) \in Nat
      /\ \A k \in 1..Len(entries) :
           entries[k] \in [fits : BOOLEAN, domain : Nat, bus : Nat, device : Nat,
                           function : Nat, id : Nat]
  BY LenProperties DEF Entries
<1>2. 0 \in S
  BY OverridesUnfold
<1>3. ASSUME NEW k \in Nat, k \in S PROVE k + 1 \in S
  <2>1. SUFFICES ASSUME k + 1 <= Len(entries) PROVE Kept(k + 1) /\ Old(k + 1) /\ Last1(k + 1)
    OBVIOUS
  <2> DEFINE e == entries[k + 1]
  <2>2. k \in 0..Len(entries) - 1 /\ k + 1 \in 1..Len(entries) /\ k <= Len(entries)
    BY <1>1, <2>1
  <2>3. O[k + 1] = Override(O[k], e)
    BY <2>2, OverridesUnfold
  <2>4. e \in [fits : BOOLEAN, domain : Nat, bus : Nat, device : Nat,
                function : Nat, id : Nat]
    BY <1>1, <2>2
  <2>5. Kept(k) /\ Old(k) /\ Last1(k)
    BY <1>3, <2>2
  <2> HIDE DEF O
  <2>6. NamesNode(e, O[k]) <=> Hit(k + 1)
    <3>1. O[k].domain = props.domain /\ O[k].location_id = props.location_id
      BY <2>5, SomeNames
    <3> QED
      BY <3>1 DEF NamesNode
  <2>7. /\ \A j \in 1..k + 1 : j \in 1..k \/ j = k + 1
        /\ \A j \in 1..k : j \in 1..k + 1 /\ ~(k + 1 <= j)
        /\ k + 1 \in 1..k + 1
    OBVIOUS
  <2> HIDE DEF Hit, e
  <2>8. Kept(k + 1)
    <3>1. O[k + 1] \in PropsType
      BY <2>3, <2>4, <2>5, OverrideType
    <3>2. \A f \in Names \ {"device_id"} : O[k + 1][f] = O[k][f]
      BY <2>3, <2>5, SomeNames DEF Override, PropsType
    <3> QED
      BY <2>5, <3>1, <3>2
  <2>9. CASE Hit(k + 1)
    <3>1. O[k + 1].device_id = e.id
      BY <2>3, <2>5, <2>6, <2>9, SomeNames DEF Override, PropsType
    <3>2. Old(k + 1)
      BY <2>7, <2>9
    <3>3. Last1(k + 1)
      <4>1. SUFFICES ASSUME NEW j \in 1..k + 1, \A i \in 1..k + 1 : Hit(i) => i <= j
                     PROVE  O[k + 1].device_id = entries[j].id
        OBVIOUS
      <4>2. k + 1 <= j
        BY <2>7, <2>9, <4>1
      <4>3. j = k + 1
        BY <2>7, <4>2
      <4> QED
        BY <3>1, <4>3 DEF e
    <3> QED
      BY <2>8, <3>2, <3>3
  <2>10. CASE ~Hit(k + 1)
    <3>1. O[k + 1] = O[k]
      BY <2>3, <2>6, <2>10 DEF Override
    <3>2. Old(k + 1)
      BY <2>5, <2>7, <3>1
    <3>3. Last1(k + 1)
      BY <2>5, <2>7, <2>10, <3>1
    <3> QED
      BY <2>8, <3>2, <3>3
  <2> QED
    BY <2>9, <2>10
<1>4. n \in S
  <2> HIDE DEF S
  <2>1. Nat \subseteq S
    BY <1>2, <1>3, Induction
  <2> QED
    BY <1>1, <2>1
<1>5. Kept(n) /\ Old(n) /\ Last1(n)
  BY <1>1, <1>4
<1> QED
  BY <1>5

(* What a directory prints under a name that it prints once, or not at all *)
DistinctLines(dir) ==
  \A k, l \in DOMAIN dir.lines : dir.lines[k].name = dir.lines[l].name => k = l

LEMMA PrintedLine ==
  ASSUME NEW dir \in Dirs, DistinctLines(dir), NEW name
  PROVE  /\ (\A j \in 1..Len(dir.lines) : dir.lines[j].name # name) =>
              Printed(dir, name) = 0
         /\ \A j \in 1..Len(dir.lines) : dir.lines[j].name = name =>
              Printed(dir, name) = dir.lines[j].value
         /\ Printed(dir, name) \in Nat
<1> DEFINE lines == dir.lines
           I == {i \in 1..Len(lines) : lines[i].name = name}
           first == CHOOSE i \in I : \A j \in I : i <= j
<1>1. /\ Len(lines) \in Nat /\ DOMAIN lines = 1..Len(lines)
      /\ \A k \in 1..Len(lines) : lines[k] \in [name : Names, value : Nat]
  <2>1. lines \in Seq([name : Names, value : Nat])
    BY DEF Dirs, Lines
  <2> QED
    BY <2>1, LenProperties
<1>2. I # {} => first \in I /\ first # 0
  <2>1. I \in SUBSET Nat /\ 0 \notin I
    OBVIOUS
  <2> HIDE DEF I
  <2> QED
    BY <2>1, LeastExists
<1>3. SelectInSeq(lines, LAMBDA l : l.name = name) = IF I # {} THEN first ELSE 0
  BY DEF SelectInSeq, Min
<1> HIDE DEF first
<1>4. Printed(dir, name) = IF I = {} THEN 0 ELSE lines[first].value
  <2> HIDE DEF I
  <2>1. Printed(dir, name) = LET i == SelectInSeq(lines, LAMBDA l : l.name = name)
                             IN  IF i = 0 THEN 0 ELSE lines[i].value
    BY DEF Printed
  <2> QED
    BY <1>2, <1>3, <2>1
<1>5. \A j \in I : I # {} /\ first = j
  BY <1>1, <1>2 DEF DistinctLines
<1> QED
  BY <1>1, <1>4, <1>5

Unprinted == {"device_id", "fw_version", "sdma_fw_version", "num_gws"}

(* The properties of a node have what the lines of its directory print.    *)
LEMMA ParsedAs ==
  ASSUME NEW dir \in Dirs, DistinctLines(dir)
  PROVE  /\ Parsed(dir.lines) \in PropsType
         /\ \A name \in Names \ {"fw_version", "sdma_fw_version", "num_gws"} :
              Parsed(dir.lines)[name] = Printed(dir, name)
         /\ Parsed(dir.lines).fw_version \in
              {Printed(dir, "fw_version"), Printed(dir, "sdma_fw_version")}
<1> DEFINE lines == dir.lines
           P == Parsed(dir.lines)
           N == Len(lines)
<1>1. /\ lines \in Lines /\ N \in Nat
      /\ \A k \in 1..N : lines[k].name \in Names
  <2>1. lines \in Lines
    BY DEF Dirs
  <2>2. N \in Nat /\ \A k \in 1..N : lines[k] \in [name : Names, value : Nat]
    BY <2>1, LenProperties DEF Lines
  <2> QED
    BY <2>1, <2>2
<1>2. /\ P \in PropsType
      /\ \A f \in Names :
           \/ P[f] = 0 /\ ~\E j \in 1..N : FieldOf[lines[j].name] = f
           \/ \E j \in 1..N : FieldOf[lines[j].name] = f /\ P[f] = lines[j].value
  <2>1. N \in 0..N
    BY <1>1
  <2> QED
    BY <1>1, <2>1, ParsesFrom DEF Parsed
<1> HIDE DEF P
<1>3. ASSUME NEW name \in Names \ {"fw_version", "sdma_fw_version", "num_gws"}
      PROVE  P[name] = Printed(dir, name)
  <2>1. FieldOf[name] = name
    BY <1>3, FieldOfName
  <2>2. \A other \in Names : FieldOf[other] = name => other = name
    <3>1. TAKE other \in Names
    <3>2. name # "none"
      BY SomeNames
    <3> QED
      BY <1>3, <3>2, FieldOfName
  <2>3. CASE \E j \in 1..N : lines[j].name = name
    <3>1. PICK j \in 1..N : FieldOf[lines[j].name] = name /\ P[name] = lines[j].value
      BY <1>2, <2>1, <2>3
    <3>2. lines[j].name = name
      BY <1>1, <2>2, <3>1
    <3> QED
      BY <3>1, <3>2, PrintedLine
  <2>4. CASE ~\E j \in 1..N : lines[j].name = name
    <3>1. ~\E j \in 1..N : FieldOf[lines[j].name] = name
      BY <1>1, <2>2, <2>4
    <3>2. P[name] = 0
      BY <1>2, <3>1
    <3> QED
      BY <2>4, <3>2, PrintedLine
  <2> QED
    BY <2>3, <2>4
<1>4. P["fw_version"] \in {Printed(dir, "fw_version"), Printed(dir, "sdma_fw_version")}
  <2>1. FieldOf["fw_version"] = "fw_version"
    BY SomeNames, FieldOfName
  <2>2. \A other \in Names :
          FieldOf[other] = "fw_version" => other \in {"fw_version", "sdma_fw_version"}
    BY FieldOfName
  <2>3. CASE \E j \in 1..N : FieldOf[lines[j].name] = "fw_version"
                           /\ P["fw_version"] = lines[j].value
    <3>1. PICK j \in 1..N : FieldOf[lines[j].name] = "fw_version"
                           /\ P["fw_version"] = lines[j].value
      BY <2>3
    <3>2. lines[j].name \in {"fw_version", "sdma_fw_version"}
      BY <1>1, <2>2, <3>1
    <3>3. Printed(dir, lines[j].name) = lines[j].value
      BY PrintedLine
    <3> QED
      BY <3>1, <3>2, <3>3
  <2>4. CASE ~\E j \in 1..N : FieldOf[lines[j].name] = "fw_version"
                            /\ P["fw_version"] = lines[j].value
    <3>1. P["fw_version"] = 0 /\ ~\E j \in 1..N : FieldOf[lines[j].name] = "fw_version"
      BY <1>2, <2>4, SomeNames
    <3>2. \A j \in 1..N : lines[j].name # "fw_version"
      BY <2>1, <3>1
    <3>3. Printed(dir, "fw_version") = 0
      BY <3>2, PrintedLine
    <3> QED
      BY <3>1, <3>3
  <2> QED
    BY <2>3, <2>4
<1> QED
  BY <1>2, <1>3, <1>4 DEF P

(* What NodesAsPrinted says of the node x of a directory                   *)
AsPrinted(x, dir) ==
  /\ x.instance = dir.instance /\ x.props \in PropsType
  /\ \A name \in Names \ Unprinted : x.props[name] = Printed(dir, name)
  /\ x.props.fw_version \in {Printed(dir, "fw_version"), Printed(dir, "sdma_fw_version")}
  /\ x.props.device_id = Replaced(dir)

LEMMA NodePrinted ==
  ASSUME NEW dir \in Dirs, DistinctLines(dir), m.override \in Entries
  PROVE  AsPrinted(KFDNode(dir, m.override), dir)
<1> DEFINE P == Parsed(dir.lines)
           entries == m.override
           N == Len(entries)
           x == Overridden(P, entries)
           hits == {i \in 1..N : NamesNode(entries[i], P)}
<1>1. /\ P \in PropsType
      /\ \A name \in Names \ {"fw_version", "sdma_fw_version", "num_gws"} :
           P[name] = Printed(dir, name)
      /\ P.fw_version \in {Printed(dir, "fw_version"), Printed(dir, "sdma_fw_version")}
  BY ParsedAs
<1> HIDE DEF P
<1>2. N \in Nat /\ DOMAIN entries = 1..N
  BY LenProperties DEF Entries
<1>3. /\ x \in PropsType
      /\ \A f \in Names \ {"device_id"} : x[f] = P[f]
      /\ (\A j \in 1..N : ~NamesNode(entries[j], P)) => x.device_id = P.device_id
      /\ \A j \in 1..N :
           NamesNode(entries[j], P)
           /\ (\A k \in 1..N : NamesNode(entries[k], P) => k <= j) =>
             x.device_id = entries[j].id
  <2>1. N \in 0..N
    BY <1>2
  <2> HIDE DEF N
  <2> QED
    BY <1>1, <2>1, OverridesFrom DEF Overridden, N
<1>4. P.domain = Printed(dir, "domain") /\ P.location_id = Printed(dir, "location_id")
      /\ P.device_id = Printed(dir, "device_id")
  BY <1>1, SomeNames
<1>5. \A e : <<e.domain, e.bus, e.device, e.function>> =
              <<Printed(dir, "domain"), (Printed(dir, "location_id") \div 256) % 256,
                (Printed(dir, "location_id") \div 8) % 32,
                (Printed(dir, "location_id") \div 1) % 8>>
            <=> NamesNode(e, P)
  <2>1. Printed(dir, "location_id") \in Nat
    BY PrintedLine
  <2>2. Printed(dir, "location_id") \div 1 = Printed(dir, "location_id")
    <3> DEFINE y == Printed(dir, "location_id")
    <3>1. y \in Nat
      BY <2>1
    <3> HIDE DEF y
    <3>2. y \div 1 = y
      BY <3>1
    <3> QED
      BY <3>2 DEF y
  <2> QED
    BY <1>4, <2>2 DEF NamesNode
<1>6. Replaced(dir) = IF hits = {} THEN Printed(dir, "device_id")
                      ELSE entries[CHOOSE i \in hits : \A j \in hits : j <= i].id
  <2>1. EntriesFor(dir) = hits
    BY <1>2, <1>5 DEF EntriesFor
  <2> HIDE DEF hits
  <2> QED
    BY <2>1 DEF Replaced
<1>7. x.device_id = Replaced(dir)
  <2>1. CASE hits = {}
    BY <1>3, <1>4, <1>6, <2>1
  <2>2. CASE hits # {}
    <3> DEFINE last == CHOOSE i \in hits : \A j \in hits : j <= i
    <3>1. \E i \in hits : \A j \in hits : j <= i
      <4>1. hits \in SUBSET (0..N)
        BY <1>2
      <4> HIDE DEF hits
      <4> QED
        BY <1>2, <2>2, <4>1, GreatestExists
    <3> HIDE DEF hits
    <3>2. last \in hits /\ \A j \in hits : j <= last
      BY <3>1
    <3> HIDE DEF last
    <3>3. last \in 1..N /\ NamesNode(entries[last], P)
      BY <3>2 DEF hits
    <3>4. \A k \in 1..N : NamesNode(entries[k], P) => k <= last
      BY <3>2 DEF hits
    <3>5. x.device_id = entries[last].id
      BY <1>3, <3>3, <3>4
    <3> QED
      BY <1>6, <2>2, <3>5 DEF last
  <2> QED
    BY <2>1, <2>2
<1>8. KFDNode(dir, m.override) = [instance |-> dir.instance, props |-> x]
  BY DEF KFDNode, P
<1> HIDE DEF x, entries
<1>9. \A name \in Names \ Unprinted : x[name] = Printed(dir, name)
  BY <1>1, <1>3 DEF Unprinted
<1>10. x.fw_version = P.fw_version
  BY <1>3, SomeNames
<1> QED
  BY <1>1, <1>3, <1>7, <1>8, <1>9, <1>10 DEF AsPrinted

-----------------------------------------------------------------------------
NodeType == [instance : Nat, props : PropsType]
Rising(s) == \A i, j \in DOMAIN s : i < j => s[i].instance < s[j].instance

LEMMA FiniteRange ==
  ASSUME NEW V, NEW s \in Seq(V) PROVE IsFiniteSet(ToSet(s)) /\ ToSet(s) \subseteq V
<1>1. s \in [1..Len(s) -> V] /\ Len(s) \in Nat
  BY LenProperties
<1>2. s \in Surjection(1..Len(s), ToSet(s))
  BY <1>1 DEF Surjection, ToSet
<1>3. IsFiniteSet(1..Len(s))
  BY <1>1, FS_Interval
<1> QED
  BY <1>1, <1>2, <1>3, FS_Surjection DEF ToSet

(* Nodes of different instances can be sorted.                             *)
LEMMA SortExists ==
  ASSUME NEW T, IsFiniteSet(T), \A x \in T : x.instance \in Nat,
         \A x, y \in T : x.instance = y.instance => x = y
  PROVE  \E s \in SetToSeqs(T) : Rising(s)
<1> DEFINE S == {k \in Nat : \A U \in SUBSET T :
                   Cardinality(U) = k => \E s \in SetToSeqs(U) : Rising(s)}
<1>1. \A U \in SUBSET T : IsFiniteSet(U) /\ Cardinality(U) \in Nat
  BY FS_Subset, FS_CardinalityType
<1>2. 0 \in S
  <2>1. SUFFICES ASSUME NEW U \in SUBSET T, Cardinality(U) = 0
                 PROVE  \E s \in SetToSeqs(U) : Rising(s)
    OBVIOUS
  <2>2. U = {}
    BY <1>1, <2>1, FS_EmptySet
  <2>3. [i \in 1..0 |-> i] \in SetToSeqs(U)
    BY <2>1, <2>2 DEF SetToSeqs
  <2>4. Rising([i \in 1..0 |-> i])
    BY DEF Rising
  <2> QED
    BY <2>3, <2>4
<1>3. ASSUME NEW k \in Nat, k \in S PROVE k + 1 \in S
  <2>1. SUFFICES ASSUME NEW U \in SUBSET T, Cardinality(U) = k + 1
                 PROVE  \E s \in SetToSeqs(U) : Rising(s)
    OBVIOUS
  <2>2. PICK x \in U : \A y \in U : x.instance <= y.instance
    <3> DEFINE I == {u.instance : u \in U}
    <3>1. I \in SUBSET Nat /\ I # {}
      <4>1. U # {}
        BY <1>1, <2>1, FS_EmptySet
      <4> QED
        BY <4>1
    <3>2. PICK i \in I : \A j \in I : i <= j
      <4> HIDE DEF I
      <4> QED
        BY <3>1, LeastExists
    <3> QED
      BY <3>2
  <2> DEFINE R == U \ {x}
  <2>3. R \in SUBSET T /\ Cardinality(R) = k
    <3>1. IsFiniteSet(U)
      BY <1>1
    <3>2. Cardinality(U \ {x}) = IF x \in U THEN Cardinality(U) - 1 ELSE Cardinality(U)
      BY <3>1, FS_RemoveElement
    <3> QED
      BY <2>1, <3>2
  <2>4. \A y \in R : x.instance < y.instance
    <3> TAKE y \in R
    <3>1. x.instance # y.instance /\ x.instance <= y.instance
      BY <2>2
    <3> QED
      BY <3>1
  <2>5. PICK s \in SetToSeqs(R) : Rising(s)
    BY <1>3, <2>3
  <2>6. s \in [1..k -> R] /\ \A i, j \in 1..k : i # j => s[i] # s[j]
    BY <2>3, <2>5 DEF SetToSeqs
  <2> HIDE DEF R
  <2> DEFINE h == [i \in 1..k + 1 |-> IF i = 1 THEN x ELSE s[i - 1]]
  <2>7. \A i \in 1..k + 1 : i # 1 => i - 1 \in 1..k /\ h[i] = s[i - 1] /\ h[i] \in R
    BY <2>6
  <2>8. h[1] = x
    OBVIOUS
  <2>9. DOMAIN h = 1..k + 1
    OBVIOUS
  <2>10. \A i \in 1..k + 1 : h[i] \in U
    BY <2>7, <2>8 DEF R
  <2>11. h \in [1..k + 1 -> U]
    BY <2>10
  <2> HIDE DEF h
  <2>12. Rising(h)
    <3>1. SUFFICES ASSUME NEW i \in 1..k + 1, NEW j \in 1..k + 1, i < j
                   PROVE  h[i].instance < h[j].instance
      BY <2>9 DEF Rising
    <3>2. j # 1
      BY <3>1
    <3>3. CASE i = 1
      BY <2>4, <2>7, <2>8, <3>2, <3>3
    <3>4. CASE i # 1
      <4>1. i - 1 \in 1..k /\ j - 1 \in 1..k /\ i - 1 < j - 1
        BY <3>1, <3>2, <3>4
      <4>2. s[i - 1].instance < s[j - 1].instance
        BY <2>5, <2>6, <4>1 DEF Rising
      <4> QED
        BY <2>7, <3>2, <3>4, <4>2
    <3> QED
      BY <3>3, <3>4
  <2>13. \A i, j \in 1..k + 1 : i # j => h[i] # h[j]
    <3>1. SUFFICES ASSUME NEW i \in 1..k + 1, NEW j \in 1..k + 1, i # j, h[i] = h[j]
                   PROVE  FALSE
      OBVIOUS
    <3>2. i < j \/ j < i
      BY <3>1
    <3>3. h[i].instance < h[j].instance \/ h[j].instance < h[i].instance
      BY <2>9, <2>12, <3>2 DEF Rising
    <3>4. h[i].instance \in Nat
      BY <2>10
    <3> QED
      BY <3>1, <3>3, <3>4
  <2>14. h \in SetToSeqs(U)
    BY <2>1, <2>11, <2>13 DEF SetToSeqs
  <2> QED
    BY <2>12, <2>14
<1>4. Cardinality(T) \in S
  <2> HIDE DEF S
  <2>1. Nat \subseteq S
    BY <1>2, <1>3, Induction
  <2> QED
    BY <1>1, <2>1
<1> QED
  BY <1>4

LEMMA SortedNodes ==
  ASSUME NEW list \in Seq(NodeType),
         \A i, j \in DOMAIN list : list[i].instance = list[j].instance => i = j
  PROVE  /\ Sorted(list) \in Seq(NodeType)
         /\ Rising(Sorted(list))
         /\ ToSet(Sorted(list)) = ToSet(list)
<1> DEFINE T == ToSet(list)
           s == Sorted(list)
           Good(x) == \A i, j \in DOMAIN x : i < j => x[i].instance < x[j].instance
<1>1. IsFiniteSet(T) /\ T \subseteq NodeType
  BY FiniteRange
<1>2. \A x \in T : x.instance \in Nat
  BY <1>1 DEF NodeType
<1>3. \A x, y \in T : x.instance = y.instance => x = y
  BY DEF ToSet
<1>4. \E x \in SetToSeqs(T) : Good(x)
  BY <1>1, <1>2, <1>3, SortExists DEF Rising
<1>5. s = CHOOSE x \in SetToSeqs(T) : Good(x)
  BY DEF Sorted
<1>6. s \in SetToSeqs(T) /\ Good(s)
  <2> HIDE DEF s, T
  <2> QED
    BY <1>4, <1>5
<1> HIDE DEF s
<1>7. s \in [1..Cardinality(T) -> T] /\ Cardinality(T) \in Nat
      /\ \A i, j \in 1..Cardinality(T) : i # j => s[i] # s[j]
  BY <1>1, <1>6, FS_CardinalityType DEF SetToSeqs
<1>8. s \in Injection(1..Cardinality(T), T)
  BY <1>7 DEF Injection, IsInjective
<1>9. s \in Surjection(1..Cardinality(T), T)
  <2> DEFINE D == 1..Cardinality(T)
  <2>1. IsFiniteSet(D) /\ Cardinality(D) = Cardinality(T)
    BY <1>7, FS_Interval
  <2>2. s \in Injection(D, T) /\ IsFiniteSet(T)
    BY <1>1, <1>8
  <2> HIDE DEF D, T
  <2>3. Cardinality(D) = Cardinality(T) <=> s \in Surjection(D, T)
    BY <2>2, FS_Injection
  <2>4. s \in Surjection(D, T)
    BY <2>1, <2>3
  <2> QED
    BY <2>4 DEF D
<1>10. ToSet(s) = T
  <2> HIDE DEF T
  <2> QED
    BY <1>7, <1>9 DEF Surjection, ToSet
<1>11. s \in Seq(NodeType)
  BY <1>1, <1>7
<1> QED
  BY <1>6, <1>10, <1>11 DEF Rising, s

-----------------------------------------------------------------------------
(* What is known of a machine whose topology is there                      *)
LEMMA Listed ==
  ASSUME MachineOK(m), m.listing # NoTopology
  PROVE  /\ m.listing \in Seq(Dirs) /\ m.override \in Entries
         /\ Len(m.listing) \in Nat /\ DOMAIN m.listing = 1..Len(m.listing)
         /\ \A i \in 1..Len(m.listing) : m.listing[i] \in Dirs /\ DistinctLines(m.listing[i])
         /\ \A i, j \in 1..Len(m.listing) :
              m.listing[i].instance = m.listing[j].instance => i = j
<1>1. m.listing \in Seq(Dirs) /\ m.override \in Entries
  BY DEF MachineOK, Dirs, Lines, Entries
<1>2. /\ Len(m.listing) \in Nat /\ DOMAIN m.listing = 1..Len(m.listing)
      /\ \A i \in 1..Len(m.listing) : m.listing[i] \in Dirs
  BY <1>1, LenProperties
<1>3. \A i \in 1..Len(m.listing) : DistinctLines(m.listing[i])
  <2>1. \A i \in DOMAIN m.listing : \A k, l \in DOMAIN m.listing[i].lines :
          m.listing[i].lines[k].name = m.listing[i].lines[l].name => k = l
    BY DEF MachineOK
  <2> QED
    BY <1>2, <2>1 DEF DistinctLines
<1>4. \A i, j \in 1..Len(m.listing) :
        m.listing[i].instance = m.listing[j].instance => i = j
  <2>1. \A i, j \in DOMAIN m.listing :
          m.listing[i].instance = m.listing[j].instance => i = j
    BY DEF MachineOK
  <2> QED
    BY <1>2, <2>1
<1> QED
  BY <1>1, <1>2, <1>3, <1>4

(* While the directories are read, the nodes are those of the first ones;  *)
(* afterwards they are those of all of them, sorted.                       *)
Reading ==
  /\ nodes \in Seq(NodeType)
  /\ m.listing # NoTopology =>
       /\ next <= Len(m.listing) + 1
       /\ Len(nodes) = next - 1
       /\ \A i \in 1..Len(nodes) : nodes[i] = KFDNode(m.listing[i], m.override)

AllRead ==
  /\ nodes \in Seq(NodeType)
  /\ Rising(nodes)
  /\ m.listing # NoTopology
  /\ ToSet(nodes) = {KFDNode(d, m.override) : d \in ToSet(m.listing)}

NodesInv ==
  /\ MachineOK(m)
  /\ phase \in Phases
  /\ next \in Nat \ {0}
  /\ phase = "kfd" => Reading
  /\ phase \in {"scan", "build", "ready"} => AllRead

LEMMA NodesStart == Init => NodesInv
<1> SUFFICES ASSUME Init PROVE NodesInv
  OBVIOUS
<1>1. MachineOK(m)
  BY MachinesAssumption DEF Init
<1>2. nodes \in Seq(NodeType) /\ Len(nodes) = 0 /\ next = 1
  BY DEF Init
<1>3. m.listing # NoTopology => Len(m.listing) \in Nat
  BY <1>1, Listed
<1> QED
  BY <1>1, <1>2, <1>3 DEF Init, NodesInv, Reading, Phases

LEMMA NodesStep == NodesInv /\ [Next]_vars => NodesInv'
<1> SUFFICES ASSUME NodesInv, [Next]_vars PROVE NodesInv'
  OBVIOUS
<1>1. MachineOK(m) /\ phase \in Phases /\ next \in Nat \ {0}
  BY DEF NodesInv
<1>2. CASE ReadNode
  <2> DEFINE d == m.listing[next]
             x == KFDNode(d, m.override)
  <2>1. /\ phase = "kfd" /\ phase' = phase /\ m' = m /\ next' = next + 1
        /\ m.listing # NoTopology /\ next <= Len(m.listing)
        /\ nodes' = Append(nodes, x)
    BY <1>2 DEF ReadNode
  <2>2. /\ nodes \in Seq(NodeType) /\ Len(nodes) = next - 1
        /\ \A i \in 1..Len(nodes) : nodes[i] = KFDNode(m.listing[i], m.override)
    BY <2>1 DEF NodesInv, Reading
  <2>3. Len(m.listing) \in Nat /\ m.override \in Entries /\ d \in Dirs /\ DistinctLines(d)
    BY <1>1, <2>1, Listed
  <2>4. x \in NodeType
    <3>1. x.props \in PropsType /\ x.instance = d.instance
      BY <2>3, NodePrinted DEF AsPrinted
    <3>2. x = [instance |-> x.instance, props |-> x.props]
      BY DEF KFDNode
    <3>3. d.instance \in Nat
      BY <2>3 DEF Dirs
    <3> HIDE DEF x
    <3> QED
      BY <3>1, <3>2, <3>3 DEF NodeType
  <2> HIDE DEF x
  <2>5. nodes' \in Seq(NodeType) /\ Len(nodes') = next
    BY <1>1, <2>1, <2>2, <2>4
  <2>6. ASSUME NEW i \in 1..Len(nodes')
        PROVE  nodes'[i] = KFDNode(m.listing[i], m.override)
    <3>1. CASE i = next
      BY <1>1, <2>1, <2>2, <3>1 DEF x
    <3>2. CASE i # next
      <4>1. i \in 1..Len(nodes)
        BY <1>1, <2>2, <2>5, <3>2
      <4>2. nodes'[i] = nodes[i]
        BY <2>1, <2>2, <2>4, <4>1
      <4> QED
        BY <2>2, <4>1, <4>2
    <3> QED
      BY <3>1, <3>2
  <2>7. next' \in Nat \ {0} /\ next' <= Len(m.listing) + 1 /\ Len(nodes') = next' - 1
    BY <1>1, <2>1, <2>3, <2>5
  <2>8. MachineOK(m')
    BY <1>1, <2>1
  <2> HIDE DEF d
  <2> QED
    BY <1>1, <2>1, <2>5, <2>6, <2>7, <2>8 DEF NodesInv, Reading
<1>3. CASE ReadThrows
  BY <1>1, <1>3 DEF NodesInv, ReadThrows, Phases, MachineOK
<1>4. CASE NodesRead
  <2>1. /\ phase = "kfd" /\ phase' = "scan" /\ m' = m /\ next' = 1
        /\ m.listing # NoTopology /\ next > Len(m.listing)
        /\ nodes' = Sorted(nodes)
    BY <1>4 DEF NodesRead
  <2>2. /\ nodes \in Seq(NodeType) /\ Len(nodes) = next - 1
        /\ next <= Len(m.listing) + 1
        /\ \A i \in 1..Len(nodes) : nodes[i] = KFDNode(m.listing[i], m.override)
    BY <2>1 DEF NodesInv, Reading
  <2>3. Len(m.listing) \in Nat /\ DOMAIN m.listing = 1..Len(m.listing)
    BY <1>1, <2>1, Listed
  <2>4. DOMAIN nodes = 1..Len(m.listing) /\ Len(nodes) = Len(m.listing)
    <3>1. Len(nodes) = Len(m.listing)
      BY <1>1, <2>1, <2>2, <2>3
    <3> QED
      BY <2>2, <3>1
  <2>5. ToSet(nodes) = {KFDNode(d, m.override) : d \in ToSet(m.listing)}
    BY <2>2, <2>3, <2>4 DEF ToSet
  <2>6. \A i, j \in DOMAIN nodes : nodes[i].instance = nodes[j].instance => i = j
    <3>1. SUFFICES ASSUME NEW i \in 1..Len(m.listing), NEW j \in 1..Len(m.listing),
                          nodes[i].instance = nodes[j].instance
                   PROVE  i = j
      BY <2>4
    <3>2. nodes[i].instance = m.listing[i].instance /\ nodes[j].instance = m.listing[j].instance
      BY <2>2, <2>4 DEF KFDNode
    <3> QED
      BY <1>1, <2>1, <3>1, <3>2, Listed
  <2>7. /\ nodes' \in Seq(NodeType) /\ Rising(nodes')
        /\ ToSet(nodes') = {KFDNode(d, m.override) : d \in ToSet(m.listing)}
    BY <2>1, <2>2, <2>5, <2>6, SortedNodes
  <2>8. AllRead'
    BY <2>1, <2>7 DEF AllRead
  <2>9. MachineOK(m')
    BY <1>1, <2>1
  <2> QED
    BY <2>1, <2>8, <2>9 DEF NodesInv, Phases
<1>5. CASE UNCHANGED <<m, nodes, phase>> /\ next' = next + 1 /\ phase # "kfd"
  <2>1. AllRead => AllRead'
    BY <1>5 DEF AllRead
  <2> QED
    BY <1>1, <1>5, <2>1 DEF NodesInv
<1>6. CASE UNCHANGED <<m, nodes, next>> /\ phase # "kfd" /\ phase' = "failed"
  BY <1>1, <1>6 DEF NodesInv, Phases
<1>7. CASE /\ UNCHANGED <<m, nodes, next>> /\ phase \in {"scan", "build"}
           /\ phase' \in {"scan", "build", "ready"}
  <2>1. AllRead => AllRead'
    BY <1>7 DEF AllRead
  <2> QED
    BY <1>1, <1>7, <2>1 DEF NodesInv, Phases
<1>8. CASE UNCHANGED vars
  <2>1. m' = m /\ nodes' = nodes /\ phase' = phase /\ next' = next
    BY <1>8 DEF vars
  <2>2. (AllRead => AllRead') /\ (Reading => Reading')
    BY <2>1 DEF AllRead, Reading
  <2> QED
    BY <1>1, <2>1, <2>2 DEF NodesInv
<1>9. ScanNode => UNCHANGED <<m, nodes, phase>> /\ next' = next + 1 /\ phase # "kfd"
  BY DEF ScanNode
<1>10. BuildThrows => UNCHANGED <<m, nodes, next>> /\ phase # "kfd" /\ phase' = "failed"
  BY DEF BuildThrows
<1>11. ScanDone \/ BuildDevice \/ EnumeratePartitions =>
         /\ UNCHANGED <<m, nodes, next>> /\ phase \in {"scan", "build"}
         /\ phase' \in {"scan", "build", "ready"}
  BY DEF ScanDone, BuildDevice, EnumeratePartitions
<1> QED
  BY <1>2, <1>3, <1>4, <1>5, <1>6, <1>7, <1>8, <1>9, <1>10, <1>11 DEF Next

THEOREM NodesInvariant == Spec => []NodesInv
<1>1. NodesInv /\ [Next]_vars => NodesInv'
  BY NodesStep
<1> QED
  BY <1>1, NodesStart, PTL DEF Spec

(* NodesAsPrinted: the constructor of KFDHandle, for any directories and   *)
(* any override, gives every node the values of its own directory, in the  *)
(* order of the directories' numbers.                                      *)
THEOREM Printing == Spec => []NodesAsPrinted
<1>1. NodesInv => NodesAsPrinted
  <2> SUFFICES ASSUME NodesInv, phase \in {"scan", "build", "ready"}
               PROVE  NodesAsPrinted
    BY DEF NodesAsPrinted
  <2>1. /\ MachineOK(m) /\ nodes \in Seq(NodeType) /\ Rising(nodes) /\ m.listing # NoTopology
        /\ ToSet(nodes) = {KFDNode(d, m.override) : d \in ToSet(m.listing)}
    BY DEF NodesInv, AllRead
  <2>2. \A d \in ToSet(m.listing) : d \in Dirs /\ DistinctLines(d) /\ m.override \in Entries
    BY <2>1, Listed DEF ToSet
  <2>3. \A d \in ToSet(m.listing) : AsPrinted(KFDNode(d, m.override), d)
    BY <2>2, NodePrinted
  <2>4. \A d, e \in ToSet(m.listing) : d.instance = e.instance => d = e
    BY <2>1, Listed DEF ToSet
  <2>5. {d.instance : d \in ToSet(m.listing)} = {x.instance : x \in ToSet(nodes)}
    BY <2>1, <2>3 DEF AsPrinted
  <2>6. \A d \in ToSet(m.listing), x \in ToSet(nodes) :
          d.instance = x.instance => AsPrinted(x, d)
    BY <2>1, <2>3, <2>4 DEF AsPrinted
  <2> QED
    BY <2>1, <2>5, <2>6 DEF NodesAsPrinted, AsPrinted, Rising, Unprinted
<1> QED
  BY <1>1, NodesInvariant, PTL

-----------------------------------------------------------------------------
LEMMA KeyType ==
  ASSUME NEW props \in PropsType
  PROVE  Key(props) \in Nat /\ Address(props) \in Nat
<1> DEFINE l == props.location_id
           d == props.domain
<1>1. l \in Nat /\ d \in Nat
  BY SomeNames DEF PropsType
<1> HIDE DEF l, d
<1>2. /\ l % 268435456 \in Nat /\ l % 8 \in 0..7 /\ l % 65536 \in Nat
      /\ l = 268435456 * (l \div 268435456) + (l % 268435456)
      /\ l = 8 * (l \div 8) + (l % 8)
      /\ l \div 268435456 \in Nat /\ l \div 8 \in Nat
  BY <1>1
<1>3. l % 268435456 >= l % 8
  <2> DEFINE r == l % 268435456
             s == l % 8
             p == l \div 268435456
             q == l \div 8
  <2>1. r \in Nat /\ s \in 0..7 /\ p \in Nat /\ q \in Nat /\ 268435456 * p + r = 8 * q + s
    BY <1>2
  <2> HIDE DEF r, s, p, q
  <2>2. r >= s
    BY <2>1
  <2> QED
    BY <2>2 DEF r, s
<1> DEFINE r == l % 268435456
           s == l % 8
           t == l % 65536
<1>4. 65536 * d + r - s \in Nat /\ 65536 * d + t \in Nat
  <2>1. r \in Nat /\ s \in 0..7 /\ t \in Nat /\ r >= s
    BY <1>2, <1>3
  <2> HIDE DEF r, s, t
  <2> QED
    BY <1>1, <2>1
<1> QED
  BY <1>4 DEF Key, Address, l, d

(* The numberings of the scan, for any sequence of nodes                   *)
KeyAt(ns, n) == Key(ns[n].props)
Gpus(ns) == {n \in 1..Len(ns) : ns[n].props.simd_count # 0}
At(ns, b) == {n \in Gpus(ns) : KeyAt(ns, n) = b}
First(ns, b) == Smallest(At(ns, b))
Rank(ns, n) == Cardinality({k \in Gpus(ns) : k < n})
KeysBefore(ns, n) == {KeyAt(ns, k) : k \in {j \in Gpus(ns) : j < n}}
Keys(ns) == {KeyAt(ns, n) : n \in Gpus(ns)}

LEMMA SmallestIs ==
  ASSUME NEW S \in SUBSET Nat, S # {}
  PROVE  Smallest(S) \in S /\ \A y \in S : Smallest(S) <= y
BY LeastExists DEF Smallest

(* They are those of Enumeration.                                          *)
LEMMA Bridge ==
  /\ GpuNodes = Gpus(nodes)
  /\ \A b : NodesAt(b) = At(nodes, b)
  /\ \A n : Key(Props(n)) = KeyAt(nodes, n)
  /\ \A n : Props(n) = nodes[n].props
<1>1. \A n : Props(n) = nodes[n].props
  BY DEF Props
<1>2. GpuNodes = Gpus(nodes)
  BY DEF GpuNodes, Gpus, IsGpu, Props, NumNodes
<1>3. \A n : Key(Props(n)) = KeyAt(nodes, n)
  BY <1>1 DEF KeyAt
<1>4. \A b : NodesAt(b) = At(nodes, b)
  BY <1>2, <1>3 DEF NodesAt, At
<1> QED
  BY <1>1, <1>2, <1>3, <1>4

LEMMA NodeFacts ==
  ASSUME NEW ns \in Seq(NodeType)
  PROVE  /\ Len(ns) \in Nat
         /\ \A n \in Gpus(ns) : n \in 1..Len(ns)
         /\ \A n \in 1..Len(ns) : ns[n].props \in PropsType /\ KeyAt(ns, n) \in Nat
         /\ Keys(ns) \subseteq Nat
         /\ \A b : \A n : n \in At(ns, b) <=> n \in Gpus(ns) /\ KeyAt(ns, n) = b
<1>1. Len(ns) \in Nat /\ \A n \in 1..Len(ns) : ns[n] \in NodeType
  BY LenProperties
<1>2. \A n \in 1..Len(ns) : ns[n].props \in PropsType
  BY <1>1 DEF NodeType
<1>3. \A n \in 1..Len(ns) : KeyAt(ns, n) \in Nat
  BY <1>2, KeyType DEF KeyAt
<1>4. \A n \in Gpus(ns) : n \in 1..Len(ns)
  BY DEF Gpus
<1> QED
  BY <1>1, <1>2, <1>3, <1>4 DEF Keys, At

(* The rank of a GPU node is the number of those before it.                *)
LEMMA RankFacts ==
  ASSUME NEW ns \in Seq(NodeType)
  PROVE  /\ Rank(ns, 1) = 0
         /\ \A n \in 1..Len(ns) :
              Rank(ns, n + 1) = IF n \in Gpus(ns) THEN Rank(ns, n) + 1 ELSE Rank(ns, n)
         /\ \A n \in Nat : Rank(ns, n) \in Nat /\ Rank(ns, n) <= Len(ns)
         /\ \A k, n \in Gpus(ns) : k < n => Rank(ns, k) < Rank(ns, n)
<1> DEFINE B(n) == {k \in Gpus(ns) : k < n}
           N == Len(ns)
<1>1. N \in Nat /\ Gpus(ns) \subseteq 1..N
  BY NodeFacts
<1> HIDE DEF N
<1>2. \A n : IsFiniteSet(B(n)) /\ Cardinality(B(n)) \in Nat /\ Cardinality(B(n)) <= N
  <2> TAKE n
  <2>1. B(n) \in SUBSET (1..N)
    BY <1>1
  <2>2. IsFiniteSet(1..N) /\ Cardinality(1..N) = N
    BY <1>1, FS_Interval
  <2> HIDE DEF B
  <2>3. IsFiniteSet(B(n)) /\ Cardinality(B(n)) <= Cardinality(1..N)
    BY <2>1, <2>2, FS_Subset
  <2>4. Cardinality(B(n)) \in Nat
    BY <2>3, FS_CardinalityType
  <2> QED
    BY <2>2, <2>3, <2>4
<1> \A k \in Gpus(ns) : k \in Nat /\ 1 <= k /\ k <= N
  BY <1>1
<1>3. B(1) = {}
  OBVIOUS
<1>4. ASSUME NEW n \in 1..N
      PROVE  B(n + 1) = IF n \in Gpus(ns) THEN B(n) \union {n} ELSE B(n)
  <2>1. \A k \in Gpus(ns) : k < n + 1 <=> (k < n \/ k = n)
    OBVIOUS
  <2> QED
    BY <2>1
<1>5. \A n \in 1..N : n \notin B(n)
  BY <1>1
<1>6. ASSUME NEW k \in Gpus(ns), NEW n \in Gpus(ns), k < n
      PROVE  B(k) \union {k} \in SUBSET B(n) /\ k \notin B(k)
  <2>1. \A x \in Gpus(ns) : x < k => x < n
    BY <1>6
  <2> QED
    BY <1>6, <2>1
<1>7. \A n : Rank(ns, n) = Cardinality(B(n))
  BY DEF Rank
<1> HIDE DEF B
<1>8. Rank(ns, 1) = 0
  BY <1>3, <1>7, FS_EmptySet
<1>9. ASSUME NEW n \in 1..N
      PROVE  Rank(ns, n + 1) = IF n \in Gpus(ns) THEN Rank(ns, n) + 1 ELSE Rank(ns, n)
  <2>1. CASE n \in Gpus(ns)
    <3>1. Cardinality(B(n) \union {n}) = Cardinality(B(n)) + 1
      BY <1>2, <1>5, FS_AddElement
    <3> QED
      BY <1>4, <1>7, <2>1, <3>1
  <2>2. CASE n \notin Gpus(ns)
    BY <1>4, <1>7, <2>2
  <2> QED
    BY <2>1, <2>2
<1>10. ASSUME NEW k \in Gpus(ns), NEW n \in Gpus(ns), k < n PROVE Rank(ns, k) < Rank(ns, n)
  <2>1. /\ IsFiniteSet(B(k) \union {k})
        /\ Cardinality(B(k) \union {k}) = Cardinality(B(k)) + 1
    BY <1>2, <1>6, <1>10, FS_AddElement
  <2>2. Cardinality(B(k) \union {k}) <= Cardinality(B(n))
    <3>1. IsFiniteSet(B(n)) /\ B(k) \union {k} \in SUBSET B(n)
      BY <1>2, <1>6, <1>10
    <3> QED
      BY <3>1, FS_Subset
  <2> QED
    BY <1>2, <1>7, <2>1, <2>2
<1> QED
  BY <1>2, <1>7, <1>8, <1>9, <1>10 DEF N

-----------------------------------------------------------------------------
EntryType == [node : Nat, id : Nat]
BuilderType == [instance : Nat, address : Nat, nodes : Seq(EntryType)]

(* The list has the nodes with key b that come before k, in their order.   *)
Lists(ns, list, b, k) ==
  /\ \A i, j \in 1..Len(list) : i < j => list[i].node < list[j].node
  /\ \A i \in 1..Len(list) : list[i].node \in At(ns, b) /\ list[i].node < k
  /\ \A n \in At(ns, b) : n < k => \E i \in 1..Len(list) : list[i].node = n

Numbered(ns, list) == \A i \in 1..Len(list) : list[i].id = Rank(ns, list[i].node)

(* x is the builder of the device at b when the scan has come to k.        *)
Built(ns, x, b, k) ==
  /\ x \in BuilderType
  /\ Lists(ns, x.nodes, b, k)
  /\ Numbered(ns, x.nodes)
  /\ x.address = Address(ns[First(ns, b)].props)
  /\ x.instance = Cardinality(KeysBefore(ns, First(ns, b)))

LEMMA ListStays ==
  ASSUME NEW ns \in Seq(NodeType), NEW list \in Seq(EntryType), NEW b,
         NEW k \in 1..Len(ns), Lists(ns, list, b, k), k \notin At(ns, b)
  PROVE  Lists(ns, list, b, k + 1)
<1>1. \A n \in At(ns, b) : n \in Nat /\ (n < k + 1 <=> n < k)
  <2>1. \A n \in At(ns, b) : n \in 1..Len(ns) /\ n # k
    BY NodeFacts
  <2>2. Len(ns) \in Nat
    BY NodeFacts
  <2> QED
    BY <2>1, <2>2
<1> QED
  BY <1>1 DEF Lists

LEMMA ListGrows ==
  ASSUME NEW ns \in Seq(NodeType), NEW list \in Seq(EntryType), NEW b,
         NEW k \in 1..Len(ns), Lists(ns, list, b, k), k \in At(ns, b),
         NEW e \in EntryType, e.node = k, e.id = Rank(ns, k), Numbered(ns, list)
  PROVE  /\ Append(list, e) \in Seq(EntryType)
         /\ Lists(ns, Append(list, e), b, k + 1)
         /\ Numbered(ns, Append(list, e))
<1> DEFINE more == Append(list, e)
           N == Len(list)
<1>1. /\ more \in Seq(EntryType) /\ N \in Nat /\ Len(more) = N + 1
      /\ \A i \in 1..N : more[i] = list[i]
      /\ more[N + 1] = e
  OBVIOUS
<1>2. \A n \in At(ns, b) : n \in Nat /\ (n < k + 1 <=> n < k \/ n = k)
  <2>1. \A n \in At(ns, b) : n \in 1..Len(ns)
    BY NodeFacts
  <2>2. Len(ns) \in Nat
    BY NodeFacts
  <2> QED
    BY <2>1, <2>2
<1> HIDE DEF more, N
<1>3. \A i \in 1..N + 1 : i \in 1..N \/ i = N + 1
  BY <1>1
<1>4. \A i \in 1..N : i \in 1..N + 1 /\ i < N + 1 /\ ~(N + 1 < i)
  BY <1>1
<1>5. /\ \A i, j \in 1..N : i < j => list[i].node < list[j].node
      /\ \A i \in 1..N : list[i].node \in At(ns, b) /\ list[i].node < k
      /\ \A n \in At(ns, b) : n < k => \E i \in 1..N : list[i].node = n
      /\ \A i \in 1..N : list[i].id = Rank(ns, list[i].node)
  BY DEF Lists, Numbered, N
<1>6. \A i, j \in 1..N + 1 : i < j => more[i].node < more[j].node
  <2>1. SUFFICES ASSUME NEW i \in 1..N + 1, NEW j \in 1..N + 1, i < j
                 PROVE  more[i].node < more[j].node
    OBVIOUS
  <2>2. i \in 1..N
    BY <1>1, <2>1
  <2>3. CASE j \in 1..N
    BY <1>1, <1>5, <2>1, <2>2, <2>3
  <2>4. CASE j = N + 1
    BY <1>1, <1>5, <2>2, <2>4
  <2> QED
    BY <1>3, <2>3, <2>4
<1>7. \A i \in 1..N + 1 : more[i].node \in At(ns, b) /\ more[i].node < k + 1
  <2> TAKE i \in 1..N + 1
  <2>1. CASE i \in 1..N
    BY <1>1, <1>2, <1>5, <2>1
  <2>2. CASE i = N + 1
    BY <1>1, <1>2, <2>2
  <2> QED
    BY <1>3, <2>1, <2>2
<1>8. \A n \in At(ns, b) : n < k + 1 => \E i \in 1..N + 1 : more[i].node = n
  <2> SUFFICES ASSUME NEW n \in At(ns, b), n < k + 1
               PROVE  \E i \in 1..N + 1 : more[i].node = n
    OBVIOUS
  <2>1. CASE n < k
    BY <1>1, <1>4, <1>5, <2>1
  <2>2. CASE n = k
    <3>1. N + 1 \in 1..N + 1
      BY <1>1
    <3> QED
      BY <1>1, <2>2, <3>1
  <2> QED
    BY <1>2, <2>1, <2>2
<1>9. \A i \in 1..N + 1 : more[i].id = Rank(ns, more[i].node)
  BY <1>1, <1>3, <1>5
<1> QED
  BY <1>1, <1>6, <1>7, <1>8, <1>9 DEF Lists, Numbered, more

LEMMA KeysGrow ==
  ASSUME NEW ns \in Seq(NodeType), NEW k \in 1..Len(ns)
  PROVE  KeysBefore(ns, k + 1) = IF k \in Gpus(ns) THEN KeysBefore(ns, k) \union {KeyAt(ns, k)}
                                                   ELSE KeysBefore(ns, k)
<1>1. \A j \in Gpus(ns) : j \in Nat /\ (j < k + 1 <=> j < k \/ j = k)
  BY NodeFacts
<1>2. {j \in Gpus(ns) : j < k + 1} = IF k \in Gpus(ns) THEN {j \in Gpus(ns) : j < k} \union {k}
                                                        ELSE {j \in Gpus(ns) : j < k}
  BY <1>1
<1> QED
  BY <1>2 DEF KeysBefore

(* A key that is met for the first time is met at its first node.          *)
LEMMA FirstMet ==
  ASSUME NEW ns \in Seq(NodeType), NEW k \in Gpus(ns),
         KeyAt(ns, k) \notin KeysBefore(ns, k)
  PROVE  First(ns, KeyAt(ns, k)) = k
<1> DEFINE S == At(ns, KeyAt(ns, k))
<1>1. k \in S /\ \A n \in S : n \in Gpus(ns) /\ KeyAt(ns, n) = KeyAt(ns, k)
  BY NodeFacts
<1>2. Len(ns) \in Nat /\ \A n \in Gpus(ns) : n \in 1..Len(ns)
  BY NodeFacts
<1>3. S \in SUBSET Nat /\ k \in Nat
  BY <1>1, <1>2
<1>4. \A n \in S : ~(n < k)
  BY <1>1 DEF KeysBefore
<1> HIDE DEF S
<1>5. Smallest(S) \in S /\ \A n \in S : Smallest(S) <= n
  BY <1>1, <1>3, SmallestIs
<1>6. Smallest(S) = k
  <2> DEFINE s == Smallest(S)
  <2>1. s \in Nat /\ s <= k /\ ~(s < k)
    BY <1>1, <1>3, <1>4, <1>5
  <2> HIDE DEF s
  <2>2. s = k
    BY <1>3, <2>1
  <2> QED
    BY <2>2 DEF s
<1> QED
  BY <1>6 DEF First, S

LEMMA BuiltStays ==
  ASSUME NEW ns \in Seq(NodeType), NEW k \in 1..Len(ns), NEW b, NEW x,
         Built(ns, x, b, k), k \notin At(ns, b)
  PROVE  Built(ns, x, b, k + 1)
<1>1. x.nodes \in Seq(EntryType) /\ Lists(ns, x.nodes, b, k)
  BY DEF Built, BuilderType
<1>2. Lists(ns, x.nodes, b, k + 1)
  BY <1>1, ListStays
<1> QED
  BY <1>2 DEF Built

LEMMA BuiltGrows ==
  ASSUME NEW ns \in Seq(NodeType), NEW k \in Gpus(ns), NEW x,
         Built(ns, x, KeyAt(ns, k), k)
  PROVE  Built(ns, [x EXCEPT !.nodes = Append(@, [node |-> k, id |-> Rank(ns, k)])],
               KeyAt(ns, k), k + 1)
<1> DEFINE e == [node |-> k, id |-> Rank(ns, k)]
           b == KeyAt(ns, k)
           more == Append(x.nodes, e)
           y == [x EXCEPT !.nodes = Append(@, e)]
<1>1. /\ x \in BuilderType /\ x.nodes \in Seq(EntryType)
      /\ Lists(ns, x.nodes, b, k) /\ Numbered(ns, x.nodes)
  BY DEF Built, BuilderType
<1>2. k \in 1..Len(ns) /\ Len(ns) \in Nat /\ k \in At(ns, b)
  BY NodeFacts
<1>3. Rank(ns, k) \in Nat
  BY <1>2, RankFacts
<1>4. e \in EntryType /\ e.node = k /\ e.id = Rank(ns, k)
  BY <1>2, <1>3 DEF EntryType
<1> HIDE DEF e, b
<1>5. more \in Seq(EntryType) /\ Lists(ns, more, b, k + 1) /\ Numbered(ns, more)
  BY <1>1, <1>2, <1>4, ListGrows
<1> HIDE DEF more
<1>6. y = [x EXCEPT !.nodes = more]
  BY DEF more
<1>7. /\ y \in BuilderType /\ y.nodes = more
      /\ y.address = x.address /\ y.instance = x.instance
  BY <1>1, <1>5, <1>6 DEF BuilderType
<1> HIDE DEF y
<1>8. Built(ns, y, b, k + 1)
  BY <1>5, <1>7 DEF Built, b
<1> QED
  BY <1>8 DEF y, e, b

(* There are no more keys than nodes.                                      *)
LEMMA KeysFewer ==
  ASSUME NEW ns \in Seq(NodeType), NEW k
  PROVE  /\ Cardinality(KeysBefore(ns, k)) \in Nat
         /\ Cardinality(KeysBefore(ns, k)) <= Len(ns)
<1> DEFINE J == {j \in Gpus(ns) : j < k}
           f == [j \in J |-> KeyAt(ns, j)]
           K == KeysBefore(ns, k)
           N == Len(ns)
<1>1. N \in Nat /\ J \in SUBSET (1..N)
  BY NodeFacts
<1>2. K = {KeyAt(ns, j) : j \in J}
  BY DEF KeysBefore
<1> HIDE DEF J, K, N
<1>3. IsFiniteSet(1..N) /\ Cardinality(1..N) = N
  BY <1>1, FS_Interval
<1>4. IsFiniteSet(J) /\ Cardinality(J) <= N
  BY <1>1, <1>3, FS_Subset
<1>5. f \in Surjection(J, K)
  BY <1>2 DEF Surjection
<1> HIDE DEF f
<1>6. IsFiniteSet(K) /\ Cardinality(K) <= Cardinality(J)
  BY <1>4, <1>5, FS_Surjection
<1>7. Cardinality(K) \in Nat /\ Cardinality(J) \in Nat
  BY <1>4, <1>6, FS_CardinalityType
<1> QED
  BY <1>1, <1>4, <1>6, <1>7 DEF K, N

LEMMA BuiltFirst ==
  ASSUME NEW ns \in Seq(NodeType), NEW k \in Gpus(ns),
         KeyAt(ns, k) \notin KeysBefore(ns, k)
  PROVE  Built(ns, [instance |-> Cardinality(KeysBefore(ns, k)),
                    address |-> Address(ns[k].props), nodes |-> << >>], KeyAt(ns, k), k)
<1> DEFINE b == KeyAt(ns, k)
           x == [instance |-> Cardinality(KeysBefore(ns, k)),
                 address |-> Address(ns[k].props), nodes |-> << >>]
<1>1. First(ns, b) = k
  BY FirstMet
<1>2. k \in 1..Len(ns) /\ Len(ns) \in Nat /\ ns[k].props \in PropsType
  BY NodeFacts
<1>3. Cardinality(KeysBefore(ns, k)) \in Nat
  BY KeysFewer
<1>4. Address(ns[k].props) \in Nat
  BY <1>2, KeyType
<1>5. x \in BuilderType /\ x.nodes = << >>
  BY <1>3, <1>4 DEF BuilderType
<1>6. \A n \in At(ns, b) : ~(n < k)
  BY NodeFacts DEF KeysBefore
<1>7. Lists(ns, << >>, b, k) /\ Numbered(ns, << >>)
  BY <1>6 DEF Lists, Numbered
<1>8. x.address = Address(ns[First(ns, b)].props)
      /\ x.instance = Cardinality(KeysBefore(ns, First(ns, b)))
  BY <1>1
<1> HIDE DEF x
<1>9. Built(ns, x, b, k)
  BY <1>5, <1>7, <1>8 DEF Built
<1> QED
  BY <1>9 DEF x

-----------------------------------------------------------------------------
(* The builders are those of the keys met so far.                          *)
Scanning ==
  /\ next \in 1..Len(nodes) + 1
  /\ globalId = Rank(nodes, next)
  /\ DOMAIN builders = KeysBefore(nodes, next)
  /\ \A b \in DOMAIN builders : Built(nodes, builders[b], b, next)

ScanInv ==
  /\ phase = "kfd" => globalId = 0 /\ DOMAIN builders = {}
  /\ phase \in {"kfd", "scan"} => devices = << >>
  /\ phase \in {"scan", "build"} => Scanning
  /\ phase = "build" => next = Len(nodes) + 1

LEMMA ScanningStep ==
  ASSUME NodesInv, Scanning, ScanNode PROVE Scanning'
<1>1. /\ phase = "scan" /\ next <= Len(nodes) /\ next' = next + 1 /\ nodes' = nodes
  BY DEF ScanNode, NumNodes
<1>2. nodes \in Seq(NodeType) /\ Len(nodes) \in Nat
  BY <1>1, NodeFacts DEF NodesInv, AllRead
<1>3. /\ next \in 1..Len(nodes) /\ globalId = Rank(nodes, next)
      /\ DOMAIN builders = KeysBefore(nodes, next)
      /\ \A b \in DOMAIN builders : Built(nodes, builders[b], b, next)
  BY <1>1, <1>2 DEF Scanning
<1>4. next' \in 1..Len(nodes) + 1
  BY <1>1, <1>2, <1>3
<1>5. CASE ~IsGpu(next) /\ UNCHANGED <<builders, globalId>>
  <2>1. next \notin Gpus(nodes)
    BY <1>5 DEF IsGpu, Props, Gpus
  <2>2. Rank(nodes, next + 1) = globalId /\ KeysBefore(nodes, next + 1) = DOMAIN builders
    BY <1>2, <1>3, <2>1, RankFacts, KeysGrow
  <2>3. \A b \in DOMAIN builders : Built(nodes, builders[b], b, next + 1)
    <3> TAKE b \in DOMAIN builders
    <3>1. next \notin At(nodes, b)
      BY <2>1 DEF At
    <3> QED
      BY <1>2, <1>3, <3>1, BuiltStays
  <2> QED
    BY <1>1, <1>4, <1>5, <2>2, <2>3 DEF Scanning
<1>6. CASE /\ IsGpu(next) /\ globalId' = globalId + 1
           /\ builders' = WithPartition(Key(Props(next)), [node |-> next, id |-> globalId])
  <2> DEFINE b == KeyAt(nodes, next)
             e == [node |-> next, id |-> Rank(nodes, next)]
             new == [instance |-> Cardinality(KeysBefore(nodes, next)),
                     address |-> Address(nodes[next].props), nodes |-> << >>]
             mine == IF b \in DOMAIN builders THEN builders[b] ELSE new
             more == [mine EXCEPT !.nodes = Append(@, e)]
  <2>1. next \in Gpus(nodes)
    BY <1>3, <1>6 DEF IsGpu, Props, Gpus
  <2>2. /\ Rank(nodes, next + 1) = globalId + 1
        /\ KeysBefore(nodes, next + 1) = DOMAIN builders \union {b}
    BY <1>2, <1>3, <2>1, RankFacts, KeysGrow
  <2>3. builders' = [k \in DOMAIN builders \union {b} |-> IF k = b THEN more ELSE builders[k]]
    BY <1>3, <1>6 DEF WithPartition, Props, KeyAt
  <2>4. Built(nodes, mine, b, next)
    <3>1. CASE b \in DOMAIN builders
      BY <1>3, <3>1
    <3>2. CASE b \notin DOMAIN builders
      BY <1>2, <1>3, <2>1, <3>2, BuiltFirst
    <3> QED
      BY <3>1, <3>2
  <2> HIDE DEF mine
  <2>5. Built(nodes, more, b, next + 1)
    BY <1>2, <2>1, <2>4, BuiltGrows
  <2> HIDE DEF more
  <2>6. \A k \in DOMAIN builders : k # b => Built(nodes, builders[k], k, next + 1)
    <3> SUFFICES ASSUME NEW k \in DOMAIN builders, k # b
                 PROVE  Built(nodes, builders[k], k, next + 1)
      OBVIOUS
    <3>1. next \notin At(nodes, k)
      BY DEF At
    <3> QED
      BY <1>2, <1>3, <3>1, BuiltStays
  <2> HIDE DEF b
  <2>7. /\ DOMAIN builders' = DOMAIN builders \union {b}
        /\ \A k \in DOMAIN builders' : builders'[k] = IF k = b THEN more ELSE builders[k]
    BY <2>3
  <2>8. \A k \in DOMAIN builders' : Built(nodes, builders'[k], k, next + 1)
    <3> TAKE k \in DOMAIN builders'
    <3>1. CASE k = b
      BY <2>5, <2>7, <3>1
    <3>2. CASE k # b
      BY <2>6, <2>7, <3>2
    <3> QED
      BY <3>1, <3>2
  <2> QED
    BY <1>1, <1>4, <1>6, <2>2, <2>7, <2>8 DEF Scanning
<1> QED
  BY <1>5, <1>6 DEF ScanNode

LEMMA ScanStart == Init => ScanInv
BY DEF Init, ScanInv

LEMMA ScanStep == NodesInv /\ ScanInv /\ [Next]_vars => ScanInv'
<1> SUFFICES ASSUME NodesInv, ScanInv, [Next]_vars PROVE ScanInv'
  OBVIOUS
<1>1. CASE ReadNode
  BY <1>1 DEF ScanInv, ReadNode
<1>2. CASE ReadThrows
  BY <1>2 DEF ScanInv, ReadThrows
<1>3. CASE NodesRead
  <2>1. /\ phase = "kfd" /\ phase' = "scan" /\ next' = 1 /\ nodes' = Sorted(nodes) /\ m' = m
        /\ globalId' = globalId /\ builders' = builders /\ devices' = devices
    BY <1>3 DEF NodesRead
  <2>2. globalId = 0 /\ DOMAIN builders = {} /\ devices = << >>
    BY <2>1 DEF ScanInv
  <2>3. nodes' \in Seq(NodeType)
    <3>1. NodesInv'
      BY NodesStep
    <3> QED
      BY <2>1, <3>1 DEF NodesInv, AllRead
  <2>4. next' \in 1..Len(nodes') + 1 /\ Rank(nodes', 1) = 0
    BY <2>1, <2>3, NodeFacts, RankFacts
  <2>5. KeysBefore(nodes', 1) = {}
    <3>1. \A j \in Gpus(nodes') : ~(j < 1)
      BY <2>3, NodeFacts
    <3> QED
      BY <3>1 DEF KeysBefore
  <2>6. Scanning'
    BY <2>1, <2>2, <2>4, <2>5 DEF Scanning
  <2> QED
    BY <2>1, <2>2, <2>6 DEF ScanInv
<1>4. CASE ScanNode
  <2>1. Scanning'
    BY <1>4, ScanningStep DEF ScanInv, ScanNode
  <2> QED
    BY <1>4, <2>1 DEF ScanInv, ScanNode
<1>5. CASE ScanDone
  <2>1. /\ phase = "scan" /\ phase' = "build" /\ next > Len(nodes)
        /\ UNCHANGED <<nodes, next, globalId, builders, devices>>
    BY <1>5 DEF ScanDone, NumNodes
  <2>2. Scanning
    BY <2>1 DEF ScanInv
  <2>3. next = Len(nodes) + 1
    <3>1. Len(nodes) \in Nat
      BY <2>1, NodeFacts DEF NodesInv, AllRead
    <3> QED
      BY <2>1, <2>2, <3>1 DEF Scanning
  <2>4. Scanning'
    BY <2>1, <2>2 DEF Scanning
  <2> QED
    BY <2>1, <2>3, <2>4 DEF ScanInv
<1>6. CASE BuildDevice
  <2>1. /\ phase = "build" /\ phase' = phase /\ UNCHANGED <<nodes, next, globalId, builders>>
    BY <1>6 DEF BuildDevice
  <2>2. Scanning'
    BY <2>1 DEF ScanInv, Scanning
  <2> QED
    BY <2>1, <2>2 DEF ScanInv
<1>7. CASE BuildThrows
  BY <1>7 DEF ScanInv, BuildThrows
<1>8. CASE EnumeratePartitions
  BY <1>8 DEF ScanInv, EnumeratePartitions
<1>9. CASE UNCHANGED vars
  <2>1. UNCHANGED <<phase, nodes, next, globalId, builders, devices>>
    BY <1>9 DEF vars
  <2>2. Scanning => Scanning'
    BY <2>1 DEF Scanning
  <2> QED
    BY <2>1, <2>2 DEF ScanInv
<1> QED
  BY <1>1, <1>2, <1>3, <1>4, <1>5, <1>6, <1>7, <1>8, <1>9 DEF Next

-----------------------------------------------------------------------------
TableIn(machine, address) ==
  IF address \in DOMAIN machine.tables THEN machine.tables[address] ELSE NoTable

(* The device at b of these nodes gives up: see GaveUp.                    *)
Abandons(machine, ns, b) ==
  /\ TableIn(machine, Address(ns[First(ns, b)].props)) = NoTable
  /\ \E n \in At(ns, b) : ns[n].props.num_xcc > 1

(* The partitions of the device at b                                       *)
Houses(ns, parts, b) ==
  /\ parts \in Seq(ToSet(parts))
  /\ Lists(ns, parts, b, Len(ns) + 1)
  /\ \A i \in 1..Len(parts) : parts[i].global = Rank(ns, parts[i].node)

Finished(machine, ns, d) ==
  /\ d.bdf \in Keys(ns)
  /\ d.instance = Cardinality(KeysBefore(ns, First(ns, d.bdf)))
  /\ Abandons(machine, ns, d.bdf) => d.partitions = << >>
  /\ ~Abandons(machine, ns, d.bdf) => Houses(ns, d.partitions, d.bdf)

(* The devices are those of the least keys ... *)
Finishing ==
  /\ devices \in Seq(ToSet(devices))
  /\ \A i \in 1..Len(devices) : Finished(m, nodes, devices[i])
  /\ \A i, j \in 1..Len(devices) : i < j => devices[i].bdf < devices[j].bdf

(* ... and, in the end, of all. *)
BuildInv ==
  /\ phase \in {"build", "ready"} => Finishing
  /\ phase = "build" =>
       \A i \in 1..Len(devices) : \A b \in Pending : devices[i].bdf < b
  /\ phase = "ready" =>
       /\ Keys(nodes) \subseteq {devices[i].bdf : i \in 1..Len(devices)}
       /\ partitions = FlattenSeq([i \in DOMAIN devices |-> devices[i].partitions])

LEMMA AppendAny ==
  ASSUME NEW s, s \in Seq(ToSet(s)), NEW x
  PROVE  /\ Append(s, x) \in Seq(ToSet(Append(s, x)))
         /\ Len(s) \in Nat /\ Len(Append(s, x)) = Len(s) + 1
         /\ \A i \in 1..Len(s) : Append(s, x)[i] = s[i]
         /\ Append(s, x)[Len(s) + 1] = x
<1> DEFINE V == ToSet(s) \union {x}
           t == Append(s, x)
<1>1. s \in Seq(V) /\ x \in V
  <2> DEFINE W == ToSet(s)
  <2> HIDE DEF W
  <2>1. s \in Seq(W) /\ W \subseteq V
    BY DEF W
  <2> HIDE DEF V
  <2>2. s \in Seq(V)
    BY <2>1
  <2> QED
    BY <2>2 DEF V
<1> HIDE DEF V
<1>2. /\ t \in Seq(V) /\ Len(s) \in Nat /\ Len(t) = Len(s) + 1
      /\ \A i \in 1..Len(s) : t[i] = s[i]
      /\ t[Len(s) + 1] = x
  BY <1>1
<1> HIDE DEF t
<1>3. t \in [1..Len(t) -> V] /\ Len(t) \in Nat
  BY <1>2, LenProperties
<1>4. \A i \in 1..Len(t) : t[i] \in ToSet(t)
  BY <1>3 DEF ToSet
<1>5. t \in [1..Len(t) -> ToSet(t)]
  BY <1>3, <1>4
<1>6. t \in Seq(ToSet(t))
  BY <1>3, <1>5
<1> QED
  BY <1>2, <1>6 DEF t

(* What the constructor of a device makes of a complete builder            *)
LEMMA DeviceFinished ==
  ASSUME nodes \in Seq(NodeType), NEW b \in Keys(nodes),
         Built(nodes, builders[b], b, Len(nodes) + 1)
  PROVE  Finished(m, nodes, [bdf |-> b, address |-> builders[b].address,
                             instance |-> builders[b].instance,
                             partitions |-> PartitionsFromNodes(b)])
<1> DEFINE list == builders[b].nodes
           table == TableOf(builders[b].address)
           ids == XccDieIds(list, table)
           made == [i \in DOMAIN list |->
                      [node |-> list[i].node, global |-> list[i].id, xcc |-> ids[i]]]
           d == [bdf |-> b, address |-> builders[b].address,
                 instance |-> builders[b].instance, partitions |-> PartitionsFromNodes(b)]
<1>1. /\ list \in Seq(EntryType) /\ Lists(nodes, list, b, Len(nodes) + 1) /\ Numbered(nodes, list)
      /\ builders[b].address = Address(nodes[First(nodes, b)].props)
      /\ builders[b].instance = Cardinality(KeysBefore(nodes, First(nodes, b)))
  BY DEF Built, BuilderType
<1>2. DOMAIN list = 1..Len(list) /\ Len(list) \in Nat
  BY <1>1, LenProperties
<1>3. table = TableIn(m, Address(nodes[First(nodes, b)].props))
  BY <1>1 DEF TableOf, TableIn
<1>4. PartitionsFromNodes(b) = IF GivesUp(list, table) THEN << >> ELSE made
  BY DEF PartitionsFromNodes
<1> HIDE DEF list, table, ids
<1>5. GivesUp(list, table) <=> Abandons(m, nodes, b)
  <2>1. \A i \in DOMAIN list : Wanted(list)[i] = nodes[list[i].node].props.num_xcc
    BY DEF Wanted, Props
  <2>2. \A n \in At(nodes, b) : n < Len(nodes) + 1
    BY NodeFacts
  <2>3. (\E i \in 1..Len(list) : nodes[list[i].node].props.num_xcc > 1)
          <=> (\E n \in At(nodes, b) : nodes[n].props.num_xcc > 1)
    BY <1>1, <2>2 DEF Lists
  <2> QED
    BY <1>2, <1>3, <2>1, <2>3 DEF GivesUp, Abandons
<1>6. /\ DOMAIN made = 1..Len(list)
      /\ \A i \in 1..Len(list) : made[i].node = list[i].node /\ made[i].global = list[i].id
  BY <1>2
<1>7. \A i \in 1..Len(list) : made[i] \in ToSet(made)
  BY <1>6 DEF ToSet
<1>8. made \in [1..Len(list) -> ToSet(made)]
  <2> DEFINE V == ToSet(made)
  <2>1. \A i \in 1..Len(list) : made[i] \in V
    BY <1>7
  <2>2. made = [i \in 1..Len(list) |-> made[i]]
    BY <1>2
  <2> HIDE DEF V, made
  <2>3. made \in [1..Len(list) -> V]
    BY <2>1, <2>2
  <2> QED
    BY <2>3 DEF V
<1> HIDE DEF made
<1>9. made \in Seq(ToSet(made)) /\ Len(made) = Len(list)
  BY <1>2, <1>8
<1>10. Houses(nodes, made, b)
  <2>1. Lists(nodes, made, b, Len(nodes) + 1)
    BY <1>1, <1>6, <1>9 DEF Lists
  <2>2. \A i \in 1..Len(made) : made[i].global = Rank(nodes, made[i].node)
    BY <1>1, <1>6, <1>9 DEF Numbered
  <2> QED
    BY <1>9, <2>1, <2>2 DEF Houses
<1>11. /\ d.bdf = b /\ d.instance = Cardinality(KeysBefore(nodes, First(nodes, b)))
       /\ d.partitions = IF Abandons(m, nodes, b) THEN << >> ELSE made
  BY <1>1, <1>4, <1>5
<1> HIDE DEF d
<1>12. Finished(m, nodes, d)
  BY <1>10, <1>11 DEF Finished
<1> QED
  BY <1>12 DEF d

(* When the engine begins to make devices it has a builder for every key.  *)
LEMMA BuildersAre ==
  ASSUME NodesInv, ScanInv, phase = "build"
  PROVE  /\ nodes \in Seq(NodeType) /\ DOMAIN builders = Keys(nodes)
         /\ \A k \in DOMAIN builders : Built(nodes, builders[k], k, Len(nodes) + 1)
<1>1. nodes \in Seq(NodeType) /\ Scanning /\ next = Len(nodes) + 1
  BY DEF NodesInv, AllRead, ScanInv
<1>2. \A j \in Gpus(nodes) : j < Len(nodes) + 1
  BY <1>1, NodeFacts
<1>3. KeysBefore(nodes, Len(nodes) + 1) = Keys(nodes)
  BY <1>2 DEF KeysBefore, Keys
<1> QED
  BY <1>1, <1>3 DEF Scanning

LEMMA BuildStart == Init => BuildInv
BY DEF Init, BuildInv, Phases

LEMMA BuildStep == NodesInv /\ ScanInv /\ BuildInv /\ [Next]_vars => BuildInv'
<1> SUFFICES ASSUME NodesInv, ScanInv, BuildInv, [Next]_vars PROVE BuildInv'
  OBVIOUS
<1>1. CASE ReadNode \/ ReadThrows \/ NodesRead \/ ScanNode
  BY <1>1 DEF BuildInv, ReadNode, ReadThrows, NodesRead, ScanNode
<1>2. CASE ScanDone
  <2>1. phase = "scan" /\ phase' = "build" /\ devices' = << >>
    BY <1>2 DEF ScanDone, ScanInv
  <2>2. Finishing'
    BY <2>1 DEF Finishing, ToSet
  <2> QED
    BY <2>1, <2>2 DEF BuildInv
<1>3. CASE BuildDevice
  <2> DEFINE b == Smallest(Pending)
             d == [bdf |-> b, address |-> builders[b].address,
                   instance |-> builders[b].instance, partitions |-> PartitionsFromNodes(b)]
             N == Len(devices)
  <2>1. /\ phase = "build" /\ phase' = "build" /\ Pending # {} /\ devices' = Append(devices, d)
        /\ m' = m /\ nodes' = nodes /\ next' = next /\ builders' = builders
    BY <1>3 DEF BuildDevice
  <2>2. /\ nodes \in Seq(NodeType) /\ DOMAIN builders = Keys(nodes)
        /\ \A k \in DOMAIN builders : Built(nodes, builders[k], k, Len(nodes) + 1)
    BY <2>1, BuildersAre
  <2>3. b \in Pending /\ \A k \in Pending : b <= k
    <3>1. Pending \in SUBSET Nat
      BY <2>2, NodeFacts DEF Pending
    <3> QED
      BY <2>1, <3>1, SmallestIs
  <2>4. /\ b \in Keys(nodes) /\ b \in Nat /\ Pending \subseteq Nat
    BY <2>2, <2>3, NodeFacts DEF Pending
  <2>5. Finished(m, nodes, d) /\ d.bdf = b
    BY <2>2, <2>4, DeviceFinished
  <2> HIDE DEF d
  <2>6. /\ Finishing
        /\ \A i \in 1..N : \A k \in Pending : devices[i].bdf < k
    BY <2>1 DEF BuildInv
  <2>7. /\ devices' \in Seq(ToSet(devices')) /\ N \in Nat /\ Len(devices') = N + 1
        /\ \A i \in 1..N : devices'[i] = devices[i]
        /\ devices'[N + 1] = d
    BY <2>1, <2>6, AppendAny DEF Finishing
  <2> HIDE DEF N, b
  <2>8. \A i \in 1..N + 1 : i \in 1..N \/ i = N + 1
    BY <2>7
  <2>9. \A i \in 1..N + 1 : Finished(m, nodes, devices'[i])
    BY <2>5, <2>6, <2>7, <2>8 DEF Finishing, N
  <2>10. \A i, j \in 1..N + 1 : i < j => devices'[i].bdf < devices'[j].bdf
    <3>1. SUFFICES ASSUME NEW i \in 1..N + 1, NEW j \in 1..N + 1, i < j
                   PROVE  devices'[i].bdf < devices'[j].bdf
      OBVIOUS
    <3>2. i \in 1..N
      BY <2>7, <3>1
    <3>3. CASE j \in 1..N
      BY <2>6, <2>7, <3>1, <3>2, <3>3 DEF Finishing, N
    <3>4. CASE j = N + 1
      BY <2>3, <2>5, <2>6, <2>7, <3>2, <3>4
    <3> QED
      BY <2>8, <3>3, <3>4
  <2>11. Finishing'
    BY <2>1, <2>7, <2>9, <2>10 DEF Finishing
  <2>12. \A k \in Pending' : k \in Pending /\ k # b
    <3>1. /\ DOMAIN devices' = 1..N + 1 /\ DOMAIN devices = 1..N
          /\ N + 1 \in 1..N + 1 /\ \A i \in 1..N : i \in 1..N + 1
      <4>1. DOMAIN devices' = 1..Len(devices') /\ DOMAIN devices = 1..Len(devices)
        BY <2>6, <2>7, LenProperties DEF Finishing
      <4> QED
        BY <2>7, <4>1 DEF N
    <3>2. {devices'[i].bdf : i \in DOMAIN devices'} = {devices[i].bdf : i \in DOMAIN devices} \union {b}
      BY <2>5, <2>7, <2>8, <3>1
    <3> QED
      BY <2>1, <3>2 DEF Pending
  <2>13. \A i \in 1..N + 1 : \A k \in Pending' : devices'[i].bdf < k
    <3> TAKE i \in 1..N + 1
    <3> TAKE k \in Pending'
    <3>1. CASE i \in 1..N
      BY <2>6, <2>7, <2>12, <3>1
    <3>2. CASE i = N + 1
      <4>1. b <= k /\ k # b /\ k \in Nat
        BY <2>3, <2>4, <2>12
      <4> QED
        BY <2>4, <2>5, <2>7, <3>2, <4>1
    <3> QED
      BY <2>8, <3>1, <3>2
  <2> QED
    BY <2>1, <2>7, <2>11, <2>13 DEF BuildInv
<1>4. CASE BuildThrows
  BY <1>4 DEF BuildInv, BuildThrows
<1>5. CASE EnumeratePartitions
  <2>1. /\ phase = "build" /\ phase' = "ready" /\ Pending = {}
        /\ m' = m /\ nodes' = nodes /\ devices' = devices
        /\ partitions' = FlattenSeq([i \in DOMAIN devices |-> devices[i].partitions])
    BY <1>5 DEF EnumeratePartitions
  <2>2. Finishing /\ Finishing'
    BY <2>1 DEF BuildInv, Finishing
  <2>3. DOMAIN devices = 1..Len(devices)
    BY <2>2, LenProperties DEF Finishing
  <2>4. DOMAIN builders = Keys(nodes)
    BY <2>1, BuildersAre
  <2>5. Keys(nodes) \subseteq {devices[i].bdf : i \in 1..Len(devices)}
    BY <2>1, <2>3, <2>4 DEF Pending
  <2> QED
    BY <2>1, <2>2, <2>5 DEF BuildInv
<1>6. CASE UNCHANGED vars
  <2>1. UNCHANGED <<m, phase, nodes, builders, devices, partitions>>
    BY <1>6 DEF vars
  <2>2. (Finishing => Finishing') /\ Pending' = Pending
    BY <2>1 DEF Finishing, Pending
  <2> QED
    BY <2>1, <2>2 DEF BuildInv
<1> QED
  BY <1>1, <1>2, <1>3, <1>4, <1>5, <1>6 DEF Next

-----------------------------------------------------------------------------
IInv == NodesInv /\ ScanInv /\ BuildInv

THEOREM Invariant == Spec => []IInv
<1>1. Init => IInv
  BY NodesStart, ScanStart, BuildStart DEF IInv
<1>2. IInv /\ [Next]_vars => IInv'
  BY NodesStep, ScanStep, BuildStep DEF IInv
<1> QED
  BY <1>1, <1>2, PTL DEF Spec

LEMMA TablesBridge ==
  \A b : GaveUp(b) <=> Abandons(m, nodes, b)
<1> TAKE b
<1>1. NodesAt(b) = At(nodes, b) /\ \A n : Props(n) = nodes[n].props
  BY Bridge
<1>2. TableAt(b) = TableIn(m, Address(nodes[First(nodes, b)].props))
  BY <1>1 DEF TableAt, TableOf, TableIn, First
<1> QED
  BY <1>1, <1>2 DEF GaveUp, Abandons

(* A list of nodes in ascending order is no longer than there are nodes.   *)
LEMMA IndexBelow ==
  ASSUME NEW ns \in Seq(NodeType), NEW list, Len(list) \in Nat, NEW b, NEW k,
         Lists(ns, list, b, k)
  PROVE  \A i \in 1..Len(list) : i <= list[i].node /\ list[i].node <= Len(ns)
<1> DEFINE S == {i \in 1..Len(list) : ~(i <= list[i].node)}
<1>1. /\ \A i \in 1..Len(list) : list[i].node \in 1..Len(ns)
      /\ \A i, j \in 1..Len(list) : i < j => list[i].node < list[j].node
  BY NodeFacts DEF Lists
<1>2. SUFFICES ASSUME S # {} PROVE FALSE
  <2>1. ASSUME NEW i \in 1..Len(list), S = {}
        PROVE  i <= list[i].node /\ list[i].node <= Len(ns)
    <3>1. i <= list[i].node
      BY <2>1
    <3>2. list[i].node \in 1..Len(ns)
      BY <1>1
    <3> QED
      BY <3>1, <3>2
  <2> HIDE DEF S
  <2> QED
    BY <2>1
<1>3. PICK i \in S : \A j \in S : i <= j
  <2>1. S \in SUBSET Nat
    OBVIOUS
  <2> HIDE DEF S
  <2> QED
    BY <1>2, <2>1, LeastExists
<1>4. i \in 1..Len(list) /\ ~(i <= list[i].node) /\ list[i].node \in 1..Len(ns) /\ Len(ns) \in Nat
  BY <1>1, <1>3, NodeFacts
<1>5. i # 1
  BY <1>4
<1>6. i - 1 \in 1..Len(list) /\ i - 1 < i /\ i - 1 \notin S
  BY <1>3, <1>4, <1>5
<1>7. i - 1 <= list[i - 1].node /\ list[i - 1].node < list[i].node
      /\ list[i - 1].node \in 1..Len(ns)
  BY <1>1, <1>4, <1>6
<1> DEFINE x == list[i].node
           y == list[i - 1].node
<1>8. x \in Nat /\ y \in Nat /\ i \in Nat /\ i - 1 <= y /\ y < x /\ ~(i <= x)
  BY <1>4, <1>7
<1> HIDE DEF x, y
<1> QED
  BY <1>8

(* The device of a key, in an engine that is ready                         *)
LEMMA ReadyFacts ==
  ASSUME IInv, phase = "ready"
  PROVE  /\ nodes \in Seq(NodeType) /\ Len(devices) \in Nat
         /\ DOMAIN devices = 1..Len(devices)
         /\ \A i \in 1..Len(devices) : Finished(m, nodes, devices[i])
         /\ \A i, j \in 1..Len(devices) : devices[i].bdf = devices[j].bdf => i = j
         /\ \A i, j \in 1..Len(devices) : i < j => devices[i].bdf < devices[j].bdf
         /\ \A b \in Keys(nodes) : \E i \in 1..Len(devices) : devices[i].bdf = b
         /\ \A i \in 1..Len(devices) : devices[i].bdf \in Nat
<1>1. nodes \in Seq(NodeType) /\ Finishing
      /\ Keys(nodes) \subseteq {devices[i].bdf : i \in 1..Len(devices)}
  BY DEF IInv, NodesInv, AllRead, BuildInv
<1>2. Len(devices) \in Nat /\ DOMAIN devices = 1..Len(devices)
  BY <1>1, LenProperties DEF Finishing
<1>3. \A i \in 1..Len(devices) : devices[i].bdf \in Nat
  BY <1>1, NodeFacts DEF Finishing, Finished
<1>4. \A i, j \in 1..Len(devices) : devices[i].bdf = devices[j].bdf => i = j
  <2>1. SUFFICES ASSUME NEW i \in 1..Len(devices), NEW j \in 1..Len(devices),
                        devices[i].bdf = devices[j].bdf, i # j
                 PROVE  FALSE
    OBVIOUS
  <2>2. i < j \/ j < i
    BY <1>2, <2>1
  <2>3. devices[i].bdf < devices[j].bdf \/ devices[j].bdf < devices[i].bdf
    BY <1>1, <2>2 DEF Finishing
  <2> QED
    BY <1>3, <2>1, <2>3
<1> QED
  BY <1>1, <1>2, <1>3, <1>4 DEF Finishing

(* NoPartitionLost: whatever the order of the directories and the sharing  *)
(* of addresses, Engine::Engine makes every GPU node a partition of exactly *)
(* one device, the one at its address, unless that device gave up.         *)
THEOREM NothingLost == Spec => []NoPartitionLost
<1>1. IInv => NoPartitionLost
  <2> SUFFICES ASSUME IInv, phase = "ready", NEW n \in GpuNodes
               PROVE  LET homes == {p \in DevicePairs :
                                      devices[p[1] + 1].partitions[p[2] + 1].node = n}
                      IN  /\ Cardinality(homes) = IF GaveUp(Key(Props(n))) THEN 0 ELSE 1
                          /\ \A p \in homes : devices[p[1] + 1].bdf = Key(Props(n))
    BY DEF NoPartitionLost
  <2> DEFINE homes == {p \in DevicePairs :
                         devices[p[1] + 1].partitions[p[2] + 1].node = n}
             b == KeyAt(nodes, n)
  <2>1. /\ n \in Gpus(nodes) /\ Key(Props(n)) = b
        /\ GaveUp(Key(Props(n))) <=> Abandons(m, nodes, b)
    BY Bridge, TablesBridge
  <2>2. /\ nodes \in Seq(NodeType) /\ Len(nodes) \in Nat /\ n \in 1..Len(nodes)
        /\ b \in Keys(nodes) /\ NumNodes = Len(nodes)
    <3>1. nodes \in Seq(NodeType)
      BY ReadyFacts
    <3> QED
      BY <2>1, <3>1, NodeFacts DEF Keys, NumNodes
  <2>3. PICK i \in 1..Len(devices) : devices[i].bdf = b
    BY <2>2, ReadyFacts
  <2>4. ASSUME NEW p \in homes
        PROVE  /\ p \in (0..(Len(devices) - 1)) \X (0..(Len(nodes) - 1))
               /\ p[1] = i - 1 /\ ~Abandons(m, nodes, b)
               /\ p[2] + 1 \in 1..Len(devices[i].partitions)
               /\ devices[i].partitions[p[2] + 1].node = n
    <3>1. /\ p \in (0..(Len(devices) - 1)) \X (0..(NumNodes - 1))
          /\ p[2] < Len(devices[p[1] + 1].partitions)
          /\ devices[p[1] + 1].partitions[p[2] + 1].node = n
      BY <2>4 DEF DevicePairs
    <3> DEFINE j == p[1] + 1
               parts == devices[j].partitions
    <3>2. j \in 1..Len(devices) /\ p[1] = j - 1 /\ p[2] \in Nat
      BY <2>2, <3>1, ReadyFacts
    <3>3. Finished(m, nodes, devices[j])
      BY <3>2, ReadyFacts
    <3> HIDE DEF j
    <3>4. ~Abandons(m, nodes, devices[j].bdf)
      <4>1. SUFFICES ASSUME Abandons(m, nodes, devices[j].bdf) PROVE FALSE
        OBVIOUS
      <4>2. parts = << >>
        BY <3>3, <4>1 DEF Finished
      <4>3. p[2] < 0
        BY <3>1, <4>2 DEF j
      <4> QED
        BY <3>2, <4>3
    <3>5. Houses(nodes, parts, devices[j].bdf)
      BY <3>3, <3>4 DEF Finished
    <3>6. Len(parts) \in Nat
      BY <3>5, LenProperties DEF Houses
    <3>7. p[2] + 1 \in 1..Len(parts)
      <4> DEFINE x == p[2]
                 L == Len(parts)
      <4>1. x < L /\ x \in Nat /\ L \in Nat
        BY <3>1, <3>2, <3>6 DEF j
      <4> HIDE DEF x, L
      <4>2. x + 1 \in 1..L
        BY <4>1
      <4> QED
        BY <4>2 DEF x, L
    <3>8. n \in At(nodes, devices[j].bdf)
      <4>1. parts[p[2] + 1].node = n
        BY <3>1 DEF j
      <4> QED
        BY <3>5, <3>7, <4>1 DEF Houses, Lists
    <3>9. devices[j].bdf = b
      BY <2>2, <3>8, NodeFacts
    <3>10. j = i
      BY <2>3, <3>2, <3>9, ReadyFacts
    <3> QED
      BY <2>2, <3>1, <3>2, <3>4, <3>7, <3>9, <3>10 DEF j
  <2>5. CASE Abandons(m, nodes, b)
    <3>1. homes = {}
      BY <2>4, <2>5
    <3> HIDE DEF homes
    <3> QED
      BY <2>1, <2>5, <3>1, FS_EmptySet DEF homes
  <2>6. CASE ~Abandons(m, nodes, b)
    <3> DEFINE parts == devices[i].partitions
    <3>1. Houses(nodes, parts, b)
      BY <2>3, <2>6, ReadyFacts DEF Finished
    <3>2. Len(parts) \in Nat
      BY <3>1, LenProperties DEF Houses
    <3>3. PICK k \in 1..Len(parts) : parts[k].node = n
      <4>1. n \in At(nodes, b) /\ n < Len(nodes) + 1
        BY <2>1, <2>2, NodeFacts
      <4> HIDE DEF b, parts
      <4> QED
        BY <3>1, <4>1 DEF Houses, Lists
    <3>4. k <= n /\ n <= Len(nodes)
      BY <2>2, <3>1, <3>2, <3>3, IndexBelow DEF Houses
    <3> HIDE DEF parts
    <3>5. <<i - 1, k - 1>> \in homes
      <4>1. i - 1 \in 0..(Len(devices) - 1) /\ k - 1 \in 0..(NumNodes - 1) /\ k - 1 < Len(parts)
        BY <2>2, <2>3, <3>2, <3>3, <3>4, ReadyFacts
      <4>2. (i - 1) + 1 = i /\ (k - 1) + 1 = k
        BY <2>2, <2>3, <3>2, <3>3, ReadyFacts
      <4> QED
        BY <3>3, <4>1, <4>2 DEF DevicePairs, parts
    <3>6. ASSUME NEW p \in homes PROVE p = <<i - 1, k - 1>>
      <4>1. /\ p[1] = i - 1 /\ p[2] \in Nat /\ p = <<p[1], p[2]>>
            /\ p[2] + 1 \in 1..Len(parts) /\ parts[p[2] + 1].node = n
        BY <2>2, <2>4 DEF parts
      <4> DEFINE l == p[2] + 1
      <4>2. \A x, y \in 1..Len(parts) : x < y => parts[x].node < parts[y].node
        BY <3>1 DEF Houses, Lists
      <4>3. ~(l < k) /\ ~(k < l)
        <5>1. ~(n < n)
          BY <2>2
        <5> QED
          BY <3>3, <4>1, <4>2, <5>1
      <4>4. l = k
        BY <3>2, <4>1, <4>3
      <4>5. p[2] = k - 1
        BY <4>1, <4>4
      <4> QED
        BY <4>1, <4>5
    <3>7. homes = {<<i - 1, k - 1>>}
      <4> HIDE DEF homes
      <4> QED
        BY <3>5, <3>6
    <3>8. Cardinality(homes) = 1
      <4> HIDE DEF homes
      <4> QED
        BY <3>7, FS_Singleton
    <3>9. devices[(i - 1) + 1].bdf = b
      BY <2>3, ReadyFacts
    <3> HIDE DEF homes
    <3>10. \A p \in homes : devices[p[1] + 1].bdf = b
      BY <3>7, <3>9
    <3> QED
      BY <2>1, <2>6, <3>8, <3>10 DEF homes
  <2> QED
    BY <2>5, <2>6
<1> QED
  BY <1>1, Invariant, PTL

-----------------------------------------------------------------------------
(* F has the sequences of seqs one after the other, the k-th after start[k] *)
(* elements.                                                               *)
Joined(F, seqs, start, D) ==
  /\ \A k \in 1..D : \A j \in 1..Len(seqs[k]) :
       start[k] + j \in 1..Len(F) /\ F[start[k] + j] = seqs[k][j]
  /\ \A x \in 1..Len(F) : \E k \in 1..D : \E j \in 1..Len(seqs[k]) : x = start[k] + j
  /\ \A k, l \in 1..D : k < l => start[k] + Len(seqs[k]) <= start[l]
  /\ \A k \in 1..D : start[k] + Len(seqs[k]) <= Len(F)

LEMMA JoinOne ==
  ASSUME NEW V, NEW seqs, NEW start, NEW D \in Nat, NEW F \in Seq(V),
         \A k \in 1..D : start[k] \in Nat /\ seqs[k] \in Seq(V),
         Joined(F, seqs, start, D),
         seqs[D + 1] \in Seq(V), start[D + 1] = Len(F)
  PROVE  Joined(F \o seqs[D + 1], seqs, start, D + 1)
<1> DEFINE last == seqs[D + 1]
           G == F \o last
           N == Len(F)
           M == Len(last)
<1>1. /\ N \in Nat /\ M \in Nat /\ Len(G) = N + M
      /\ \A x \in 1..N : G[x] = F[x]
      /\ \A x \in 1..M : G[N + x] = last[x]
      /\ \A k \in 1..D : Len(seqs[k]) \in Nat
  <2>1. last \in Seq(V)
    OBVIOUS
  <2> HIDE DEF last
  <2>2. /\ N \in Nat /\ M \in Nat /\ Len(G) = N + M
        /\ \A x \in 1..N : G[x] = F[x]
        /\ \A x \in 1..M : G[N + x] = last[x]
    BY <2>1
  <2>3. \A k \in 1..D : Len(seqs[k]) \in Nat
    <3> TAKE k \in 1..D
    <3>1. seqs[k] \in Seq(V)
      OBVIOUS
    <3> QED
      BY <3>1, LenProperties
  <2> QED
    BY <2>2, <2>3
<1>2. /\ \A k \in 1..D : \A j \in 1..Len(seqs[k]) :
           start[k] + j \in 1..N /\ F[start[k] + j] = seqs[k][j]
      /\ \A x \in 1..N : \E k \in 1..D : \E j \in 1..Len(seqs[k]) : x = start[k] + j
      /\ \A k, l \in 1..D : k < l => start[k] + Len(seqs[k]) <= start[l]
      /\ \A k \in 1..D : start[k] + Len(seqs[k]) <= N
  BY DEF Joined
<1>3. \A k \in 1..D + 1 : k \in 1..D \/ k = D + 1
  OBVIOUS
<1>4. D + 1 \in 1..D + 1 /\ \A k \in 1..D : k \in 1..D + 1
  OBVIOUS
<1> HIDE DEF N, M, G
<1>5. ASSUME NEW k \in 1..D + 1, NEW j \in 1..Len(seqs[k])
      PROVE  start[k] + j \in 1..Len(G) /\ G[start[k] + j] = seqs[k][j]
  <2>1. CASE k \in 1..D
    <3>1. start[k] + j \in 1..N /\ F[start[k] + j] = seqs[k][j]
      BY <1>2, <2>1
    <3>2. start[k] + j \in 1..N + M
      BY <1>1, <3>1
    <3> QED
      BY <1>1, <3>1, <3>2
  <2>2. CASE k = D + 1
    <3>1. j \in 1..M /\ start[k] = N /\ seqs[k] = last
      BY <2>2 DEF N, M
    <3>2. N + j \in 1..N + M
      BY <1>1, <3>1
    <3> QED
      BY <1>1, <3>1, <3>2
  <2> QED
    BY <1>3, <2>1, <2>2
<1>6. ASSUME NEW x \in 1..Len(G)
      PROVE  \E k \in 1..D + 1 : \E j \in 1..Len(seqs[k]) : x = start[k] + j
  <2>1. CASE x <= N
    <3>1. x \in 1..N
      BY <1>1, <2>1
    <3>2. \E k \in 1..D : \E j \in 1..Len(seqs[k]) : x = start[k] + j
      BY <1>2, <3>1
    <3> QED
      BY <1>4, <3>2
  <2>2. CASE ~(x <= N)
    <3>1. x - N \in 1..M /\ x = N + (x - N)
      BY <1>1, <2>2
    <3>2. start[D + 1] = N /\ Len(seqs[D + 1]) = M
      BY DEF N, M
    <3> QED
      BY <1>4, <3>1, <3>2
  <2> QED
    BY <2>1, <2>2
<1>7. \A k \in 1..D + 1 : start[k] + Len(seqs[k]) <= Len(G)
  <2> TAKE k \in 1..D + 1
  <2>1. CASE k \in 1..D
    <3> DEFINE y == start[k] + Len(seqs[k])
    <3>1. y <= N /\ y \in Nat
      BY <1>1, <1>2, <2>1
    <3> HIDE DEF y
    <3>2. y <= Len(G)
      BY <1>1, <3>1
    <3> QED
      BY <3>2 DEF y
  <2>2. CASE k = D + 1
    <3>1. start[k] = N /\ Len(seqs[k]) = M
      BY <2>2 DEF N, M
    <3> QED
      BY <1>1, <3>1
  <2> QED
    BY <1>3, <2>1, <2>2
<1>8. ASSUME NEW k \in 1..D + 1, NEW l \in 1..D + 1, k < l
      PROVE  start[k] + Len(seqs[k]) <= start[l]
  <2>1. k \in 1..D
    BY <1>8
  <2>2. CASE l \in 1..D
    BY <1>2, <1>8, <2>1, <2>2
  <2>3. CASE l = D + 1
    <3>1. start[l] = N
      BY <2>3 DEF N
    <3> QED
      BY <1>2, <2>1, <3>1
  <2> QED
    BY <1>3, <2>2, <2>3
<1>9. Joined(G, seqs, start, D + 1)
  BY <1>5, <1>6, <1>7, <1>8 DEF Joined
<1> QED
  BY <1>9 DEF G

(* FlattenSeq is a loop over the sequences.                                *)
LEMMA FlattenUnfolds ==
  ASSUME NEW V, NEW seqs \in Seq(Seq(V)), Len(seqs) # 0
  PROVE  \E flat :
           /\ FlattenSeq(seqs) = flat[Len(seqs)]
           /\ \A i \in 1..Len(seqs) :
                flat[i] = IF i = 1 THEN seqs[i] ELSE flat[i - 1] \o seqs[i]
<1> DEFINE D == Len(seqs)
           SV == Seq(V)
<1>0. D \in Nat /\ D # 0 /\ \A k \in 1..D : seqs[k] \in SV
  BY LenProperties
<1> DEFINE N == D - 1
           step == [x \in (0..N - 1) \X SV |-> x[2] \o seqs[x[1] + 2]]
           Is(f) == f = [i \in 1..D |-> IF i = 1 THEN seqs[i] ELSE f[i - 1] \o seqs[i]]
           flat == CHOOSE f : Is(f)
           first == seqs[1]
<1>1. N \in Nat /\ first \in SV
  BY <1>0
<1>2. FlattenSeq(seqs) = flat[D]
  BY <1>0 DEF FlattenSeq
<1> HIDE DEF D
<1>3. step \in [(0..N - 1) \X SV -> SV]
  <2>1. ASSUME NEW x \in (0..N - 1) \X SV PROVE x[2] \o seqs[x[1] + 2] \in SV
    <3> DEFINE s == x[2]
               r == seqs[x[1] + 2]
    <3>1. s \in Seq(V) /\ x[1] + 2 \in 1..D
      BY <1>0
    <3>2. r \in Seq(V)
      BY <1>0, <3>1
    <3> HIDE DEF s, r
    <3>3. s \o r \in Seq(V)
      BY <3>1, <3>2
    <3> QED
      BY <3>3 DEF s, r
  <2> QED
    BY <2>1
<1>4. PICK g \in [0..N -> SV] :
        g[0] = first /\ \A n \in 0..N - 1 : g[n + 1] = step[<<n, g[n]>>]
  <2> HIDE DEF step, SV, N, first
  <2>1. \E g : Iterates(g, N, SV, first, step)
    BY <1>1, <1>3, Loop
  <2> QED
    BY <2>1 DEF Iterates
<1>5. ASSUME NEW i \in 1..D, i # 1 PROVE g[i - 1] = g[(i - 1) - 1] \o seqs[i]
  <2> DEFINE n == i - 2
  <2>1. n \in 0..N - 1 /\ n \in 0..N /\ n + 1 = i - 1 /\ n = (i - 1) - 1 /\ n + 2 = i
    BY <1>0, <1>5
  <2> HIDE DEF n
  <2>2. <<n, g[n]>> \in (0..N - 1) \X SV
    BY <1>4, <2>1
  <2>3. step[<<n, g[n]>>] = g[n] \o seqs[n + 2]
    BY <2>2
  <2>4. g[n + 1] = g[n] \o seqs[n + 2]
    BY <1>4, <2>1, <2>3
  <2> QED
    BY <2>1, <2>4
<1>6. Is([i \in 1..D |-> g[i - 1]])
  <2> DEFINE h == [i \in 1..D |-> g[i - 1]]
  <2>1. ASSUME NEW i \in 1..D
        PROVE  h[i] = IF i = 1 THEN seqs[i] ELSE h[i - 1] \o seqs[i]
    <3>1. CASE i = 1
      BY <1>4, <3>1
    <3>2. CASE i # 1
      <4>1. i - 1 \in 1..D
        BY <1>0, <3>2
      <4> HIDE DEF SV
      <4> QED
        BY <1>5, <3>2, <4>1
    <3> QED
      BY <3>1, <3>2
  <2>2. h = [i \in 1..D |-> h[i]]
    OBVIOUS
  <2> HIDE DEF h
  <2>3. h = [i \in 1..D |-> IF i = 1 THEN seqs[i] ELSE h[i - 1] \o seqs[i]]
    BY <2>1, <2>2
  <2> QED
    BY <2>3 DEF h
<1>7. Is(flat)
  <2> HIDE DEF Is
  <2> QED
    BY <1>6
<1>8. \A i \in 1..D : flat[i] = IF i = 1 THEN seqs[i] ELSE flat[i - 1] \o seqs[i]
  <2> HIDE DEF flat
  <2> QED
    BY <1>7
<1> HIDE DEF flat, Is, step
<1> QED
  BY <1>2, <1>8 DEF D

(* FlattenSeq puts the sequences one after the other.                      *)
LEMMA FlattenJoins ==
  ASSUME NEW V, NEW seqs \in Seq(Seq(V))
  PROVE  /\ FlattenSeq(seqs) \in Seq(V)
         /\ \E start \in [1..Len(seqs) -> Nat] :
              Joined(FlattenSeq(seqs), seqs, start, Len(seqs))
<1> DEFINE D == Len(seqs)
           SV == Seq(V)
<1>1. D \in Nat /\ \A k \in 1..D : seqs[k] \in SV
  BY LenProperties
<1>2. CASE D = 0
  <2> DEFINE none == [k \in 1..Len(seqs) |-> 0]
  <2>1. FlattenSeq(seqs) = seqs
    BY <1>2 DEF FlattenSeq
  <2>2. seqs \in Seq(V)
    BY <1>2
  <2>3. none \in [1..Len(seqs) -> Nat]
    OBVIOUS
  <2> HIDE DEF none
  <2>4. Joined(seqs, seqs, none, Len(seqs))
    BY <1>2 DEF Joined
  <2> QED
    BY <2>1, <2>2, <2>3, <2>4
<1>3. CASE D # 0
  <2>1. PICK flat :
          /\ FlattenSeq(seqs) = flat[D]
          /\ \A i \in 1..D : flat[i] = IF i = 1 THEN seqs[i] ELSE flat[i - 1] \o seqs[i]
    BY <1>3, FlattenUnfolds
  <2>2. FlattenSeq(seqs) = flat[D]
    BY <2>1
  <2>3. \A i \in 1..D : flat[i] = IF i = 1 THEN seqs[i] ELSE flat[i - 1] \o seqs[i]
    BY <2>1
  <2> DEFINE start == [k \in 1..D |-> IF k = 1 THEN 0 ELSE Len(flat[k - 1])]
             Part(n) == IF n = 0 THEN << >> ELSE flat[n]
  <2> HIDE DEF D
  <2> DEFINE Good(n) == /\ Part(n) \in Seq(V)
                        /\ \A k \in 1..n : start[k] \in Nat
                        /\ Joined(Part(n), seqs, start, n)
             S == {n \in Nat : n <= D => Good(n)}
  <2>4. 0 \in S
    <3>1. Part(0) = << >> /\ << >> \in Seq(V)
      OBVIOUS
    <3>2. Joined(<< >>, seqs, start, 0)
      BY DEF Joined
    <3> QED
      BY <3>1, <3>2
  <2>5. ASSUME NEW n \in Nat, n \in S PROVE n + 1 \in S
    <3> HIDE DEF Good
    <3>1. SUFFICES ASSUME n + 1 <= D PROVE Good(n + 1)
      OBVIOUS
    <3> USE DEF Good
    <3>2. Good(n) /\ n + 1 \in 1..D
      <4> HIDE DEF Good
      <4>1. n <= D /\ n + 1 \in 1..D
        BY <1>1, <3>1 DEF D
      <4> QED
        BY <2>5, <4>1
    <3>3. start[n + 1] = Len(Part(n))
      <4>1. CASE n = 0
        BY <3>2, <4>1
      <4>2. CASE n # 0
        <5>1. n + 1 # 1 /\ (n + 1) - 1 = n
          BY <4>2
        <5> QED
          BY <3>2, <4>2, <5>1
      <4> QED
        BY <4>1, <4>2
    <3>4. Part(n + 1) = Part(n) \o seqs[n + 1]
      <4>1. CASE n = 0
        <5>1. Part(1) = seqs[1]
          BY <2>3, <3>2, <4>1
        <5>2. << >> \o seqs[1] = seqs[1]
          <6>1. seqs[1] \in Seq(V)
            BY <1>1, <3>2, <4>1
          <6> QED
            BY <6>1
        <5> QED
          BY <4>1, <5>1, <5>2
      <4>2. CASE n # 0
        <5>1. n + 1 # 1 /\ (n + 1) - 1 = n /\ n + 1 # 0
          BY <4>2
        <5> QED
          BY <2>3, <3>2, <4>2, <5>1
      <4> QED
        BY <4>1, <4>2
    <3>5. seqs[n + 1] \in Seq(V) /\ \A k \in 1..n : seqs[k] \in Seq(V)
      BY <1>1, <3>2
    <3> HIDE DEF Part, start
    <3>6. Joined(Part(n + 1), seqs, start, n + 1)
      BY <3>2, <3>3, <3>4, <3>5, JoinOne
    <3>7. Part(n + 1) \in Seq(V)
      <4> DEFINE p == Part(n)
                 s == seqs[n + 1]
      <4>1. p \in Seq(V)
        BY <3>2
      <4>2. s \in Seq(V)
        BY <3>5
      <4>3. Part(n + 1) = p \o s
        BY <3>4
      <4> HIDE DEF p, s
      <4>4. p \o s \in Seq(V)
        BY <4>1, <4>2
      <4> QED
        BY <4>3, <4>4
    <3>8. \A k \in 1..n + 1 : start[k] \in Nat
      <4>1. Len(Part(n)) \in Nat
        BY <3>2, LenProperties
      <4>2. \A k \in 1..n + 1 : k \in 1..n \/ k = n + 1
        OBVIOUS
      <4> QED
        BY <3>2, <3>3, <4>1, <4>2
    <3> QED
      BY <3>6, <3>7, <3>8
  <2>6. Good(D)
    <3> HIDE DEF Good
    <3>1. \A n \in Nat : n \in S => n + 1 \in S
      BY <2>5
    <3> HIDE DEF S
    <3>2. Nat \subseteq S
      BY <2>4, <3>1, Induction
    <3> QED
      BY <1>1, <3>2 DEF S
  <2>7. Part(D) = FlattenSeq(seqs) /\ start \in [1..D -> Nat]
    <3>1. \A k \in 1..D : start[k] \in Nat
      BY <2>6
    <3> QED
      BY <1>3, <2>2, <3>1
  <2> HIDE DEF start, Part
  <2> QED
    BY <2>6, <2>7 DEF D
<1> QED
  BY <1>2, <1>3

-----------------------------------------------------------------------------
(* Every rank below the number of GPU nodes is that of one of them.        *)
LEMMA RanksAll ==
  ASSUME NEW ns \in Seq(NodeType)
  PROVE  /\ IsFiniteSet(Gpus(ns)) /\ Cardinality(Gpus(ns)) \in Nat
         /\ \A n \in Gpus(ns) : Rank(ns, n) \in 0..Cardinality(Gpus(ns)) - 1
         /\ \A r \in 0..Cardinality(Gpus(ns)) - 1 : \E n \in Gpus(ns) : Rank(ns, n) = r
<1> DEFINE G == Gpus(ns)
<1>1. Len(ns) \in Nat /\ G \in SUBSET (1..Len(ns))
  BY NodeFacts
<1>2. IsFiniteSet(1..Len(ns))
  BY <1>1, FS_Interval
<1>3. \A n : Rank(ns, n) = RankIn(G, n)
  BY DEF Rank, RankIn, Below
<1> HIDE DEF G
<1>4. IsFiniteSet(G) /\ G \in SUBSET Nat
  <2>1. \A n \in 1..Len(ns) : n \in Nat
    OBVIOUS
  <2> QED
    BY <1>1, <1>2, <2>1, FS_Subset
<1> QED
  BY <1>3, <1>4, RanksCount DEF G

PartsOf(ds) == [i \in DOMAIN ds |-> ds[i].partitions]

(* Unless a device gave up, each has the partitions at its address, and    *)
(* the engine has those of all devices.                                    *)
LEMMA Housed ==
  ASSUME IInv, phase = "ready", NobodyGaveUp
  PROVE  /\ \A i \in 1..Len(devices) :
              /\ Houses(nodes, devices[i].partitions, devices[i].bdf)
              /\ Len(devices[i].partitions) \in Nat
         /\ partitions = FlattenSeq(PartsOf(devices))
         /\ Len(partitions) \in Nat
         /\ \E start \in [1..Len(devices) -> Nat] :
              Joined(partitions, PartsOf(devices), start, Len(devices))
<1> DEFINE D == Len(devices)
           V == UNION {ToSet(devices[i].partitions) : i \in 1..D}
           seqs == PartsOf(devices)
<1>1. D \in Nat /\ DOMAIN devices = 1..D
  BY ReadyFacts
<1>2. ASSUME NEW i \in 1..D
      PROVE  Houses(nodes, devices[i].partitions, devices[i].bdf)
  <2>1. Finished(m, nodes, devices[i])
    BY ReadyFacts
  <2>2. ~Abandons(m, nodes, devices[i].bdf)
    <3>1. PICK n \in Gpus(nodes) : KeyAt(nodes, n) = devices[i].bdf
      BY <2>1 DEF Finished, Keys
    <3>2. n \in GpuNodes /\ Key(Props(n)) = KeyAt(nodes, n)
      BY Bridge
    <3>3. ~GaveUp(KeyAt(nodes, n))
      BY <3>2 DEF NobodyGaveUp
    <3> QED
      BY <3>1, <3>3, TablesBridge
  <2> QED
    BY <2>1, <2>2 DEF Finished
<1>3. ASSUME NEW i \in 1..D PROVE devices[i].partitions \in Seq(V)
  <2> DEFINE W == ToSet(devices[i].partitions)
             s == devices[i].partitions
  <2>1. s \in Seq(W)
    BY <1>2 DEF Houses
  <2>2. W \subseteq V
    OBVIOUS
  <2> HIDE DEF W, V, s
  <2>3. s \in Seq(V)
    BY <2>1, <2>2
  <2> QED
    BY <2>3 DEF s
<1> HIDE DEF V, D
<1>4. seqs \in Seq(Seq(V)) /\ Len(seqs) = D
  <2> DEFINE SV == Seq(V)
  <2>1. seqs = [i \in 1..D |-> devices[i].partitions]
    BY <1>1 DEF PartsOf
  <2>2. \A i \in 1..D : devices[i].partitions \in SV
    BY <1>3
  <2> HIDE DEF SV, seqs
  <2>3. seqs \in Seq(SV) /\ Len(seqs) = D
    BY <1>1, <2>1, <2>2
  <2> QED
    BY <2>3 DEF SV
<1> HIDE DEF seqs
<1>5. /\ FlattenSeq(seqs) \in Seq(V)
      /\ \E start \in [1..Len(seqs) -> Nat] : Joined(FlattenSeq(seqs), seqs, start, Len(seqs))
  BY <1>4, FlattenJoins
<1>6. partitions = FlattenSeq(seqs)
  BY DEF IInv, BuildInv, PartsOf, seqs
<1>7. Len(partitions) \in Nat
  BY <1>5, <1>6, LenProperties
<1>8. \A i \in 1..D : Len(devices[i].partitions) \in Nat
  BY <1>3, LenProperties
<1> QED
  BY <1>2, <1>4, <1>5, <1>6, <1>7, <1>8 DEF seqs, D

(* The engine's list of partitions has every GPU node once.                *)
Each(parts, ns) ==
  /\ Len(parts) \in Nat
  /\ \A x \in 1..Len(parts) : parts[x].node \in Gpus(ns)
  /\ \A x, y \in 1..Len(parts) : parts[x].node = parts[y].node => x = y
  /\ \A n \in Gpus(ns) : \E x \in 1..Len(parts) : parts[x].node = n
  /\ Len(parts) = Cardinality(Gpus(ns))

LEMMA EachOnce ==
  ASSUME IInv, phase = "ready", NobodyGaveUp PROVE Each(partitions, nodes)
<1> DEFINE D == Len(devices)
           parts(i) == devices[i].partitions
           F == partitions
<1>1. /\ nodes \in Seq(NodeType) /\ D \in Nat /\ DOMAIN devices = 1..D
      /\ \A i, j \in 1..D : devices[i].bdf = devices[j].bdf => i = j
      /\ \A b \in Keys(nodes) : \E i \in 1..D : devices[i].bdf = b
  BY ReadyFacts
<1>2. /\ \A i \in 1..D : Houses(nodes, parts(i), devices[i].bdf) /\ Len(parts(i)) \in Nat
      /\ Len(F) \in Nat
  BY Housed
<1>3. PICK start \in [1..D -> Nat] : Joined(F, PartsOf(devices), start, D)
  BY Housed
<1>4. /\ \A k \in 1..D : \A j \in 1..Len(parts(k)) :
           start[k] + j \in 1..Len(F) /\ F[start[k] + j] = parts(k)[j]
      /\ \A x \in 1..Len(F) : \E k \in 1..D : \E j \in 1..Len(parts(k)) : x = start[k] + j
  BY <1>1, <1>3 DEF Joined, PartsOf
<1>5. /\ \A k \in 1..D : \A j \in 1..Len(parts(k)) : parts(k)[j].node \in At(nodes, devices[k].bdf)
      /\ \A k \in 1..D : \A i, j \in 1..Len(parts(k)) : i < j => parts(k)[i].node < parts(k)[j].node
      /\ \A k \in 1..D : \A n \in At(nodes, devices[k].bdf) :
           \E j \in 1..Len(parts(k)) : parts(k)[j].node = n
  <2>1. \A b : \A n \in At(nodes, b) : n < Len(nodes) + 1
    BY <1>1, NodeFacts
  <2> QED
    BY <1>2, <2>1 DEF Houses, Lists
<1> HIDE DEF parts, F, D
<1>6. \A x \in 1..Len(F) : F[x].node \in Gpus(nodes) /\ F[x].node \in Nat
  <2> TAKE x \in 1..Len(F)
  <2>1. PICK k \in 1..D : \E j \in 1..Len(parts(k)) : x = start[k] + j
    BY <1>4
  <2>2. PICK j \in 1..Len(parts(k)) : x = start[k] + j
    BY <2>1
  <2>3. F[x].node \in At(nodes, devices[k].bdf)
    BY <1>4, <1>5, <2>2
  <2>4. F[x].node \in Gpus(nodes)
    BY <2>3 DEF At
  <2>5. F[x].node \in 1..Len(nodes)
    BY <2>4 DEF Gpus
  <2> QED
    BY <2>4, <2>5
<1>7. ASSUME NEW x \in 1..Len(F), NEW y \in 1..Len(F), F[x].node = F[y].node PROVE x = y
  <2>1. PICK k \in 1..D : \E j \in 1..Len(parts(k)) : x = start[k] + j
    BY <1>4
  <2>2. PICK j \in 1..Len(parts(k)) : x = start[k] + j
    BY <2>1
  <2>3. PICK l \in 1..D : \E i \in 1..Len(parts(l)) : y = start[l] + i
    BY <1>4
  <2>4. PICK i \in 1..Len(parts(l)) : y = start[l] + i
    BY <2>3
  <2>5. parts(k)[j].node = F[x].node /\ parts(l)[i].node = F[y].node
    BY <1>4, <2>2, <2>4
  <2>6. F[x].node \in At(nodes, devices[k].bdf) /\ F[x].node \in At(nodes, devices[l].bdf)
    BY <1>5, <1>7, <2>5
  <2>7. devices[k].bdf = devices[l].bdf
    BY <1>1, <2>6, NodeFacts
  <2>8. k = l
    BY <1>1, <2>7
  <2>9. ~(i < j) /\ ~(j < i)
    <3>1. F[x].node \in Nat
      BY <1>6
    <3>2. ~(F[x].node < F[x].node)
      BY <3>1
    <3> QED
      BY <1>5, <1>7, <2>5, <2>8, <3>2
  <2>10. i = j
    BY <1>2, <2>8, <2>9
  <2> QED
    BY <2>2, <2>4, <2>8, <2>10
<1>8. ASSUME NEW n \in Gpus(nodes) PROVE \E x \in 1..Len(F) : F[x].node = n
  <2>1. KeyAt(nodes, n) \in Keys(nodes) /\ n \in At(nodes, KeyAt(nodes, n))
    BY <1>1, NodeFacts DEF Keys
  <2>2. PICK k \in 1..D : devices[k].bdf = KeyAt(nodes, n)
    BY <1>1, <2>1
  <2>3. PICK j \in 1..Len(parts(k)) : parts(k)[j].node = n
    BY <1>5, <2>1, <2>2
  <2> QED
    BY <1>4, <2>3
<1>9. Len(F) = Cardinality(Gpus(nodes))
  <2> DEFINE f == [x \in 1..Len(F) |-> F[x].node]
             X == 1..Len(F)
  <2>1. f \in Bijection(X, Gpus(nodes))
    BY <1>6, <1>7, <1>8 DEF Bijection, Injection, Surjection, IsInjective
  <2>2. ExistsBijection(X, Gpus(nodes))
    BY <2>1 DEF ExistsBijection
  <2>3. IsFiniteSet(X) /\ Cardinality(X) = Len(F)
    <3> DEFINE L == Len(F)
    <3>1. L \in Nat
      BY <1>2 DEF F
    <3> HIDE DEF L
    <3>2. IsFiniteSet(1..L) /\ Cardinality(1..L) = L
      BY <3>1, FS_Interval
    <3> QED
      BY <3>2 DEF L
  <2> HIDE DEF X
  <2> QED
    BY <2>2, <2>3, FS_Bijection
<1> QED
  BY <1>2, <1>6, <1>7, <1>8, <1>9 DEF Each, F

(* What the handles of a device's partitions are when no device gave up:   *)
(* the ranks of their nodes.                                               *)
NodeOf(p) == devices[p[1] + 1].partitions[p[2] + 1].node

LEMMA Pairs ==
  ASSUME IInv, phase = "ready", NobodyGaveUp
  PROVE  /\ \A p \in DevicePairs :
              /\ p[1] + 1 \in 1..Len(devices) /\ p[1] \in Nat
              /\ p[2] + 1 \in 1..Len(devices[p[1] + 1].partitions)
              /\ NodeOf(p) \in Gpus(nodes)
              /\ KeyAt(nodes, NodeOf(p)) = devices[p[1] + 1].bdf
              /\ DevicePartition(p[1], p[2]) = Rank(nodes, NodeOf(p))
         /\ \A p, q \in DevicePairs : NodeOf(p) = NodeOf(q) => p = q
         /\ \A n \in Gpus(nodes) : \E p \in DevicePairs : NodeOf(p) = n
<1> DEFINE D == Len(devices)
           parts(i) == devices[i].partitions
<1>1. /\ nodes \in Seq(NodeType) /\ D \in Nat
      /\ \A i, j \in 1..D : devices[i].bdf = devices[j].bdf => i = j
      /\ \A b \in Keys(nodes) : \E i \in 1..D : devices[i].bdf = b
  BY ReadyFacts
<1>2. \A i \in 1..D : Houses(nodes, parts(i), devices[i].bdf) /\ Len(parts(i)) \in Nat
  BY Housed
<1>3. ASSUME NEW p \in DevicePairs
      PROVE  /\ p[1] + 1 \in 1..D /\ p[1] \in Nat
             /\ p[2] + 1 \in 1..Len(parts(p[1] + 1)) /\ p[2] \in Nat
             /\ p = <<p[1], p[2]>>
  <2>1. /\ p \in (0..(D - 1)) \X (0..(NumNodes - 1))
        /\ p[2] < Len(parts(p[1] + 1))
    BY DEF DevicePairs
  <2>2. NumNodes \in Nat
    BY <1>1, NodeFacts DEF NumNodes
  <2> HIDE DEF D, parts
  <2>3. p[1] \in 0..(D - 1) /\ p[2] \in 0..(NumNodes - 1) /\ p = <<p[1], p[2]>>
    BY <2>1
  <2>4. p[1] + 1 \in 1..D /\ p[1] \in Nat /\ p[2] \in Nat
    BY <1>1, <2>2, <2>3
  <2> DEFINE L == Len(parts(p[1] + 1))
             x == p[2]
  <2>5. L \in Nat /\ x \in Nat /\ x < L
    BY <1>2, <2>1, <2>4
  <2> HIDE DEF L, x
  <2>6. x + 1 \in 1..L
    BY <2>5
  <2> QED
    BY <2>3, <2>4, <2>6 DEF L, x
<1>4. ASSUME NEW i \in 1..D, NEW j \in 1..Len(parts(i))
      PROVE  /\ parts(i)[j].node \in Gpus(nodes)
             /\ KeyAt(nodes, parts(i)[j].node) = devices[i].bdf
             /\ parts(i)[j].global = Rank(nodes, parts(i)[j].node)
             /\ <<i - 1, j - 1>> \in DevicePairs
             /\ NodeOf(<<i - 1, j - 1>>) = parts(i)[j].node
  <2>1. Houses(nodes, parts(i), devices[i].bdf) /\ Len(parts(i)) \in Nat
    BY <1>2
  <2>2. Lists(nodes, parts(i), devices[i].bdf, Len(nodes) + 1)
    BY <2>1 DEF Houses
  <2>3. parts(i)[j].node \in At(nodes, devices[i].bdf)
    BY <2>2 DEF Lists
  <2>4. parts(i)[j].global = Rank(nodes, parts(i)[j].node)
    BY <2>1 DEF Houses
  <2>5. j <= parts(i)[j].node /\ parts(i)[j].node <= Len(nodes)
    <3> HIDE DEF parts
    <3> QED
      BY <1>1, <2>1, <2>2, IndexBelow
  <2>6. parts(i)[j].node \in 1..Len(nodes) /\ Len(nodes) \in Nat
    BY <1>1, <2>3, NodeFacts
  <2>7. /\ i - 1 \in 0..(D - 1) /\ j - 1 \in 0..(NumNodes - 1) /\ j - 1 < Len(parts(i))
        /\ (i - 1) + 1 = i /\ (j - 1) + 1 = j
    <3> DEFINE L == Len(parts(i))
               x == parts(i)[j].node
    <3>1. L \in Nat /\ x \in Nat /\ j \in 1..L /\ j <= x /\ x <= Len(nodes) /\ Len(nodes) \in Nat
      BY <2>1, <2>5, <2>6
    <3> HIDE DEF L, x, D, parts
    <3>2. j - 1 \in 0..(Len(nodes) - 1) /\ j - 1 < L /\ (j - 1) + 1 = j
      BY <3>1
    <3>3. i - 1 \in 0..(D - 1) /\ (i - 1) + 1 = i
      BY <1>1
    <3> QED
      BY <3>2, <3>3 DEF NumNodes, L
  <2>8. <<i - 1, j - 1>> \in DevicePairs
    BY <2>7 DEF DevicePairs
  <2>9. NodeOf(<<i - 1, j - 1>>) = parts(i)[j].node
    BY <2>7 DEF NodeOf
  <2> QED
    BY <1>1, <2>3, <2>4, <2>8, <2>9, NodeFacts
<1>5. ASSUME NEW p \in DevicePairs, NEW q \in DevicePairs, NodeOf(p) = NodeOf(q)
      PROVE  p = q
  <2> DEFINE i == p[1] + 1
             j == p[2] + 1
             k == q[1] + 1
             l == q[2] + 1
             list == parts(i)
  <2>1. i \in 1..D /\ j \in 1..Len(parts(i)) /\ k \in 1..D /\ l \in 1..Len(parts(k))
    BY <1>3
  <2>2. list[j].node = NodeOf(p) /\ parts(k)[l].node = NodeOf(q)
    BY DEF NodeOf
  <2> HIDE DEF i, j, k, l, D
  <2>3. devices[i].bdf = KeyAt(nodes, NodeOf(p)) /\ devices[k].bdf = KeyAt(nodes, NodeOf(q))
    BY <1>4, <2>1, <2>2
  <2>4. i = k
    BY <1>1, <1>5, <2>1, <2>3
  <2>5. l \in 1..Len(list) /\ list[l].node = list[j].node
    BY <1>5, <2>1, <2>2, <2>4
  <2>6. /\ \A x, y \in 1..Len(list) : x < y => list[x].node < list[y].node
        /\ Len(list) \in Nat
    BY <1>2, <2>1 DEF Houses, Lists
  <2>7. list[j].node \in Nat
    <3>1. list[j].node \in Gpus(nodes)
      BY <1>4, <2>1
    <3>2. list[j].node \in 1..Len(nodes)
      BY <3>1 DEF Gpus
    <3> QED
      BY <3>2
  <2>8. ~(list[j].node < list[j].node)
    BY <2>7
  <2> HIDE DEF list
  <2>9. ~(j < l) /\ ~(l < j)
    BY <2>1, <2>5, <2>6, <2>8 DEF list
  <2>10. j = l
    BY <2>1, <2>5, <2>6, <2>9 DEF list
  <2>11. p[1] + 1 = q[1] + 1 /\ p[2] + 1 = q[2] + 1
    BY <2>4, <2>10 DEF i, j, k, l
  <2>12. p[1] = q[1] /\ p[2] = q[2]
    BY <1>3, <2>11
  <2> QED
    BY <1>3, <2>12
<1>6. ASSUME NEW n \in Gpus(nodes) PROVE \E p \in DevicePairs : NodeOf(p) = n
  <2>1. KeyAt(nodes, n) \in Keys(nodes) /\ n \in At(nodes, KeyAt(nodes, n))
        /\ n < Len(nodes) + 1
    BY <1>1, NodeFacts DEF Keys
  <2>2. PICK i \in 1..D : devices[i].bdf = KeyAt(nodes, n)
    BY <1>1, <2>1
  <2>3. PICK j \in 1..Len(parts(i)) : parts(i)[j].node = n
    BY <1>2, <2>1, <2>2 DEF Houses, Lists
  <2> QED
    BY <1>4, <2>3
<1>7. ASSUME NEW p \in DevicePairs
      PROVE  /\ NodeOf(p) \in Gpus(nodes)
             /\ KeyAt(nodes, NodeOf(p)) = devices[p[1] + 1].bdf
             /\ DevicePartition(p[1], p[2]) = Rank(nodes, NodeOf(p))
  BY <1>3, <1>4 DEF NodeOf, DevicePartition
<1> QED
  BY <1>3, <1>5, <1>6, <1>7

(* The r-th partition of the engine, for the rank r of a GPU node          *)
LEMMA AtRank ==
  ASSUME IInv, phase = "ready", NobodyGaveUp, NEW k \in Gpus(nodes)
  PROVE  LET r == Rank(nodes, k)
         IN  /\ r \in Nat /\ r + 1 \in 1..Len(partitions)
             /\ ValidPartition(r)
             /\ partitions[r + 1].node \in Gpus(nodes)
             /\ PartitionNode(r) = partitions[r + 1].node - 1
             /\ NodeId(PartitionNode(r)) = nodes[partitions[r + 1].node].instance
<1> DEFINE r == Rank(nodes, k)
           L == Len(partitions)
<1>1. nodes \in Seq(NodeType)
  BY ReadyFacts
<1>2. Each(partitions, nodes)
  BY EachOnce
<1>3. L \in Nat /\ r \in 0..L - 1
  <2>1. L = Cardinality(Gpus(nodes)) /\ L \in Nat
    BY <1>2 DEF Each
  <2> HIDE DEF L
  <2> QED
    BY <1>1, <2>1, RanksAll
<1> HIDE DEF r, L
<1>4. r \in Nat /\ r + 1 \in 1..L
  BY <1>3
<1> DEFINE n == partitions[r + 1].node
<1>5. n \in Gpus(nodes)
  BY <1>2, <1>4 DEF Each, L
<1>6. n \in 1..Len(nodes)
  BY <1>5 DEF Gpus
<1>7. PartitionNode(r) = n - 1
  BY DEF PartitionNode
<1> HIDE DEF n
<1>8. (n - 1) + 1 = n
  BY <1>6
<1>9. NodeId(PartitionNode(r)) = nodes[n].instance
  BY <1>7, <1>8 DEF NodeId
<1> QED
  BY <1>3, <1>4, <1>5, <1>7, <1>9 DEF ValidPartition, L, n, r

(* EveryNodeReachedOnce: the loops of tests/enumerate.cc reach the node of *)
(* every GPU, and none twice, on any machine whose devices have partitions. *)
THEOREM ReachedOnce == Spec => []EveryNodeReachedOnce
<1>1. IInv => EveryNodeReachedOnce
  <2> SUFFICES ASSUME IInv, phase = "ready", NobodyGaveUp PROVE EveryNodeReachedOnce
    BY DEF EveryNodeReachedOnce
  <2> DEFINE G == Gpus(nodes)
             h(p) == DevicePartition(p[1], p[2])
             met == {NodeId(PartitionNode(h(p))) : p \in DevicePairs}
             gpus == {x \in ToSet(m.listing) : Printed(x, "simd_count") # 0}
  <2>1. /\ nodes \in Seq(NodeType) /\ MachineOK(m) /\ m.listing # NoTopology
        /\ ToSet(nodes) = {KFDNode(d, m.override) : d \in ToSet(m.listing)}
    BY ReadyFacts DEF IInv, NodesInv, AllRead
  <2>2. \A d \in ToSet(m.listing) : AsPrinted(KFDNode(d, m.override), d)
    <3>1. \A d \in ToSet(m.listing) : d \in Dirs /\ DistinctLines(d) /\ m.override \in Entries
      BY <2>1, Listed DEF ToSet
    <3> QED
      BY <3>1, NodePrinted
  <2>3. \A d \in ToSet(m.listing) :
          /\ KFDNode(d, m.override).instance = d.instance
          /\ KFDNode(d, m.override).props.simd_count = Printed(d, "simd_count")
    <3>1. "simd_count" \in Names \ Unprinted
      BY SomeNames DEF Unprinted
    <3> QED
      BY <2>2, <3>1 DEF AsPrinted
  <2>4. /\ \A p \in DevicePairs : NodeOf(p) \in G /\ h(p) = Rank(nodes, NodeOf(p))
        /\ \A p, q \in DevicePairs : NodeOf(p) = NodeOf(q) => p = q
        /\ \A n \in G : \E p \in DevicePairs : NodeOf(p) = n
    BY Pairs
  <2>5. \A p \in DevicePairs :
          /\ h(p) \in Nat /\ h(p) + 1 \in 1..Len(partitions) /\ ValidPartition(h(p))
          /\ partitions[h(p) + 1].node \in G
          /\ PartitionNode(h(p)) = partitions[h(p) + 1].node - 1
          /\ NodeId(PartitionNode(h(p))) = nodes[partitions[h(p) + 1].node].instance
    <3> HIDE DEF h, G
    <3> TAKE p \in DevicePairs
    <3>1. NodeOf(p) \in Gpus(nodes) /\ h(p) = Rank(nodes, NodeOf(p))
      BY <2>4 DEF G
    <3> QED
      BY <3>1, AtRank DEF G
  <2>6. Each(partitions, nodes)
    BY EachOnce
  <2>7. \A k, n \in G : Rank(nodes, k) = Rank(nodes, n) => k = n
    <3> SUFFICES ASSUME NEW k \in G, NEW n \in G, Rank(nodes, k) = Rank(nodes, n)
                 PROVE  k = n
      OBVIOUS
    <3>1. k \in 1..Len(nodes) /\ n \in 1..Len(nodes) /\ Len(nodes) \in Nat
      BY <2>1, NodeFacts
    <3>2. (k < n => Rank(nodes, k) < Rank(nodes, n)) /\ (n < k => Rank(nodes, n) < Rank(nodes, k))
      BY <2>1, RankFacts
    <3>3. Rank(nodes, k) \in Nat /\ Rank(nodes, n) \in Nat
      <4>1. k \in Nat /\ n \in Nat
        BY <3>1
      <4> QED
        BY <2>1, <4>1, RankFacts
    <3> QED
      BY <3>1, <3>2, <3>3
  <2> HIDE DEF h, G
  <2>8. ASSUME NEW p \in DevicePairs, NEW q \in DevicePairs,
               PartitionNode(h(p)) = PartitionNode(h(q))
        PROVE  p = q
    <3> DEFINE x == partitions[h(p) + 1].node
               y == partitions[h(q) + 1].node
    <3>1. x \in 1..Len(nodes) /\ y \in 1..Len(nodes) /\ x - 1 = y - 1
      <4>1. x \in Gpus(nodes) /\ y \in Gpus(nodes)
        BY <2>5 DEF G
      <4> QED
        BY <2>5, <2>8, <4>1 DEF Gpus
    <3>2. x = y
      <4> HIDE DEF x, y
      <4> QED
        BY <3>1
    <3>3. h(p) + 1 = h(q) + 1
      BY <2>5, <2>6, <3>2 DEF Each
    <3>4. h(p) = h(q)
      BY <2>5, <3>3
    <3>5. NodeOf(p) = NodeOf(q)
      BY <2>4, <2>7, <3>4
    <3> QED
      BY <2>4, <3>5
  <2>9. met = {d.instance : d \in gpus}
    <3>1. ASSUME NEW p \in DevicePairs
          PROVE  \E d \in gpus : NodeId(PartitionNode(h(p))) = d.instance
      <4> DEFINE n == partitions[h(p) + 1].node
      <4>1. NodeId(PartitionNode(h(p))) = nodes[n].instance /\ n \in Gpus(nodes)
        BY <2>5 DEF G
      <4>2. n \in 1..Len(nodes) /\ nodes[n].props.simd_count # 0
        BY <4>1 DEF Gpus
      <4>3. nodes[n] \in ToSet(nodes)
        BY <2>1, <4>2 DEF ToSet
      <4>4. PICK d \in ToSet(m.listing) : nodes[n] = KFDNode(d, m.override)
        BY <2>1, <4>3
      <4> QED
        BY <2>3, <4>1, <4>2, <4>4
    <3>2. ASSUME NEW d \in gpus
          PROVE  \E p \in DevicePairs : NodeId(PartitionNode(h(p))) = d.instance
      <4>1. KFDNode(d, m.override) \in ToSet(nodes)
        BY <2>1
      <4>2. PICK n \in 1..Len(nodes) : nodes[n] = KFDNode(d, m.override)
        BY <2>1, <4>1 DEF ToSet
      <4>3. n \in Gpus(nodes) /\ nodes[n].instance = d.instance
        BY <2>3, <4>2 DEF Gpus
      <4>4. PICK x \in 1..Len(partitions) : partitions[x].node = n
        BY <2>6, <4>3 DEF Each
      <4> DEFINE C == Cardinality(Gpus(nodes))
      <4>5. x \in 1..C /\ C \in Nat
        BY <2>6 DEF Each
      <4>6. x - 1 \in 0..C - 1 /\ (x - 1) + 1 = x
        <5> HIDE DEF C
        <5> QED
          BY <4>5
      <4>7. PICK k \in G : Rank(nodes, k) = x - 1
        BY <2>1, <4>6, RanksAll DEF G
      <4>8. PICK p \in DevicePairs : NodeOf(p) = k
        BY <2>4
      <4>9. h(p) + 1 = x
        BY <2>4, <4>6, <4>7, <4>8
      <4>10. NodeId(PartitionNode(h(p))) = nodes[n].instance
        BY <2>5, <4>4, <4>9
      <4> QED
        BY <4>3, <4>10
    <3> QED
      BY <3>1, <3>2
  <2> QED
    BY <2>5, <2>8, <2>9 DEF EveryNodeReachedOnce, h
<1> QED
  BY <1>1, Invariant, PTL

-----------------------------------------------------------------------------
(* As many as the first x numbers *)
LEMMA CountUpTo ==
  ASSUME NEW x \in Nat, NEW S, NEW f, f \in Bijection(1..x, S)
  PROVE  Cardinality(S) = x
<1>1. IsFiniteSet(1..x) /\ Cardinality(1..x) = x
  BY FS_Interval
<1>2. ExistsBijection(1..x, S)
  BY DEF ExistsBijection
<1> DEFINE X == 1..x
<1> HIDE DEF X
<1> QED
  BY <1>1, <1>2, FS_Bijection DEF X

(* With the KFD nodes in the order of their addresses, the partitions of   *)
(* the engine are in the order of their nodes.                             *)
LEMMA InNodeOrder ==
  ASSUME IInv, phase = "ready", NobodyGaveUp, Ascending
  PROVE  \A x, y \in 1..Len(partitions) :
           x < y => partitions[x].node < partitions[y].node
<1> DEFINE D == Len(devices)
           parts(i) == devices[i].partitions
           F == partitions
<1>1. /\ nodes \in Seq(NodeType) /\ D \in Nat /\ DOMAIN devices = 1..D
      /\ \A i, j \in 1..D : i < j => devices[i].bdf < devices[j].bdf
      /\ \A i \in 1..D : devices[i].bdf \in Nat
  BY ReadyFacts
<1>2. /\ \A i \in 1..D : Houses(nodes, parts(i), devices[i].bdf) /\ Len(parts(i)) \in Nat
      /\ Len(F) \in Nat
  BY Housed
<1>3. PICK start \in [1..D -> Nat] : Joined(F, PartsOf(devices), start, D)
  BY Housed
<1>4. /\ \A k \in 1..D : \A j \in 1..Len(parts(k)) :
           start[k] + j \in 1..Len(F) /\ F[start[k] + j] = parts(k)[j]
      /\ \A x \in 1..Len(F) : \E k \in 1..D : \E j \in 1..Len(parts(k)) : x = start[k] + j
      /\ \A k, l \in 1..D : k < l => start[k] + Len(parts(k)) <= start[l]
  BY <1>1, <1>3 DEF Joined, PartsOf
<1>5. /\ \A k \in 1..D : \A j \in 1..Len(parts(k)) : parts(k)[j].node \in At(nodes, devices[k].bdf)
      /\ \A k \in 1..D : \A i, j \in 1..Len(parts(k)) : i < j => parts(k)[i].node < parts(k)[j].node
  BY <1>2 DEF Houses, Lists
<1>6. \A k, n \in Gpus(nodes) : k < n => KeyAt(nodes, k) <= KeyAt(nodes, n)
  BY Bridge DEF Ascending
<1> HIDE DEF parts, F, D
<1>7. SUFFICES ASSUME NEW x \in 1..Len(F), NEW y \in 1..Len(F), x < y
               PROVE  F[x].node < F[y].node
  BY DEF F
<1>8. PICK k \in 1..D : \E j \in 1..Len(parts(k)) : x = start[k] + j
  BY <1>4
<1>9. PICK j \in 1..Len(parts(k)) : x = start[k] + j
  BY <1>8
<1>10. PICK l \in 1..D : \E i \in 1..Len(parts(l)) : y = start[l] + i
  BY <1>4
<1>11. PICK i \in 1..Len(parts(l)) : y = start[l] + i
  BY <1>10
<1>12. F[x].node = parts(k)[j].node /\ F[y].node = parts(l)[i].node
  BY <1>4, <1>9, <1>11
<1>13. k \in Nat /\ l \in Nat /\ start[k] \in Nat /\ start[l] \in Nat
  BY <1>1
<1>14. CASE k = l
  <2> DEFINE L == Len(parts(k))
             a == start[k]
  <2>1. a \in Nat /\ L \in Nat /\ j \in 1..L /\ i \in 1..L /\ a + j < a + i
    BY <1>2, <1>7, <1>9, <1>11, <1>13, <1>14
  <2> HIDE DEF a, L
  <2>2. j < i
    BY <2>1
  <2> QED
    BY <1>5, <1>12, <1>14, <2>1, <2>2 DEF L
<1>15. CASE l < k
  <2> DEFINE L == Len(parts(l))
             M == Len(parts(k))
             a == start[k]
             b == start[l]
  <2>1. b + L <= a /\ a \in Nat /\ b \in Nat /\ L \in Nat /\ M \in Nat
        /\ j \in 1..M /\ i \in 1..L /\ a + j < b + i
    BY <1>2, <1>4, <1>7, <1>9, <1>11, <1>13, <1>15
  <2> HIDE DEF a, b, L, M
  <2> QED
    BY <2>1
<1>16. CASE k < l
  <2> DEFINE u == F[x].node
             v == F[y].node
             c == devices[k].bdf
             d == devices[l].bdf
  <2>1. u \in At(nodes, c) /\ v \in At(nodes, d)
    BY <1>5, <1>9, <1>11, <1>12
  <2>2. u \in Gpus(nodes) /\ v \in Gpus(nodes) /\ KeyAt(nodes, u) = c /\ KeyAt(nodes, v) = d
    BY <2>1 DEF At
  <2>3. u \in 1..Len(nodes) /\ v \in 1..Len(nodes)
    BY <2>2 DEF Gpus
  <2>4. c < d /\ c \in Nat /\ d \in Nat
    BY <1>1, <1>16
  <2> HIDE DEF u, v, c, d
  <2>5. u # v /\ ~(v < u)
    <3>1. ~(d <= c) /\ c # d
      BY <2>4
    <3> QED
      BY <1>6, <2>2, <3>1
  <2>6. u < v
    BY <2>3, <2>5
  <2> QED
    BY <2>6 DEF u, v
<1> QED
  BY <1>13, <1>14, <1>15, <1>16

(* Then the r-th partition is that of the GPU node of rank r ...           *)
LEMMA RankIsPlace ==
  ASSUME IInv, phase = "ready", NobodyGaveUp, Ascending, NEW x \in 1..Len(partitions)
  PROVE  Rank(nodes, partitions[x].node) = x - 1
<1> DEFINE L == Len(partitions)
           F == partitions
           S == {k \in Gpus(nodes) : k < F[x].node}
           f == [i \in 1..(x - 1) |-> F[i].node]
<1>1. Each(F, nodes) /\ \A i, j \in 1..L : i < j => F[i].node < F[j].node
  BY EachOnce, InNodeOrder
<1>2. /\ L \in Nat /\ x \in 1..L /\ x - 1 \in Nat
      /\ \A i \in 1..(x - 1) : i \in 1..L /\ i < x
      /\ \A i \in 1..L : i < x => i \in 1..(x - 1)
  <2>1. L \in Nat
    BY <1>1 DEF Each
  <2> HIDE DEF L
  <2>2. x \in 1..L
    BY DEF L
  <2> QED
    BY <2>1, <2>2
<1>3. \A i \in 1..L : F[i].node \in Gpus(nodes) /\ F[i].node \in Nat
  <2>1. \A i \in 1..L : F[i].node \in Gpus(nodes)
    BY <1>1 DEF Each
  <2>2. \A n \in Gpus(nodes) : n \in Nat
    BY DEF Gpus
  <2> QED
    BY <2>1, <2>2
<1>4. \A i, j \in 1..L : F[i].node = F[j].node => i = j
  BY <1>1 DEF Each
<1>5. \A n \in Gpus(nodes) : \E i \in 1..L : F[i].node = n
  BY <1>1 DEF Each
<1> HIDE DEF L, F
<1>6. f \in [1..(x - 1) -> S]
  BY <1>1, <1>2, <1>3
<1>7. \A n \in S : \E i \in 1..(x - 1) : f[i] = n
  <2> TAKE n \in S
  <2>1. n \in Gpus(nodes) /\ n < F[x].node
    OBVIOUS
  <2>2. PICK i \in 1..L : F[i].node = n
    BY <1>5, <2>1
  <2>3. i < x
    <3>1. F[i].node \in Nat /\ F[x].node \in Nat /\ F[i].node < F[x].node
      BY <1>2, <1>3, <2>1, <2>2
    <3>2. i # x
      BY <3>1
    <3>3. ~(F[x].node < F[i].node)
      BY <3>1
    <3>4. ~(x < i)
      BY <1>1, <1>2, <3>3
    <3> QED
      BY <1>2, <3>2, <3>4
  <2> QED
    BY <1>2, <2>2, <2>3
<1>8. f \in Bijection(1..(x - 1), S)
  <2>1. \A i, j \in 1..(x - 1) : f[i] = f[j] => i = j
    BY <1>2, <1>4
  <2> HIDE DEF f, S
  <2> QED
    BY <1>6, <1>7, <2>1 DEF Bijection, Injection, Surjection, IsInjective
<1> HIDE DEF f
<1>9. Cardinality(S) = x - 1
  <2> DEFINE w == x - 1
  <2>1. w \in Nat /\ f \in Bijection(1..w, S)
    BY <1>2, <1>8
  <2> HIDE DEF w, S
  <2>2. Cardinality(S) = w
    BY <2>1, CountUpTo
  <2> QED
    BY <2>2 DEF w
<1> QED
  BY <1>9 DEF Rank, F

(* ... and the number of a device is its place.                            *)
LEMMA InstanceIsPlace ==
  ASSUME IInv, phase = "ready", NobodyGaveUp, Ascending, NEW i \in 1..Len(devices)
  PROVE  devices[i].instance = i - 1
<1> DEFINE D == Len(devices)
           b(l) == devices[l].bdf
           n == First(nodes, b(i))
           S == KeysBefore(nodes, n)
           f == [l \in 1..(i - 1) |-> b(l)]
<1>1. /\ nodes \in Seq(NodeType) /\ D \in Nat
      /\ \A l \in 1..D : b(l) \in Nat
      /\ \A l, j \in 1..D : l < j => b(l) < b(j)
      /\ \A l, j \in 1..D : b(l) = b(j) => l = j
      /\ \A k \in Keys(nodes) : \E l \in 1..D : b(l) = k
      /\ \A l \in 1..D : Finished(m, nodes, devices[l])
  BY ReadyFacts
<1>2. \A k, l \in Gpus(nodes) : k < l => KeyAt(nodes, k) <= KeyAt(nodes, l)
  BY Bridge DEF Ascending
<1>3. /\ i - 1 \in Nat /\ \A l \in 1..(i - 1) : l \in 1..D /\ l < i
      /\ \A l \in 1..D : l < i => l \in 1..(i - 1)
  <2> HIDE DEF D
  <2>1. i \in 1..D
    BY DEF D
  <2> QED
    BY <1>1, <2>1
<1>4. n \in Gpus(nodes) /\ KeyAt(nodes, n) = b(i) /\ n \in Nat
  <2>1. At(nodes, b(i)) # {}
    <3>1. b(i) \in Keys(nodes)
      BY <1>1 DEF Finished
    <3> QED
      BY <3>1 DEF Keys, At
  <2>2. At(nodes, b(i)) \in SUBSET Nat
    BY DEF At, Gpus
  <2>3. n \in At(nodes, b(i))
    <3> DEFINE A == At(nodes, b(i))
    <3> HIDE DEF A
    <3> QED
      BY <2>1, <2>2, SmallestIs DEF First, A
  <2> QED
    BY <2>2, <2>3 DEF At
<1>5. \A k \in Gpus(nodes) : KeyAt(nodes, k) = b(i) => n <= k
  <2>1. At(nodes, b(i)) \in SUBSET Nat
    BY DEF At, Gpus
  <2>2. At(nodes, b(i)) # {} => \A k \in At(nodes, b(i)) : n <= k
    BY <2>1, SmallestIs DEF First
  <2> QED
    BY <2>2 DEF At
<1>6. \A k \in Gpus(nodes) : k \in Nat /\ KeyAt(nodes, k) \in Nat
  <2>1. \A k \in Gpus(nodes) : k \in 1..Len(nodes)
    BY DEF Gpus
  <2> QED
    BY <1>1, <2>1, NodeFacts
<1>7. i \in 1..D /\ \A l \in 1..D : l \in Nat
  OBVIOUS
<1> HIDE DEF D, b, n
<1>8. \A k \in Gpus(nodes) : k < n <=> KeyAt(nodes, k) < b(i)
  <2> TAKE k \in Gpus(nodes)
  <2> DEFINE x == KeyAt(nodes, k)
             y == b(i)
  <2>1. k \in Nat /\ n \in Nat /\ x \in Nat /\ y \in Nat
    BY <1>1, <1>4, <1>6, <1>7
  <2>2. (k < n => x <= y) /\ (n < k => y <= x) /\ (k = n => x = y) /\ (x = y => n <= k)
    BY <1>2, <1>4, <1>5
  <2> HIDE DEF x, y
  <2>3. k < n <=> x < y
    BY <2>1, <2>2
  <2> QED
    BY <2>3 DEF x, y
<1>9. f \in [1..(i - 1) -> S]
  <2> SUFFICES ASSUME NEW l \in 1..(i - 1) PROVE b(l) \in S
    OBVIOUS
  <2>1. l \in 1..D /\ l < i
    BY <1>3
  <2>2. b(l) \in Keys(nodes) /\ b(l) < b(i)
    BY <1>1, <1>7, <2>1 DEF Finished, b
  <2>3. PICK k \in Gpus(nodes) : KeyAt(nodes, k) = b(l)
    BY <2>2 DEF Keys
  <2>4. k < n
    BY <1>8, <2>2, <2>3
  <2> QED
    BY <2>3, <2>4 DEF KeysBefore
<1>10. \A s \in S : \E l \in 1..(i - 1) : f[l] = s
  <2> TAKE s \in S
  <2>1. PICK k \in Gpus(nodes) : k < n /\ s = KeyAt(nodes, k)
    BY DEF KeysBefore
  <2>2. s < b(i) /\ s \in Keys(nodes) /\ s \in Nat
    BY <1>6, <1>8, <2>1 DEF Keys
  <2>3. PICK l \in 1..D : b(l) = s
    BY <1>1, <2>2
  <2>4. l < i
    <3>1. b(l) \in Nat /\ b(i) \in Nat /\ b(l) < b(i)
      BY <1>1, <1>7, <2>2, <2>3
    <3>2. l # i /\ ~(b(i) < b(l))
      BY <3>1
    <3>3. ~(i < l)
      BY <1>1, <1>7, <3>2
    <3> QED
      BY <1>7, <3>2, <3>3
  <2> QED
    BY <1>3, <2>3, <2>4
<1>11. f \in Bijection(1..(i - 1), S)
  <2>1. \A l, j \in 1..(i - 1) : f[l] = f[j] => l = j
    BY <1>1, <1>3
  <2> HIDE DEF f, S
  <2> QED
    BY <1>9, <1>10, <2>1 DEF Bijection, Injection, Surjection, IsInjective
<1> HIDE DEF f
<1>12. Cardinality(S) = i - 1
  <2> DEFINE w == i - 1
  <2>1. w \in Nat /\ f \in Bijection(1..w, S)
    BY <1>3, <1>11
  <2> HIDE DEF w, S
  <2>2. Cardinality(S) = w
    BY <2>1, CountUpTo
  <2> QED
    BY <2>2 DEF w
<1> QED
  BY <1>1, <1>7, <1>12 DEF Finished, n, b

(* AscendingRoundTrips: the handles of sift.h can be followed from a       *)
(* device to a partition and back when KFD lists the GPUs in the order of  *)
(* their PCI addresses.                                                    *)
THEOREM AscendingRoundTrip == Spec => []AscendingRoundTrips
<1>1. IInv => AscendingRoundTrips
  <2> SUFFICES ASSUME IInv, phase = "ready", NobodyGaveUp, Ascending,
                      NEW p \in DevicePairs
               PROVE  LET h == DevicePartition(p[1], p[2])
                      IN  /\ ValidPartition(h)
                          /\ PartitionNode(h) = devices[p[1] + 1].partitions[p[2] + 1].node - 1
                          /\ PartitionDevice(h) = p[1]
    BY DEF AscendingRoundTrips, RoundTrips
  <2> DEFINE D == Len(devices)
             i == p[1] + 1
             j == p[2] + 1
             h == DevicePartition(p[1], p[2])
             n == NodeOf(p)
             F == partitions
  <2>1. /\ i \in 1..D /\ p[1] \in Nat /\ j \in 1..Len(devices[i].partitions)
        /\ n \in Gpus(nodes) /\ KeyAt(nodes, n) = devices[i].bdf
        /\ h = Rank(nodes, n) /\ devices[i].partitions[j].node = n
    BY Pairs DEF NodeOf
  <2>2. /\ D \in Nat /\ DOMAIN devices = 1..D
        /\ \A k, l \in 1..D : devices[k].bdf = devices[l].bdf => k = l
    BY ReadyFacts
  <2>3. Each(F, nodes)
    BY EachOnce
  <2>4. PICK x \in 1..Len(F) : F[x].node = n
    BY <2>1, <2>3 DEF Each
  <2>5. h = x - 1 /\ h + 1 = x /\ h \in 0..(Len(F) - 1)
    <3> DEFINE L == Len(F)
    <3>1. h = x - 1
      BY <2>1, <2>4, RankIsPlace
    <3>2. L \in Nat /\ x \in 1..L
      BY <2>3 DEF Each
    <3> HIDE DEF L, h
    <3>3. h + 1 = x /\ h \in 0..(L - 1)
      BY <3>1, <3>2
    <3> QED
      BY <3>1, <3>3 DEF L
  <2>6. F[h + 1].node = n
    BY <2>4, <2>5
  <2>7. \A k \in 1..D : Houses(nodes, devices[k].partitions, devices[k].bdf)
    BY Housed
  <2>8. F[h + 1] = devices[i].partitions[j]
    <3>1. PICK start \in [1..D -> Nat] : Joined(F, PartsOf(devices), start, D)
      BY Housed
    <3>2. start[i] + j \in 1..Len(F) /\ F[start[i] + j] = devices[i].partitions[j]
      BY <2>1, <2>2, <3>1 DEF Joined, PartsOf
    <3>3. F[start[i] + j].node = F[x].node
      BY <2>1, <2>4, <3>2
    <3>4. start[i] + j = x
      BY <2>3, <3>2, <3>3 DEF Each
    <3> QED
      BY <2>5, <3>2, <3>4
  <2> HIDE DEF i, j, h, n, D, F
  <2>9. F[h + 1] \in ToSet(devices[i].partitions)
    <3>1. DOMAIN devices[i].partitions = 1..Len(devices[i].partitions)
      BY <2>1, <2>7, LenProperties DEF Houses
    <3> QED
      BY <2>1, <2>8, <3>1 DEF ToSet
  <2>10. ASSUME NEW d \in ToSet(devices), F[h + 1] \in ToSet(d.partitions)
         PROVE  d = devices[i]
    <3>1. PICK k \in 1..D : d = devices[k]
      BY <2>2 DEF ToSet
    <3> DEFINE parts == devices[k].partitions
    <3>2. Houses(nodes, parts, devices[k].bdf)
      BY <2>7
    <3>3. DOMAIN parts = 1..Len(parts)
      BY <3>2, LenProperties DEF Houses
    <3>4. PICK l \in 1..Len(parts) : F[h + 1] = parts[l]
      BY <2>10, <3>1, <3>3 DEF ToSet
    <3>5. parts[l].node \in At(nodes, devices[k].bdf)
      BY <3>2, <3>4 DEF Houses, Lists
    <3>6. KeyAt(nodes, n) = devices[k].bdf
      BY <2>6, <3>4, <3>5 DEF At
    <3>7. k = i
      BY <2>1, <2>2, <3>6
    <3> QED
      BY <3>1, <3>7
  <2>11. devices[i] \in ToSet(devices)
    BY <2>1, <2>2 DEF ToSet
  <2>12. (CHOOSE d \in ToSet(devices) : F[h + 1] \in ToSet(d.partitions)) = devices[i]
    BY <2>9, <2>10, <2>11
  <2>13. PartitionDevice(h) = devices[i].instance
    BY <2>12 DEF PartitionDevice, F
  <2>14. devices[i].instance = i - 1
    BY <2>1, InstanceIsPlace DEF D
  <2>15. PartitionDevice(h) = p[1]
    <3>1. i - 1 = p[1]
      BY <2>1 DEF i
    <3> QED
      BY <2>13, <2>14, <3>1
  <2>16. ValidPartition(h)
    BY <2>5 DEF ValidPartition, F
  <2>17. PartitionNode(h) = devices[p[1] + 1].partitions[p[2] + 1].node - 1
    BY <2>1, <2>6 DEF PartitionNode, F, i, j
  <2> QED
    BY <2>15, <2>16, <2>17 DEF h
<1> QED
  BY <1>1, Invariant, PTL

-----------------------------------------------------------------------------
LEMMA FlattenNothing ==
  ASSUME NEW V, NEW seqs \in Seq(Seq(V)), \A k \in 1..Len(seqs) : seqs[k] = << >>
  PROVE  FlattenSeq(seqs) = << >>
<1> DEFINE F == FlattenSeq(seqs)
<1>1. PICK start : F \in Seq(V) /\ Joined(F, seqs, start, Len(seqs))
  BY FlattenJoins
<1> HIDE DEF F
<1>2. Len(F) \in Nat
  BY <1>1, LenProperties
<1>3. \A k \in 1..Len(seqs) : Len(seqs[k]) = 0
  OBVIOUS
<1>4. \A x \in 1..Len(F) : FALSE
  <2> TAKE x \in 1..Len(F)
  <2>1. PICK k \in 1..Len(seqs) : \E j \in 1..Len(seqs[k]) : x = start[k] + j
    BY <1>1 DEF Joined
  <2> QED
    BY <1>3, <2>1
<1>5. Len(F) = 0
  <2>1. Len(F) # 0 => 1 \in 1..Len(F)
    BY <1>2
  <2> QED
    BY <1>4, <2>1
<1>6. F = << >>
  BY <1>1, <1>5, EmptySeq
<1> QED
  BY <1>6 DEF F

(* An element that is appended to the last sequence with anything in it,   *)
(* or to one behind it, comes last.                                        *)
LEMMA FlattenGrows ==
  ASSUME NEW V, NEW seqs \in Seq(Seq(V)), NEW i \in 1..Len(seqs), NEW v \in V,
         \A k \in 1..Len(seqs) : i < k => seqs[k] = << >>,
         NEW t \in Seq(Seq(V)), Len(t) = Len(seqs),
         \A k \in 1..Len(seqs) : t[k] = IF k = i THEN Append(seqs[i], v) ELSE seqs[k]
  PROVE  FlattenSeq(t) = Append(FlattenSeq(seqs), v)
<1> DEFINE D == Len(seqs)
           new == Append(seqs[i], v)
<1>1. D \in Nat /\ D # 0 /\ D \in 1..D /\ \A k \in 1..D : seqs[k] \in Seq(V)
  BY LenProperties
<1>3. Len(t) = D
  OBVIOUS
<1>4. \A k \in 1..D : t[k] = IF k = i THEN new ELSE seqs[k]
  OBVIOUS
<1> HIDE DEF new
<1>5. PICK f :
        /\ FlattenSeq(seqs) = f[D]
        /\ \A k \in 1..D : f[k] = IF k = 1 THEN seqs[k] ELSE f[k - 1] \o seqs[k]
  BY <1>1, FlattenUnfolds
<1>6. PICK g :
        /\ FlattenSeq(t) = g[D]
        /\ \A k \in 1..D : g[k] = IF k = 1 THEN t[k] ELSE g[k - 1] \o t[k]
  <2>1. Len(t) = D /\ Len(t) # 0
    BY <1>1, <1>3
  <2>2. \E g : /\ FlattenSeq(t) = g[Len(t)]
              /\ \A k \in 1..Len(t) : g[k] = IF k = 1 THEN t[k] ELSE g[k - 1] \o t[k]
    <3> HIDE DEF D
    <3> QED
      BY <2>1, FlattenUnfolds
  <2> HIDE DEF D
  <2> QED
    BY <2>1, <2>2
<1> HIDE DEF D
<1> DEFINE Good(k) == f[k] \in Seq(V) /\ g[k] = IF k < i THEN f[k] ELSE Append(f[k], v)
           S == {k \in Nat : k + 1 <= D => Good(k + 1)}
<1>7. 0 \in S
  <2>1. f[1] = seqs[1] /\ g[1] = t[1] /\ 1 \in 1..D
    BY <1>1, <1>5, <1>6
  <2>2. i = 1 \/ 1 < i
    BY DEF D
  <2>3. Good(1)
    BY <1>1, <1>4, <2>1, <2>2 DEF new
  <2> HIDE DEF Good
  <2> QED
    BY <2>3
<1>8. ASSUME NEW n \in Nat, n \in S PROVE n + 1 \in S
  <2> HIDE DEF Good
  <2>1. SUFFICES ASSUME (n + 1) + 1 <= D PROVE Good((n + 1) + 1)
    OBVIOUS
  <2> DEFINE k == n + 1
  <2>2. Good(k) /\ k \in Nat /\ k + 1 \in 1..D /\ k + 1 # 1 /\ (k + 1) - 1 = k
    BY <1>1, <1>8, <2>1
  <2> HIDE DEF k
  <2> SUFFICES Good(k + 1)
    BY DEF k
  <2> USE DEF Good
  <2>3. f[k + 1] = f[k] \o seqs[k + 1] /\ g[k + 1] = g[k] \o t[k + 1]
    BY <1>5, <1>6, <2>2
  <2> DEFINE p == f[k]
             s == seqs[k + 1]
  <2>4. p \in Seq(V) /\ s \in Seq(V)
    BY <1>1, <2>2
  <2>5. p \o s \in Seq(V)
    <3> HIDE DEF p, s
    <3> QED
      BY <2>4
  <2>6. i \in Nat
    BY <1>1 DEF D
  <2>7. CASE k + 1 < i
    <3>1. k < i /\ k + 1 # i
      BY <2>2, <2>6, <2>7
    <3> QED
      BY <1>4, <2>2, <2>3, <2>5, <2>7, <3>1
  <2>8. CASE k + 1 = i
    <3>1. k < i /\ ~(k + 1 < i)
      BY <2>2, <2>6, <2>8
    <3>2. g[k + 1] = p \o Append(s, v)
      BY <1>4, <2>2, <2>3, <2>8, <3>1 DEF new
    <3>3. p \o Append(s, v) = Append(p \o s, v)
      <4> HIDE DEF p, s
      <4> DEFINE a == p \o Append(s, v)
                 b == Append(p \o s, v)
      <4>1. /\ a \in Seq(V) /\ Len(a) = Len(p) + (Len(s) + 1)
            /\ Len(p) \in Nat /\ Len(s) \in Nat
        BY <2>4
      <4>2. b \in Seq(V) /\ Len(b) = (Len(p) + Len(s)) + 1
        BY <2>4
      <4>3. \A j \in 1..Len(a) : a[j] = b[j]
        BY <2>4
      <4> HIDE DEF a, b
      <4>5. a \in Seq(V) /\ b \in Seq(V) /\ Len(a) = Len(b)
        BY <4>1, <4>2
      <4>4. a = b
        BY <4>3, <4>5, SeqEqual, Zenon
      <4> QED
        BY <4>4 DEF a, b
    <3> QED
      BY <2>3, <2>5, <3>1, <3>2, <3>3
  <2>9. CASE i < k + 1
    <3>1. ~(k < i) /\ k + 1 # i /\ ~(k + 1 < i)
      BY <2>2, <2>6, <2>9
    <3>2. t[k + 1] = << >> /\ s = << >>
      BY <1>4, <2>2, <2>9, <3>1 DEF D
    <3>3. g[k] = Append(p, v)
      BY <2>2, <3>1
    <3>4. p \o << >> = p /\ Append(p, v) \o << >> = Append(p, v)
      <4> HIDE DEF p, s
      <4>1. Append(p, v) \in Seq(V)
        BY <2>4
      <4> QED
        BY <2>4, <4>1, ConcatEmptySeq
    <3> QED
      BY <2>3, <2>5, <3>1, <3>2, <3>3, <3>4
  <2>10. k + 1 < i \/ k + 1 = i \/ i < k + 1
    BY <2>2, <2>6
  <2> QED
    BY <2>7, <2>8, <2>9, <2>10
<1>9. Good(D)
  <2> HIDE DEF Good
  <2>1. \A n \in Nat : n \in S => n + 1 \in S
    BY <1>8
  <2> HIDE DEF S
  <2>2. Nat \subseteq S
    BY <1>7, <2>1, Induction
  <2>3. D - 1 \in Nat /\ (D - 1) + 1 = D
    BY <1>1
  <2>4. D - 1 \in S /\ (D - 1) + 1 <= D
    BY <1>1, <2>2, <2>3
  <2> QED
    BY <2>3, <2>4 DEF S
<1>10. ~(D < i)
  BY <1>1 DEF D
<1> QED
  BY <1>5, <1>6, <1>9, <1>10

-----------------------------------------------------------------------------
(* The cursor and the lists of PartitionsFromNodes                         *)
Places(want) == [cur : 1..(Len(want) + 1), ids : [1..Len(want) -> Seq(Nat)]]

(* The first k of the live XCCs have been dealt out: to the nodes before   *)
(* the cursor as many as they want, to those behind it none; while the     *)
(* cursor is a node, none was left over.                                   *)
Dealing(want, live, st, k) ==
  /\ st \in Places(want)
  /\ \A i \in 1..Len(want) :
       /\ Len(st.ids[i]) <= want[i]
       /\ i < st.cur => Len(st.ids[i]) = want[i]
       /\ st.cur < i => st.ids[i] = << >>
  /\ st.cur <= Len(want) => FlattenSeq(st.ids) = SubSeq(live, 1, k)
  /\ \E j \in 0..k : FlattenSeq(st.ids) = SubSeq(live, 1, j)

LEMMA PlacesFacts ==
  ASSUME NEW want \in Seq(Nat), NEW st \in Places(want)
  PROVE  /\ Len(want) \in Nat /\ \A i \in 1..Len(want) : want[i] \in Nat
         /\ st.cur \in 1..(Len(want) + 1) /\ st = [cur |-> st.cur, ids |-> st.ids]
         /\ st.ids \in [1..Len(want) -> Seq(Nat)]
         /\ st.ids \in Seq(Seq(Nat)) /\ Len(st.ids) = Len(want)
         /\ \A i \in 1..Len(want) : st.ids[i] \in Seq(Nat) /\ Len(st.ids[i]) \in Nat
<1> DEFINE SN == Seq(Nat)
           N == Len(want)
           ids == st.ids
<1>1. N \in Nat /\ \A i \in 1..N : want[i] \in Nat
  BY LenProperties
<1>2. st.cur \in 1..(N + 1) /\ ids \in [1..N -> SN] /\ st = [cur |-> st.cur, ids |-> st.ids]
  BY DEF Places
<1>3. ids \in Seq(SN) /\ Len(ids) = N
  <2> HIDE DEF SN, N, ids
  <2> QED
    BY <1>1, <1>2
<1>4. ASSUME NEW i \in 1..N PROVE ids[i] \in Seq(Nat) /\ Len(ids[i]) \in Nat
  <2>1. ids[i] \in Seq(Nat)
    BY <1>2
  <2> QED
    BY <2>1, LenProperties
<1> QED
  BY <1>1, <1>2, <1>3, <1>4

(* Where PlaceXcc puts an XCC                                              *)
LEMMA PlaceIs ==
  ASSUME NEW want \in Seq(Nat), NEW st \in Places(want), NEW xcc \in Nat
  PROVE  LET new == PlaceXcc(want, st, xcc)
             full(i) == want[i] <= Len(st.ids[i])
         IN  /\ new \in Places(want)
             /\ \/ /\ new.cur = Len(want) + 1 /\ new.ids = st.ids
                   /\ \A i \in st.cur..Len(want) : full(i)
                \/ /\ new.cur \in st.cur..Len(want) /\ ~full(new.cur)
                   /\ \A i \in st.cur..Len(want) : i < new.cur => full(i)
                   /\ new.ids = [st.ids EXCEPT ![new.cur] = Append(@, xcc)]
<1> DEFINE N == Len(want)
           new == PlaceXcc(want, st, xcc)
           full(i) == want[i] <= Len(st.ids[i])
           room == {i \in st.cur..N : Len(st.ids[i]) < want[i]}
           p == Smallest(room)
<1>1. /\ N \in Nat /\ \A i \in 1..N : want[i] \in Nat
      /\ st.cur \in 1..(N + 1) /\ st = [cur |-> st.cur, ids |-> st.ids]
      /\ st.ids \in [1..N -> Seq(Nat)]
      /\ \A i \in 1..N : st.ids[i] \in Seq(Nat) /\ Len(st.ids[i]) \in Nat
  BY PlacesFacts
<1>2. \A i \in st.cur..N : i \in 1..N
  BY <1>1
<1>3. \A i \in st.cur..N : full(i) <=> i \notin room
  BY <1>1, <1>2
<1>4. room \in SUBSET Nat
  BY <1>1, <1>2
<1> DEFINE V == Seq(Nat)
<1>5. CASE room = {}
  <2>1. new = [st EXCEPT !.cur = N + 1]
    BY <1>5 DEF PlaceXcc
  <2> HIDE DEF new
  <2>2. new.cur = N + 1 /\ new.ids = st.ids /\ new = [cur |-> N + 1, ids |-> st.ids]
    BY <1>1, <2>1
  <2>3. N + 1 \in 1..(N + 1)
    BY <1>1
  <2>4. new \in Places(want)
    BY <1>1, <2>2, <2>3 DEF Places
  <2> QED
    BY <1>3, <1>5, <2>2, <2>4 DEF new
<1>6. CASE room # {}
  <2>1. p \in room /\ \A i \in room : p <= i
    <3> HIDE DEF room
    <3> QED
      BY <1>4, <1>6, SmallestIs
  <2>2. new = [cur |-> p, ids |-> [st.ids EXCEPT ![p] = Append(@, xcc)]]
    BY <1>6 DEF PlaceXcc
  <2>3. p \in st.cur..N /\ p \in 1..N /\ ~full(p)
    BY <1>2, <1>3, <2>1
  <2> HIDE DEF new, p
  <2>4. new.cur = p /\ new.ids = [st.ids EXCEPT ![p] = Append(@, xcc)]
    BY <2>2
  <2>5. \A i \in st.cur..N : i < p => full(i)
    <3> TAKE i \in st.cur..N
    <3> HAVE i < p
    <3>1. i \in Nat /\ p \in Nat
      BY <1>2, <2>3
    <3>2. ~(p <= i)
      BY <3>1
    <3>3. i \notin room
      BY <2>1, <3>2
    <3> QED
      BY <1>3, <3>3
  <2>6. [st.ids EXCEPT ![p] = Append(@, xcc)] \in [1..N -> V]
    <3> DEFINE s == st.ids[p]
               w == Append(s, xcc)
    <3>1. s \in Seq(Nat)
      BY <1>1, <2>3
    <3> HIDE DEF s
    <3>2. w \in V
      BY <3>1
    <3> HIDE DEF w, V
    <3>3. [st.ids EXCEPT ![p] = w] \in [1..N -> V]
      <4>1. st.ids \in [1..N -> V]
        BY <1>1 DEF V
      <4> QED
        BY <3>2, <4>1
    <3> QED
      BY <3>3 DEF w, s
  <2>7. p \in 1..(N + 1)
    BY <1>1, <2>3
  <2>8. new \in Places(want)
    BY <2>2, <2>6, <2>7 DEF Places
  <2> QED
    BY <2>3, <2>4, <2>5, <2>8 DEF new
<1> QED
  BY <1>5, <1>6

LEMMA SubSeqGrows ==
  ASSUME NEW V, NEW live \in Seq(V), NEW k \in Nat, k + 1 \in 1..Len(live)
  PROVE  Append(SubSeq(live, 1, k), live[k + 1]) = SubSeq(live, 1, k + 1)
<1> DEFINE s == SubSeq(live, 1, k)
           v == live[k + 1]
           t == SubSeq(live, 1, k + 1)
<1>1. Len(live) \in Nat /\ \A x \in 1..Len(live) : live[x] \in V
  BY LenProperties
<1>2. \A x \in 1..k + 1 : x \in 1..Len(live)
  BY <1>1
<1>3. s \in Seq(V) /\ Len(s) = k /\ \A x \in 1..k : s[x] = live[x]
  <2>1. \A x \in 1..k : live[x] \in V
    BY <1>1, <1>2
  <2>2. /\ s \in Seq(V) /\ Len(s) = IF 1 <= k THEN k - 1 + 1 ELSE 0
        /\ \A x \in 1..k - 1 + 1 : s[x] = live[1 + x - 1]
    BY <2>1, SubSeqProperties
  <2> HIDE DEF s
  <2> QED
    BY <2>2
<1>4. t \in Seq(V) /\ Len(t) = k + 1 /\ \A x \in 1..k + 1 : t[x] = live[x]
  <2>1. \A x \in 1..k + 1 : live[x] \in V
    BY <1>1, <1>2
  <2> DEFINE n == k + 1
  <2> HIDE DEF n
  <2>2. n \in Nat /\ 1 <= n
    BY DEF n
  <2>3. /\ t \in Seq(V) /\ Len(t) = IF 1 <= n THEN n - 1 + 1 ELSE 0
        /\ \A x \in 1..n - 1 + 1 : t[x] = live[1 + x - 1]
    BY <2>1, <2>2, SubSeqProperties DEF n
  <2> HIDE DEF t
  <2>4. t \in Seq(V) /\ Len(t) = n /\ \A x \in 1..n : t[x] = live[x]
    BY <2>2, <2>3
  <2> QED
    BY <2>4 DEF n
<1>5. v \in V
  BY <1>1
<1> DEFINE a == Append(s, v)
<1> HIDE DEF s, t, v
<1>6. a \in Seq(V) /\ Len(a) = k + 1 /\ (\A x \in 1..k : a[x] = s[x]) /\ a[k + 1] = v
  BY <1>3, <1>5
<1>7. \A x \in 1..k + 1 : x \in 1..k \/ x = k + 1
  OBVIOUS
<1>8. \A x \in 1..k + 1 : a[x] = t[x]
  BY <1>3, <1>4, <1>6, <1>7 DEF v
<1> HIDE DEF a
<1>9. a = t
  BY <1>4, <1>6, <1>8, SeqEqual
<1> QED
  BY <1>9 DEF a, s, t, v

LEMMA DealingStep ==
  ASSUME NEW want \in Seq(Nat), NEW live \in Seq(Nat), NEW k \in 0..(Len(live) - 1), NEW st,
         Dealing(want, live, st, k)
  PROVE  Dealing(want, live, PlaceXcc(want, st, live[k + 1]), k + 1)
<1> DEFINE N == Len(want)
           xcc == live[k + 1]
           new == PlaceXcc(want, st, xcc)
           full(i) == want[i] <= Len(st.ids[i])
<1>1. st \in Places(want)
  BY DEF Dealing
<1>2. /\ N \in Nat /\ st.cur \in 1..(N + 1)
      /\ \A i \in 1..N : want[i] \in Nat /\ Len(st.ids[i]) \in Nat
  BY <1>1, PlacesFacts
<1>10. /\ st.ids \in [1..N -> Seq(Nat)] /\ \A i \in 1..N : st.ids[i] \in Seq(Nat)
       /\ st.ids \in Seq(Seq(Nat)) /\ Len(st.ids) = N
  BY <1>1, PlacesFacts
<1>3. /\ \A i \in 1..N :
           /\ Len(st.ids[i]) <= want[i]
           /\ i < st.cur => Len(st.ids[i]) = want[i]
           /\ st.cur < i => st.ids[i] = << >>
      /\ st.cur <= N => FlattenSeq(st.ids) = SubSeq(live, 1, k)
      /\ \E j \in 0..k : FlattenSeq(st.ids) = SubSeq(live, 1, j)
  BY DEF Dealing
<1>4. Len(live) \in Nat /\ k \in Nat /\ k + 1 \in 1..Len(live) /\ xcc \in Nat
  <2>1. Len(live) \in Nat
    BY LenProperties
  <2>2. k + 1 \in 1..Len(live)
    BY <2>1
  <2> QED
    BY <2>1, <2>2, LenProperties
<1> HIDE DEF xcc
<1>5. /\ new \in Places(want)
      /\ \/ /\ new.cur = N + 1 /\ new.ids = st.ids
            /\ \A i \in st.cur..N : full(i)
         \/ /\ new.cur \in st.cur..N /\ ~full(new.cur)
            /\ \A i \in st.cur..N : i < new.cur => full(i)
            /\ new.ids = [st.ids EXCEPT ![new.cur] = Append(@, xcc)]
  BY <1>1, <1>4, PlaceIs
<1> HIDE DEF new, N
<1>6. ASSUME NEW i \in 1..N, i < st.cur \/ full(i) PROVE Len(st.ids[i]) = want[i]
  <2> DEFINE a == Len(st.ids[i])
             w == want[i]
  <2>1. a \in Nat /\ w \in Nat /\ a <= w /\ (i < st.cur => a = w) /\ (i < st.cur \/ w <= a)
    BY <1>2, <1>3, <1>6
  <2> HIDE DEF a, w
  <2>2. a = w
    BY <2>1
  <2> QED
    BY <2>2 DEF a, w
<1>7. \A i \in 1..N : i < st.cur \/ i \in st.cur..N
  BY <1>2
<1>8. CASE new.cur = N + 1 /\ new.ids = st.ids /\ \A i \in st.cur..N : full(i)
  <2>1. \A i \in 1..N : Len(st.ids[i]) = want[i] /\ ~(new.cur < i)
    <3> TAKE i \in 1..N
    <3>1. Len(st.ids[i]) = want[i]
      BY <1>6, <1>7, <1>8
    <3>2. ~(N + 1 < i)
      BY <1>2
    <3> QED
      BY <1>8, <3>1, <3>2
  <2>2. \A i \in 1..N : Len(new.ids[i]) <= want[i]
    BY <1>3, <1>8
  <2>3. ~(new.cur <= N)
    BY <1>2, <1>8
  <2>4. \E j \in 0..k + 1 : FlattenSeq(new.ids) = SubSeq(live, 1, j)
    <3>1. PICK j \in 0..k : FlattenSeq(st.ids) = SubSeq(live, 1, j)
      BY <1>3
    <3>2. j \in 0..k + 1
      BY <1>4
    <3> QED
      BY <1>8, <3>1, <3>2
  <2> QED
    BY <1>5, <1>8, <2>1, <2>2, <2>3, <2>4 DEF Dealing, new, N, xcc
<1>9. CASE /\ new.cur \in st.cur..N /\ ~full(new.cur)
           /\ \A i \in st.cur..N : i < new.cur => full(i)
           /\ new.ids = [st.ids EXCEPT ![new.cur] = Append(@, xcc)]
  <2> DEFINE p == new.cur
             ids == new.ids
  <2>1. p \in 1..N /\ st.cur <= p /\ st.cur <= N /\ p \in Nat
    <3>1. p \in st.cur..N
      BY <1>9
    <3> HIDE DEF p
    <3> QED
      BY <1>2, <3>1
  <2>2. \A i \in 1..N : ids[i] = IF i = p THEN Append(st.ids[p], xcc) ELSE st.ids[i]
    BY <1>9, <1>10, <2>1
  <2>3. Len(ids[p]) <= want[p]
    <3> DEFINE s == st.ids[p]
    <3>1. s \in Seq(Nat) /\ ~(want[p] <= Len(s)) /\ want[p] \in Nat /\ Len(s) \in Nat
      BY <1>2, <1>9, <1>10, <2>1
    <3>2. ids[p] = Append(s, xcc)
      BY <2>1, <2>2
    <3> HIDE DEF s
    <3>3. Len(Append(s, xcc)) = Len(s) + 1
      BY <1>4, <3>1, AppendProperties
    <3> QED
      BY <3>1, <3>2, <3>3
  <2>8. ids \in Seq(Seq(Nat)) /\ Len(ids) = N
    <3>1. ids \in Seq(Seq(Nat)) /\ Len(ids) = Len(want)
      BY <1>5, PlacesFacts
    <3> QED
      BY <3>1 DEF N
  <2> HIDE DEF p, ids
  <2>4. ASSUME NEW i \in 1..N
        PROVE  /\ Len(ids[i]) <= want[i]
               /\ i < p => Len(ids[i]) = want[i]
               /\ p < i => ids[i] = << >>
    <3>1. CASE i = p
      BY <2>1, <2>3, <3>1
    <3>2. CASE i # p
      <4>1. ids[i] = st.ids[i]
        BY <2>2, <3>2
      <4>2. i < p => i < st.cur \/ full(i)
        BY <1>7, <1>9 DEF p
      <4>3. p < i => st.cur < i
        BY <1>2, <2>1
      <4> QED
        BY <1>3, <1>6, <4>1, <4>2, <4>3
    <3> QED
      BY <3>1, <3>2
  <2>5. FlattenSeq(ids) = SubSeq(live, 1, k + 1)
    <3>1. FlattenSeq(st.ids) = SubSeq(live, 1, k)
      BY <1>3, <2>1
    <3>2. \A j \in 1..Len(st.ids) : p < j => st.ids[j] = << >>
      <4> TAKE j \in 1..Len(st.ids)
      <4> HAVE p < j
      <4>1. j \in 1..N
        BY <1>10
      <4>2. st.cur < j
        BY <1>2, <2>1, <4>1
      <4> QED
        BY <1>3, <4>1, <4>2
    <3>3. FlattenSeq(ids) = Append(FlattenSeq(st.ids), xcc)
      <4>2. st.ids \in Seq(Seq(Nat))
        BY <1>10
      <4> DEFINE old == st.ids
      <4>3. /\ old \in Seq(Seq(Nat)) /\ p \in 1..Len(old) /\ ids \in Seq(Seq(Nat))
            /\ Len(ids) = Len(old)
        BY <1>10, <2>1, <2>8, <4>2
      <4>4. \A j \in 1..Len(old) : p < j => old[j] = << >>
        BY <3>2
      <4>5. \A j \in 1..Len(old) : ids[j] = IF j = p THEN Append(old[p], xcc) ELSE old[j]
        BY <1>10, <2>2
      <4> HIDE DEF old
      <4>6. FlattenSeq(ids) = Append(FlattenSeq(old), xcc)
        BY <1>4, <4>3, <4>4, <4>5, FlattenGrows
      <4> QED
        BY <4>6 DEF old
    <3>4. Append(SubSeq(live, 1, k), xcc) = SubSeq(live, 1, k + 1)
      BY <1>4, SubSeqGrows DEF xcc
    <3> QED
      BY <3>1, <3>3, <3>4
  <2>6. k + 1 \in 0..k + 1
    BY <1>4
  <2> QED
    BY <1>5, <2>4, <2>5, <2>6 DEF Dealing, new, N, xcc, p, ids
<1> QED
  BY <1>5, <1>8, <1>9


(* All XCCs dealt out                                                      *)
LEMMA Assigned ==
  ASSUME NEW want \in Seq(Nat), NEW table, LiveXccs(table) \in Seq(Nat)
  PROVE  \E st : /\ Dealing(want, LiveXccs(table), st, Len(LiveXccs(table)))
                 /\ AssignXccs(want, table) = st.ids
<1> DEFINE live == LiveXccs(table)
           L == Len(live)
           V == Places(want)
           first == [cur |-> 1, ids |-> [i \in DOMAIN want |-> << >>]]
           step == [x \in (0..L - 1) \X V |-> PlaceXcc(want, x[2], live[x[1] + 1])]
           Is(f) == f = [k \in 0..L |-> IF k = 0 THEN first ELSE PlaceXcc(want, f[k - 1], live[k])]
           placed == CHOOSE f : Is(f)
<1>1. AssignXccs(want, table) = placed[L].ids
  BY DEF AssignXccs
<1>2. /\ L \in Nat /\ live \in Seq(Nat) /\ \A k \in 1..L : live[k] \in Nat
      /\ Len(want) \in Nat /\ DOMAIN want = 1..Len(want)
  BY LenProperties
<1>3. first \in V /\ first.cur = 1 /\ first.ids = [i \in 1..Len(want) |-> << >>]
  <2>1. << >> \in Seq(Nat) /\ 1 \in 1..(Len(want) + 1)
    BY <1>2
  <2> QED
    BY <1>2, <2>1 DEF Places
<1> HIDE DEF live, L, first
<1>4. step \in [(0..L - 1) \X V -> V]
  <2>1. ASSUME NEW x \in (0..L - 1) \X V PROVE PlaceXcc(want, x[2], live[x[1] + 1]) \in V
    <3>1. x[2] \in Places(want) /\ x[1] + 1 \in 1..L
      BY <1>2
    <3>2. live[x[1] + 1] \in Nat
      BY <1>2, <3>1
    <3> QED
      BY <3>1, <3>2, PlaceIs
  <2> HIDE DEF V
  <2> QED
    BY <2>1
<1> HIDE DEF V
<1>5. PICK g : g \in [0..L -> V] /\ g[0] = first /\ \A n \in 0..L - 1 : g[n + 1] = step[<<n, g[n]>>]
  <2> HIDE DEF step
  <2>1. \E g : Iterates(g, L, V, first, step)
    BY <1>2, <1>3, <1>4, Loop
  <2> QED
    BY <2>1 DEF Iterates
<1>6. \A n \in 0..L - 1 : g[n + 1] = PlaceXcc(want, g[n], live[n + 1])
  <2> TAKE n \in 0..L - 1
  <2>1. <<n, g[n]>> \in (0..L - 1) \X V
    <3>1. n \in 0..L
      BY <1>2
    <3> QED
      BY <1>5, <3>1
  <2> QED
    BY <1>5, <2>1
<1>7. Is(g)
  <2>1. ASSUME NEW k \in 0..L
        PROVE  g[k] = IF k = 0 THEN first ELSE PlaceXcc(want, g[k - 1], live[k])
    <3>1. CASE k = 0
      BY <1>5, <3>1
    <3>2. CASE k # 0
      <4> DEFINE n == k - 1
      <4>1. n \in 0..L - 1 /\ n + 1 = k
        BY <1>2, <3>2
      <4>2. g[n + 1] = PlaceXcc(want, g[n], live[n + 1])
        BY <1>6, <4>1
      <4> HIDE DEF n
      <4>3. g[k] = PlaceXcc(want, g[n], live[k])
        BY <4>1, <4>2
      <4> QED
        BY <3>2, <4>3 DEF n
    <3> QED
      BY <3>1, <3>2
  <2>2. g = [k \in 0..L |-> g[k]]
    BY <1>5
  <2>3. g = [k \in 0..L |-> IF k = 0 THEN first ELSE PlaceXcc(want, g[k - 1], live[k])]
    BY <2>1, <2>2
  <2> QED
    BY <2>3
<1> HIDE DEF step
<1>8. Is(placed)
  <2> HIDE DEF Is
  <2> QED
    BY <1>7
<1> HIDE DEF placed
<1>9. placed[0] = first /\ \A k \in 0..L - 1 : placed[k + 1] = PlaceXcc(want, placed[k], live[k + 1])
  <2>1. \A k \in 0..L : placed[k] = IF k = 0 THEN first ELSE PlaceXcc(want, placed[k - 1], live[k])
    <3> DEFINE F(k) == IF k = 0 THEN first ELSE PlaceXcc(want, placed[k - 1], live[k])
    <3>1. placed = [k \in 0..L |-> F(k)]
      BY <1>8
    <3> HIDE DEF F
    <3>2. \A k \in 0..L : placed[k] = F(k)
      BY <3>1
    <3> QED
      BY <3>2 DEF F
  <2>2. 0 \in 0..L
    BY <1>2
  <2>3. ASSUME NEW k \in 0..L - 1 PROVE placed[k + 1] = PlaceXcc(want, placed[k], live[k + 1])
    <3>1. k + 1 \in 0..L /\ k + 1 # 0 /\ (k + 1) - 1 = k
      BY <1>2
    <3> QED
      BY <2>1, <3>1
  <2> QED
    BY <2>1, <2>2, <2>3
<1> HIDE DEF Is
<1> DEFINE S == {k \in Nat : k <= L => Dealing(want, live, placed[k], k)}
<1>10. 0 \in S
  <2>1. Dealing(want, live, first, 0)
    <3> DEFINE ids == first.ids
    <3>1. first \in Places(want) /\ first.cur = 1
      BY <1>3 DEF V
    <3>2. \A i \in 1..Len(want) : ids[i] = << >> /\ Len(ids[i]) = 0 /\ ~(i < 1) /\ 0 <= want[i]
      <4>1. \A i \in 1..Len(want) : want[i] \in Nat
        BY LenProperties
      <4> QED
        BY <1>2, <1>3, <4>1
    <3>3. FlattenSeq(ids) = << >>
      <4>1. ids \in Seq(Seq(Nat)) /\ Len(ids) = Len(want)
        BY <3>1, PlacesFacts
      <4>2. \A i \in 1..Len(ids) : ids[i] = << >>
        BY <3>2, <4>1
      <4> HIDE DEF ids
      <4> QED
        BY <4>1, <4>2, FlattenNothing
    <3>4. SubSeq(live, 1, 0) = << >>
      BY <1>2
    <3>5. 0 \in 0..0
      OBVIOUS
    <3> QED
      BY <3>1, <3>2, <3>3, <3>4, <3>5 DEF Dealing
  <2> QED
    BY <1>9, <2>1
<1>11. \A k \in Nat : k \in S => k + 1 \in S
  <2> TAKE k \in Nat
  <2> HAVE k \in S
  <2> SUFFICES ASSUME k + 1 <= L PROVE Dealing(want, live, placed[k + 1], k + 1)
    OBVIOUS
  <2>1. k \in 0..L - 1 /\ k <= L
    BY <1>2
  <2>2. Dealing(want, live, placed[k], k)
    BY <2>1
  <2>3. placed[k + 1] = PlaceXcc(want, placed[k], live[k + 1])
    BY <1>9, <2>1
  <2>4. live \in Seq(Nat) /\ k \in 0..Len(live) - 1
    BY <1>2, <2>1 DEF L
  <2> QED
    BY <2>2, <2>3, <2>4, DealingStep
<1>12. Dealing(want, live, placed[L], L)
  <2> HIDE DEF S
  <2>1. Nat \subseteq S
    BY <1>10, <1>11, Induction
  <2>2. L \in S /\ L <= L
    BY <1>2, <2>1
  <2> QED
    BY <2>2 DEF S
<1> QED
  BY <1>1, <1>12 DEF live, L

-----------------------------------------------------------------------------
LEMMA DiesAre ==
  ASSUME NEW table, TableOK(table)
  PROVE  \E D \in Nat :
           /\ DOMAIN Dies(table) = 1..D
           /\ \A n \in 1..D : Dies(table)[n] \in ToSet(table) /\ Dies(table)[n].id \in Nat
           /\ \A n, k \in 1..D : n < k => Dies(table)[n].id < Dies(table)[k].id
           /\ \A die \in ToSet(table) : \E n \in 1..D : Dies(table)[n] = die
<1> DEFINE T == ToSet(table)
           I == {die.id : die \in T}
           o == InOrder(I)
           f == [die \in T |-> die.id]
           D == Cardinality(I)
<1>1. IsFiniteSet(T) /\ \A die \in T : die.id \in Nat
  <2> DEFINE W == T
  <2> HIDE DEF W
  <2>1. table \in Seq(W)
    BY DEF TableOK, W
  <2>2. IsFiniteSet(ToSet(table))
    BY <2>1, FiniteRange
  <2> QED
    BY <2>2 DEF TableOK
<1>2. \A d, e \in T : d.id = e.id => d = e
  BY DEF TableOK, ToSet
<1>3. Dies(table) = [n \in DOMAIN o |-> CHOOSE die \in T : die.id = o[n]]
  BY DEF Dies
<1> HIDE DEF T
<1>4. IsFiniteSet(I) /\ I \in SUBSET Nat
  <2>1. f \in Surjection(T, I)
    BY DEF Surjection
  <2> HIDE DEF f, I
  <2>2. IsFiniteSet(I)
    BY <1>1, <2>1, FS_Surjection
  <2> QED
    BY <1>1, <2>2 DEF I
<1> HIDE DEF I
<1>5. /\ D \in Nat /\ DOMAIN o = 1..D
      /\ \A n \in 1..D : o[n] \in I
      /\ \A n, k \in 1..D : n < k => o[n] < o[k]
      /\ \A x \in I : \E n \in 1..D : o[n] = x
  BY <1>4, InOrderIs, FS_CardinalityType
<1> HIDE DEF o, D
<1>6. ASSUME NEW n \in 1..D PROVE Dies(table)[n] \in T /\ Dies(table)[n].id = o[n]
  <2>1. \E die \in T : die.id = o[n]
    BY <1>5 DEF I
  <2>2. Dies(table)[n] = CHOOSE die \in T : die.id = o[n]
    BY <1>3, <1>5
  <2> QED
    BY <2>1, <2>2
<1>7. ASSUME NEW die \in T PROVE \E n \in 1..D : Dies(table)[n] = die
  <2>1. PICK n \in 1..D : o[n] = die.id
    BY <1>5 DEF I
  <2> QED
    BY <1>2, <1>6, <2>1
<1>8. DOMAIN Dies(table) = 1..D
  BY <1>3, <1>5
<1> QED
  BY <1>1, <1>5, <1>6, <1>7, <1>8 DEF T

LEMMA LiveAre ==
  ASSUME NEW block \in Seq(Instance)
  PROVE  LET o == LiveInstances(block)
         IN  /\ o \in Seq(0..255)
             /\ \A n, k \in 1..Len(o) : n < k => o[n] < o[k]
             /\ \A n \in 1..Len(o) : \E g \in ToSet(block) : ~g.harvest /\ g.num = o[n]
             /\ \A g \in ToSet(block) : ~g.harvest => \E n \in 1..Len(o) : o[n] = g.num
<1> DEFINE G == {x \in ToSet(block) : ~x.harvest}
           S == {g.num : g \in G}
           o == InOrder(S)
           f == [g \in G |-> g.num]
<1>1. IsFiniteSet(G) /\ \A g \in G : g \in Instance
  <2>1. IsFiniteSet(ToSet(block)) /\ ToSet(block) \subseteq Instance
    BY FiniteRange
  <2>2. G \in SUBSET ToSet(block)
    OBVIOUS
  <2> HIDE DEF G
  <2> QED
    BY <2>1, <2>2, FS_Subset
<1>2. LiveInstances(block) = o
  BY DEF LiveInstances
<1>3. \A g \in ToSet(block) : ~g.harvest <=> g \in G
  OBVIOUS
<1>4. \A g \in G : g \in ToSet(block)
  OBVIOUS
<1> HIDE DEF G
<1>5. IsFiniteSet(S) /\ S \in SUBSET (0..255)
  <2>1. f \in Surjection(G, S)
    BY DEF Surjection
  <2>2. S \in SUBSET (0..255)
    BY <1>1 DEF Instance
  <2> HIDE DEF f, S
  <2> QED
    BY <1>1, <2>1, <2>2, FS_Surjection
<1>6. \A x : x \in S <=> \E g \in G : g.num = x
  OBVIOUS
<1> HIDE DEF S
<1>7. S \in SUBSET Nat
  BY <1>5
<1>8. /\ o \in Seq(S) /\ DOMAIN o = 1..Len(o)
      /\ \A n \in 1..Len(o) : o[n] \in S
      /\ \A n, k \in 1..Len(o) : n < k => o[n] < o[k]
      /\ \A x \in S : \E n \in 1..Len(o) : o[n] = x
  <2>1. /\ o \in Seq(S) /\ Len(o) = Cardinality(S) /\ DOMAIN o = 1..Cardinality(S)
        /\ \A n \in 1..Cardinality(S) : o[n] \in S
        /\ \A n, k \in 1..Cardinality(S) : n < k => o[n] < o[k]
        /\ \A x \in S : \E n \in 1..Cardinality(S) : o[n] = x
    BY <1>5, <1>7, InOrderIs
  <2> QED
    BY <2>1
<1> HIDE DEF o
<1>9. o \in Seq(0..255)
  <2> DEFINE W == 0..255
  <2>1. S \subseteq W
    BY <1>5
  <2> HIDE DEF W
  <2>2. o \in Seq(W)
    BY <1>8, <2>1
  <2> QED
    BY <2>2 DEF W
<1>10. \A n \in 1..Len(o) : \E g \in ToSet(block) : ~g.harvest /\ g.num = o[n]
  BY <1>3, <1>4, <1>6, <1>8
<1>11. \A g \in ToSet(block) : ~g.harvest => \E n \in 1..Len(o) : o[n] = g.num
  BY <1>3, <1>6, <1>8
<1> QED
  BY <1>2, <1>8, <1>9, <1>10, <1>11

(* Die after die and number after number is the order of the numbers with  *)
(* the die in their higher bits.                                           *)
LEMMA LiveOrdered ==
  ASSUME NEW table, TableOK(table), ~Lacks(table, "GC")
  PROVE  LiveXccs(table) \in Seq(Nat) /\ LiveXccs(table) = ByDieAndNumber(table)
<1> DEFINE B == 0..255
           T == ToSet(table)
           dies == Dies(table)
           seqs == [n \in DOMAIN dies |-> LiveInstances(dies[n].blocks["GC"])]
           F == FlattenSeq(seqs)
           live(die) == {x \in ToSet(die.blocks["GC"]) : ~x.harvest}
           codes(die) == {256 * die.id + g.num : g \in live(die)}
           C == UNION {codes(die) : die \in T}
<1>1. LiveXccs(table) = F
  BY DEF LiveXccs
<1>2. ByDieAndNumber(table) = [i \in DOMAIN InOrder(C) |-> InOrder(C)[i] % 256]
  BY DEF ByDieAndNumber
<1>3. PICK D \in Nat :
        /\ DOMAIN dies = 1..D
        /\ \A n \in 1..D : dies[n] \in T /\ dies[n].id \in Nat
        /\ \A n, k \in 1..D : n < k => dies[n].id < dies[k].id
        /\ \A die \in T : \E n \in 1..D : dies[n] = die
  BY DiesAre
<1>4. \A die \in T : die.blocks["GC"] \in Seq(Instance)
  BY DEF TableOK, Lacks
<1> HIDE DEF T, dies
<1>5. ASSUME NEW n \in 1..D
      PROVE  /\ seqs[n] \in Seq(B) /\ Len(seqs[n]) \in Nat
             /\ \A j \in 1..Len(seqs[n]) : seqs[n][j] \in B
             /\ \A j, k \in 1..Len(seqs[n]) : j < k => seqs[n][j] < seqs[n][k]
             /\ \A j \in 1..Len(seqs[n]) : \E g \in live(dies[n]) : g.num = seqs[n][j]
             /\ \A g \in live(dies[n]) : \E j \in 1..Len(seqs[n]) : seqs[n][j] = g.num
  <2> DEFINE block == dies[n].blocks["GC"]
             o == LiveInstances(block)
  <2>1. block \in Seq(Instance)
    BY <1>3, <1>4
  <2>2. seqs[n] = o
    BY <1>3
  <2>3. \A g : g \in live(dies[n]) <=> g \in ToSet(block) /\ ~g.harvest
    OBVIOUS
  <2> HIDE DEF block, seqs, live
  <2>4. /\ o \in Seq(B)
        /\ \A j, k \in 1..Len(o) : j < k => o[j] < o[k]
        /\ \A j \in 1..Len(o) : \E g \in ToSet(block) : ~g.harvest /\ g.num = o[j]
        /\ \A g \in ToSet(block) : ~g.harvest => \E j \in 1..Len(o) : o[j] = g.num
    BY <2>1, LiveAre
  <2> HIDE DEF o, B
  <2>5. Len(o) \in Nat /\ \A j \in 1..Len(o) : o[j] \in B
    BY <2>4, LenProperties
  <2> QED
    BY <2>2, <2>3, <2>4, <2>5
<1>6. seqs \in Seq(Seq(B)) /\ Len(seqs) = D
  <2> DEFINE SB == Seq(B)
  <2>1. seqs = [n \in 1..D |-> seqs[n]] /\ \A n \in 1..D : seqs[n] \in SB
    BY <1>3, <1>5
  <2> HIDE DEF seqs, SB
  <2>2. seqs \in [1..D -> SB]
    BY <2>1
  <2>3. seqs \in Seq(SB) /\ Len(seqs) = D
    BY <2>2
  <2> QED
    BY <2>3 DEF SB
<1> HIDE DEF seqs, B, live
<1>7. PICK start \in [1..D -> Nat] : F \in Seq(B) /\ Joined(F, seqs, start, D)
  BY <1>6, FlattenJoins
<1> HIDE DEF F
<1> DEFINE N == Len(F)
           Is(x, n, j) == n \in 1..D /\ j \in 1..Len(seqs[n]) /\ x = start[n] + j
           home(x) == CHOOSE n \in 1..D : \E j \in 1..Len(seqs[n]) : x = start[n] + j
           code == [x \in 1..N |-> 256 * dies[home(x)].id + F[x]]
<1>8. N \in Nat /\ \A x \in 1..N : F[x] \in B
  BY <1>7, LenProperties
<1>9. /\ \A n \in 1..D : \A j \in 1..Len(seqs[n]) :
           start[n] + j \in 1..N /\ F[start[n] + j] = seqs[n][j]
      /\ \A x \in 1..N : \E n \in 1..D : \E j \in 1..Len(seqs[n]) : x = start[n] + j
      /\ \A n, k \in 1..D : n < k => start[n] + Len(seqs[n]) <= start[k]
  BY <1>7 DEF Joined
<1>10. ASSUME NEW n \in 1..D, NEW j \in 1..Len(seqs[n]), NEW k \in 1..D,
              NEW i \in 1..Len(seqs[k]), n < k
       PROVE  start[n] + j < start[k] + i
  <2> DEFINE a == start[n]
             b == start[k]
             l == Len(seqs[n])
             r == Len(seqs[k])
  <2>1. /\ a \in Nat /\ b \in Nat /\ l \in Nat /\ r \in Nat
        /\ a + l <= b /\ j \in 1..l /\ i \in 1..r
    <3>1. l \in Nat /\ r \in Nat
      BY <1>5
    <3>2. a + l <= b
      BY <1>9, <1>10
    <3>3. a \in Nat /\ b \in Nat
      OBVIOUS
    <3>4. j \in 1..l /\ i \in 1..r
      OBVIOUS
    <3> QED
      BY <3>1, <3>2, <3>3, <3>4
  <2> HIDE DEF a, b, l, r
  <2>2. a + j < b + i
    BY <2>1
  <2> QED
    BY <2>2 DEF a, b
<1>11. ASSUME NEW n \in 1..D, NEW j \in 1..Len(seqs[n]) PROVE home(start[n] + j) = n
  <2> DEFINE x == start[n] + j
  <2>1. \A k \in 1..D : (\E i \in 1..Len(seqs[k]) : x = start[k] + i) => k = n
    <3> TAKE k \in 1..D
    <3> HAVE \E i \in 1..Len(seqs[k]) : x = start[k] + i
    <3>1. PICK i \in 1..Len(seqs[k]) : x = start[k] + i
      OBVIOUS
    <3>2. start[n] + j \in Nat /\ start[k] + i \in Nat
      <4>1. start[n] \in Nat /\ start[k] \in Nat /\ j \in Nat /\ i \in Nat
        BY <1>5
      <4> QED
        BY <4>1
    <3>3. ~(n < k) /\ ~(k < n)
      BY <1>10, <3>1, <3>2
    <3> QED
      BY <3>3
  <2>2. \E i \in 1..Len(seqs[n]) : x = start[n] + i
    OBVIOUS
  <2> HIDE DEF x
  <2>3. home(x) = n
    BY <2>1, <2>2
  <2> QED
    BY <2>3 DEF x
<1> HIDE DEF home, N
<1>12. ASSUME NEW x \in 1..N
       PROVE  /\ home(x) \in 1..D
              /\ \E j \in 1..Len(seqs[home(x)]) : x = start[home(x)] + j /\ F[x] = seqs[home(x)][j]
  <2>1. PICK n \in 1..D : \E j \in 1..Len(seqs[n]) : x = start[n] + j
    BY <1>9
  <2>2. PICK j \in 1..Len(seqs[n]) : x = start[n] + j
    BY <2>1
  <2>3. home(x) = n /\ F[x] = seqs[n][j]
    BY <1>9, <1>11, <2>2
  <2> QED
    BY <2>2, <2>3
<1>13. ASSUME NEW x \in 1..N
       PROVE  /\ dies[home(x)].id \in Nat /\ F[x] \in 0..255
              /\ code[x] = 256 * dies[home(x)].id + F[x] /\ code[x] \in Nat /\ code[x] % 256 = F[x]
  <2> DEFINE a == dies[home(x)].id
             b == F[x]
  <2>1. a \in Nat /\ b \in 0..255 /\ code[x] = 256 * a + b
    BY <1>3, <1>8, <1>12 DEF B
  <2> HIDE DEF a, b, code
  <2>2. 256 * a + b \in Nat /\ (256 * a + b) % 256 = b
    BY <2>1
  <2> QED
    BY <2>1, <2>2 DEF a, b
<1>14. ASSUME NEW x \in 1..N, NEW y \in 1..N, x < y PROVE code[x] < code[y]
  <2>1. PICK j \in 1..Len(seqs[home(x)]) : x = start[home(x)] + j /\ F[x] = seqs[home(x)][j]
    BY <1>12
  <2>2. PICK i \in 1..Len(seqs[home(y)]) : y = start[home(y)] + i /\ F[y] = seqs[home(y)][i]
    BY <1>12
  <2> DEFINE h == home(x)
             k == home(y)
             a == dies[h].id
             b == dies[k].id
             u == F[x]
             v == F[y]
  <2>3. /\ a \in Nat /\ b \in Nat /\ u \in 0..255 /\ v \in 0..255
        /\ code[x] = 256 * a + u /\ code[y] = 256 * b + v
    BY <1>13
  <2>4. h \in 1..D /\ k \in 1..D
    BY <1>12
  <2>5. ~(k < h)
    <3> SUFFICES ASSUME k < h PROVE FALSE
      OBVIOUS
    <3>1. y < x
      BY <1>10, <2>1, <2>2, <2>4
    <3>2. x \in Int /\ y \in Int
      OBVIOUS
    <3> QED
      BY <1>14, <3>1, <3>2
  <2>6. CASE h = k
    <3>1. j < i
      <4> DEFINE c == start[h]
      <4>1. x = c + j /\ y = c + i
        BY <2>1, <2>2, <2>6
      <4>2. c \in Nat /\ x < y
        BY <1>14, <2>4
      <4>3. j \in Nat /\ i \in Nat
        BY <1>5, <2>4
      <4> HIDE DEF c
      <4> QED
        BY <4>1, <4>2, <4>3
    <3>2. u < v
      <4>1. u = seqs[h][j] /\ v = seqs[h][i] /\ j \in 1..Len(seqs[h]) /\ i \in 1..Len(seqs[h])
        BY <2>1, <2>2, <2>6
      <4>2. seqs[h][j] < seqs[h][i]
        <5> HIDE DEF h
        <5> QED
          BY <1>5, <2>4, <3>1, <4>1
      <4> QED
        BY <4>1, <4>2
    <3> HIDE DEF h, k, u, v, code
    <3>3. a = b
      BY <2>6
    <3> HIDE DEF a, b
    <3> QED
      BY <2>3, <3>2, <3>3
  <2>7. CASE h < k
    <3>1. a < b
      BY <1>3, <2>4, <2>7
    <3> HIDE DEF a, b, u, v, code
    <3> QED
      BY <2>3, <3>1
  <2>8. h = k \/ h < k
    <3> HIDE DEF h, k
    <3> QED
      BY <2>4, <2>5
  <2> HIDE DEF h, k, code
  <2> QED
    BY <2>6, <2>7, <2>8
<1>15. \A x \in 1..N : \E die \in T : code[x] \in codes(die)
  <2> TAKE x \in 1..N
  <2>0. PICK j \in 1..Len(seqs[home(x)]) : F[x] = seqs[home(x)][j]
    BY <1>12
  <2>1. PICK g \in live(dies[home(x)]) : g.num = F[x]
    <3> DEFINE h == home(x)
    <3>1. h \in 1..D /\ j \in 1..Len(seqs[h]) /\ F[x] = seqs[h][j]
      BY <1>12, <2>0
    <3> HIDE DEF h
    <3>2. \E g \in live(dies[h]) : g.num = seqs[h][j]
      BY <1>5, <3>1
    <3> QED
      BY <3>1, <3>2 DEF h
  <2> DEFINE die == dies[home(x)]
  <2>2. die \in T /\ code[x] = 256 * die.id + g.num
    BY <1>3, <1>12, <1>13, <2>1
  <2> HIDE DEF code, die
  <2>3. code[x] \in codes(die)
    BY <2>1, <2>2 DEF die
  <2> QED
    BY <2>2, <2>3
<1>16. \A die \in T : \A c \in codes(die) : \E x \in 1..N : code[x] = c
  <2> TAKE die \in T
  <2> TAKE c \in codes(die)
  <2>1. PICK g \in live(die) : c = 256 * die.id + g.num
    OBVIOUS
  <2>2. PICK n \in 1..D : dies[n] = die
    BY <1>3
  <2>3. PICK j \in 1..Len(seqs[n]) : seqs[n][j] = g.num
    BY <1>5, <2>1, <2>2
  <2> DEFINE x == start[n] + j
  <2>4. x \in 1..N /\ home(x) = n /\ F[x] = g.num
    BY <1>9, <1>11, <2>3
  <2> HIDE DEF x
  <2>5. code[x] = c
    BY <1>13, <2>1, <2>2, <2>4
  <2> QED
    BY <2>4, <2>5
<1> DEFINE K == C
<1>17. K = {code[x] : x \in 1..N}
  <2> HIDE DEF codes, code
  <2> QED
    BY <1>15, <1>16
<1>18. code \in [1..N -> Nat]
  BY <1>13
<1> HIDE DEF K, code
<1>19. InOrder(K) = code
  BY <1>8, <1>14, <1>17, <1>18, InOrderOf DEF N
<1>20. DOMAIN code = 1..N /\ F = [x \in 1..N |-> F[x]]
  <2>1. F \in [1..N -> B]
    BY <1>7, LenProperties DEF N
  <2> QED
    BY <1>18, <2>1
<1>21. [i \in DOMAIN InOrder(K) |-> InOrder(K)[i] % 256] = F
  <2>1. \A i \in 1..N : code[i] % 256 = F[i]
    BY <1>13
  <2>2. [i \in 1..N |-> code[i] % 256] = [i \in 1..N |-> F[i]]
    BY <2>1
  <2> QED
    BY <1>19, <1>20, <2>2
<1>22. F \in Seq(Nat)
  <2>1. \A x \in B : x \in Nat
    BY DEF B
  <2> QED
    BY <1>7, <2>1
<1> QED
  BY <1>1, <1>2, <1>21, <1>22 DEF K


-----------------------------------------------------------------------------
(* What the reading of a table ends with                                   *)
FaultStatuses == {"SUCCESS", "ERROR", "OUT_OF_RANGE"}

LEMMA BlockFaults ==
  ASSUME NEW table, TableOK(table), NEW die \in ToSet(table)
  PROVE  Faults(die) \in Seq(FaultStatuses)
<1> DEFINE V == FaultStatuses
           faultsOf(name) == [i \in DOMAIN Block(die, name) |-> Block(die, name)[i].fault]
           lists == [b \in DOMAIN BlockNames |-> faultsOf(BlockNames[b])]
<1>1. ASSUME NEW name PROVE faultsOf(name) \in Seq(V)
  <2> DEFINE block == Block(die, name)
             n == Len(block)
  <2>1. block \in Seq(Instance)
    BY DEF Block, TableOK
  <2> HIDE DEF block
  <2>2. n \in Nat /\ DOMAIN block = 1..n /\ \A i \in 1..n : block[i] \in Instance
    BY <2>1, LenProperties
  <2>3. \A i \in 1..n : block[i].fault \in V
    BY <2>2 DEF Instance, FaultStatuses
  <2>4. faultsOf(name) = [i \in 1..n |-> block[i].fault]
    BY <2>2 DEF block
  <2> HIDE DEF n, V, faultsOf
  <2>5. [i \in 1..n |-> block[i].fault] \in [1..n -> V]
    BY <2>3
  <2>6. [i \in 1..n |-> block[i].fault] \in Seq(V)
    BY <2>2, <2>5
  <2> QED
    BY <2>4, <2>6
<1>2. lists \in Seq(Seq(V))
  <2> DEFINE SV == Seq(V)
             n == Len(BlockNames)
  <2>1. n \in Nat /\ DOMAIN BlockNames = 1..n /\ \A b \in 1..n : faultsOf(BlockNames[b]) \in SV
    BY <1>1 DEF BlockNames
  <2>2. lists = [b \in 1..n |-> faultsOf(BlockNames[b])]
    BY <2>1
  <2> HIDE DEF SV, faultsOf, lists, n
  <2>3. lists \in [1..n -> SV]
    BY <2>1, <2>2
  <2>4. lists \in Seq(SV)
    BY <2>1, <2>3
  <2> QED
    BY <2>4 DEF SV
<1>3. Faults(die) = <<die.fault>> \o FlattenSeq(lists)
  BY DEF Faults
<1>4. <<die.fault>> \in Seq(V)
  <2>1. die.fault \in V
    BY DEF TableOK, FaultStatuses
  <2> QED
    BY <2>1
<1> HIDE DEF lists, V
<1>5. FlattenSeq(lists) \in Seq(V)
  BY <1>2, FlattenJoins
<1>6. <<die.fault>> \o FlattenSeq(lists) \in Seq(V)
  BY <1>4, <1>5
<1> QED
  BY <1>3, <1>6 DEF V

LEMMA TableRead ==
  ASSUME NEW table, TableOK(table)
  PROVE  ReadStatus(table) \in FaultStatuses
<1> DEFINE V == FaultStatuses
           lists == [d \in DOMAIN table |-> Faults(table[d])]
           all == FlattenSeq(lists)
           I == {i \in 1..Len(all) : all[i] # "SUCCESS"}
           first == CHOOSE i \in I : \A j \in I : i <= j
           n == Len(table)
<1>1. n \in Nat /\ DOMAIN table = 1..n /\ \A d \in 1..n : table[d] \in ToSet(table)
  <2> DEFINE W == ToSet(table)
  <2> HIDE DEF W
  <2>1. table \in Seq(W)
    BY DEF TableOK, W
  <2>2. n \in Nat /\ DOMAIN table = 1..n /\ \A d \in 1..n : table[d] \in W
    BY <2>1, LenProperties
  <2> QED
    BY <2>2 DEF W
<1>2. lists \in Seq(Seq(V))
  <2> DEFINE SV == Seq(V)
  <2>1. \A d \in 1..n : Faults(table[d]) \in SV
    BY <1>1, BlockFaults
  <2>2. lists = [d \in 1..n |-> Faults(table[d])]
    BY <1>1
  <2> HIDE DEF SV, lists, n
  <2>3. lists \in [1..n -> SV]
    BY <2>1, <2>2
  <2>4. lists \in Seq(SV)
    BY <1>1, <2>3
  <2> QED
    BY <2>4 DEF SV
<1>3. ReadStatus(table) =
        LET i == SelectInSeq(all, LAMBDA fault : fault # "SUCCESS")
        IN  IF i = 0 THEN "SUCCESS" ELSE all[i]
  BY DEF ReadStatus
<1> HIDE DEF V, lists
<1>4. all \in Seq(V)
  BY <1>2, FlattenJoins
<1> HIDE DEF all
<1>5. Len(all) \in Nat /\ \A i \in 1..Len(all) : all[i] \in V
  BY <1>4, LenProperties
<1>6. I # {} => first \in I
  <2>1. I \in SUBSET Nat
    BY <1>5
  <2> HIDE DEF I
  <2> QED
    BY <2>1, LeastExists
<1>7. SelectInSeq(all, LAMBDA fault : fault # "SUCCESS") = IF I # {} THEN first ELSE 0
  BY DEF SelectInSeq, Min
<1> HIDE DEF first
<1>8. ReadStatus(table) = "SUCCESS" \/ (I # {} /\ ReadStatus(table) = all[first])
  BY <1>3, <1>7
<1>9. "SUCCESS" \in V
  BY DEF V, FaultStatuses
<1> QED
  BY <1>5, <1>6, <1>8, <1>9 DEF V


-----------------------------------------------------------------------------
(* A device that was made, with its types ... *)
Typed(ns, d) ==
  d \in [bdf : Nat, address : Nat, instance : 0..Len(ns),
         partitions : Seq([node : 1..Len(ns), global : 0..Len(ns), xcc : Seq(Nat)])]

(* ... and with the XCCs its nodes were given: had its table no GC block   *)
(* in some die, it would not be there.                                     *)
Dealt(machine, ns, d) ==
  LET table == TableIn(machine, Address(ns[First(ns, d.bdf)].props))
      want  == [i \in DOMAIN d.partitions |-> ns[d.partitions[i].node].props.num_xcc]
  IN  table # NoTable =>
        /\ TableOK(table) /\ ~Lacks(table, "GC")
        /\ want \in Seq(Nat)
        /\ [i \in DOMAIN d.partitions |-> d.partitions[i].xcc] = AssignXccs(want, table)

LEMMA TablesOK ==
  ASSUME MachineOK(m), NEW address, TableOf(address) # NoTable
  PROVE  TableOK(TableOf(address))
BY DEF MachineOK, TableOf

LEMMA ThrownIs ==
  ASSUME MachineOK(m), NEW b PROVE Thrown(b) \in Statuses
<1> DEFINE table == TableOf(builders[b].address)
<1>1. table # NoTable => ReadStatus(table) \in FaultStatuses
  BY TablesOK, TableRead
<1> HIDE DEF table
<1>2. \/ table # NoTable /\ Thrown(b) = ReadStatus(table)
      \/ Thrown(b) \in {"ERROR", "SUCCESS", "CODE_BUG", "OUT_OF_RANGE"}
  BY DEF Thrown, table
<1> QED
  BY <1>1, <1>2 DEF FaultStatuses, Statuses

LEMMA DeviceDealt ==
  ASSUME MachineOK(m), nodes \in Seq(NodeType), NEW b \in Keys(nodes),
         Built(nodes, builders[b], b, Len(nodes) + 1), Thrown(b) = "SUCCESS",
         NEW d, d = [bdf |-> b, address |-> builders[b].address,
                     instance |-> builders[b].instance,
                     partitions |-> PartitionsFromNodes(b)]
  PROVE  Typed(nodes, d) /\ Dealt(m, nodes, d)
<1> DEFINE list == builders[b].nodes
           table == TableOf(builders[b].address)
           want == Wanted(list)
           ids == XccDieIds(list, table)
           made == [i \in DOMAIN list |->
                      [node |-> list[i].node, global |-> list[i].id, xcc |-> ids[i]]]
           N == Len(nodes)
           L == Len(list)
           P == [node : 1..N, global : 0..N, xcc : Seq(Nat)]
<1>1. /\ list \in Seq(EntryType) /\ Lists(nodes, list, b, N + 1) /\ Numbered(nodes, list)
      /\ builders[b].address = Address(nodes[First(nodes, b)].props)
      /\ builders[b].instance = Cardinality(KeysBefore(nodes, First(nodes, b)))
      /\ builders[b].address \in Nat
  BY DEF Built, BuilderType
<1>2. /\ d.bdf = b /\ d.address = builders[b].address /\ d.instance = builders[b].instance
      /\ d.partitions = IF GivesUp(list, table) THEN << >> ELSE made
      /\ d = [bdf |-> d.bdf, address |-> d.address, instance |-> d.instance,
              partitions |-> d.partitions]
  BY DEF PartitionsFromNodes
<1>3. table = TableIn(m, Address(nodes[First(nodes, d.bdf)].props))
  BY <1>1, <1>2 DEF TableOf, TableIn
<1>4. table # NoTable => TableOK(table) /\ ~Lacks(table, "GC")
  BY TablesOK DEF Thrown
<1> HIDE DEF list, table, ids
<1>5. L \in Nat /\ DOMAIN list = 1..L /\ N \in Nat
  BY <1>1, NodeFacts, LenProperties
<1>6. \A i \in 1..L : /\ list[i].node \in 1..N /\ list[i].node \in Gpus(nodes)
                      /\ list[i].id = Rank(nodes, list[i].node)
  BY <1>1, NodeFacts DEF Lists, Numbered
<1>7. \A i \in 1..L : list[i].id \in 0..N
  <2> TAKE i \in 1..L
  <2> DEFINE x == list[i].node
             y == Rank(nodes, x)
  <2>1. x \in 1..N /\ list[i].id = y
    BY <1>6
  <2> HIDE DEF x, N
  <2>2. x \in Nat
    BY <1>5, <2>1
  <2>3. y \in Nat /\ y <= N
    BY <2>2, RankFacts DEF N
  <2> HIDE DEF y
  <2> QED
    BY <1>5, <2>1, <2>3
<1>8. want \in Seq(Nat) /\ Len(want) = L
  <2>1. \A i \in 1..L : Props(list[i].node).num_xcc \in Nat
    <3> TAKE i \in 1..L
    <3>1. nodes[list[i].node].props \in PropsType
      BY <1>6, NodeFacts
    <3> QED
      BY <3>1, SomeNames DEF PropsType, Props
  <2>2. want = [i \in 1..L |-> Props(list[i].node).num_xcc]
    BY <1>5 DEF Wanted
  <2> HIDE DEF want, L
  <2>3. want \in [1..L -> Nat]
    BY <2>1, <2>2
  <2> QED
    BY <1>5, <2>3
<1>9. table # NoTable => ids = AssignXccs(want, table)
  BY DEF XccDieIds, ids
<1>10. ids \in [1..L -> Seq(Nat)]
  <2>1. CASE table = NoTable
    <3>1. ids = [i \in 1..L |-> <<0>>] /\ <<0>> \in Seq(Nat)
      BY <1>5, <2>1 DEF XccDieIds, ids
    <3> QED
      BY <3>1
  <2>2. CASE table # NoTable
    <3> HIDE DEF want, L
    <3>1. LiveXccs(table) \in Seq(Nat)
      BY <1>4, <2>2, LiveOrdered
    <3>2. PICK st : Dealing(want, LiveXccs(table), st, Len(LiveXccs(table)))
                    /\ AssignXccs(want, table) = st.ids
      BY <1>8, <3>1, Assigned
    <3>3. st \in Places(want)
      BY <3>2 DEF Dealing
    <3>4. st.ids \in [1..Len(want) -> Seq(Nat)]
      BY <3>3 DEF Places
    <3> QED
      BY <1>8, <1>9, <2>2, <3>2, <3>4
  <2> QED
    BY <2>1, <2>2
<1>11. /\ DOMAIN made = 1..L
       /\ \A i \in 1..L : /\ made[i] \in P /\ made[i].node = list[i].node
                          /\ made[i].xcc = ids[i]
  <2>1. DOMAIN made = 1..L
    BY <1>5
  <2>2. ASSUME NEW i \in 1..L
        PROVE  /\ made[i] \in P /\ made[i].node = list[i].node /\ made[i].xcc = ids[i]
    <3>1. made[i] = [node |-> list[i].node, global |-> list[i].id, xcc |-> ids[i]]
      BY <1>5
    <3>2. list[i].node \in 1..N /\ list[i].id \in 0..N /\ ids[i] \in Seq(Nat)
      BY <1>6, <1>7, <1>10
    <3> HIDE DEF made, N, L
    <3> QED
      BY <3>1, <3>2
  <2> QED
    BY <2>1, <2>2
<1>12. made \in Seq(P) /\ Len(made) = L
  <2>1. made = [i \in 1..L |-> made[i]]
    BY <1>5
  <2> HIDE DEF made, P, L
  <2>2. made \in [1..L -> P]
    BY <1>11, <2>1
  <2> QED
    BY <1>5, <2>2
<1>13. Typed(nodes, d)
  <2>1. d.partitions \in Seq(P)
    <3> HIDE DEF P, made
    <3>1. << >> \in Seq(P)
      OBVIOUS
    <3>2. d.partitions = << >> \/ d.partitions = made
      BY <1>2
    <3> QED
      BY <1>12, <3>1, <3>2
  <2>2. d.instance \in 0..N
    <3> DEFINE f == First(nodes, b)
    <3>1. f \in Gpus(nodes)
      <4>1. At(nodes, b) \in SUBSET Nat /\ At(nodes, b) # {}
        <5>1. PICK n \in Gpus(nodes) : KeyAt(nodes, n) = b
          BY DEF Keys
        <5>2. n \in At(nodes, b)
          BY <5>1, NodeFacts
        <5>3. \A x \in At(nodes, b) : x \in 1..N
          BY NodeFacts
        <5>4. \A x \in 1..N : x \in Nat
          OBVIOUS
        <5> QED
          BY <5>2, <5>3, <5>4
      <4>2. f \in At(nodes, b)
        BY <4>1, SmallestIs DEF First
      <4> QED
        BY <4>2, NodeFacts
    <3> QED
      BY <1>1, <1>2, <3>1, KeysFewer
  <2>3. d.bdf \in Nat /\ d.address \in Nat
    BY <1>1, <1>2, NodeFacts
  <2> HIDE DEF P
  <2>4. d \in [bdf : Nat, address : Nat, instance : 0..N, partitions : Seq(P)]
    BY <1>2, <2>1, <2>2, <2>3
  <2> QED
    BY <2>4 DEF Typed, P
<1>14. Dealt(m, nodes, d)
  <2> SUFFICES ASSUME table # NoTable
               PROVE  LET w == [i \in DOMAIN d.partitions |->
                                  nodes[d.partitions[i].node].props.num_xcc]
                      IN  /\ TableOK(table) /\ ~Lacks(table, "GC")
                          /\ w \in Seq(Nat)
                          /\ [i \in DOMAIN d.partitions |-> d.partitions[i].xcc]
                               = AssignXccs(w, table)
    BY <1>3 DEF Dealt
  <2>1. d.partitions = made
    BY <1>2 DEF GivesUp
  <2>2. [i \in DOMAIN d.partitions |-> nodes[d.partitions[i].node].props.num_xcc] = want
    <3>1. want = [i \in 1..L |-> nodes[list[i].node].props.num_xcc]
      BY <1>5 DEF Wanted, Props
    <3> HIDE DEF made, want
    <3> QED
      BY <1>11, <2>1, <3>1
  <2>3. [i \in DOMAIN d.partitions |-> d.partitions[i].xcc] = ids
    <3>1. ids = [i \in 1..L |-> ids[i]]
      BY <1>10
    <3> HIDE DEF made
    <3> QED
      BY <1>11, <2>1, <3>1
  <2> QED
    BY <1>4, <1>8, <1>9, <2>2, <2>3
<1> QED
  BY <1>13, <1>14


(* What IInv leaves open, once an engine has failed too                    *)
HandedInv ==
  /\ nodes \in Seq(NodeType)
  /\ globalId \in 0..Len(nodes)
  /\ status \in Statuses
  /\ phase \in {"ready", "failed"} => DOMAIN builders = {}
  /\ phase = "failed" => devices = << >>
  /\ phase \in {"build", "ready"} =>
       \A i \in 1..Len(devices) : Typed(nodes, devices[i]) /\ Dealt(m, nodes, devices[i])

LEMMA HandedStart == Init => HandedInv
<1> SUFFICES ASSUME Init PROVE HandedInv
  OBVIOUS
<1>1. /\ nodes \in Seq(NodeType) /\ Len(nodes) = 0 /\ globalId = 0 /\ phase = "kfd"
      /\ status = "SUCCESS"
  BY DEF Init
<1> QED
  BY <1>1 DEF HandedInv, Statuses

LEMMA HandedStep == IInv /\ IInv' /\ HandedInv /\ [Next]_vars => HandedInv'
<1> SUFFICES ASSUME IInv, IInv', HandedInv, [Next]_vars PROVE HandedInv'
  OBVIOUS
<1> USE DEF IInv
<1>1. /\ nodes \in Seq(NodeType) /\ globalId \in 0..Len(nodes) /\ status \in Statuses
      /\ MachineOK(m)
  BY DEF HandedInv, NodesInv
<1>2. CASE ReadNode \/ NodesRead
  <2>1. /\ phase = "kfd" /\ phase' \in {"kfd", "scan"}
        /\ globalId' = globalId /\ status' = status
    BY <1>2 DEF ReadNode, NodesRead
  <2>2. globalId' = 0 /\ nodes' \in Seq(NodeType)
    BY <2>1 DEF ScanInv, NodesInv, Reading, AllRead
  <2>3. Len(nodes') \in Nat
    BY <2>2, LenProperties
  <2> QED
    BY <1>1, <2>1, <2>2, <2>3 DEF HandedInv
<1>3. CASE ReadThrows
  <2>1. /\ phase = "kfd" /\ phase' = "failed" /\ nodes' = << >> /\ status' = "ERROR"
        /\ globalId' = globalId /\ builders' = builders /\ devices' = devices
    BY <1>3 DEF ReadThrows
  <2>2. globalId = 0 /\ DOMAIN builders = {} /\ devices = << >>
    BY <2>1 DEF ScanInv
  <2>3. nodes' \in Seq(NodeType) /\ Len(nodes') = 0
    BY <2>1
  <2> QED
    BY <2>1, <2>2, <2>3 DEF HandedInv, Statuses
<1>4. CASE ScanNode \/ ScanDone
  <2>1. /\ phase = "scan" /\ phase' \in {"scan", "build"} /\ nodes' = nodes
        /\ status' = status /\ devices' = devices
    BY <1>4 DEF ScanNode, ScanDone
  <2>2. Scanning' /\ devices' = << >>
    BY <2>1 DEF ScanInv
  <2>3. globalId' \in 0..Len(nodes')
    <3> DEFINE k == next'
               N == Len(nodes)
    <3>1. k \in 1..N + 1 /\ globalId' = Rank(nodes, k)
      BY <2>1, <2>2 DEF Scanning
    <3>2. N \in Nat
      BY <1>1, LenProperties
    <3> HIDE DEF k
    <3>3. Rank(nodes, k) \in Nat /\ Rank(nodes, k) <= N
      <4>1. k \in Nat
        BY <3>1, <3>2
      <4> QED
        BY <1>1, <4>1, RankFacts
    <3> HIDE DEF N
    <3>4. globalId' \in 0..N
      BY <3>1, <3>2, <3>3
    <3> QED
      BY <2>1, <3>4 DEF N
  <2>4. 1..Len(devices') = {}
    BY <2>2
  <2> QED
    BY <1>1, <2>1, <2>3, <2>4 DEF HandedInv
<1>5. CASE BuildDevice
  <2> DEFINE b == Smallest(Pending)
             N == Len(devices)
             Made(x) == [bdf |-> x, address |-> builders[x].address,
                         instance |-> builders[x].instance,
                         partitions |-> PartitionsFromNodes(x)]
             d == Made(b)
  <2>1. /\ phase = "build" /\ phase' = "build" /\ Pending # {} /\ devices' = Append(devices, d)
        /\ m' = m /\ nodes' = nodes /\ globalId' = globalId /\ status' = status
        /\ Thrown(b) = "SUCCESS"
    BY <1>5 DEF BuildDevice
  <2>2. /\ DOMAIN builders = Keys(nodes)
        /\ \A k \in DOMAIN builders : Built(nodes, builders[k], k, Len(nodes) + 1)
    BY <2>1, BuildersAre
  <2>3. b \in Keys(nodes)
    <3>1. Pending \in SUBSET Nat
      BY <1>1, <2>2, NodeFacts DEF Pending
    <3>2. b \in Pending
      BY <2>1, <3>1, SmallestIs
    <3> QED
      BY <2>2, <3>2 DEF Pending
  <2> HIDE DEF b
  <2>4. Typed(nodes, d) /\ Dealt(m, nodes, d)
    BY <1>1, <2>1, <2>2, <2>3, DeviceDealt
  <2>5. /\ N \in Nat /\ Len(devices') = N + 1
        /\ \A i \in 1..N : devices'[i] = devices[i]
        /\ devices'[N + 1] = d
    <3> HIDE DEF d
    <3> QED
      BY <2>1, AppendAny DEF BuildInv, Finishing
  <2>6. \A i \in 1..N : Typed(nodes, devices[i]) /\ Dealt(m, nodes, devices[i])
    BY <2>1 DEF HandedInv
  <2> HIDE DEF d, N
  <2>7. \A i \in 1..N + 1 : i \in 1..N \/ i = N + 1
    BY <2>5
  <2>8. \A i \in 1..N + 1 : Typed(nodes, devices'[i]) /\ Dealt(m, nodes, devices'[i])
    <3> TAKE i \in 1..N + 1
    <3>1. CASE i \in 1..N
      BY <2>5, <2>6, <3>1
    <3>2. CASE i = N + 1
      BY <2>4, <2>5, <3>2
    <3> QED
      BY <2>7, <3>1, <3>2
  <2> QED
    BY <1>1, <2>1, <2>5, <2>8 DEF HandedInv
<1>6. CASE BuildThrows
  <2>1. /\ phase' = "failed" /\ nodes' = nodes /\ globalId' = globalId
        /\ builders' = << >> /\ devices' = << >>
        /\ status' = Thrown(Smallest(Pending))
    BY <1>6 DEF BuildThrows
  <2>2. status' \in Statuses
    BY <1>1, <2>1, ThrownIs
  <2>3. DOMAIN builders' = {}
    BY <2>1
  <2> QED
    BY <1>1, <2>1, <2>2, <2>3 DEF HandedInv
<1>7. CASE EnumeratePartitions
  <2>1. /\ phase = "build" /\ phase' = "ready" /\ nodes' = nodes /\ globalId' = globalId
        /\ builders' = << >> /\ devices' = devices /\ status' = status /\ m' = m
    BY <1>7 DEF EnumeratePartitions
  <2>2. DOMAIN builders' = {}
    BY <2>1
  <2> QED
    BY <1>1, <2>1, <2>2 DEF HandedInv
<1>8. CASE UNCHANGED vars
  BY <1>8 DEF vars, HandedInv
<1> QED
  BY <1>2, <1>3, <1>4, <1>5, <1>6, <1>7, <1>8 DEF Next

LEMMA HandedInvariant == Spec => []HandedInv
<1>1. Init => HandedInv
  BY HandedStart
<1>2. IInv /\ IInv' /\ HandedInv /\ [Next]_vars => HandedInv'
  BY HandedStep
<1>3. Spec => []IInv
  BY Invariant
<1> QED
  BY <1>1, <1>2, <1>3, PTL DEF Spec

(* TypeOK: what Engine::Engine leaves in its members, whatever sysfs shows *)
(* and wherever the construction ends                                      *)
THEOREM TypeCorrect == Spec => []TypeOK
<1>1. IInv /\ HandedInv => TypeOK
  <2> SUFFICES ASSUME IInv, HandedInv PROVE TypeOK
    OBVIOUS
  <2>1. nodes \in Seq(NodeType) /\ phase \in Phases /\ next \in Nat \ {0} /\ MachineOK(m)
    BY DEF IInv, HandedInv, NodesInv
  <2>2. \A n \in DOMAIN nodes : nodes[n].instance \in Nat
    <3>1. DOMAIN nodes = 1..Len(nodes) /\ \A n \in 1..Len(nodes) : nodes[n] \in NodeType
      BY <2>1, LenProperties
    <3> QED
      BY <3>1 DEF NodeType
  <2>3. DOMAIN builders \subseteq Nat
    <3>1. CASE phase \in {"scan", "build"}
      <4>1. DOMAIN builders = KeysBefore(nodes, next)
        BY <3>1 DEF IInv, ScanInv, Scanning
      <4>2. \A n \in Gpus(nodes) : KeyAt(nodes, n) \in Nat
        BY <2>1, NodeFacts
      <4> QED
        BY <4>1, <4>2 DEF KeysBefore
    <3>2. CASE phase \in {"kfd", "ready", "failed"}
      BY <3>2 DEF IInv, ScanInv, HandedInv
    <3> QED
      BY <2>1, <3>1, <3>2 DEF Phases
  <2>4. devices \in Seq(DeviceType)
    <3>1. CASE phase \in {"build", "ready"}
      <4>1. /\ devices \in Seq(ToSet(devices))
            /\ \A i \in 1..Len(devices) : devices[i] \in DeviceType
        BY <3>1 DEF IInv, BuildInv, Finishing, HandedInv, Typed, DeviceType, NumNodes
      <4> DEFINE W == ToSet(devices)
                 T == DeviceType
      <4> HIDE DEF W, T
      <4>2. devices \in Seq(W) /\ \A i \in 1..Len(devices) : devices[i] \in T
        BY <4>1 DEF W, T
      <4>3. devices \in [1..Len(devices) -> T] /\ Len(devices) \in Nat
        BY <4>2, LenProperties
      <4>4. devices \in Seq(T)
        BY <4>3
      <4> QED
        BY <4>4 DEF T
    <3>2. CASE phase \in {"kfd", "scan", "failed"}
      <4>1. devices = << >>
        BY <3>2 DEF IInv, ScanInv, HandedInv
      <4> QED
        BY <4>1
    <3> QED
      BY <2>1, <3>1, <3>2 DEF Phases
  <2>5. m.root \in BOOLEAN
    BY <2>1 DEF MachineOK
  <2>6. globalId \in 0..NumNodes /\ status \in Statuses
    BY DEF HandedInv, NumNodes
  <2> QED
    BY <2>1, <2>2, <2>3, <2>4, <2>5, <2>6 DEF TypeOK
<1> QED
  BY <1>1, Invariant, HandedInvariant, PTL


-----------------------------------------------------------------------------
(* The lists of AssignXccs, read one after the other                       *)
LEMMA AllDealt ==
  ASSUME NEW want \in Seq(Nat), NEW table, TableOK(table), ~Lacks(table, "GC")
  PROVE  LET ids  == AssignXccs(want, table)
             live == ByDieAndNumber(table)
         IN  /\ IsPrefix(FlattenSeq(ids), live)
             /\ \A i \in 1..Len(want) :
                  /\ Len(ids[i]) <= want[i]
                  /\ Len(ids[i]) < want[i] => FlattenSeq(ids) = live
<1> DEFINE ids == AssignXccs(want, table)
           live == ByDieAndNumber(table)
           L == Len(live)
           N == Len(want)
<1>1. live \in Seq(Nat) /\ live = LiveXccs(table)
  BY LiveOrdered
<1>2. PICK st : Dealing(want, live, st, L) /\ ids = st.ids
  BY <1>1, Assigned
<1> HIDE DEF ids, live
<1>3. L \in Nat /\ N \in Nat
  BY <1>1, LenProperties
<1>4. st \in Places(want) /\ st.cur \in 1..(N + 1)
  BY <1>2 DEF Dealing, Places
<1>5. \A i \in 1..N : want[i] \in Nat /\ Len(ids[i]) \in Nat
  BY <1>2, <1>4, PlacesFacts
<1>6. IsPrefix(FlattenSeq(ids), live)
  <2>1. PICK j \in 0..L : FlattenSeq(ids) = SubSeq(live, 1, j)
    BY <1>2 DEF Dealing
  <2> DEFINE s == SubSeq(live, 1, j)
  <2>2. s \in Seq(Nat) /\ Len(s) = j
    <3> HIDE DEF L
    <3>1. j \in Nat /\ j <= L
      BY <1>3, <2>1
    <3> QED
      BY <1>1, <3>1 DEF L
  <2>3. SubSeq(s, 1, j) = s
    <3> HIDE DEF s
    <3> QED
      BY <2>2, SubSeqFull
  <2>4. j <= L
    <3> HIDE DEF L
    <3> QED
      BY <1>3, <2>1
  <2> HIDE DEF L
  <2>5. Len(s) <= Len(live) /\ SubSeq(s, 1, Len(s)) = SubSeq(live, 1, Len(s))
    BY <2>2, <2>3, <2>4 DEF L
  <2>6. IsPrefix(s, live)
    <3> HIDE DEF s
    <3> QED
      BY <2>5 DEF IsPrefix
  <2> QED
    BY <2>1, <2>6
<1>7. ASSUME NEW i \in 1..N
      PROVE  /\ Len(ids[i]) <= want[i]
             /\ Len(ids[i]) < want[i] => FlattenSeq(ids) = live
  <2> DEFINE a == Len(ids[i])
             w == want[i]
             c == st.cur
  <2>1. a \in Nat /\ w \in Nat /\ a <= w /\ (i < c => a = w)
    BY <1>2, <1>5 DEF Dealing
  <2>2. c <= N => FlattenSeq(ids) = SubSeq(live, 1, L)
    BY <1>2 DEF Dealing
  <2>3. SubSeq(live, 1, L) = live
    BY <1>1, SubSeqFull
  <2>4. c \in 1..(N + 1)
    BY <1>4
  <2> HIDE DEF a, w, c, N
  <2>5. a < w => c <= N
    BY <1>3, <2>1, <2>4
  <2> QED
    BY <2>1, <2>2, <2>3, <2>5 DEF a, w
<1> QED
  BY <1>6, <1>7 DEF ids, live

(* XccsHandedOutInOrder: the cursor of Device::PartitionsFromNodes gives   *)
(* the nodes of a device, in their order, what they want of the live XCCs, *)
(* in order, until there are none, for any number of nodes, wants and dies *)
(* and whatever order sysfs lists them in.                                 *)
THEOREM DealtInOrder == Spec => []XccsHandedOutInOrder
<1>1. IInv /\ HandedInv => XccsHandedOutInOrder
  <2> SUFFICES ASSUME IInv, HandedInv, NEW d \in ToSet(devices), TableAt(d.bdf) # NoTable
               PROVE  LET live == ByDieAndNumber(TableAt(d.bdf))
                          ids  == [i \in DOMAIN d.partitions |-> d.partitions[i].xcc]
                          want == [i \in DOMAIN d.partitions |->
                                     Props(d.partitions[i].node).num_xcc]
                      IN  /\ \A i, j \in DOMAIN ids : i < j =>
                               NodeId(d.partitions[i].node - 1) < NodeId(d.partitions[j].node - 1)
                          /\ IsPrefix(FlattenSeq(ids), live)
                          /\ \A i \in DOMAIN ids :
                               /\ Len(ids[i]) <= want[i]
                               /\ Len(ids[i]) < want[i] => FlattenSeq(ids) = live
    BY DEF XccsHandedOutInOrder
  <2> DEFINE parts == d.partitions
             n == Len(parts)
             table == TableAt(d.bdf)
             ids == [i \in DOMAIN parts |-> parts[i].xcc]
             want == [i \in DOMAIN parts |-> Props(parts[i].node).num_xcc]
  <2>1. phase \in {"build", "ready"}
    <3>1. devices # << >>
      BY DEF ToSet
    <3>2. phase \in Phases
      BY DEF IInv, NodesInv
    <3> QED
      BY <3>1, <3>2 DEF IInv, ScanInv, HandedInv, Phases
  <2>2. /\ nodes \in Seq(NodeType) /\ Rising(nodes)
        /\ Finished(m, nodes, d) /\ Typed(nodes, d) /\ Dealt(m, nodes, d)
    <3>1. Finishing /\ \A i \in 1..Len(devices) : Typed(nodes, devices[i]) /\ Dealt(m, nodes, devices[i])
      BY <2>1 DEF IInv, BuildInv, HandedInv
    <3>2. DOMAIN devices = 1..Len(devices)
      BY <3>1, LenProperties DEF Finishing
    <3>3. PICK i \in 1..Len(devices) : d = devices[i]
      BY <3>2 DEF ToSet
    <3> QED
      BY <2>1, <3>1, <3>3 DEF Finishing, IInv, NodesInv, AllRead
  <2>3. table = TableIn(m, Address(nodes[First(nodes, d.bdf)].props))
    BY Bridge DEF TableAt, TableOf, TableIn, First
  <2>4. want = [i \in DOMAIN parts |-> nodes[parts[i].node].props.num_xcc]
    BY DEF Props
  <2> HIDE DEF table, want
  <2>5. /\ TableOK(table) /\ ~Lacks(table, "GC") /\ want \in Seq(Nat)
        /\ ids = AssignXccs(want, table)
    BY <2>2, <2>3, <2>4 DEF Dealt, table
  <2>6. Houses(nodes, parts, d.bdf)
    BY <2>2, <2>3 DEF Finished, Abandons, table
  <2>7. n \in Nat /\ DOMAIN parts = 1..n
    BY <2>6, LenProperties DEF Houses
  <2>8. DOMAIN ids = 1..n /\ Len(want) = n
    <3>1. DOMAIN want = 1..n
      BY <2>4, <2>7
    <3> QED
      BY <2>5, <2>7, <3>1, LenProperties
  <2>9. \A i, j \in 1..n : i < j =>
           NodeId(parts[i].node - 1) < NodeId(parts[j].node - 1)
    <3> SUFFICES ASSUME NEW i \in 1..n, NEW j \in 1..n, i < j
                 PROVE  NodeId(parts[i].node - 1) < NodeId(parts[j].node - 1)
      OBVIOUS
    <3> DEFINE x == parts[i].node
               y == parts[j].node
    <3>1. x < y
      BY <2>6 DEF Houses, Lists
    <3>2. x \in DOMAIN nodes /\ y \in DOMAIN nodes /\ x \in Nat /\ y \in Nat
      <4>1. x \in 1..Len(nodes) /\ y \in 1..Len(nodes)
        BY <2>2, <2>6, NodeFacts DEF Houses, Lists
      <4>2. Len(nodes) \in Nat /\ DOMAIN nodes = 1..Len(nodes)
        BY <2>2, LenProperties
      <4> HIDE DEF x, y
      <4> QED
        BY <4>1, <4>2
    <3> HIDE DEF x, y
    <3>3. x - 1 + 1 = x /\ y - 1 + 1 = y
      BY <3>2
    <3>4. NodeId(x - 1) = nodes[x].instance /\ NodeId(y - 1) = nodes[y].instance
      BY <3>3 DEF NodeId
    <3>5. nodes[x].instance < nodes[y].instance
      BY <2>2, <3>1, <3>2 DEF Rising
    <3>6. NodeId(x - 1) < NodeId(y - 1)
      BY <3>4, <3>5
    <3> QED
      BY <3>6 DEF x, y
  <2>10. /\ IsPrefix(FlattenSeq(ids), ByDieAndNumber(table))
         /\ \A i \in 1..n : /\ Len(ids[i]) <= want[i]
                            /\ Len(ids[i]) < want[i] => FlattenSeq(ids) = ByDieAndNumber(table)
    <3> HIDE DEF ids, n
    <3> QED
      BY <2>5, <2>8, AllDealt
  <2> QED
    BY <2>8, <2>9, <2>10 DEF table, want
<1> QED
  BY <1>1, Invariant, HandedInvariant, PTL
=============================================================================
