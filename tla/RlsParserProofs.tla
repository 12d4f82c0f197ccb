--------------------------- MODULE RlsParserProofs ---------------------------
(***************************************************************************)
(* Theorems of RlsParser and of the packets of Pm4Packets, for texts of    *)
(* any length, packets of any sizes and any set of nodes.                  *)
(***************************************************************************)
EXTENDS RlsParser, FiniteSetTheorems, SequenceTheorems, WellFoundedInduction, TLAPS

(* A set of natural numbers that is not empty has a least one.             *)
LEMMA LeastExists ==
  ASSUME NEW S \in SUBSET Nat, S # {} PROVE \E i \in S : \A j \in S : i <= j
<1>1. PICK i \in S : \A j \in S : ~(<<j, i>> \in OpToRel(<, Nat))
  BY NatLessThanWellFounded, WFMin, Zenon
<1>2. \A j \in S : ~(j < i)
  BY <1>1 DEF OpToRel
<1> QED
  BY <1>2

(* Induction over the natural numbers, for a set of them                   *)
LEMMA Induction ==
  ASSUME NEW S, 0 \in S, \A n \in Nat : n \in S => n + 1 \in S
  PROVE  Nat \subseteq S
<1> SUFFICES ASSUME Nat \ S # {} PROVE FALSE
  OBVIOUS
<1>1. PICK i \in Nat \ S : \A j \in Nat \ S : i <= j
  BY LeastExists
<1>2. i # 0 /\ i - 1 \in Nat
  BY <1>1
<1>3. i - 1 \in S
  BY <1>1, <1>2
<1> QED
  BY <1>1, <1>2, <1>3

-----------------------------------------------------------------------------
Below(S, x) == {y \in S : y < x}
Rank(S, x)  == Cardinality(Below(S, x))

(* What is below the members of a finite set of numbers counts them.       *)
LEMMA RanksCount ==
  ASSUME NEW S \in SUBSET Nat, IsFiniteSet(S)
  PROVE  /\ Cardinality(S) \in Nat
         /\ \A x \in S : Rank(S, x) \in 0..Cardinality(S) - 1
         /\ \A x, y \in S : x < y => Rank(S, x) < Rank(S, y)
         /\ \A x, y \in S : Rank(S, x) = Rank(S, y) => x = y
         /\ \A r \in 0..Cardinality(S) - 1 : \E x \in S : Rank(S, x) = r
<1> DEFINE C == Cardinality(S)
           R == 0..C - 1
           f == [x \in S |-> Rank(S, x)]
<1>1. C \in Nat
  BY FS_CardinalityType
<1> \A x \in S : x \in Nat
  OBVIOUS
<1>2. \A x \in S : IsFiniteSet(Below(S, x)) /\ Cardinality(Below(S, x)) \in Nat
  <2> TAKE x \in S
  <2>1. Below(S, x) \in SUBSET S
    BY DEF Below
  <2> QED
    BY <2>1, FS_Subset, FS_CardinalityType
<1>3. ASSUME NEW x \in S
      PROVE  /\ IsFiniteSet(Below(S, x) \union {x})
             /\ Cardinality(Below(S, x) \union {x}) = Rank(S, x) + 1
  <2>1. x \notin Below(S, x)
    BY DEF Below
  <2> QED
    BY <1>2, <2>1, FS_AddElement DEF Rank
<1>4. ASSUME NEW x \in S PROVE Rank(S, x) \in R
  <2>1. Below(S, x) \union {x} \in SUBSET S
    BY DEF Below
  <2>2. Cardinality(Below(S, x) \union {x}) <= C
    BY <2>1, FS_Subset
  <2>3. Rank(S, x) + 1 <= C /\ Rank(S, x) \in Nat
    BY <1>2, <1>3, <2>2 DEF Rank
  <2> QED
    BY <1>1, <2>3
<1>5. ASSUME NEW x \in S, NEW y \in S, x < y PROVE Rank(S, x) < Rank(S, y)
  <2>1. Below(S, x) \union {x} \in SUBSET Below(S, y)
    <3>1. \A z \in S : z < x => z < y
      BY <1>5
    <3> QED
      BY <1>5, <3>1 DEF Below
  <2>2. Cardinality(Below(S, x) \union {x}) <= Cardinality(Below(S, y))
    BY <1>2, <2>1, FS_Subset
  <2>3. Rank(S, x) + 1 <= Rank(S, y) /\ Rank(S, x) \in Nat /\ Rank(S, y) \in Nat
    BY <1>2, <1>3, <2>2 DEF Rank
  <2> QED
    BY <2>3
<1>6. ASSUME NEW x \in S, NEW y \in S, Rank(S, x) = Rank(S, y) PROVE x = y
  <2>1. x \in Nat /\ y \in Nat /\ Rank(S, x) \in Nat /\ Rank(S, y) \in Nat
    BY <1>2 DEF Rank
  <2> QED
    BY <1>5, <1>6, <2>1
<1>7. f \in Injection(S, R)
  <2>1. f \in [S -> R]
    BY <1>4
  <2>2. \A x, y \in S : f[x] = f[y] => x = y
    BY <1>6
  <2> QED
    BY <2>1, <2>2 DEF Injection, IsInjective
<1>8. IsFiniteSet(R) /\ Cardinality(R) = C
  <2> HIDE DEF C
  <2>1. Cardinality(0..C - 1) = C /\ IsFiniteSet(0..C - 1)
    BY <1>1, FS_Interval
  <2> QED
    BY <2>1
<1> HIDE DEF R, f
<1>9. f \in Surjection(S, R)
  BY <1>7, <1>8, FS_Injection
<1>10. \A r \in R : \E x \in S : Rank(S, x) = r
  BY <1>9 DEF Surjection, f
<1> QED
  BY <1>1, <1>4, <1>5, <1>6, <1>10 DEF R

LEMMA InOrderAt ==
  ASSUME NEW S \in SUBSET Nat, IsFiniteSet(S), NEW x \in S
  PROVE  /\ Rank(S, x) + 1 \in 1..Cardinality(S)
         /\ InOrder(S)[Rank(S, x) + 1] = x
<1> DEFINE n == Rank(S, x) + 1
<1>1. n \in 1..Cardinality(S) /\ Rank(S, x) = n - 1
  BY RanksCount
<1>2. \A y \in S : Rank(S, y) = n - 1 => y = x
  BY <1>1, RanksCount
<1> HIDE DEF n
<1>3. InOrder(S)[n] = CHOOSE y \in S : Rank(S, y) = n - 1
  BY <1>1 DEF InOrder, Rank, Below
<1> QED
  BY <1>1, <1>2, <1>3 DEF n

(* InOrder is what its name says. *)
LEMMA InOrderIs ==
  ASSUME NEW S \in SUBSET Nat, IsFiniteSet(S)
  PROVE  /\ InOrder(S) \in Seq(S)
         /\ Len(InOrder(S)) = Cardinality(S)
         /\ DOMAIN InOrder(S) = 1..Cardinality(S)
         /\ \A n \in 1..Cardinality(S) : InOrder(S)[n] \in S /\ Rank(S, InOrder(S)[n]) = n - 1
         /\ \A n, k \in 1..Cardinality(S) : n < k => InOrder(S)[n] < InOrder(S)[k]
         /\ \A x \in S : \E n \in 1..Cardinality(S) : InOrder(S)[n] = x
<1> DEFINE C == Cardinality(S)
           o == InOrder(S)
<1>1. C \in Nat /\ \A r \in 0..C - 1 : \E x \in S : Rank(S, x) = r
  BY RanksCount
<1>2. DOMAIN o = 1..C /\ o = [n \in 1..C |-> o[n]]
  <2> DEFINE pick(n) == CHOOSE x \in S : Cardinality({y \in S : y < x}) = n - 1
  <2>1. o = [n \in 1..C |-> pick(n)]
    BY DEF InOrder
  <2> HIDE DEF o, C, pick
  <2> QED
    BY <2>1
<1>3. ASSUME NEW n \in 1..C PROVE o[n] \in S /\ Rank(S, o[n]) = n - 1
  <2>1. n - 1 \in 0..C - 1
    BY <1>1
  <2>2. PICK x \in S : Rank(S, x) = n - 1
    BY <1>1, <2>1
  <2>3. (n - 1) + 1 = n
    BY <1>1
  <2>4. o[n] = x
    BY <2>2, <2>3, InOrderAt
  <2> QED
    BY <2>2, <2>4
<1>4. ASSUME NEW n \in 1..C, NEW k \in 1..C, n < k PROVE o[n] < o[k]
  <2>1. /\ o[n] \in S /\ o[k] \in S /\ o[n] \in Nat /\ o[k] \in Nat
        /\ Rank(S, o[n]) = n - 1 /\ Rank(S, o[k]) = k - 1
    BY <1>3
  <2>2. ~(Rank(S, o[k]) < Rank(S, o[n])) /\ Rank(S, o[k]) # Rank(S, o[n])
    BY <1>1, <1>4, <2>1
  <2>3. ~(o[k] < o[n]) /\ o[k] # o[n]
    BY <2>1, <2>2, RanksCount
  <2> QED
    BY <2>1, <2>3
<1>5. o \in Seq(S) /\ Len(o) = C
  <2> HIDE DEF C, o
  <2>1. o \in [1..C -> S]
    BY <1>2, <1>3
  <2> QED
    BY <1>1, <2>1
<1>6. \A x \in S : \E n \in 1..C : o[n] = x
  BY InOrderAt
<1> QED
  BY <1>2, <1>3, <1>4, <1>5, <1>6

(* The members below a bound are the first ones in order.                  *)
LEMMA InOrderBelow ==
  ASSUME NEW S \in SUBSET Nat, IsFiniteSet(S), NEW e \in Nat
  PROVE  /\ IsFiniteSet(Below(S, e)) /\ Cardinality(Below(S, e)) \in Nat
         /\ Cardinality(Below(S, e)) <= Cardinality(S)
         /\ \A n \in 1..Cardinality(Below(S, e)) : InOrder(Below(S, e))[n] = InOrder(S)[n]
<1> DEFINE T == Below(S, e)
<1>1. T \in SUBSET S /\ T \in SUBSET Nat /\ \A x \in T : x \in Nat /\ x < e
  BY DEF Below
<1>2. ASSUME NEW x \in T PROVE Below(T, x) = Below(S, x)
  <2>1. \A y \in S : y < x => y \in T
    <3> TAKE y \in S
    <3> HAVE y < x
    <3>1. x < e /\ x \in Nat /\ y \in Nat /\ y \in S
      BY <1>1
    <3> QED
      BY <3>1 DEF Below
  <2> QED
    BY <1>1, <2>1 DEF Below
<1> HIDE DEF T
<1>3. IsFiniteSet(T) /\ Cardinality(T) \in Nat /\ Cardinality(T) <= Cardinality(S)
  BY <1>1, FS_Subset, FS_CardinalityType
<1>4. ASSUME NEW n \in 1..Cardinality(T) PROVE InOrder(T)[n] = InOrder(S)[n]
  <2> DEFINE x == InOrder(T)[n]
  <2>1. x \in T /\ Rank(T, x) = n - 1
    BY <1>1, <1>3, InOrderIs
  <2>2. Rank(S, x) = n - 1 /\ x \in S
    BY <1>1, <1>2, <2>1 DEF Rank
  <2>3. InOrder(S)[(n - 1) + 1] = x
    BY <2>2, InOrderAt
  <2> QED
    BY <1>3, <2>3
<1> QED
  BY <1>3, <1>4 DEF T

(* A greater number comes last.                                            *)
LEMMA InOrderAppend ==
  ASSUME NEW S \in SUBSET Nat, IsFiniteSet(S), NEW x \in Nat, \A y \in S : y < x
  PROVE  /\ IsFiniteSet(S \union {x}) /\ Cardinality(S \union {x}) = Cardinality(S) + 1
         /\ \A n \in 1..Cardinality(S) : InOrder(S \union {x})[n] = InOrder(S)[n]
         /\ InOrder(S \union {x})[Cardinality(S) + 1] = x
<1> DEFINE T == S \union {x}
<1>1. x \notin S /\ T \in SUBSET Nat /\ x \in T
  OBVIOUS
<1>2. IsFiniteSet(T) /\ Cardinality(T) = Cardinality(S) + 1
  BY <1>1, FS_AddElement
<1>3. Below(T, x) = S
  <2>1. ~(x < x) /\ \A y \in T : y < x => y \in S
    OBVIOUS
  <2> QED
    BY <2>1 DEF Below
<1> HIDE DEF T
<1>4. Rank(T, x) = Cardinality(S)
  BY <1>3 DEF Rank
<1>5. InOrder(T)[Cardinality(S) + 1] = x
  BY <1>1, <1>2, <1>4, InOrderAt
<1>6. \A n \in 1..Cardinality(S) : InOrder(S)[n] = InOrder(T)[n]
  BY <1>1, <1>2, <1>3, InOrderBelow
<1> QED
  BY <1>2, <1>5, <1>6 DEF T

-----------------------------------------------------------------------------
(* A packet starts at the beginning and where a packet ends.               *)
Follows(words, S, i) ==
  i = 1 \/ \E j \in 1..(i - 1) : j \in S /\ j + EntrySize(words[j]) = i

LEMMA SomeStarts ==
  ASSUME NEW words, NEW N \in Nat
  PROVE  \E S \in SUBSET (1..N) : \A i \in 1..N : i \in S <=> Follows(words, S, i)
<1> DEFINE Is(S, k) == S \in SUBSET (1..k) /\ \A i \in 1..k : i \in S <=> Follows(words, S, i)
           K == {k \in Nat : \E S : Is(S, k)}
<1>1. 0 \in K
  <2>1. {} \in SUBSET (1..0) /\ \A i \in 1..0 : FALSE
    OBVIOUS
  <2>2. \A i \in 1..0 : i \in {} <=> Follows(words, {}, i)
    BY <2>1
  <2>3. Is({}, 0)
    <3>1. {} \in SUBSET (1..0)
      OBVIOUS
    <3> QED
      BY <2>2, <3>1, Zenon
  <2> HIDE DEF Is
  <2> QED
    BY <2>3
<1>2. ASSUME NEW k \in Nat, k \in K PROVE k + 1 \in K
  <2>1. PICK S : Is(S, k)
    BY <1>2
  <2> DEFINE T == IF Follows(words, S, k + 1) THEN S \union {k + 1} ELSE S
  <2>2. /\ S \in SUBSET (1..k) /\ \A i \in 1..k : i \in S <=> Follows(words, S, i)
        /\ k + 1 \notin S
    BY <2>1
  <2>3. T \in SUBSET (1..(k + 1)) /\ \A j \in 1..k : j \in T <=> j \in S
    BY <2>2
  <2>4. (k + 1 \in T) <=> Follows(words, S, k + 1)
    BY <2>2
  <2> HIDE DEF T, Is
  <2>5. ASSUME NEW i \in 1..(k + 1) PROVE Follows(words, T, i) <=> Follows(words, S, i)
    <3>1. \A j \in 1..(i - 1) : j \in T <=> j \in S
      BY <2>3
    <3> QED
      BY <3>1 DEF Follows
  <2>6. \A i \in 1..(k + 1) : i \in T <=> Follows(words, T, i)
    <3> TAKE i \in 1..(k + 1)
    <3>1. CASE i = k + 1
      BY <2>4, <2>5, <3>1
    <3>2. CASE i # k + 1
      <4>1. i \in 1..k
        BY <3>2
      <4> QED
        BY <2>2, <2>3, <2>5, <4>1
    <3> QED
      BY <3>1, <3>2
  <2>7. Is(T, k + 1)
    BY <2>3, <2>6 DEF Is
  <2> QED
    BY <2>7
<1>3. Nat \subseteq K
  <2> HIDE DEF K
  <2> QED
    BY <1>1, <1>2, Induction
<1> QED
  BY <1>3

LEMMA StartsUnfold ==
  ASSUME NEW words, Len(words) \in Nat
  PROVE  /\ Starts(words) \in SUBSET (1..(Len(words) + 1))
         /\ \A i \in 1..(Len(words) + 1) : i \in Starts(words) <=> Follows(words, Starts(words), i)
<1> DEFINE N == Len(words) + 1
           Rule(f, i) == i = 1 \/ \E j \in 1..(i - 1) : f[j] /\ j + EntrySize(words[j]) = i
           Is(f) == f = [i \in 1..N |-> Rule(f, i)]
           start == CHOOSE f : Is(f)
<1>1. Starts(words) = {i \in 1..N : start[i]}
  BY DEF Starts
<1>2. N \in Nat
  OBVIOUS
<1> HIDE DEF N
<1>3. PICK S \in SUBSET (1..N) : \A i \in 1..N : i \in S <=> Follows(words, S, i)
  BY <1>2, SomeStarts
<1> DEFINE f == [i \in 1..N |-> i \in S]
<1>4. Is(f)
  <2>1. ASSUME NEW i \in 1..N PROVE (i \in S) = Rule(f, i)
    <3>1. \A j \in 1..(i - 1) : j \in 1..N
      BY <1>2
    <3>2. \A j \in 1..(i - 1) : f[j] = (j \in S)
      BY <3>1
    <3> HIDE DEF f
    <3>3. Rule(f, i) <=> Follows(words, S, i)
      BY <3>2, Zenon DEF Follows
    <3>4. (i \in S) <=> Follows(words, S, i)
      BY <1>3
    <3> QED
      BY <3>3, <3>4
  <2> HIDE DEF Rule
  <2>2. [i \in 1..N |-> i \in S] = [i \in 1..N |-> Rule(f, i)]
    BY <2>1, Zenon
  <2> QED
    BY <2>2
<1>5. Is(start)
  <2> HIDE DEF Is, f
  <2> QED
    BY <1>4
<1>6. \A i \in 1..N : start[i] = Rule(start, i)
  <2> HIDE DEF start, Rule
  <2> QED
    BY <1>5, Zenon
<1> HIDE DEF start, Is, Rule
<1>7. ASSUME NEW i \in 1..N PROVE i \in Starts(words) <=> Follows(words, Starts(words), i)
  <2>1. i \in Starts(words) <=> start[i]
    BY <1>1, Zenon
  <2>2. \A j \in 1..(i - 1) : j \in 1..N
    BY <1>2
  <2>3. \A j \in 1..(i - 1) : j \in Starts(words) <=> start[j]
    BY <1>1, <2>2, Zenon
  <2>4. Rule(start, i) <=> Follows(words, Starts(words), i)
    BY <2>3, Zenon DEF Rule, Follows
  <2> QED
    BY <1>6, <2>1, <2>4, Zenon
<1>8. Starts(words) \in SUBSET (1..N)
  BY <1>1, Zenon
<1> QED
  BY <1>7, <1>8 DEF N

LEMMA SizeType ==
  ASSUME NEW words \in Seq(Word), NEW i \in 1..Len(words)
  PROVE  /\ words[i] \in Word /\ words[i].count \in Nat
         /\ EntrySize(words[i]) \in Nat /\ EntrySize(words[i]) = words[i].count + 2
<1>1. words[i] \in Word
  OBVIOUS
<1>2. words[i].count \in Nat
  BY <1>1 DEF Word
<1> QED
  BY <1>1, <1>2 DEF EntrySize

(* No packet starts inside another one.                                    *)
LEMMA Disjoint ==
  ASSUME NEW words \in Seq(Word), NEW j \in Starts(words), NEW k \in Starts(words), j < k
  PROVE  j + EntrySize(words[j]) <= k
<1> DEFINE N == Len(words) + 1
           S == Starts(words)
           Clear(i, n) == i + EntrySize(words[i]) <= n
           bad == {n \in S : \E i \in S : i < n /\ ~Clear(i, n)}
<1>1. /\ Len(words) \in Nat /\ S \in SUBSET (1..N)
      /\ \A i \in 1..N : i \in S <=> Follows(words, S, i)
  BY StartsUnfold, LenProperties
<1>2. \A i \in S : i \in Nat /\ 1 <= i /\ i <= N
  BY <1>1
<1>3. \A i, n \in S : i < n => EntrySize(words[i]) \in Nat
  <2> TAKE i, n \in S
  <2> HAVE i < n
  <2>1. i \in 1..Len(words)
    BY <1>1, <1>2
  <2> QED
    BY <2>1, SizeType
<1> SUFFICES ASSUME ~Clear(j, k) PROVE FALSE
  OBVIOUS
<1> HIDE DEF S, N
<1>4. bad # {} /\ bad \in SUBSET Nat /\ bad \subseteq S
  <2>1. j \in S /\ k \in S
    BY DEF S
  <2> QED
    BY <1>2, <2>1
<1>5. PICK n \in bad : \A x \in bad : n <= x
  <2> HIDE DEF bad
  <2> QED
    BY <1>4, LeastExists
<1>6. PICK i \in S : i < n /\ ~Clear(i, n)
  BY <1>5
<1>7. n \in S /\ n \in Nat /\ i \in Nat /\ n \in 1..N /\ n # 1
  <2>1. n \in S
    BY <1>4, <1>5
  <2> QED
    BY <1>1, <1>2, <1>6, <2>1
<1>8. PICK p \in 1..(n - 1) : p \in S /\ p + EntrySize(words[p]) = n
  BY <1>1, <1>7 DEF Follows
<1>9. p \in Nat /\ p < n
  BY <1>7, <1>8
<1>10. CASE i = p
  BY <1>6, <1>7, <1>8, <1>10
<1>11. CASE i < p
  <2>1. p \notin bad
    <3> HIDE DEF bad
    <3> QED
      BY <1>5, <1>7, <1>9
  <2>2. Clear(i, p)
    BY <1>6, <1>8, <1>11, <2>1
  <2>3. EntrySize(words[i]) \in Nat
    BY <1>3, <1>6, <1>7
  <2> HIDE DEF bad, S
  <2> QED
    BY <1>6, <1>7, <1>9, <2>2, <2>3
<1>12. CASE p < i
  <2>1. i \notin bad
    <3> HIDE DEF bad
    <3> QED
      BY <1>5, <1>6, <1>7
  <2>2. Clear(p, i)
    BY <1>6, <1>8, <1>12, <2>1
  <2> HIDE DEF bad, S
  <2> QED
    BY <1>6, <1>7, <1>8, <2>2
<1> QED
  BY <1>7, <1>9, <1>10, <1>11, <1>12

(* The packets follow each other, from the first word to the last.         *)
THEOREM Tiles ==
  ASSUME NEW words \in Seq(Word), words # << >>, Fits(words),
         NEW o, o = InOrder(Headers(words)), NEW m, m = Cardinality(Headers(words))
  PROVE  /\ m \in Nat \ {0} /\ DOMAIN o = 1..m
         /\ \A n \in 1..m : o[n] \in 1..Len(words)
         /\ o[1] = 1
         /\ \A n \in 1..(m - 1) : o[n + 1] = o[n] + EntrySize(words[o[n]])
         /\ o[m] + EntrySize(words[o[m]]) = Len(words) + 1
<1> DEFINE N == Len(words) + 1
           S == Starts(words)
           H == Headers(words)
<1>1. /\ Len(words) \in Nat \ {0} /\ S \in SUBSET (1..N)
      /\ \A i \in 1..N : i \in S <=> Follows(words, S, i)
  <2>1. Len(words) \in Nat /\ Len(words) # 0
    BY EmptySeq, LenProperties
  <2> QED
    BY <2>1, StartsUnfold
<1>2. N \in S
  BY DEF Fits
<1>3. H = S \ {N}
  BY DEF Headers
<1>4. H \in SUBSET (1..Len(words)) /\ H \in SUBSET Nat
  <2>1. \A i \in 1..N : i # N => i \in 1..Len(words)
    BY <1>1
  <2> HIDE DEF S, N, H
  <2>2. \A x \in H : x \in 1..Len(words)
    BY <1>1, <1>3, <2>1
  <2>3. \A x \in 1..Len(words) : x \in Nat
    BY <1>1
  <2> QED
    BY <2>2, <2>3
<1>5. IsFiniteSet(H)
  <2>1. IsFiniteSet(1..Len(words))
    BY <1>1, FS_Interval
  <2> HIDE DEF H
  <2> QED
    BY <1>4, <2>1, FS_Subset
<1> HIDE DEF H
<1>6. /\ m \in Nat /\ DOMAIN o = 1..m
      /\ \A n \in 1..m : o[n] \in H
      /\ \A n, k \in 1..m : n < k => o[n] < o[k]
      /\ \A x \in H : \E n \in 1..m : o[n] = x
  <2>1. o = InOrder(H) /\ m = Cardinality(H)
    BY DEF H
  <2> QED
    BY <1>4, <1>5, <2>1, InOrderIs, FS_CardinalityType
<1>7. \A n \in 1..m : o[n] \in 1..Len(words) /\ o[n] \in S
  BY <1>3, <1>4, <1>6
<1>8. 1 \in H
  <2>1. 1 \in 1..N /\ 1 # N
    BY <1>1
  <2>2. 1 \in S
    BY <1>1, <2>1 DEF Follows
  <2> QED
    BY <1>3, <2>1, <2>2
<1> HIDE DEF S, N
<1>9. 1 \in 1..m /\ o[1] = 1
  <2>1. PICK n \in 1..m : o[n] = 1
    BY <1>6, <1>8
  <2>2. 1 \in 1..m
    BY <1>6
  <2>3. n > 1 => o[1] < 1
    BY <1>6, <2>1, <2>2
  <2>4. o[1] \in Nat /\ 1 <= o[1]
    BY <1>7, <2>2
  <2>5. n = 1
    BY <2>3, <2>4, <1>6
  <2> QED
    BY <2>1, <2>2, <2>5
<1>10. ASSUME NEW x \in S, x # 1
       PROVE  \E r \in 1..m : o[r] < x /\ o[r] + EntrySize(words[o[r]]) = x
  <2>1. x \in 1..N
    BY <1>1
  <2>2. PICK p \in 1..(x - 1) : p \in S /\ p + EntrySize(words[p]) = x
    BY <1>1, <1>10, <2>1 DEF Follows
  <2>3. p < x /\ p # N
    BY <1>1, <2>1 DEF N
  <2>4. p \in H
    BY <1>3, <2>2, <2>3
  <2> QED
    BY <1>6, <2>2, <2>3, <2>4
<1>11. ASSUME NEW r \in 1..m, NEW n \in 1..m, r < n
       PROVE  o[r] + EntrySize(words[o[r]]) <= o[n]
  <2>1. o[r] \in S /\ o[n] \in S /\ o[r] < o[n]
    BY <1>6, <1>7, <1>11
  <2> QED
    BY <2>1, Disjoint DEF S
<1>12. ASSUME NEW n \in 1..(m - 1) PROVE o[n + 1] = o[n] + EntrySize(words[o[n]])
  <2>1. n \in 1..m /\ n + 1 \in 1..m /\ n < n + 1 /\ 1 < n + 1
    BY <1>6
  <2>2. o[n + 1] \in S /\ o[n + 1] # 1 /\ o[n] < o[n + 1]
    <3>1. o[1] < o[n + 1] /\ o[n + 1] \in Nat
      BY <1>6, <1>7, <1>9, <2>1
    <3> QED
      BY <1>6, <1>7, <1>9, <2>1, <3>1
  <2>3. PICK r \in 1..m : o[r] < o[n + 1] /\ o[r] + EntrySize(words[o[r]]) = o[n + 1]
    BY <1>10, <2>2
  <2>4. o[r] \in Nat /\ o[n] \in Nat /\ o[n + 1] \in Nat
    BY <1>7, <2>1
  <2>5. ~(r < n)
    <3> SUFFICES ASSUME r < n PROVE FALSE
      OBVIOUS
    <3>1. o[n + 1] <= o[n]
      BY <1>11, <2>1, <2>3
    <3> QED
      BY <2>2, <2>4, <3>1
  <2>6. ~(n + 1 < r)
    <3> SUFFICES ASSUME n + 1 < r PROVE FALSE
      OBVIOUS
    <3>1. o[n + 1] < o[r]
      BY <1>6, <2>1
    <3> QED
      BY <2>3, <2>4, <3>1
  <2>7. r # n + 1
    BY <2>3, <2>4
  <2>8. r = n
    BY <1>6, <2>5, <2>6, <2>7
  <2> QED
    BY <2>3, <2>8
<1>13. o[m] + EntrySize(words[o[m]]) = N
  <2>1. N # 1 /\ m \in 1..m
    BY <1>1, <1>6, <1>9 DEF N
  <2>2. PICK r \in 1..m : o[r] < N /\ o[r] + EntrySize(words[o[r]]) = N
    BY <1>2, <1>10, <2>1
  <2>3. ~(r < m)
    <3> SUFFICES ASSUME r < m PROVE FALSE
      OBVIOUS
    <3>1. N <= o[m]
      BY <1>11, <2>1, <2>2
    <3>2. o[m] \in 1..Len(words)
      BY <1>7, <2>1
    <3> QED
      BY <1>1, <3>1, <3>2 DEF N
  <2>4. r = m
    BY <1>6, <2>3
  <2> QED
    BY <2>2, <2>4
<1> QED
  BY <1>6, <1>7, <1>9, <1>12, <1>13 DEF N

-----------------------------------------------------------------------------
(* f is what FlattenSeq has joined after each of the first k sequences.    *)
Joined(f, seqs, V, k) ==
  /\ f \in [1..k -> Seq(V)] /\ f[1] = seqs[1]
  /\ \A i \in 2..k : f[i] = f[i - 1] \o seqs[i]

LEMMA SomeJoined ==
  ASSUME NEW V, NEW D \in Nat \ {0}, NEW seqs, \A i \in 1..D : seqs[i] \in Seq(V)
  PROVE  \E f : Joined(f, seqs, V, D)
<1> DEFINE K == {k \in Nat : k + 1 <= D => \E f : Joined(f, seqs, V, k + 1)}
<1>1. 0 \in K
  <2> DEFINE f == [i \in 1..1 |-> seqs[1]]
  <2>1. f \in [1..1 -> Seq(V)] /\ f[1] = seqs[1]
    <3>1. seqs[1] \in Seq(V)
      OBVIOUS
    <3>2. f = [i \in 1..1 |-> seqs[1]] /\ 1 \in 1..1
      OBVIOUS
    <3> HIDE DEF f
    <3> QED
      BY <3>1, <3>2, Zenon
  <2>2. \A i \in 2..1 : FALSE
    OBVIOUS
  <2> HIDE DEF f
  <2>3. Joined(f, seqs, V, 0 + 1)
    BY <2>1, <2>2 DEF Joined
  <2> QED
    BY <2>3
<1>2. ASSUME NEW k \in Nat, k \in K PROVE k + 1 \in K
  <2> SUFFICES ASSUME (k + 1) + 1 <= D PROVE \E f : Joined(f, seqs, V, (k + 1) + 1)
    OBVIOUS
  <2>1. PICK f : Joined(f, seqs, V, k + 1)
    BY <1>2
  <2> DEFINE n == (k + 1) + 1
             s == f[k + 1]
             t == seqs[n]
             g == [i \in 1..n |-> IF i = n THEN s \o t ELSE f[i]]
  <2>2. /\ f \in [1..(k + 1) -> Seq(V)] /\ f[1] = seqs[1]
        /\ \A i \in 2..(k + 1) : f[i] = f[i - 1] \o seqs[i]
    BY <2>1 DEF Joined
  <2>3. s \o t \in Seq(V)
    <3>1. s \in Seq(V) /\ t \in Seq(V)
      BY <2>2
    <3> HIDE DEF s, t
    <3> QED
      BY <3>1
  <2>4. g \in [1..n -> Seq(V)] /\ \A i \in 1..(k + 1) : g[i] = f[i]
    <3> HIDE DEF s, t
    <3> QED
      BY <2>2, <2>3
  <2>5. g[n] = s \o t
    <3>1. n \in 1..n
      OBVIOUS
    <3> HIDE DEF s, t, n
    <3> QED
      BY <3>1
  <2> HIDE DEF g
  <2>6. \A i \in 2..n : g[i] = g[i - 1] \o seqs[i]
    <3> TAKE i \in 2..n
    <3>1. i - 1 \in 1..(k + 1) /\ (i = n \/ i \in 2..(k + 1))
      OBVIOUS
    <3>2. CASE i = n
      <4>1. i - 1 = k + 1
        BY <3>2
      <4> QED
        BY <2>4, <2>5, <3>1, <3>2, <4>1
    <3>3. CASE i \in 2..(k + 1)
      <4>1. i \in 1..(k + 1)
        BY <3>3
      <4> QED
        BY <2>2, <2>4, <3>1, <3>3, <4>1
    <3> QED
      BY <3>1, <3>2, <3>3
  <2>7. g[1] = seqs[1]
    <3>1. 1 \in 1..(k + 1)
      OBVIOUS
    <3> QED
      BY <2>2, <2>4, <3>1
  <2> QED
    BY <2>4, <2>6, <2>7 DEF Joined
<1>3. D - 1 \in K
  <2> HIDE DEF K
  <2> QED
    BY <1>1, <1>2, Induction
<1>4. (D - 1) + 1 = D
  OBVIOUS
<1> QED
  BY <1>3, <1>4

LEMMA FlattenJoins ==
  ASSUME NEW V, NEW seqs \in Seq(Seq(V))
  PROVE  /\ Len(seqs) = 0 => FlattenSeq(seqs) = << >>
         /\ Len(seqs) # 0 =>
              \E f : Joined(f, seqs, V, Len(seqs)) /\ FlattenSeq(seqs) = f[Len(seqs)]
         /\ FlattenSeq(seqs) \in Seq(V)
<1> DEFINE D == Len(seqs)
<1>1. D \in Nat /\ \A i \in 1..D : seqs[i] \in Seq(V)
  BY LenProperties
<1>2. CASE D = 0
  <2>1. FlattenSeq(seqs) = seqs
    BY <1>2 DEF FlattenSeq
  <2>2. seqs = << >>
    BY <1>2, EmptySeq
  <2>3. << >> \in Seq(V)
    OBVIOUS
  <2> QED
    BY <1>2, <2>1, <2>2, <2>3
<1>3. CASE D # 0
  <2> DEFINE Is(f) == f = [i \in 1..D |-> IF i = 1 THEN seqs[i] ELSE f[i - 1] \o seqs[i]]
             flat == CHOOSE f : Is(f)
  <2>1. FlattenSeq(seqs) = flat[D]
    BY <1>3 DEF FlattenSeq
  <2> HIDE DEF D
  <2>2. PICK g : Joined(g, seqs, V, D)
    BY <1>1, <1>3, SomeJoined
  <2>3. Is(g)
    <3>1. /\ g \in [1..D -> Seq(V)] /\ g[1] = seqs[1]
          /\ \A i \in 2..D : g[i] = g[i - 1] \o seqs[i]
      BY <2>2 DEF Joined
    <3>2. ASSUME NEW i \in 1..D
          PROVE  g[i] = IF i = 1 THEN seqs[i] ELSE g[i - 1] \o seqs[i]
      <4>1. i = 1 \/ i \in 2..D
        BY <1>1
      <4> QED
        BY <3>1, <4>1
    <3>3. g = [i \in 1..D |-> g[i]]
      BY <3>1
    <3>4. [i \in 1..D |-> g[i]] = [i \in 1..D |-> IF i = 1 THEN seqs[i] ELSE g[i - 1] \o seqs[i]]
      BY <3>2, Zenon
    <3> QED
      BY <3>3, <3>4, Zenon
  <2>4. Is(flat)
    <3> HIDE DEF Is
    <3> QED
      BY <2>3
  <2>5. DOMAIN flat = 1..D /\ flat = [i \in 1..D |-> flat[i]]
    <3> HIDE DEF flat
    <3> QED
      BY <2>4, Zenon
  <2>6. \A i \in 1..D : flat[i] = IF i = 1 THEN seqs[i] ELSE flat[i - 1] \o seqs[i]
    <3> HIDE DEF flat
    <3> QED
      BY <2>4, Zenon
  <2> HIDE DEF flat, Is
  <2> DEFINE K == {k \in Nat : k + 1 <= D => flat[k + 1] = g[k + 1]}
  <2>7. /\ g \in [1..D -> Seq(V)] /\ g[1] = seqs[1]
        /\ \A i \in 2..D : g[i] = g[i - 1] \o seqs[i]
    BY <2>2 DEF Joined
  <2>8. 0 \in K
    <3>1. 1 \in 1..D
      BY <1>1, <1>3
    <3>2. flat[1] = seqs[1]
      BY <2>6, <3>1
    <3> QED
      BY <2>7, <3>2
  <2>9. ASSUME NEW k \in Nat, k \in K PROVE k + 1 \in K
    <3> DEFINE n == k + 1
    <3> SUFFICES ASSUME n + 1 <= D PROVE flat[n + 1] = g[n + 1]
      OBVIOUS
    <3>1. flat[n] = g[n]
      BY <1>1, <2>9
    <3>2. n + 1 \in 1..D /\ n + 1 \in 2..D /\ n + 1 # 1 /\ (n + 1) - 1 = n
      BY <1>1
    <3> HIDE DEF n
    <3>3. flat[n + 1] = flat[n] \o seqs[n + 1]
      BY <2>6, <3>2
    <3>4. g[n + 1] = g[n] \o seqs[n + 1]
      BY <2>7, <3>2
    <3> QED
      BY <3>1, <3>3, <3>4
  <2>10. D - 1 \in K
    <3>1. \A k \in Nat : k \in K => k + 1 \in K
      BY <2>9
    <3> HIDE DEF K
    <3>2. Nat \subseteq K
      BY <2>8, <3>1, Induction
    <3> QED
      BY <1>1, <1>3, <3>2
  <2>11. flat[D] = g[D]
    <3>1. (D - 1) + 1 = D
      BY <1>1
    <3> QED
      BY <1>1, <2>10, <3>1
  <2>12. g[D] \in Seq(V)
    BY <1>1, <1>3, <2>7
  <2> QED
    BY <1>3, <2>1, <2>2, <2>11, <2>12 DEF D
<1> QED
  BY <1>2, <1>3

-----------------------------------------------------------------------------
(* The header that an entry of a runlist was made from                     *)
Header(e) == [op |-> e.op, count |-> e.count - 1, type |-> e.type + 1]

(* If the counts are what the bodies need, an entry has the words of its   *)
(* packet.                                                                 *)
LEMMA EntryIsPacket ==
  ASSUME NEW words \in Seq(Word), NEW i \in 1..Len(words),
         i + EntrySize(words[i]) <= Len(words) + 1,
         NEW e, e = Entry(words, i), e.count = BodyWords(e)
  PROVE  /\ <<Header(e)>> \o e.body = SubSeq(words, i, (i + EntrySize(words[i])) - 1)
         /\ Len(e.body) = BodyWords(e)
<1> DEFINE w == words[i]
           last == (i + EntrySize(words[i])) - 1
           L == Len(words)
<1>1. w \in Word /\ w.count \in Nat /\ EntrySize(words[i]) = w.count + 2
  BY SizeType
<1>2. L \in Nat /\ i \in Nat
  BY LenProperties
<1>3. w = [op |-> w.op, count |-> w.count, type |-> w.type] /\ w.type \in 0..3
  BY <1>1 DEF Word
<1>4. /\ e.op = w.op /\ e.count = w.count + 1 /\ e.type = w.type - 1
      /\ e.body = SubSeq(words, i + 1, IF i + BodyWords(w) <= L THEN i + BodyWords(w) ELSE L)
  BY DEF Entry
<1>5. BodyWords(e) = BodyWords(w)
  BY <1>4 DEF BodyWords
<1>6. BodyWords(w) = w.count + 1
  BY <1>4, <1>5
<1> HIDE DEF w, L
<1>7. Header(e) = w
  <2>1. (w.count + 1) - 1 = w.count /\ (w.type - 1) + 1 = w.type
    <3> DEFINE c == w.count
               t == w.type
    <3>1. c \in Nat /\ t \in 0..3
      BY <1>1, <1>3
    <3> HIDE DEF c, t
    <3>2. (c + 1) - 1 = c /\ (t - 1) + 1 = t
      BY <3>1
    <3> QED
      BY <3>2 DEF c, t
  <2>2. Header(e) = [op |-> w.op, count |-> w.count, type |-> w.type]
    BY <1>4, <2>1 DEF Header
  <2> QED
    BY <1>3, <2>2
<1>8. last = i + (w.count + 1) /\ last \in i..L /\ last <= L
  <2> DEFINE c == w.count
             n == EntrySize(words[i])
  <2>1. c \in Nat /\ n = c + 2 /\ i + n <= L + 1
    BY <1>1 DEF L
  <2> HIDE DEF c, n
  <2>2. (i + n) - 1 = i + (c + 1) /\ (i + n) - 1 \in i..L /\ (i + n) - 1 <= L
    BY <1>2, <2>1
  <2> QED
    BY <2>2 DEF c, n
<1> HIDE DEF last
<1>9. e.body = SubSeq(words, i + 1, last)
  BY <1>4, <1>6, <1>8
<1>10. SubSeq(words, i, last) = <<words[i]>> \o SubSeq(words, i + 1, last)
  BY <1>8, SubSeqRecursiveFirst DEF L
<1>11. Len(e.body) = BodyWords(e)
  <2> DEFINE n == w.count + 1
  <2>1. n \in Nat /\ BodyWords(e) = n /\ last = i + n
    BY <1>1, <1>5, <1>6, <1>8 DEF w
  <2> HIDE DEF n
  <2>2. Len(SubSeq(words, i + 1, last)) = n
    BY <1>2, <1>8, <2>1 DEF L
  <2> QED
    BY <1>9, <2>1, <2>2
<1> QED
  BY <1>7, <1>9, <1>10, <1>11 DEF w, last

(* If the counts say what the bodies need, every body is complete, and the *)
(* packets put together are the array of words again.                      *)
THEOREM Rejoined ==
  ASSUME NEW words \in Seq(Word), words # << >>, Fits(words),
         NEW es, es = Entries(words),
         \A k \in DOMAIN es : es[k].count = BodyWords(es[k])
  PROVE  /\ words = FlattenSeq([k \in DOMAIN es |-> <<Header(es[k])>> \o es[k].body])
         /\ \A k \in DOMAIN es : Len(es[k].body) = BodyWords(es[k])
<1> DEFINE o == InOrder(Headers(words))
           m == Cardinality(Headers(words))
           L == Len(words)
           end_(k) == (o[k] + EntrySize(words[o[k]])) - 1
           pieces == [k \in 1..m |-> <<Header(es[k])>> \o es[k].body]
<1>1. /\ m \in Nat \ {0} /\ DOMAIN o = 1..m
      /\ \A n \in 1..m : o[n] \in 1..L
      /\ o[1] = 1
      /\ \A n \in 1..(m - 1) : o[n + 1] = o[n] + EntrySize(words[o[n]])
      /\ o[m] + EntrySize(words[o[m]]) = L + 1
  BY Tiles
<1>2. DOMAIN es = 1..m /\ \A k \in 1..m : es[k] = Entry(words, o[k])
  BY <1>1 DEF Entries
<1>3. L \in Nat
  BY LenProperties
<1> HIDE DEF o, m
<1>4. ASSUME NEW k \in 1..m PROVE o[k] + EntrySize(words[o[k]]) <= L + 1
  <2>1. CASE k = m
    BY <1>1, <1>3, <2>1
  <2>2. CASE k # m
    <3>1. k \in 1..(m - 1) /\ k + 1 \in 1..m
      BY <1>1, <2>2
    <3>2. o[k + 1] = o[k] + EntrySize(words[o[k]]) /\ o[k + 1] \in 1..L
      BY <1>1, <3>1
    <3> HIDE DEF L
    <3> QED
      BY <1>3, <3>2
  <2> QED
    BY <2>1, <2>2
<1>5. ASSUME NEW k \in 1..m
      PROVE  /\ pieces[k] = SubSeq(words, o[k], end_(k))
             /\ end_(k) \in o[k]..L /\ end_(k) \in Nat /\ o[k] \in 1..L
  <2>1. o[k] \in 1..L
    BY <1>1
  <2>2. EntrySize(words[o[k]]) \in Nat /\ EntrySize(words[o[k]]) >= 2
    <3> DEFINE c == words[o[k]].count
    <3>1. c \in Nat /\ EntrySize(words[o[k]]) = c + 2
      BY <2>1, SizeType
    <3> HIDE DEF c
    <3> QED
      BY <3>1
  <2>3. end_(k) \in o[k]..L /\ end_(k) \in Nat
    <3> DEFINE n == EntrySize(words[o[k]])
               i == o[k]
    <3>1. n \in Nat /\ n >= 2 /\ i \in 1..L /\ i + n <= L + 1
      BY <1>4, <2>1, <2>2
    <3> HIDE DEF n, i, L
    <3>2. (i + n) - 1 \in i..L /\ (i + n) - 1 \in Nat
      BY <1>3, <3>1
    <3> QED
      BY <3>2 DEF n, i
  <2>4. <<Header(es[k])>> \o es[k].body = SubSeq(words, o[k], end_(k))
    <3>1. o[k] + EntrySize(words[o[k]]) <= Len(words) + 1
      BY <1>4 DEF L
    <3>2. es[k] = Entry(words, o[k]) /\ es[k].count = BodyWords(es[k])
      BY <1>2
    <3> QED
      BY <2>1, <3>1, <3>2, EntryIsPacket
  <2> QED
    BY <2>1, <2>3, <2>4
<1> HIDE DEF end_, pieces, L
<1>6. pieces \in Seq(Seq(Word)) /\ Len(pieces) = m
  <2>1. ASSUME NEW k \in 1..m PROVE pieces[k] \in Seq(Word)
    <3>1. \A i \in o[k]..end_(k) : words[i] \in Word
      <4> TAKE i \in o[k]..end_(k)
      <4>1. i \in 1..L
        BY <1>3, <1>5
      <4> QED
        BY <4>1 DEF L
    <3>2. o[k] \in Int /\ end_(k) \in Int
      BY <1>3, <1>5
    <3>3. SubSeq(words, o[k], end_(k)) \in Seq(Word)
      BY <3>1, <3>2, SubSeqProperties
    <3> QED
      BY <1>5, <3>3
  <2>2. pieces \in [1..m -> Seq(Word)]
    BY <2>1 DEF pieces
  <2> QED
    BY <1>1, <2>2
<1>7. PICK f : Joined(f, pieces, Word, m) /\ FlattenSeq(pieces) = f[m]
  BY <1>1, <1>6, FlattenJoins
<1>8. /\ f \in [1..m -> Seq(Word)] /\ f[1] = pieces[1]
      /\ \A k \in 2..m : f[k] = f[k - 1] \o pieces[k]
  BY <1>7 DEF Joined
<1> DEFINE K == {k \in Nat : k + 1 <= m => f[k + 1] = SubSeq(words, 1, end_(k + 1))}
<1>9. 0 \in K
  <2>1. 1 \in 1..m
    BY <1>1
  <2>2. f[1] = SubSeq(words, 1, end_(1))
    BY <1>1, <1>5, <1>8, <2>1
  <2> QED
    BY <2>2
<1>10. ASSUME NEW k \in Nat, k \in K PROVE k + 1 \in K
  <2> DEFINE n == k + 1
  <2> SUFFICES ASSUME n + 1 <= m PROVE f[n + 1] = SubSeq(words, 1, end_(n + 1))
    OBVIOUS
  <2>1. /\ n \in 1..(m - 1) /\ n \in 1..m /\ n + 1 \in 1..m /\ n + 1 \in 2..m
        /\ (n + 1) - 1 = n /\ n <= m
    BY <1>1
  <2>2. f[n] = SubSeq(words, 1, end_(n))
    BY <1>10, <2>1
  <2> HIDE DEF n, K
  <2>3. f[n + 1] = f[n] \o pieces[n + 1]
    BY <1>8, <2>1
  <2>4. pieces[n + 1] = SubSeq(words, o[n + 1], end_(n + 1))
    BY <1>5, <2>1
  <2>5. o[n + 1] = end_(n) + 1
    <3>1. o[n + 1] = o[n] + EntrySize(words[o[n]])
      BY <1>1, <2>1
    <3>2. o[n + 1] \in 1..L
      BY <1>5, <2>1
    <3> QED
      BY <1>3, <3>1, <3>2 DEF end_
  <2>6. end_(n) \in 0..L /\ end_(n + 1) \in end_(n)..L
    <3>1. /\ end_(n) \in Nat /\ end_(n) <= L
          /\ end_(n + 1) \in Nat /\ end_(n + 1) <= L /\ o[n + 1] <= end_(n + 1)
      BY <1>3, <1>5, <2>1
    <3> QED
      BY <1>3, <2>5, <3>1
  <2>7. 1 \in 1..L + 1 /\ end_(n) \in 1 - 1..L
    BY <1>3, <2>6
  <2>8. SubSeq(words, 1, end_(n)) \o SubSeq(words, end_(n) + 1, end_(n + 1))
          = SubSeq(words, 1, end_(n + 1))
    BY <2>6, <2>7, ConcatAdjacentSubSeq DEF L
  <2> QED
    BY <2>2, <2>3, <2>4, <2>5, <2>8
<1>11. f[m] = SubSeq(words, 1, end_(m))
  <2>1. \A k \in Nat : k \in K => k + 1 \in K
    BY <1>10
  <2> HIDE DEF K
  <2>2. Nat \subseteq K
    BY <1>9, <2>1, Induction
  <2>3. m - 1 \in K /\ (m - 1) + 1 = m /\ m <= m
    BY <1>1, <2>2
  <2>4. f[(m - 1) + 1] = SubSeq(words, 1, end_((m - 1) + 1))
    BY <2>3, Zenon DEF K
  <2> QED
    BY <2>3, <2>4
<1>12. end_(m) = L
  BY <1>1, <1>3 DEF end_
<1>13. f[m] = words
  BY <1>11, <1>12, SubSeqFull DEF L
<1>14. pieces = [k \in DOMAIN es |-> <<Header(es[k])>> \o es[k].body]
  BY <1>2 DEF pieces
<1>15. ASSUME NEW k \in 1..m PROVE Len(es[k].body) = BodyWords(es[k])
  BY <1>1, <1>2, <1>4, EntryIsPacket DEF L
<1> QED
  BY <1>2, <1>7, <1>13, <1>14, <1>15

-----------------------------------------------------------------------------
End == Len(text) + 1

Runlists == {Runlist(i) : i \in Begins}

Types ==
  /\ text \in Texts /\ target \in Nodes \union {AnyNode} /\ terminated \in BOOLEAN
  /\ pc \in {"call", "loop", "build", "done", "thrown"}
  /\ state \in {"NODE", "DATA", "END", "ERROR"}
  /\ at \in 1..End /\ lastData \in 1..End /\ end \in (1..End) \union {npos}
  /\ node \in Nodes \union {AnyNode}
  /\ buffer \in Seq(Seq(Word))
  /\ results \in Seq(Runlists)

(* The runlists that begin before line p are good, and are what was        *)
(* returned; no broken node line is among the lines before p.              *)
Collected(p) ==
  LET before == Below(Begins, p)
  IN  /\ \A i \in before : Parses(Words(i))
      /\ \A b \in 1..Len(text) : b < p /\ Ended(b) => text[b].kind # "badnode"
      /\ Len(results) = Cardinality(before)
      /\ \A n \in 1..Len(results) : results[n] = Runlist(InOrder(before)[n])

(* A call that looks for a runlist has come to line p.                     *)
Looking(p) == Collected(p) /\ (target # AnyNode => Below(Begins, p) = {})

(* A call that found the runlist of line i has come to line p.             *)
Filling(i, p) ==
  /\ i \in Begins /\ i < p /\ Looking(i) /\ node = text[i].node
  /\ \A k \in (i + 1)..(p - 1) : Ended(k) /\ text[k].kind = "data"
  /\ buffer = [j \in 1..(p - 1) - i |-> text[i + j].words]

EndsAt(p) == ~Ended(p) \/ text[p].kind # "data"

Broken(p) == Ended(p) /\ text[p].kind = "badnode"

LoopInv ==
  pc = "loop" =>
    /\ state = "NODE"  => buffer = << >> /\ Looking(at)
    /\ state = "DATA"  => \E i \in Begins : Filling(i, at)
    /\ state = "END"   => /\ \E i \in Begins : Filling(i, at)
                          /\ Ended(at) /\ EndsAt(at) /\ lastData = at
    /\ state = "ERROR" => Broken(at) /\ Looking(at)

BuildInv ==
  pc = "build" =>
    \/ end = npos /\ buffer = << >> /\ Looking(End)
    \/ \E i \in Begins : \E p \in 1..End :
         Filling(i, p) /\ EndsAt(p) /\ IF end = npos THEN ~Ended(p) ELSE p = end

(* The calls stop where there is no runlist any more, at one that is not   *)
(* good, or after the only one that was asked for.                         *)
Stopped ==
  \/ Collected(End)
  \/ \E i \in Begins : Collected(i) /\ ~Parses(Words(i))
  \/ target # AnyNode /\ \E i \in Begins : Collected(i + 1)

IInv ==
  /\ Types
  /\ pc = "call" => buffer = << >> /\ Looking(IF end = npos THEN End ELSE end)
  /\ LoopInv /\ BuildInv
  /\ pc = "done" => Stopped
  /\ pc = "thrown" => Broken(at) /\ Looking(at)

-----------------------------------------------------------------------------
LEMMA TextIs ==
  ASSUME Types
  PROVE  /\ Len(text) \in Nat /\ End \in Nat /\ End = Len(text) + 1
         /\ DOMAIN text = 1..Len(text) /\ npos \notin 1..End
         /\ \A i \in 1..Len(text) : text[i] \in Line
<1>1. text \in Seq(Line) /\ npos \notin Nat
  BY TextsAssumption DEF Types
<1>2. Len(text) \in Nat /\ DOMAIN text = 1..Len(text) /\ \A i \in 1..Len(text) : text[i] \in Line
  BY <1>1, LenProperties
<1> QED
  BY <1>1, <1>2 DEF End

LEMMA LinesAre ==
  ASSUME NEW line \in Line
  PROVE  /\ line.kind = "node" => line.node \in Nodes
         /\ line.kind = "data" => line.words \in Seq(Word)
  BY DEF Line

LEMMA BeginsAre ==
  ASSUME Types
  PROVE  /\ Begins \in SUBSET (1..Len(text)) /\ Begins \in SUBSET Nat /\ IsFiniteSet(Begins)
         /\ Cardinality(Begins) \in 0..Len(text)
         /\ \A i \in Begins : Ended(i) /\ text[i].kind = "node" /\ Wanted(text[i].node)
         /\ target # AnyNode => \A i, j \in Begins : i = j
<1> DEFINE wanted == {i \in DOMAIN text : Ended(i) /\ text[i].kind = "node" /\ Wanted(text[i].node)}
<1>1. Len(text) \in Nat /\ DOMAIN text = 1..Len(text)
  BY TextIs
<1>2. Begins \subseteq wanted
  BY DEF Begins
<1>3. Begins \in SUBSET (1..Len(text)) /\ Begins \in SUBSET Nat
  BY <1>1, <1>2
<1>4. IsFiniteSet(1..Len(text)) /\ Cardinality(1..Len(text)) = Len(text)
  <2> DEFINE N == Len(text)
  <2>1. N \in Nat
    BY <1>1
  <2> HIDE DEF N
  <2>2. 1 \in Int /\ N \in Int /\ N - 1 + 1 = N
    BY <2>1
  <2>3. IsFiniteSet(1..N) /\ Cardinality(1..N) = IF 1 > N THEN 0 ELSE N - 1 + 1
    BY <2>2, FS_Interval
  <2>4. Cardinality(1..N) = N
    BY <2>1, <2>2, <2>3
  <2> QED
    BY <2>3, <2>4 DEF N
<1>5. IsFiniteSet(Begins) /\ Cardinality(Begins) \in Nat /\ Cardinality(Begins) <= Len(text)
  BY <1>3, <1>4, FS_Subset, FS_CardinalityType
<1>6. ASSUME target # AnyNode, NEW i \in Begins, NEW j \in Begins PROVE i = j
  <2>1. i <= j /\ j <= i
    BY <1>6, <1>2 DEF Begins
  <2> QED
    BY <1>3, <2>1
<1>7. \A i \in Begins : Ended(i) /\ text[i].kind = "node" /\ Wanted(text[i].node)
  BY <1>2
<1>8. Cardinality(Begins) \in 0..Len(text)
  BY <1>1, <1>5
<1> QED
  BY <1>3, <1>5, <1>6, <1>7, <1>8

(* The node line that a call finds begins a runlist.                       *)
LEMMA FoundBegins ==
  ASSUME Types, NEW i \in 1..Len(text), Ended(i), text[i].kind = "node", Wanted(text[i].node),
         target # AnyNode => Below(Begins, i) = {}
  PROVE  i \in Begins
<1> DEFINE wanted == {j \in DOMAIN text : Ended(j) /\ text[j].kind = "node" /\ Wanted(text[j].node)}
<1>1. Len(text) \in Nat /\ DOMAIN text = 1..Len(text)
  BY TextIs
<1>2. i \in wanted /\ wanted \in SUBSET Nat
  BY <1>1
<1>3. CASE target = AnyNode
  BY <1>2, <1>3 DEF Begins
<1>4. CASE target # AnyNode
  <2>1. PICK j \in wanted : \A k \in wanted : j <= k
    <3> HIDE DEF wanted
    <3> QED
      BY <1>2, LeastExists
  <2>2. j \in Begins
    BY <1>4, <2>1 DEF Begins
  <2>3. j <= i /\ ~(j < i)
    BY <1>2, <1>4, <2>1, <2>2 DEF Below
  <2>4. j \in Nat /\ i \in Nat
    BY <1>2, <2>1
  <2> QED
    BY <2>2, <2>3, <2>4
<1> QED
  BY <1>3, <1>4

(* Lines that neither begin a runlist nor are broken are passed.           *)
LEMMA Passed ==
  ASSUME Types, NEW p \in Nat, NEW q \in Nat, p <= q,
         \A k \in p..(q - 1) : k \notin Begins /\ ~Broken(k)
  PROVE  /\ Below(Begins, q) = Below(Begins, p)
         /\ Collected(p) => Collected(q)
         /\ Looking(p) => Looking(q)
<1>1. Begins \in SUBSET Nat /\ Len(text) \in Nat
  BY BeginsAre, TextIs
<1>2. ASSUME NEW k \in Nat, k < q, ~(k < p) PROVE k \notin Begins /\ ~Broken(k)
  <2>1. k \in p..(q - 1)
    BY <1>2
  <2> QED
    BY <2>1
<1>3. Below(Begins, q) = Below(Begins, p)
  <2>1. ASSUME NEW k \in Begins PROVE k < q <=> k < p
    <3>1. k \in Nat
      BY <1>1
    <3> QED
      BY <1>2, <3>1
  <2> QED
    BY <2>1 DEF Below
<1>4. ASSUME NEW b \in 1..Len(text), b < q, Ended(b),
             \A c \in 1..Len(text) : c < p /\ Ended(c) => text[c].kind # "badnode"
      PROVE  text[b].kind # "badnode"
  <2>1. b \in Nat
    BY <1>1
  <2> QED
    BY <1>2, <1>4, <2>1 DEF Broken
<1>5. Collected(p) => Collected(q)
  BY <1>3, <1>4 DEF Collected
<1> QED
  BY <1>3, <1>5 DEF Looking

(* Where there is no newline there is none any more.                       *)
LEMMA NoneEnded ==
  ASSUME Types, NEW p \in 1..End, ~Ended(p)
  PROVE  \A k \in p..(End - 1) : ~Ended(k) /\ k \notin Begins /\ ~Broken(k)
<1>1. Len(text) \in Nat /\ End = Len(text) + 1 /\ DOMAIN text = 1..Len(text)
  BY TextIs
<1> TAKE k \in p..(End - 1)
<1>2. ~Ended(k)
  <2>1. k \in 1..Len(text) /\ p \in 1..Len(text)
    BY <1>1
  <2>2. ~terminated
    BY <1>1, <2>1, Zenon DEF Ended
  <2>3. ~(p < Len(text))
    BY <1>1, <2>1, Zenon DEF Ended
  <2>4. ~(k < Len(text))
    <3> DEFINE N == Len(text)
    <3>1. N \in Nat /\ End - 1 = N
      BY <1>1
    <3>2. p \in 1..N /\ ~(p < N) /\ k \in p..N
      BY <2>1, <2>3, <3>1
    <3> HIDE DEF N
    <3>3. ~(k < N)
      BY <3>1, <3>2
    <3> QED
      BY <3>3 DEF N
  <2> QED
    BY <2>2, <2>4, Zenon DEF Ended
<1> QED
  BY <1>2, BeginsAre DEF Broken

-----------------------------------------------------------------------------
(* The data lines after line i end somewhere, and Words(i) joins them.     *)
LEMMA WordsEnd ==
  ASSUME Types, NEW i \in 1..Len(text), NEW p \in 1..End, i < p, EndsAt(p),
         \A k \in (i + 1)..(p - 1) : Ended(k) /\ text[k].kind = "data"
  PROVE  Words(i) = FlattenSeq([j \in 1..(p - 1) - i |-> text[i + j].words])
<1>1. Len(text) \in Nat /\ End = Len(text) + 1 /\ DOMAIN text = 1..Len(text)
  BY TextIs
<1> DEFINE run == {j \in (i + 1)..Len(text) :
                     \A k \in (i + 1)..j : Ended(k) /\ text[k].kind = "data"}
           n == (p - 1) - i
<1>2. run = (i + 1)..(p - 1)
  <2>1. ASSUME NEW j \in run PROVE j \in (i + 1)..(p - 1)
    <3>1. j \in (i + 1)..Len(text) /\ (p <= j => p \in (i + 1)..j)
      BY <1>1
    <3>2. ~(p <= j)
      BY <3>1 DEF EndsAt
    <3> QED
      BY <1>1, <3>1, <3>2
  <2>2. ASSUME NEW j \in (i + 1)..(p - 1) PROVE j \in run
    <3>1. j \in (i + 1)..Len(text) /\ \A k \in (i + 1)..j : k \in (i + 1)..(p - 1)
      BY <1>1
    <3> QED
      BY <3>1
  <2> HIDE DEF run
  <2> QED
    BY <2>1, <2>2
<1>3. Cardinality((i + 1)..(p - 1)) = n
  <2>1. i + 1 \in Int /\ p - 1 \in Int
    BY <1>1
  <2>2. Cardinality((i + 1)..(p - 1)) = IF i + 1 > p - 1 THEN 0 ELSE (p - 1) - (i + 1) + 1
    BY <2>1, FS_Interval
  <2> QED
    BY <1>1, <2>2
<1>4. Words(i) = FlattenSeq([j \in 1..Cardinality(run) |-> text[i + j].words])
  BY DEF Words
<1> HIDE DEF run
<1> QED
  BY <1>2, <1>3, <1>4

LEMMA WordsType ==
  ASSUME Types, NEW i \in 1..Len(text)
  PROVE  Words(i) \in Seq(Word)
<1>1. /\ Len(text) \in Nat /\ End = Len(text) + 1 /\ DOMAIN text = 1..Len(text)
      /\ \A j \in 1..Len(text) : text[j] \in Line
  BY TextIs
<1> DEFINE ends == {p \in (i + 1)..End : EndsAt(p)}
<1>2. End \in ends
  <2>1. End \in (i + 1)..End /\ End \notin 1..Len(text)
    BY <1>1
  <2> QED
    BY <1>1, <2>1 DEF EndsAt, Ended
<1>3. PICK p \in ends : \A q \in ends : p <= q
  <2>1. ends \in SUBSET Nat /\ ends # {}
    BY <1>1, <1>2
  <2> HIDE DEF ends
  <2> QED
    BY <2>1, LeastExists
<1>4. p \in 1..End /\ p \in (i + 1)..End /\ i < p /\ EndsAt(p)
  BY <1>1
<1>5. ASSUME NEW k \in (i + 1)..(p - 1) PROVE Ended(k) /\ text[k].kind = "data"
  <2>1. k \in (i + 1)..End /\ ~(p <= k)
    BY <1>1, <1>4
  <2> QED
    BY <1>3, <2>1 DEF EndsAt
<1> DEFINE n == (p - 1) - i
           lines == [j \in 1..n |-> text[i + j].words]
<1>6. Words(i) = FlattenSeq(lines)
  BY <1>4, <1>5, WordsEnd
<1>7. n \in Nat
  BY <1>4
<1>8. ASSUME NEW j \in 1..n PROVE text[i + j].words \in Seq(Word)
  <2>1. i + j \in (i + 1)..(p - 1) /\ i + j \in 1..Len(text)
    BY <1>1, <1>4
  <2> QED
    BY <1>1, <1>5, <2>1, LinesAre
<1>9. lines \in Seq(Seq(Word))
  <2> HIDE DEF n
  <2>1. lines \in [1..n -> Seq(Word)]
    BY <1>8
  <2> HIDE DEF lines
  <2> QED
    BY <1>7, <2>1
<1> HIDE DEF lines
<1> QED
  BY <1>6, <1>9, FlattenJoins

-----------------------------------------------------------------------------
(* What only the text decides stays as it is.                              *)
LEMMA SameText ==
  ASSUME UNCHANGED input
  PROVE  /\ text' = text /\ target' = target /\ terminated' = terminated
         /\ End' = End /\ Begins' = Begins /\ Runlists' = Runlists
         /\ \A i \in Nat : Words(i)' = Words(i) /\ Runlist(i)' = Runlist(i)
         /\ \A i \in Nat : Ended(i)' = Ended(i) /\ EndsAt(i)' = EndsAt(i) /\ Broken(i)' = Broken(i)
<1>1. text' = text /\ target' = target /\ terminated' = terminated
  BY DEF input
<1>2. End' = End
  BY <1>1 DEF End
<1>3. Begins' = Begins
  BY <1>1 DEF Begins, Ended, Wanted
<1>4. \A i \in Nat : Words(i)' = Words(i)
  BY <1>1 DEF Words, Ended
<1>5. \A i \in Nat : Runlist(i)' = Runlist(i)
  BY <1>1, <1>4 DEF Runlist
<1>6. \A i \in Nat : Ended(i)' = Ended(i) /\ EndsAt(i)' = EndsAt(i) /\ Broken(i)' = Broken(i)
  BY <1>1 DEF Ended, EndsAt, Broken
<1>7. Runlists' = Runlists
  BY <1>1, <1>3 DEF Runlists, Runlist, Words, Ended
<1> QED
  BY <1>1, <1>2, <1>3, <1>4, <1>5, <1>6, <1>7

LEMMA SameResults ==
  ASSUME Types, UNCHANGED <<input, results>>, NEW p
  PROVE  Collected(p)' = Collected(p) /\ Looking(p)' = Looking(p)
<1>1. /\ text' = text /\ target' = target /\ terminated' = terminated
      /\ Begins' = Begins /\ results' = results
  BY SameText
<1>2. Collected(p)' = Collected(p)
  BY <1>1 DEF Collected, Runlist, Words, Ended
<1> QED
  BY <1>1, <1>2 DEF Looking

LEMMA SameFilling ==
  ASSUME Types, UNCHANGED <<input, results, node, buffer>>, NEW i, NEW p
  PROVE  Filling(i, p)' = Filling(i, p)
<1>1. /\ text' = text /\ target' = target /\ Begins' = Begins /\ terminated' = terminated
      /\ node' = node /\ buffer' = buffer
  BY SameText
<1>2. Looking(i)' = Looking(i)
  BY SameResults
<1> QED
  BY <1>1, <1>2 DEF Filling, Ended


(* What holds of the line that the next state is at                        *)
LEMMA NextAt ==
  ASSUME NEW p, p = at'
  PROVE  /\ Looking(at)' = Looking(p)' /\ Ended(at)' = Ended(p)'
         /\ EndsAt(at)' = EndsAt(p)' /\ Broken(at)' = Broken(p)'
         /\ \A i \in Begins' : Filling(i, at)' = Filling(i, p)'
<1>1. Looking(at)' = Looking(p)'
  BY DEF Looking, Collected
<1>2. Ended(at)' = Ended(p)' /\ EndsAt(at)' = EndsAt(p)' /\ Broken(at)' = Broken(p)'
  BY DEF Ended, EndsAt, Broken
<1>3. \A i \in Begins' : Filling(i, at)' = Filling(i, p)'
  BY DEF Filling
<1> QED
  BY <1>1, <1>2, <1>3

(* Nothing begins before the first line.                                   *)
LEMMA InitInv == Init => IInv
<1> SUFFICES ASSUME Init PROVE IInv
  OBVIOUS
<1>1. /\ text \in Texts /\ target \in Nodes \union {AnyNode} /\ terminated \in BOOLEAN
      /\ pc = "call" /\ state = "NODE" /\ at = 1 /\ lastData = 1 /\ end = 1
      /\ node = target /\ buffer = << >> /\ results = << >>
  BY DEF Init
<1>2. text \in Seq(Line) /\ npos \notin Nat
  BY <1>1, TextsAssumption
<1>3. 1 \in 1..End
  BY <1>2, LenProperties DEF End
<1>4. buffer \in Seq(Seq(Word)) /\ results \in Seq(Runlists)
  BY <1>1
<1>5. Types
  BY <1>1, <1>3, <1>4 DEF Types
<1>6. Below(Begins, 1) = {}
  BY <1>5, BeginsAre DEF Below
<1>7. Cardinality({}) = 0 /\ Len(results) = 0
  BY <1>1, FS_EmptySet
<1>8. ~(\E b \in 1..Len(text) : b < 1)
  BY <1>2, LenProperties
<1>9. Collected(1)
  BY <1>6, <1>7, <1>8 DEF Collected
<1>10. Looking(1)
  BY <1>6, <1>9 DEF Looking
<1>11. end # npos
  BY <1>1, <1>2
<1> QED
  BY <1>1, <1>5, <1>10, <1>11 DEF IInv, LoopInv, BuildInv

(* A call starts where the last one stopped.                               *)
LEMMA CallInv == IInv /\ Call => IInv'
<1> SUFFICES ASSUME IInv, Call PROVE IInv'
  OBVIOUS
<1>1. Types /\ buffer = << >> /\ Looking(IF end = npos THEN End ELSE end)
  BY DEF IInv, Call
<1>2. /\ pc' = "loop" /\ state' = "NODE" /\ at' = IF end = npos THEN End ELSE end
      /\ lastData' = at' /\ UNCHANGED <<input, end, node, buffer, results>>
  BY DEF Call, End
<1>3. text' = text /\ target' = target /\ terminated' = terminated /\ End' = End /\ Runlists' = Runlists
  BY <1>2, SameText
<1>4. at' \in 1..End
  BY <1>1, <1>2, TextIs DEF Types
<1>5. Types'
  BY <1>1, <1>2, <1>3, <1>4 DEF Types
<1>6. PICK p \in 1..End : p = at'
  BY <1>4
<1>7. Looking(p)
  BY <1>1, <1>2, <1>6
<1>8. Looking(at)'
  BY <1>1, <1>2, <1>6, <1>7, SameResults, NextAt
<1> QED
  BY <1>1, <1>2, <1>5, <1>8 DEF IInv, LoopInv, BuildInv


(* The line that the next one comes after                                  *)
LEMMA LineIs ==
  ASSUME Types, HasLine
  PROVE  /\ at \in 1..Len(text) /\ at \in Nat /\ at + 1 \in 1..End /\ Ended(at)
         /\ text[at] \in Line
<1>1. Ended(at) /\ DOMAIN text = 1..Len(text) /\ at \in DOMAIN text
  BY TextIs DEF HasLine, Ended
<1> QED
  BY <1>1, TextIs

(* A line that is not the node line looked for is passed.                  *)
LEMMA NodeLineInv == IInv /\ NodeLine => IInv'
<1> SUFFICES ASSUME IInv, NodeLine PROVE IInv'
  OBVIOUS
<1>1. /\ Types /\ buffer = << >> /\ Looking(at)
      /\ pc = "loop" /\ HasLine
  BY DEF IInv, LoopInv, NodeLine
<1>2. UNCHANGED <<input, pc, lastData, end, buffer, results>>
  BY DEF NodeLine
<1>3. /\ text' = text /\ target' = target /\ terminated' = terminated /\ End' = End /\ Runlists' = Runlists
      /\ Begins' = Begins
  BY <1>2, SameText
<1>4. /\ at \in 1..Len(text) /\ at \in Nat /\ at + 1 \in 1..End /\ Ended(at)
      /\ text[at] \in Line
  BY <1>1, LineIs
<1> DEFINE line == text[at]
<1>5. CASE line.kind = "badnode" /\ Goto("ERROR", 0) /\ UNCHANGED node
  <2>1. state' = "ERROR" /\ at' = at
    BY <1>4, <1>5 DEF Goto
  <2>2. Types'
    BY <1>1, <1>2, <1>3, <1>5, <2>1 DEF Types
  <2>3. Broken(at)'
    BY <1>3, <1>4, <1>5, <2>1 DEF Broken, Ended
  <2>4. Looking(at)'
    <3>1. PICK p \in Nat : p = at
      BY <1>4
    <3> QED
      BY <1>1, <1>2, <2>1, <3>1, SameResults, NextAt
  <2> QED
    BY <1>1, <1>2, <2>1, <2>2, <2>3, <2>4 DEF IInv, LoopInv, BuildInv
<1>6. CASE line.kind = "node" /\ Wanted(line.node) /\ Goto("DATA", 1) /\ node' = line.node
  <2>1. state' = "DATA" /\ at' = at + 1
    BY <1>6 DEF Goto
  <2>2. node' \in Nodes
    BY <1>4, <1>6, LinesAre
  <2>3. Types'
    BY <1>1, <1>2, <1>3, <1>4, <2>1, <2>2 DEF Types
  <2>4. at \in Begins
    BY <1>1, <1>4, <1>6, FoundBegins DEF Looking
  <2>5. PICK i \in Begins : i = at
    BY <2>4
  <2>6. PICK p \in Nat : p = at'
    BY <1>4, <2>1
  <2>7. Looking(i)'
    BY <1>1, <1>2, <2>5, SameResults
  <2>8. p = i + 1 /\ i < p /\ i \in Nat
    BY <1>4, <2>1, <2>5, <2>6
  <2>9. ~(\E k \in (i + 1)..(p - 1) : TRUE) /\ 1..(p - 1) - i = {}
    BY <2>8
  <2>10. buffer' = [j \in 1..(p - 1) - i |-> text[i + j].words]
    <3>1. [j \in 1..(p - 1) - i |-> text[i + j].words] = << >>
      BY <2>9
    <3> QED
      BY <1>1, <1>2, <3>1
  <2>11. Filling(i, p)'
    BY <1>3, <1>6, <2>5, <2>7, <2>8, <2>9, <2>10 DEF Filling
  <2>12. Filling(i, at)'
    BY <1>3, <2>5, <2>6, <2>11, NextAt
  <2> QED
    BY <1>1, <1>2, <1>3, <2>1, <2>3, <2>5, <2>12 DEF IInv, LoopInv, BuildInv
<1>7. CASE /\ line.kind # "badnode" /\ ~(line.kind = "node" /\ Wanted(line.node))
           /\ Goto("NODE", 1) /\ UNCHANGED node
  <2>1. state' = "NODE" /\ at' = at + 1
    BY <1>7 DEF Goto
  <2>2. Types'
    BY <1>1, <1>2, <1>3, <1>4, <1>7, <2>1 DEF Types
  <2>3. at \notin Begins /\ ~Broken(at)
    BY <1>1, <1>7, BeginsAre DEF Broken
  <2>4. PICK q \in Nat : q = at
    BY <1>4
  <2>5. PICK p \in Nat : p = at'
    BY <1>4, <2>1
  <2>6. p = q + 1 /\ q <= p /\ \A k \in q..(p - 1) : k = q
    BY <2>1, <2>4, <2>5
  <2>7. \A k \in q..(p - 1) : k \notin Begins /\ ~Broken(k)
    BY <2>3, <2>4, <2>6
  <2>8. Looking(q)
    BY <1>1, <2>4
  <2>9. Looking(p)
    BY <1>1, <2>6, <2>7, <2>8, Passed
  <2>10. Looking(at)'
    BY <1>1, <1>2, <2>5, <2>9, SameResults, NextAt
  <2> QED
    BY <1>1, <1>2, <2>1, <2>2, <2>10 DEF IInv, LoopInv, BuildInv
<1> QED
  BY <1>5, <1>6, <1>7 DEF NodeLine


(* A data line adds its dwords, and any other line ends the runlist.       *)
LEMMA DataLineInv == IInv /\ DataLine => IInv'
<1> SUFFICES ASSUME IInv, DataLine PROVE IInv'
  OBVIOUS
<1>1. Types /\ pc = "loop" /\ HasLine
  BY DEF IInv, DataLine
<1>2. UNCHANGED <<input, pc, end, node, results>>
  BY DEF DataLine
<1>3. /\ text' = text /\ target' = target /\ terminated' = terminated /\ End' = End /\ Runlists' = Runlists
      /\ Begins' = Begins
  BY <1>2, SameText
<1>4. /\ at \in 1..Len(text) /\ at \in Nat /\ at + 1 \in 1..End /\ Ended(at)
      /\ text[at] \in Line
  BY <1>1, LineIs
<1>5. PICK i \in Begins : Filling(i, at)
  BY DEF IInv, LoopInv, DataLine
<1>6. i \in Nat /\ i \in 1..Len(text)
  BY <1>1, BeginsAre
<1> DEFINE line == text[at]
<1>7. CASE line.kind = "data" /\ Goto("DATA", 1) /\ buffer' = Append(buffer, line.words) /\ UNCHANGED lastData
  <2>1. state' = "DATA" /\ at' = at + 1
    BY <1>7 DEF Goto
  <2>2. line.words \in Seq(Word)
    BY <1>4, <1>7, LinesAre
  <2>3. buffer' \in Seq(Seq(Word))
    BY <1>1, <1>7, <2>2, AppendProperties DEF Types
  <2>4. Types'
    BY <1>1, <1>2, <1>3, <1>4, <1>7, <2>1, <2>3 DEF Types
  <2>5. PICK q \in Nat : q = at
    BY <1>4
  <2>6. PICK p \in Nat : p = at'
    BY <1>4, <2>1
  <2>7. p = q + 1
    BY <2>1, <2>5, <2>6
  <2>8. /\ i < q /\ Looking(i) /\ node = text[i].node
        /\ \A k \in (i + 1)..(q - 1) : Ended(k) /\ text[k].kind = "data"
        /\ buffer = [j \in 1..(q - 1) - i |-> text[i + j].words]
    BY <1>5, <2>5 DEF Filling
  <2>9. Looking(i)'
    BY <1>1, <1>2, <2>8, SameResults
  <2>10. ASSUME NEW k \in (i + 1)..(p - 1) PROVE Ended(k) /\ text[k].kind = "data"
    <3>1. k = q \/ k \in (i + 1)..(q - 1)
      BY <1>6, <2>7
    <3> QED
      BY <1>4, <1>7, <2>5, <2>8, <3>1
  <2>11. \A k \in (i + 1)..(p - 1) : Ended(k)' /\ text'[k].kind = "data"
    BY <1>2, <1>3, <1>6, <2>10, SameText
  <2> DEFINE m == (q - 1) - i
             b == [j \in 1..m |-> text[i + j].words]
  <2>12. m \in Nat /\ (p - 1) - i = m + 1 /\ i + (m + 1) = q
    BY <1>6, <2>7, <2>8
  <2> HIDE DEF m
  <2>13. buffer = b
    BY <2>8 DEF m
  <2>14. Append(b, text[q].words) = [j \in 1..(m + 1) |-> text[i + j].words]
    <3>1. DOMAIN b = 1..m /\ b = [j \in 1..m |-> b[j]]
      OBVIOUS
    <3>2. Len(b) = m /\ b \in Seq(Seq(Word))
      <4>1. b \in Seq(Seq(Word))
        BY <1>1, <2>13 DEF Types
      <4> HIDE DEF b
      <4> QED
        BY <2>12, <3>1, <4>1
    <3> HIDE DEF b
    <3>3. /\ Append(b, text[q].words) \in Seq(Seq(Word))
          /\ Len(Append(b, text[q].words)) = m + 1
          /\ \A j \in 1..m : Append(b, text[q].words)[j] = b[j]
          /\ Append(b, text[q].words)[m + 1] = text[q].words
      BY <2>2, <2>5, <3>2, AppendProperties
    <3>4. ASSUME NEW j \in 1..(m + 1)
          PROVE  Append(b, text[q].words)[j] = text[i + j].words
      <4>1. j = m + 1 \/ j \in 1..m
        BY <2>12
      <4> QED
        BY <2>12, <3>3, <4>1 DEF b
    <3> DEFINE c == Append(b, text[q].words)
    <3>5. DOMAIN c = 1..(m + 1)
      BY <2>12, <3>3, LenProperties
    <3>6. c = [j \in 1..(m + 1) |-> c[j]]
      <4> HIDE DEF c
      <4>1. c \in Seq(Seq(Word))
        BY <3>3 DEF c
      <4> QED
        BY <3>5, <4>1
    <3>7. \A j \in 1..(m + 1) : c[j] = text[i + j].words
      BY <3>4
    <3> HIDE DEF c
    <3>8. c = [j \in 1..(m + 1) |-> text[i + j].words]
      BY <3>6, <3>7, Zenon
    <3> QED
      BY <3>8 DEF c
  <2>15. buffer' = [j \in 1..(p - 1) - i |-> text[i + j].words]
    BY <1>7, <2>5, <2>12, <2>13, <2>14
  <2>16. i < p
    BY <1>6, <2>7, <2>8
  <2>17. Filling(i, p)'
    BY <1>2, <1>3, <1>5, <2>8, <2>9, <2>11, <2>15, <2>16 DEF Filling
  <2>18. Filling(i, at)'
    BY <1>3, <2>6, <2>17, NextAt
  <2> QED
    BY <1>1, <1>2, <1>3, <2>1, <2>4, <2>18 DEF IInv, LoopInv, BuildInv
<1>8. CASE line.kind # "data" /\ Goto("END", 0) /\ lastData' = at /\ UNCHANGED buffer
  <2>1. state' = "END" /\ at' = at
    BY <1>4, <1>8 DEF Goto
  <2>2. Types'
    BY <1>1, <1>2, <1>3, <1>8, <2>1 DEF Types
  <2>3. PICK p \in Nat : p = at
    BY <1>4
  <2>4. Filling(i, p)'
    BY <1>1, <1>2, <1>5, <1>8, <2>3, SameFilling
  <2>5. Ended(p)' /\ EndsAt(p)'
    BY <1>3, <1>4, <1>8, <2>3 DEF Ended, EndsAt
  <2>6. Filling(i, at)' /\ Ended(at)' /\ EndsAt(at)'
    BY <1>3, <2>1, <2>3, <2>4, <2>5, NextAt
  <2> QED
    BY <1>1, <1>2, <1>3, <1>8, <2>1, <2>2, <2>6 DEF IInv, LoopInv, BuildInv
<1> QED
  BY <1>7, <1>8 DEF DataLine

(* The end of a runlist is remembered for the next call.                   *)
LEMMA EndLineInv == IInv /\ EndLine => IInv'
<1> SUFFICES ASSUME IInv, EndLine PROVE IInv'
  OBVIOUS
<1>1. Types /\ pc = "loop" /\ state = "END"
  BY DEF IInv, EndLine
<1>2. /\ UNCHANGED <<input, state, at, lastData, node, buffer, results>>
      /\ pc' = "build" /\ end' = lastData
  BY DEF EndLine
<1>3. /\ text' = text /\ target' = target /\ terminated' = terminated /\ End' = End /\ Runlists' = Runlists
      /\ Begins' = Begins
  BY <1>2, SameText
<1>4. Types'
  BY <1>1, <1>2, <1>3 DEF Types
<1>5. PICK i \in Begins : Filling(i, at)
  BY <1>1 DEF IInv, LoopInv
<1>6. EndsAt(at) /\ lastData = at
  BY <1>1 DEF IInv, LoopInv
<1>7. PICK p \in 1..End : p = at
  BY <1>1 DEF Types
<1>8. Filling(i, p)' /\ EndsAt(p)'
  BY <1>1, <1>2, <1>3, <1>5, <1>6, <1>7, SameFilling DEF EndsAt, Ended
<1>9. p = end' /\ end' # npos
  BY <1>1, <1>2, <1>6, <1>7, TextIs
<1>10. BuildInv'
  BY <1>3, <1>8, <1>9 DEF BuildInv
<1> QED
  BY <1>2, <1>4, <1>10 DEF IInv, LoopInv

LEMMA ErrorLineInv == IInv /\ ErrorLine => IInv'
<1> SUFFICES ASSUME IInv, ErrorLine PROVE IInv'
  OBVIOUS
<1>1. Types /\ Broken(at) /\ Looking(at)
  BY DEF IInv, LoopInv, ErrorLine
<1>2. UNCHANGED <<input, state, at, lastData, end, node, buffer, results>> /\ pc' = "thrown"
  BY DEF ErrorLine
<1>3. /\ text' = text /\ target' = target /\ terminated' = terminated /\ End' = End /\ Runlists' = Runlists
      /\ Begins' = Begins
  BY <1>2, SameText
<1>4. Types'
  BY <1>1, <1>2, <1>3 DEF Types
<1>5. PICK p \in 1..End : p = at
  BY <1>1 DEF Types
<1>6. Looking(at)' /\ Broken(at)'
  BY <1>1, <1>2, <1>3, <1>5, SameResults, NextAt DEF Broken, Ended
<1> QED
  BY <1>2, <1>4, <1>6 DEF IInv, LoopInv, BuildInv

(* Where no line is left the call ends as it is.                           *)
LEMMA OutOfLinesInv == IInv /\ OutOfLines => IInv'
<1> SUFFICES ASSUME IInv, OutOfLines PROVE IInv'
  OBVIOUS
<1>1. Types /\ pc = "loop" /\ ~Ended(at) /\ LoopInv
  BY DEF IInv, OutOfLines, HasLine
<1>2. UNCHANGED <<input, state, at, lastData, node, buffer, results>> /\ pc' = "build" /\ end' = npos
  BY DEF OutOfLines
<1>3. /\ text' = text /\ target' = target /\ terminated' = terminated /\ End' = End /\ Runlists' = Runlists
      /\ Begins' = Begins
  BY <1>2, SameText
<1>4. Types'
  BY <1>1, <1>2, <1>3 DEF Types
<1>5. PICK p \in 1..End : p = at
  BY <1>1 DEF Types
<1>6. CASE state = "NODE"
  <2>1. buffer = << >> /\ Looking(p)
    BY <1>1, <1>5, <1>6 DEF LoopInv
  <2>2. End \in Nat /\ p \in Nat /\ p <= End
    BY <1>1, TextIs
  <2>3. Looking(End)
    BY <1>1, <1>5, <2>1, <2>2, NoneEnded, Passed
  <2>4. PICK e \in Nat : e = End
    BY <2>2
  <2>5. Looking(e)'
    BY <1>1, <1>2, <2>3, <2>4, SameResults
  <2>6. Looking(End)'
    BY <1>3, <2>4, <2>5 DEF Looking, Collected
  <2>7. BuildInv'
    BY <1>2, <2>1, <2>6 DEF BuildInv
  <2> QED
    BY <1>2, <1>4, <2>7 DEF IInv, LoopInv
<1>7. CASE state = "DATA"
  <2>1. PICK i \in Begins : Filling(i, p)
    BY <1>1, <1>5, <1>7 DEF LoopInv
  <2>2. Filling(i, p)' /\ ~Ended(p)' /\ EndsAt(p)'
    BY <1>1, <1>2, <1>3, <1>5, <2>1, SameFilling DEF Ended, EndsAt
  <2>3. BuildInv'
    BY <1>2, <1>3, <2>2 DEF BuildInv
  <2> QED
    BY <1>2, <1>4, <2>3 DEF IInv, LoopInv
<1>8. state \notin {"END", "ERROR"}
  BY <1>1 DEF LoopInv, Broken
<1> QED
  BY <1>1, <1>6, <1>7, <1>8 DEF Types


(* A good runlist joins those that were returned.                          *)
LEMMA Extended ==
  ASSUME Types, UNCHANGED input, NEW i \in Begins, NEW p \in Nat, i < p,
         Collected(i), Parses(Words(i)), results' = Append(results, Runlist(i)),
         \A k \in (i + 1)..(p - 1) : Ended(k) /\ text[k].kind = "data"
  PROVE  Collected(p)' /\ results' \in Seq(Runlists)
<1> DEFINE B == Below(Begins, i)
           C == Below(Begins, p)
<1>1. text' = text /\ target' = target /\ terminated' = terminated /\ Begins' = Begins
  BY SameText
<1>2. /\ Begins \in SUBSET Nat /\ i \in Nat /\ IsFiniteSet(Begins)
      /\ \A j \in Begins : text[j].kind = "node"
  BY BeginsAre
<1>3. ASSUME NEW j \in Begins PROVE j < p <=> j < i \/ j = i
  <2>1. j \in Nat /\ text[j].kind = "node" /\ i < p
    BY <1>2
  <2>2. ~(j \in (i + 1)..(p - 1))
    BY <2>1
  <2> QED
    BY <1>2, <2>1, <2>2
<1>4. C = B \union {i}
  BY <1>3 DEF Below
<1>5. B \in SUBSET Nat /\ IsFiniteSet(B) /\ \A j \in B : j < i
  <2>1. B \in SUBSET Begins
    BY DEF Below
  <2>2. IsFiniteSet(B)
    BY <1>2, <2>1, FS_Subset
  <2> QED
    BY <1>2, <2>1, <2>2 DEF Below
<1>6. /\ \A j \in B : Parses(Words(j))
      /\ \A b \in 1..Len(text) : b < i /\ Ended(b) => text[b].kind # "badnode"
      /\ Len(results) = Cardinality(B)
      /\ \A n \in 1..Len(results) : results[n] = Runlist(InOrder(B)[n])
  BY DEF Collected
<1> HIDE DEF B, C
<1>7. /\ Cardinality(C) = Cardinality(B) + 1 /\ C \in SUBSET Nat
      /\ \A n \in 1..Cardinality(B) : InOrder(C)[n] = InOrder(B)[n]
      /\ InOrder(C)[Cardinality(B) + 1] = i
  BY <1>2, <1>4, <1>5, InOrderAppend
<1>8. results \in Seq(Runlists) /\ Runlist(i) \in Runlists
  BY DEF Types, Runlists
<1>9. /\ results' \in Seq(Runlists) /\ Len(results') = Len(results) + 1
       /\ \A n \in 1..Len(results) : results'[n] = results[n]
       /\ results'[Len(results) + 1] = Runlist(i)
  BY <1>8, AppendProperties
<1>10. \A j \in C : Parses(Words(j))
  BY <1>4, <1>6
<1>11. ASSUME NEW b \in 1..Len(text), b < p, Ended(b) PROVE text[b].kind # "badnode"
  <2>1. b \in Nat /\ (b < i \/ b = i \/ b \in (i + 1)..(p - 1))
    BY <1>2, <1>11, TextIs
  <2>2. text[i].kind = "node"
    BY <1>2
  <2> QED
    BY <1>6, <1>11, <2>1, <2>2
<1>12. ASSUME NEW n \in 1..Len(results') PROVE results'[n] = Runlist(InOrder(C)[n])
  <2>1. Len(results) \in Nat
    BY <1>8, LenProperties
  <2>2. n \in 1..Len(results) \/ n = Len(results) + 1
    BY <1>9, <2>1
  <2>3. CASE n \in 1..Len(results)
    BY <1>6, <1>7, <1>9, <2>3
  <2>4. CASE n = Len(results) + 1
    BY <1>6, <1>7, <1>9, <2>4
  <2> QED
    BY <2>2, <2>3, <2>4
<1>13. Len(results') = Cardinality(C)
  BY <1>6, <1>7, <1>9
<1>14. Collected(p)'
  <2>1. Below(Begins, p)' = Below(Begins, p)
    BY <1>1
  <2>2. \A j \in Below(Begins, p) : Parses(Words(j)')
    BY <1>1, <1>10 DEF C, Words, Ended
  <2>3. \A n \in 1..Len(results') : results'[n] = Runlist(InOrder(Below(Begins, p))[n])'
    <3>1. \A n \in 1..Len(results') : results'[n] = Runlist(InOrder(Below(Begins', p))[n])
      BY <1>1, <1>12, Zenon DEF C
    <3> TAKE n \in 1..Len(results')
    <3>2. PICK x : x = InOrder(Below(Begins', p))[n]
      OBVIOUS
    <3>3. results'[n] = Runlist(x)
      BY <3>1, <3>2, Zenon
    <3>4. Runlist(x) = Runlist(x)'
      BY <1>1 DEF Runlist, Words, Ended
    <3>5. Runlist(x)' = Runlist(InOrder(Below(Begins, p))[n])'
      BY <3>2 DEF Runlist, Words, Ended
    <3> QED
      BY <3>3, <3>4, <3>5
  <2>4. \A b \in 1..Len(text') : b < p /\ Ended(b)' => text'[b].kind # "badnode"
    BY <1>1, <1>11 DEF Ended
  <2>5. Len(results') = Cardinality(Below(Begins, p)')
    BY <1>13, <2>1 DEF C
  <2> QED
    BY <2>1, <2>2, <2>3, <2>4, <2>5 DEF Collected
<1> QED
  BY <1>9, <1>14

LEMMA FilledWords ==
  ASSUME Types, NEW i \in Begins, NEW p \in 1..End, Filling(i, p), EndsAt(p)
  PROVE  Words(i) = FlattenSeq(buffer)
<1>1. i \in 1..Len(text)
  BY BeginsAre
<1> QED
  BY <1>1, WordsEnd DEF Filling

(* What is built is the runlist that was begun.                            *)
LEMMA BuiltInv == IInv /\ Built => IInv'
<1> SUFFICES ASSUME IInv, Built PROVE IInv'
  OBVIOUS
<1>1. Types /\ pc = "build" /\ BuildInv /\ Parses(FlattenSeq(buffer))
  BY DEF IInv, Built
<1>2. /\ UNCHANGED <<input, state, at, lastData, end, node>> /\ buffer' = << >>
      /\ pc' = (IF target = AnyNode THEN "call" ELSE "done")
      /\ results' = Append(results, [node |-> node, entries |-> Entries(FlattenSeq(buffer))])
  BY DEF Built
<1>3. /\ text' = text /\ target' = target /\ terminated' = terminated /\ End' = End /\ Runlists' = Runlists
      /\ Begins' = Begins
  BY <1>2, SameText
<1>4. buffer # << >>
  <2>1. FlattenSeq(<< >>) = << >>
    BY DEF FlattenSeq
  <2> QED
    BY <1>1, <2>1 DEF Parses
<1>5. PICK i \in Begins, p \in 1..End :
        Filling(i, p) /\ EndsAt(p) /\ IF end = npos THEN ~Ended(p) ELSE p = end
  BY <1>1, <1>4 DEF BuildInv
<1>6. Words(i) = FlattenSeq(buffer) /\ node = text[i].node
  BY <1>1, <1>5, FilledWords DEF Filling
<1>7. results' = Append(results, Runlist(i)) /\ Parses(Words(i))
  BY <1>1, <1>2, <1>6 DEF Runlist
<1>8. /\ i < p /\ Collected(i) /\ \A k \in (i + 1)..(p - 1) : Ended(k) /\ text[k].kind = "data"
  BY <1>5 DEF Filling, Looking
<1>9. p \in Nat /\ i \in Nat /\ End \in Nat /\ p <= End /\ i + 1 \in Nat
  BY <1>1, <1>5, TextIs, BeginsAre
<1>10. Collected(p)' /\ results' \in Seq(Runlists)
  BY <1>1, <1>2, <1>7, <1>8, <1>9, Extended
<1>11. Types'
  <2>1. buffer' \in Seq(Seq(Word)) /\ pc' \in {"call", "done"}
    BY <1>2
  <2> QED
    BY <1>1, <1>2, <1>3, <1>10, <2>1 DEF Types
<1>12. CASE target = AnyNode
  <2>1. PICK q \in Nat : q = IF end = npos THEN End ELSE end
    BY <1>5, <1>9
  <2>2. p <= q /\ \A k \in p..(q - 1) : k \notin Begins /\ ~Broken(k)
    <3>1. CASE end = npos
      BY <1>1, <1>5, <1>9, <2>1, <3>1, NoneEnded
    <3>2. CASE end # npos
      <4>1. q = p /\ p..(q - 1) = {}
        BY <1>5, <1>9, <2>1, <3>2
      <4> QED
        BY <1>9, <4>1
    <3> QED
      BY <3>1, <3>2
  <2>3. Below(Begins, q) = Below(Begins, p)
    BY <1>1, <1>9, <2>2, Passed
  <2>4. Collected(q)'
    <3>1. Below(Begins', q) = Below(Begins', p)
      BY <1>3, <2>3
    <3>2. ASSUME NEW b \in 1..Len(text'), b < q, ~(b < p) PROVE ~Broken(b)
      <4>1. b \in p..(q - 1)
        BY <1>1, <1>3, <1>9, <3>2, TextIs
      <4> QED
        BY <2>2, <4>1
    <3>3. \A b \in 1..Len(text') : b < q /\ Ended(b)' => text'[b].kind # "badnode"
      BY <1>3, <1>10, <3>2 DEF Collected, Broken, Ended
    <3> QED
      BY <1>10, <3>1, <3>3 DEF Collected
  <2>5. Looking(q)'
    BY <1>3, <1>12, <2>4 DEF Looking
  <2>6. Looking(IF end = npos THEN End ELSE end)'
    <3>1. q = IF end' = npos THEN End' ELSE end'
      BY <1>2, <1>3, <2>1
    <3> QED
      BY <2>5, <3>1 DEF Looking, Collected
  <2> QED
    BY <1>2, <1>11, <1>12, <2>6 DEF IInv, LoopInv, BuildInv
<1>13. CASE target # AnyNode
  <2>1. i < i + 1 /\ \A k \in (i + 1)..((i + 1) - 1) : FALSE
    BY <1>9
  <2>2. Collected(i + 1)'
    BY <1>1, <1>2, <1>7, <1>8, <1>9, <2>1, Extended
  <2>3. Stopped'
    BY <1>3, <1>13, <2>2 DEF Stopped
  <2> QED
    BY <1>2, <1>11, <1>13, <2>3 DEF IInv, LoopInv, BuildInv
<1> QED
  BY <1>12, <1>13


(* Where nothing is built there is no runlist any more, or a bad one.      *)
LEMMA NotBuiltInv == IInv /\ NotBuilt => IInv'
<1> SUFFICES ASSUME IInv, NotBuilt PROVE IInv'
  OBVIOUS
<1>1. Types /\ pc = "build" /\ BuildInv /\ ~Parses(FlattenSeq(buffer))
  BY DEF IInv, NotBuilt
<1>2. /\ UNCHANGED <<input, state, at, lastData, end, node, results>>
      /\ buffer' = << >> /\ pc' = "done"
  BY DEF NotBuilt
<1>3. /\ text' = text /\ target' = target /\ terminated' = terminated /\ End' = End /\ Runlists' = Runlists
      /\ Begins' = Begins
  BY <1>2, SameText
<1>4. Types'
  <2>1. buffer' \in Seq(Seq(Word)) /\ pc' \in {"call", "done"}
    BY <1>2
  <2> QED
    BY <1>1, <1>2, <1>3, <2>1 DEF Types
<1>5. CASE Looking(End)
  <2>1. PICK e \in Nat : e = End
    BY <1>1, TextIs
  <2>2. Collected(e)'
    BY <1>1, <1>2, <1>5, <2>1, SameResults DEF Looking
  <2>3. Collected(End)'
    BY <1>3, <2>1, <2>2 DEF Collected
  <2>4. Stopped'
    BY <2>3 DEF Stopped
  <2> QED
    BY <1>2, <1>4, <2>4 DEF IInv, LoopInv, BuildInv
<1>6. ASSUME NEW i \in Begins, NEW p \in 1..End, Filling(i, p), EndsAt(p) PROVE IInv'
  <2>1. ~Parses(Words(i))
    BY <1>1, <1>6, FilledWords
  <2>2. Collected(i)' /\ i \in Nat
    BY <1>1, <1>2, <1>6, SameResults, BeginsAre DEF Filling, Looking
  <2>3. ~Parses(Words(i)')
    BY <1>2, <2>1, <2>2, SameText
  <2>4. Stopped'
    BY <1>3, <2>2, <2>3 DEF Stopped
  <2> QED
    BY <1>2, <1>4, <2>4 DEF IInv, LoopInv, BuildInv
<1> QED
  BY <1>1, <1>5, <1>6 DEF BuildInv

LEMMA StutterInv == IInv /\ UNCHANGED vars => IInv'
<1> SUFFICES ASSUME IInv, UNCHANGED vars PROVE IInv'
  OBVIOUS
<1>1. UNCHANGED <<input, pc, state, at, lastData, end, node, buffer, results>>
  BY DEF vars
<1>2. text' = text /\ target' = target /\ terminated' = terminated
  BY <1>1 DEF input
<1>3. Types' = Types
  BY <1>1, <1>2 DEF Types, End, Runlists, Runlist, Words, Begins, Ended, Wanted
<1>4. LoopInv' = LoopInv
  BY <1>1, <1>2 DEF LoopInv, Runlist, Words, Begins, Ended, Wanted, Looking, Collected, Filling,
    EndsAt, Broken
<1>5. BuildInv' = BuildInv
  BY <1>1, <1>2 DEF BuildInv, End, Runlist, Words, Begins, Ended, Wanted, Looking, Collected, Filling,
    EndsAt
<1>6. Stopped' = Stopped
  BY <1>1, <1>2 DEF Stopped, End, Runlist, Words, Begins, Ended, Wanted, Collected
<1>7. Looking(IF end = npos THEN End ELSE end)' = Looking(IF end = npos THEN End ELSE end)
  BY <1>1, <1>2 DEF End, Runlist, Words, Begins, Ended, Wanted, Looking, Collected
<1>8. Broken(at)' = Broken(at) /\ Looking(at)' = Looking(at)
  BY <1>1, <1>2 DEF Broken, Runlist, Words, Begins, Ended, Wanted, Looking, Collected
<1> QED
  BY <1>1, <1>3, <1>4, <1>5, <1>6, <1>7, <1>8 DEF IInv

(* What a call has come past is a good part of the text: the runlists in   *)
(* it, which were returned, and no broken node line.                       *)
THEOREM Invariant == Spec => []IInv
<1>1. IInv /\ [Next]_vars => IInv'
  <2> SUFFICES ASSUME IInv, [Next]_vars PROVE IInv'
    OBVIOUS
  <2>1. CASE Call
    BY <2>1, CallInv
  <2>2. CASE NodeLine
    BY <2>2, NodeLineInv
  <2>3. CASE DataLine
    BY <2>3, DataLineInv
  <2>4. CASE EndLine
    BY <2>4, EndLineInv
  <2>5. CASE ErrorLine
    BY <2>5, ErrorLineInv
  <2>6. CASE OutOfLines
    BY <2>6, OutOfLinesInv
  <2>7. CASE Built
    BY <2>7, BuiltInv
  <2>8. CASE NotBuilt
    BY <2>8, NotBuiltInv
  <2>9. CASE UNCHANGED vars
    BY <2>9, StutterInv
  <2> QED
    BY <2>1, <2>2, <2>3, <2>4, <2>5, <2>6, <2>7, <2>8, <2>9 DEF Next
<1> QED
  BY <1>1, InitInv, PTL DEF Spec

-----------------------------------------------------------------------------
(* In every state a part of the text is done with.                         *)
LEMMA SomeCollected ==
  ASSUME IInv PROVE \E p \in Nat : Collected(p)
<1>1. /\ Types /\ at \in Nat /\ End \in Nat /\ \A p \in 1..End : p \in Nat
      /\ \A i \in Begins : i \in Nat /\ i + 1 \in Nat
  BY TextIs, BeginsAre DEF IInv, Types
<1>2. CASE pc = "call"
  <2>1. (IF end = npos THEN End ELSE end) \in Nat
    BY <1>1 DEF Types
  <2> QED
    BY <1>2, <2>1 DEF IInv, Looking
<1>3. CASE pc = "loop"
  BY <1>1, <1>3 DEF IInv, LoopInv, Looking, Filling, Types
<1>4. CASE pc = "build"
  BY <1>1, <1>4 DEF IInv, BuildInv, Looking, Filling
<1>5. CASE pc = "done"
  BY <1>1, <1>5 DEF IInv, Stopped
<1>6. CASE pc = "thrown"
  BY <1>1, <1>6 DEF IInv, Looking
<1> QED
  BY <1>1, <1>2, <1>3, <1>4, <1>5, <1>6 DEF Types

(* Every returned runlist is one of the text's, so there are no more of    *)
(* them than lines.                                                        *)
THEOREM TypeCorrect == Spec => []TypeOK
<1>1. IInv => TypeOK
  <2> SUFFICES ASSUME IInv PROVE TypeOK
    OBVIOUS
  <2>1. PICK p \in Nat : Collected(p)
    BY SomeCollected
  <2>2. /\ Begins \in SUBSET Nat /\ IsFiniteSet(Begins) /\ Cardinality(Begins) \in 0..Len(text)
        /\ Len(text) \in Nat
    BY BeginsAre, TextIs DEF IInv
  <2>3. Len(results) \in Nat /\ Len(results) <= Cardinality(Begins)
    <3>1. Cardinality(Below(Begins, p)) \in Nat /\ Cardinality(Below(Begins, p)) <= Cardinality(Begins)
      BY <2>2, InOrderBelow
    <3> QED
      BY <2>1, <3>1 DEF Collected
  <2>4. Len(results) <= Len(text)
    BY <2>2, <2>3
  <2> QED
    BY <2>4 DEF TypeOK, IInv, Types, End
<1> QED
  BY <1>1, Invariant, PTL


(* Good runlists come before the first bad one, whatever follows it.       *)
LEMMA GoodBelow ==
  ASSUME Types, NEW p \in Nat, Collected(p)
  PROVE  /\ Good \in SUBSET Begins /\ Below(Begins, p) \in SUBSET Good
         /\ \A i \in Good, j \in Begins : j < i => Parses(Words(j))
         /\ \A i \in Good : Parses(Words(i))
<1>1. Begins \in SUBSET Nat /\ \A i \in Below(Begins, p) : i \in Begins /\ i < p /\ Parses(Words(i))
  BY BeginsAre DEF Collected, Below
<1>2. ASSUME NEW i \in Below(Begins, p) PROVE i \in Good
  <2>1. ASSUME NEW j \in Begins, j < i PROVE Parses(Words(j))
    <3>1. j \in Nat /\ i \in Nat /\ i < p
      BY <1>1
    <3>2. j \in Below(Begins, p)
      BY <2>1, <3>1 DEF Below
    <3> QED
      BY <1>1, <3>2
  <2> QED
    BY <1>1, <2>1 DEF Good, Reached
<1> QED
  BY <1>2 DEF Good, Reached

(* When the calls have come to an end, all good runlists are behind the    *)
(* line where they ended, and no broken node line was met.                 *)
LEMMA StoppedAt ==
  ASSUME Types, Stopped
  PROVE  /\ \E p \in Nat : Collected(p) /\ Good = Below(Begins, p)
         /\ Met = {}
<1>1. /\ Begins \in SUBSET (1..Len(text)) /\ Begins \in SUBSET Nat
      /\ \A i \in Begins : text[i].kind = "node"
      /\ target # AnyNode => \A i, j \in Begins : i = j
  BY BeginsAre
<1>2. Len(text) \in Nat /\ End \in Nat /\ End = Len(text) + 1 /\ DOMAIN text = 1..Len(text)
  BY TextIs
<1>3. \A b \in Met : /\ b \in 1..Len(text) /\ b \in Nat /\ Ended(b) /\ text[b].kind = "badnode"
                     /\ \A i \in Begins : i < b => Parses(Words(i)) /\ (target = AnyNode)
  BY <1>2 DEF Met
<1>4. \A p \in Nat : Collected(p) => \A b \in Met : ~(b < p)
  BY <1>3 DEF Collected
<1>5. CASE Collected(End)
  <2>1. \A i \in Begins : i < End
    BY <1>1, <1>2
  <2>2. Below(Begins, End) = Begins
    BY <2>1 DEF Below
  <2>3. Good = Below(Begins, End)
    BY <1>2, <1>5, <2>2, GoodBelow
  <2>4. \A b \in Met : b < End
    BY <1>2, <1>3
  <2>5. Met = {}
    BY <1>2, <1>4, <1>5, <2>4
  <2> QED
    BY <1>2, <1>5, <2>3, <2>5
<1>6. ASSUME NEW i \in Begins, Collected(i), ~Parses(Words(i))
      PROVE  Good = Below(Begins, i) /\ i \in Nat /\ Met = {}
  <2>1. i \in Nat
    BY <1>1
  <2>2. /\ Good \in SUBSET Begins /\ Below(Begins, i) \in SUBSET Good
        /\ \A j \in Good, k \in Begins : k < j => Parses(Words(k))
        /\ \A j \in Good : Parses(Words(j))
    BY <1>6, <2>1, GoodBelow
  <2>3. ASSUME NEW j \in Good PROVE j \in Below(Begins, i)
    <3>1. j \in Begins /\ j \in Nat /\ ~(i < j) /\ j # i
      BY <1>1, <1>6, <2>2
    <3>2. j < i
      BY <2>1, <3>1
    <3> QED
      BY <3>1, <3>2 DEF Below
  <2>4. ASSUME NEW b \in Met PROVE FALSE
    <3>1. b \in Nat /\ ~(b < i) /\ b # i /\ ~(i < b)
      BY <1>1, <1>3, <1>4, <1>6, <2>1
    <3> QED
      BY <2>1, <3>1
  <2> QED
    BY <2>1, <2>2, <2>3, <2>4
<1>7. ASSUME target # AnyNode, NEW i \in Begins, Collected(i + 1)
      PROVE  Good = Below(Begins, i + 1) /\ i + 1 \in Nat /\ Met = {}
  <2>1. i \in Nat /\ i + 1 \in Nat /\ i < i + 1
    BY <1>1
  <2>2. i \in Below(Begins, i + 1)
    BY <2>1 DEF Below
  <2>3. Good \in SUBSET Begins /\ Below(Begins, i + 1) \in SUBSET Good
    BY <1>7, <2>1, GoodBelow
  <2>4. \A j \in Begins : j = i
    BY <1>1, <1>7
  <2>5. ASSUME NEW b \in Met PROVE FALSE
    <3>1. b \in Nat /\ ~(b < i + 1) /\ ~(i < b)
      BY <1>3, <1>4, <1>7, <2>1
    <3> QED
      BY <2>1, <3>1
  <2> QED
    BY <2>1, <2>2, <2>3, <2>4, <2>5
<1> QED
  BY <1>5, <1>6, <1>7 DEF Stopped

LEMMA PrefixIs ==
  ASSUME NEW V, NEW s \in Seq(V), NEW t \in Seq(V), Len(s) <= Len(t),
         \A n \in 1..Len(s) : s[n] = t[n]
  PROVE  IsPrefix(s, t)
<1>1. Len(s) \in Nat /\ Len(t) \in Nat /\ \A n \in 1..Len(s) : n \in 1..Len(t)
  BY LenProperties
<1> DEFINE u == SubSeq(s, 1, Len(s))
           v == SubSeq(t, 1, Len(s))
<1>2. u \in Seq(V) /\ Len(u) = Len(s) /\ \A n \in 1..Len(s) : u[n] = s[n]
  BY <1>1
<1>3. v \in Seq(V) /\ Len(v) = Len(s) /\ \A n \in 1..Len(s) : v[n] = t[n]
  BY <1>1
<1> HIDE DEF u, v
<1>4. u = v
  BY <1>1, <1>2, <1>3
<1> QED
  BY <1>4 DEF IsPrefix, u, v

(* The calls return the runlists of the text in order, up to the first     *)
(* node that has none, and Parse throws just when it meets a broken node   *)
(* line.                                                                   *)
THEOREM ReturnedInOrder == Spec => []RunlistsInOrder
<1>1. IInv => RunlistsInOrder
  <2> SUFFICES ASSUME IInv PROVE RunlistsInOrder
    OBVIOUS
  <2> DEFINE T == {i \in Good : pc = "thrown" => \A b \in Met : i < b}
             order == InOrder(T)
             Came(p) == Collected(p) /\ Below(T, p) = Below(Begins, p)
             Complete == pc \in {"done", "thrown"} =>
                           Len(results) = Cardinality(T) /\ (pc = "thrown" <=> Met # {})
  <2>1. /\ Types /\ Begins \in SUBSET Nat /\ IsFiniteSet(Begins)
        /\ results \in Seq(Runlists) /\ DOMAIN text = 1..Len(text)
    BY BeginsAre, TextIs DEF IInv, Types
  <2>2. Good \in SUBSET Begins
    BY DEF Good, Reached
  <2>3. T \in SUBSET Nat /\ T \in SUBSET Begins /\ IsFiniteSet(T)
    <3>1. T \in SUBSET Begins
      BY <2>2
    <3> HIDE DEF T
    <3> QED
      BY <2>1, <3>1, FS_Subset
  <2>4. ASSUME pc = "thrown" PROVE (\E p \in Nat : Came(p)) /\ Complete
    <3>1. Broken(at) /\ Looking(at) /\ Collected(at) /\ at \in Nat /\ at \in DOMAIN text
      BY <2>1, <2>4, TextIs DEF IInv, Looking, Broken, Ended
    <3>2. at \in Met
      <4>1. ASSUME NEW i \in Begins, i < at PROVE Parses(Words(i)) /\ target = AnyNode
        <5>1. i \in Below(Begins, at)
          BY <4>1 DEF Below
        <5> QED
          BY <3>1, <5>1 DEF Looking, Collected
      <4> QED
        BY <3>1, <4>1 DEF Met, Broken
    <3>3. \A b \in Met : b \in Nat /\ ~(b < at)
      BY <2>1, <3>1 DEF Met, Collected
    <3>4. Below(Begins, at) \in SUBSET Good
      BY <2>1, <3>1, GoodBelow
    <3>5. ASSUME NEW i \in Below(Begins, at) PROVE i \in T
      <4>1. i \in Good /\ i \in Nat /\ i < at
        BY <2>1, <3>4 DEF Below
      <4>2. \A b \in Met : i < b
        BY <3>1, <3>3, <4>1
      <4> QED
        BY <4>1, <4>2
    <3>6. \A i \in T : i \in Begins /\ i < at
      BY <2>2, <2>4, <3>2
    <3>7. T = Below(Begins, at)
      BY <3>5, <3>6 DEF Below
    <3> HIDE DEF T
    <3>8. Below(T, at) = Below(Begins, at)
      BY <3>6, <3>7 DEF Below
    <3>9. Came(at) /\ Len(results) = Cardinality(T)
      BY <3>1, <3>7, <3>8 DEF Collected
    <3>10. Met # {}
      BY <3>2
    <3> HIDE DEF Came
    <3> QED
      BY <2>4, <3>1, <3>9, <3>10
  <2>5. ASSUME pc # "thrown" PROVE (\E p \in Nat : Came(p)) /\ Complete
    <3>1. T = Good
      BY <2>5
    <3>2. PICK p \in Nat : Collected(p)
      BY SomeCollected
    <3>3. Below(Begins, p) \in SUBSET Good /\ Below(Begins, p) \in SUBSET Begins
      BY <2>1, <3>2, GoodBelow DEF Below
    <3>4. Below(Good, p) = Below(Begins, p)
      BY <2>2, <3>3 DEF Below
    <3> HIDE DEF T
    <3>5. Came(p)
      BY <3>1, <3>2, <3>4
    <3>6. pc = "done" => Len(results) = Cardinality(T) /\ Met = {}
      <4> SUFFICES ASSUME pc = "done" PROVE Len(results) = Cardinality(T) /\ Met = {}
        OBVIOUS
      <4>1. Stopped
        BY DEF IInv
      <4>2. PICK q \in Nat : Collected(q) /\ Good = Below(Begins, q)
        BY <2>1, <4>1, StoppedAt
      <4>3. Met = {}
        BY <2>1, <4>1, StoppedAt
      <4> QED
        BY <3>1, <4>2, <4>3 DEF Collected
    <3> HIDE DEF Came
    <3> QED
      BY <2>5, <3>5, <3>6
  <2>6. (\E p \in Nat : Came(p)) /\ Complete
    <3> HIDE DEF Came, Complete
    <3> QED
      BY <2>4, <2>5
  <2> HIDE DEF T
  <2>7. PICK p \in Nat : Collected(p) /\ Below(T, p) = Below(Begins, p)
    BY <2>6
  <2>8. /\ Len(order) = Cardinality(T) /\ DOMAIN order = 1..Cardinality(T) /\ Cardinality(T) \in Nat
        /\ \A n \in 1..Cardinality(T) : order[n] \in T
    BY <2>3, InOrderIs, FS_CardinalityType
  <2>9. /\ Cardinality(Below(T, p)) <= Cardinality(T) /\ Cardinality(Below(T, p)) \in Nat
        /\ \A n \in 1..Cardinality(Below(T, p)) : InOrder(Below(T, p))[n] = order[n]
    BY <2>3, InOrderBelow
  <2>10. /\ Len(results) = Cardinality(Below(T, p))
         /\ \A n \in 1..Len(results) : results[n] = Runlist(InOrder(Below(T, p))[n])
    BY <2>7 DEF Collected
  <2> DEFINE u == [n \in DOMAIN order |-> Runlist(order[n])]
  <2>11. u \in Seq(Runlists) /\ Len(u) = Cardinality(T)
    <3>1. \A n \in DOMAIN order : Runlist(order[n]) \in Runlists
      BY <2>3, <2>8 DEF Runlists
    <3> HIDE DEF order
    <3>2. u \in [1..Cardinality(T) -> Runlists]
      BY <2>8, <3>1
    <3> HIDE DEF u
    <3> QED
      BY <2>8, <3>2
  <2>12. \A n \in 1..Len(results) : results[n] = u[n]
    <3> HIDE DEF order
    <3>1. \A n \in 1..Len(results) : n \in DOMAIN order
      BY <2>8, <2>9, <2>10
    <3> QED
      BY <2>9, <2>10, <3>1
  <2>13. IsPrefix(results, u)
    <3> HIDE DEF u
    <3> QED
      BY <2>1, <2>9, <2>10, <2>11, <2>12, PrefixIs
  <2> HIDE DEF u
  <2> QED
    BY <2>6, <2>8, <2>13 DEF RunlistsInOrder, T, u
<1> QED
  BY <1>1, Invariant, PTL

(* The packets of a returned runlist are all its dwords, each once and in  *)
(* order, and none is cut off at the end.                                  *)
THEOREM PacketsAreTheWords == Spec => []PacketsTile
<1>1. IInv => PacketsTile
  <2> SUFFICES ASSUME IInv, NEW n \in DOMAIN results,
                      \A k \in DOMAIN results[n].entries :
                        results[n].entries[k].count = BodyWords(results[n].entries[k])
               PROVE  /\ \A k \in DOMAIN results[n].entries :
                           Len(results[n].entries[k].body) = BodyWords(results[n].entries[k])
                      /\ \E i \in Begins :
                           Words(i) = FlattenSeq([k \in DOMAIN results[n].entries |->
                             <<Header(results[n].entries[k])>> \o results[n].entries[k].body])
    BY DEF PacketsTile, Header
  <2>1. PICK p \in Nat : Collected(p)
    BY SomeCollected
  <2>2. /\ Types /\ results \in Seq(Runlists)
        /\ Begins \in SUBSET (1..Len(text)) /\ Begins \in SUBSET Nat /\ IsFiniteSet(Begins)
    BY BeginsAre DEF IInv, Types
  <2> DEFINE B == Below(Begins, p)
             i == InOrder(B)[n]
             es == Entries(Words(i))
  <2>3. /\ \A j \in B : Parses(Words(j))
        /\ n \in 1..Cardinality(B) /\ results[n] = Runlist(i)
    <3>1. n \in 1..Len(results)
      BY <2>2, LenProperties
    <3> QED
      BY <2>1, <3>1 DEF Collected
  <2>4. B \in SUBSET Begins /\ B \in SUBSET Nat /\ IsFiniteSet(B)
    <3>1. B \in SUBSET Begins
      BY DEF Below
    <3> HIDE DEF B
    <3> QED
      BY <2>2, <3>1, FS_Subset
  <2> HIDE DEF B
  <2>5. i \in B
    BY <2>3, <2>4, InOrderIs
  <2>6. results[n].entries = es
    BY <2>3 DEF Runlist
  <2>7. i \in Begins /\ Parses(Words(i)) /\ Words(i) \in Seq(Word)
    BY <2>2, <2>3, <2>4, <2>5, WordsType
  <2> HIDE DEF i
  <2>8. Words(i) # << >> /\ Fits(Words(i))
    BY <2>7 DEF Parses
  <2>9. \A k \in DOMAIN es : es[k].count = BodyWords(es[k])
    BY <2>6
  <2>10. /\ Words(i) = FlattenSeq([k \in DOMAIN es |-> <<Header(es[k])>> \o es[k].body])
         /\ \A k \in DOMAIN es : Len(es[k].body) = BodyWords(es[k])
    BY <2>7, <2>8, <2>9, Rejoined
  <2> HIDE DEF es
  <2> QED
    BY <2>6, <2>7, <2>10
<1> QED
  BY <1>1, Invariant, PTL
=============================================================================
