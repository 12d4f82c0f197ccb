------------------------------- MODULE Words -------------------------------
(***************************************************************************)
(* The operators & and | of C++ on unsigned numbers, by a function that    *)
(* halves them, so that it can be proved about: those of Bitwise cannot.   *)
(***************************************************************************)
EXTENDS Integers

(* The lowest bit that two numbers have in common *)
Lowest(a, b) == IF a % 2 = 1 /\ b % 2 = 1 THEN 1 ELSE 0

Masked[a \in Nat] ==
  [b \in Nat |-> IF a = 0 THEN 0 ELSE 2 * Masked[a \div 2][b \div 2] + Lowest(a, b)]

And(a, b) == Masked[a][b]

(* Adding counts twice the bits in common. *)
Or(a, b) == (a + b) - And(a, b)

(* No odd number but 1 divides a power of two. *)
PowerOfTwo(n) == n > 0 /\ \A d \in 2 .. n : n % d = 0 => d % 2 = 0
=============================================================================
