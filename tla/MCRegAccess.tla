---------------------------- MODULE MCRegAccess ----------------------------
(* Instances of RegAccess for TLC.  Threads and files are interchangeable; *)
(* every checked property is a safety property.                            *)
EXTENDS RegAccess, TLC

Symmetry == Permutations(Threads) \union Permutations(Files)
=============================================================================
