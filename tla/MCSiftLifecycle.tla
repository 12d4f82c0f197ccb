-------------------------- MODULE MCSiftLifecycle --------------------------
(* Instances of SiftLifecycle for TLC.  Clients and addresses are          *)
(* interchangeable, and no checked property is a liveness property.        *)
EXTENDS SiftLifecycle, TLC

Symmetry == Permutations(Clients) \union Permutations(Engines)
=============================================================================
