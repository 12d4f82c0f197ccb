----------------------------- MODULE MCXgmiVram -----------------------------
(* Instances of XgmiVram for TLC.  Three GPUs, a unit of 4, addresses of 5 *)
(* bits: VRAM sizes of nothing, less than, equal to and more than a unit.  *)
EXTENDS XgmiVram

Gpus == 1..3

Machine(hive, size, phys, drm, parts) ==
  [gpus |-> Gpus, hive |-> hive, size |-> size, phys |-> phys, drm |-> drm,
   files |-> [g \in Gpus |-> IF g \in hive THEN 3 ELSE 0], parts |-> parts, open |-> DOMAIN parts]

Permuted == {p \in [Gpus -> 0..2] : \A g, h \in Gpus : p[g] = p[h] => g = h}

(* Hives of all three GPUs in every physical order *)
Sizes == {<<5, 3, 5>>, <<5, 5, 3>>, <<3, 5, 0>>, <<0, 5, 0>>}

FullHives ==
  {Machine(Gpus, s, p, <<1, 2, 3>>, <<1, 2, 3>>) : s \in Sizes, p \in Permuted}

(* A GPU outside the hive; one without DRM nodes; one without a partition; *)
(* one with two partitions                                                 *)
OddHives ==
  LET size == <<5, 3, 4>>
  IN  {Machine({1, 3}, size, p, <<2, 1, 3>>, <<3, 2, 1>>) : p \in Permuted}
        \union {Machine(Gpus, size, p, <<3, 1>>, <<1, 3>>) : p \in Permuted}
        \union {Machine(Gpus, size, p, <<1, 2, 3>>, <<2, 1>>) : p \in Permuted}
        \union {Machine(Gpus, size, p, <<1, 2, 3>>, <<3, 2, 2, 1>>) : p \in Permuted}

(* A GPU whose debugfs name file names a DRM master does not match the     *)
(* expression of ResolveDebugFS, so its partition has no debugfs.          *)
HalfOpen ==
  {[h EXCEPT !.open = {1}] : h \in {x \in FullHives : x.size = <<5, 3, 5>>}}

(* Files of two GPUs missing from some point on, in two of the orders      *)
LackingFiles ==
  {[h EXCEPT !.files = <<3, f[1], f[2]>>] :
     h \in {x \in FullHives : x.size = <<5, 3, 5>> /\ x.phys[2] = 1}, f \in (0..3) \X (1..3)}
  \union
  {[h EXCEPT !.files[2] = f] : h \in {x \in OddHives : x.hive = {1, 3}}, f \in 1..2}

MCMachines == FullHives \union OddHives \union HalfOpen \union LackingFiles
=============================================================================
