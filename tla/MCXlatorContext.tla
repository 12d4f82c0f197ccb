--------------------------- MODULE MCXlatorContext ---------------------------
(* Two processes, two GPUs, two VMIDs, and base addresses that share words. *)
EXTENDS Pskfd

TwoGpus    == <<1, 2>>
MixedBases == {<<1, 1>>, <<1, 2>>, <<2, 1>>}
=============================================================================
