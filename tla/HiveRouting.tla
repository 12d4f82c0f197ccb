---------------------------- MODULE HiveRouting ----------------------------
(***************************************************************************)
(* Hive-wide addresses.  Partition::ReadVRAM and WriteVRAM                 *)
(* (src/src/sift/partition.cc) walk the list of the hive's GPUs and take   *)
(* the size of each, rounded up to a unit, off the address until it is in  *)
(* one of them.  The walk reads nothing that changes, so it is an operator *)
(* here; XgmiVram says where the list comes from, MemTransfer what is done *)
(* with the result.                                                        *)
(***************************************************************************)
EXTENDS Integers, Sequences, SequencesExt

CONSTANTS
  Gib,       \* the unit VRAM sizes are rounded up to, 2^30 in the program
  Modulus    \* addresses are unsigned: 0..Modulus-1, 2^64 in the program

ASSUME GibAssumption     == Gib \in Nat \ {0}
ASSUME ModulusAssumption == Modulus \in Nat \ {0}

(* GPUs are numbered from 1. *)
Nobody == 0

Rounded(size) == Gib * ((size + Gib - 1) \div Gib)

(* Mutant: the size is subtracted without rounding it up. *)
MutPast(address, size) == (address - size) % Modulus

(* Mutant: the difference is signed. *)
MutPastSigned(address, size) == address - Rounded(size)

(* the address behind a GPU of that size, in unsigned arithmetic *)
Past(address, size) == (address - Rounded(size)) % Modulus

(* One turn of the loop, at a GPU with that many bytes *)
Turn(at, g, bytes) ==
  IF at.gpu # Nobody THEN at
  ELSE IF at.address < bytes THEN [gpu |-> g, address |-> at.address]
  ELSE [gpu |-> Nobody, address |-> Past(at.address, bytes)]

(* What each turn leaves: size[g] is what TotalVRAMBytes reads for g. *)
Turns(list, size, address) ==
  LET at[n \in 0..Len(list)] ==
        IF n = 0 THEN [gpu |-> Nobody, address |-> address]
        ELSE Turn(at[n - 1], list[n], size[list[n]])
  IN  at

(* The GPU of the list that is found for an address, and the address that  *)
(* is left.                                                                *)
Walk(list, size, address) == Turns(list, size, address)[Len(list)]

-----------------------------------------------------------------------------
(* The layout that the comment at partition.cc:131 describes, for a list   *)
(* in physical order: each GPU starts at a multiple of Gib.                *)
Bases(list, size) ==
  LET base[i \in 0..Len(list)] ==
        IF i = 0 THEN 0 ELSE base[i - 1] + Rounded(size[list[i]])
  IN  base

Base(list, size, i) == Bases(list, size)[i - 1]

(* The whole hive has addresses. *)
Fits(list, size) == Bases(list, size)[Len(list)] <= Modulus

Homes(list, size, address) ==
  {[gpu |-> list[i], address |-> address - Base(list, size, i)] :
     i \in {j \in DOMAIN list : /\ Base(list, size, j) <= address
                                /\ address < Base(list, size, j) + size[list[j]]}}
=============================================================================
