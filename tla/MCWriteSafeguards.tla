------------------------- MODULE MCWriteSafeguards --------------------------
(* Small instances of WriteSafeguards with symmetric ids. *)
EXTENDS WriteSafeguards, TLC

Symmetry == Permutations(Devices) \cup Permutations(QuarantineIds)
              \cup Permutations(Calls)
=============================================================================
