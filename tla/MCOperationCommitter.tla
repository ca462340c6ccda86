------------------------ MODULE MCOperationCommitter ------------------------
(* Small instance of OperationCommitter with symmetric ids. *)
EXTENDS OperationCommitter, TLC

Symmetry == Permutations(Devices) \cup Permutations(BatchIds)
              \cup Permutations(OperationIds) \cup Permutations(SnapshotIds)
              \cup Permutations(Files) \cup Permutations(Calls)
=============================================================================
