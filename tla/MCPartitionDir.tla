--------------------------- MODULE MCPartitionDir ---------------------------
(* Instances of PartitionDir for TLC.                                       *)
EXTENDS PartitionDir, TLC

Symmetry == Permutations(Rows) \cup Permutations(Writers) \cup Permutations(Compactors)

\* Everything over rows that are written once; and rows that are written again,
\* and parts that come after a listing, while processes only merge and write.
Small ==
    \/ \A r \in Rows : issued[r] <= 1
    \/ crashes = 0 /\ ~tangled /\ \A q \in Queries : qpc[q] = "idle"
=============================================================================
