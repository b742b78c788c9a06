--------------------------- MODULE MCHealthTracker ---------------------------
(* An instance of HealthTracker for TLC. *)
EXTENDS HealthTracker

CONSTANTS k1, k2

MCPerTick == k1 :> 2 @@ k2 :> 1

=============================================================================
