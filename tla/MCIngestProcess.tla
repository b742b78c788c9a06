-------------------------- MODULE MCIngestProcess --------------------------
(***************************************************************************)
(* Instances of IngestProcess for TLC; the workers are model values.       *)
(***************************************************************************)
EXTENDS IngestProcess

=============================================================================
