--------------------------- MODULE MCVenueStreams ---------------------------
(* An instance of VenueStreams for TLC; every constant is a number or a set. *)
EXTENDS VenueStreams

=============================================================================
