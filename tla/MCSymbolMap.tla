---------------------------- MODULE MCSymbolMap ----------------------------
(***************************************************************************)
(* Instances of SymbolMap for TLC.                                         *)
(***************************************************************************)
EXTENDS SymbolMap, TLC

=============================================================================
