-------------------------- MODULE MCTradeReconcile --------------------------
(* An instance of TradeReconcile for TLC.                                   *)
EXTENDS TradeReconcile

\* Failing queries are looked at where the adapter rounds nothing.  No query
\* must fail, so no fairness is lost.
FailsUnlessRounds == rounds => errors = 0
=============================================================================
