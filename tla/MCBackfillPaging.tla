-------------------------- MODULE MCBackfillPaging --------------------------
(* An instance of BackfillPaging for TLC.                                   *)
EXTENDS BackfillPaging

\* All there is; and a window that begins and ends inside a millisecond, has
\* younger rows after it, and begins before the last day does.
MCWindows == {<<0, 8>>, <<1, 7>>}
=============================================================================
