-------------------------- MODULE MCParquetWriter --------------------------
(* An instance of ParquetWriter for TLC.                                    *)
EXTENDS ParquetWriter, TLC

CONSTANTS r1, r2, r3, r4, trades

\* Three rows of one buffer, so that appends pile up behind a pending
\* flush, and one row of the next hour, which is the next day.
ThreadRows   == {r1, r2, r3, r4}
ThreadStream == [r \in ThreadRows |-> trades]
ThreadHour   == [r \in ThreadRows |-> IF r = r4 THEN 2 ELSE 1]

\* Rows of one buffer differ in nothing, so one order of taking them stands for
\* all.  Nothing makes the feeds hand over a row, so no fairness is lost.
TakenInOrder == (r2 \in accepted => r1 \in accepted) /\ (r3 \in accepted => r2 \in accepted)
=============================================================================
