---------------------------- MODULE MCBarStore ----------------------------
(* Instances of BarStore for TLC. *)
EXTENDS BarStore

Trade(id, venue, ts, recv, price, size) ==
    [id |-> id, venue |-> venue, ts |-> ts, recv |-> recv, price |-> price, size |-> size]

\* A venue with two seconds of a window, the later trade without an id; two trades
\* of one time and venue, in either order on disk, the second an outlier; a trade
\* without a size.
DayFeed == {Trade(1, 0, 1, 3, 1000, 1), Trade(NoId, 0, 2, 2, 1001, 1),
            Trade(2, 1, 1, 4, 999, 2), Trade(3, 1, 1, 2, 3000, 1),
            Trade(4, 2, 2, 2, 1000, 0)}

\* Failures, kills and trades stored again are explored over three of these trades
\* and while the clock stands still; without them, the whole day is.
FaultFeed == {t \in DayFeed : t.id \in {1, NoId} \/ t.price = 999}
Small ==
    \/ faults + Copies = 0
    \/ clock = 0 /\ \A v \in Venues : Range(raw[v]) \subseteq FaultFeed
=============================================================================
