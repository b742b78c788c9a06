-------------------------------- MODULE Bars --------------------------------
(***************************************************************************)
(* How trades become bars, bars longer bars, and both a score: the pure    *)
(* part of core/aggregate.py, core/consolidated.py, core/resample.py and   *)
(* quality/.                                                               *)
(*                                                                         *)
(* Times are ticks.  Prices and sizes are whole numbers.  A bar carries    *)
(* pxv, the sum of price * size, instead of vwap = pxv / volume.           *)
(***************************************************************************)
EXTENDS Integers, Sequences, SequencesExt, FiniteSets, FiniteSetsExt

CONSTANTS
    Venues,          \* spot venues, numbered as in venue_bitmask_index
    TicksPerSecond,
    MadK,            \* mad_k
    MinVenues,       \* min_venues_for_filter
    StaleLag,        \* stale_recv_lag_ms, in ticks
    WarnGap, MajorGap, WarnK, MajorK, \* thresholds of check_bar_gaps
    MinRun           \* shortest flatline

ASSUME BarsAssumption ==
    /\ Venues \subseteq Nat /\ IsFiniteSet(Venues)
    /\ TicksPerSecond \in Nat \ {0} /\ MinVenues \in Nat
    /\ MadK \in Nat \ {0}
    /\ {StaleLag, WarnGap, MajorGap, WarnK, MajorK, MinRun} \subseteq Nat

Agg == -1      \* no number of a venue
Sec(t) == t.ts \div TicksPerSecond
Secs(rows) == {Sec(rows[i]) : i \in DOMAIN rows}

\* The sum of a list of numbers.
Total(ns) ==
    LET total[i \in 0 .. Len(ns)] == IF i = 0 THEN 0 ELSE total[i - 1] + ns[i]
    IN  total[Len(ns)]

\* The members of S in the order of R, a set of pairs.
InOrder(S, R) ==
    [k \in 1 .. Cardinality(S) |-> CHOOSE x \in S : Cardinality({y \in S : <<y, x>> \in R}) = k - 1]

\* The rows at a sequence of places, and at a set of them.
RowsAt(rows, places) == [k \in DOMAIN places |-> rows[places[k]]]
Selected(rows, I) == RowsAt(rows, InOrder(I, {p \in I \X I : p[1] < p[2]}))

\* The places of keys after a stable sort.
StableSort(keys) ==
    LET I == DOMAIN keys
    IN  InOrder(I, {p \in I \X I : \/ keys[p[1]] < keys[p[2]]
                                   \/ keys[p[1]] = keys[p[2]] /\ p[1] < p[2]})

\* rows.sort(key=ts_ns), which is stable.
SortedByTs(rows) == RowsAt(rows, StableSort([i \in DOMAIN rows |-> rows[i].ts]))

\* Bars as they are loaded, by time; those of one time as they were written.
ByTime(B) ==
    InOrder(B, {p \in B \X B : \/ p[1].ts < p[2].ts
                               \/ p[1].ts = p[2].ts /\ p[1].build < p[2].build})

\* One bar of the trades `rows`, none empty, which begin at `at`.
BarOf(rows, at, series, now) ==
    LET prices == {rows[i].price : i \in DOMAIN rows}
    IN  [ts     |-> at, series |-> series, stamp |-> now,
         open   |-> Head(rows).price,       close |-> Last(rows).price,
         high   |-> Max(prices),            low   |-> Min(prices),
         volume |-> Total([i \in DOMAIN rows |-> rows[i].size]),
         pxv    |-> Total([i \in DOMAIN rows |-> rows[i].price * rows[i].size]),
         trades |-> Len(rows),
         mask   |-> IF series = Agg THEN {rows[i].venue : i \in DOMAIN rows} ELSE {}]

InSecond(rows, s) == Selected(rows, {i \in DOMAIN rows : Sec(rows[i]) = s})
BySecond(rows) == {InSecond(rows, s) : s \in Secs(rows)}

BarsFromTrades(rows, venue, now) ==
    {BarOf(part, Sec(Head(part)), venue, now) : part \in BySecond(rows)}

-----------------------------------------------------------------------------
(* The consolidated tape.                                                  *)

Precedes(t, u) ==
    \/ t.ts < u.ts
    \/ t.ts = u.ts /\ t.recv < u.recv
    \/ t.ts = u.ts /\ t.recv = u.recv /\ t.venue < u.venue

\* The heap gives the least of the heads, so a row waits for all rows before it
\* in its list: it comes out with the latest of them.
Latest(rows, i) ==
    CHOOSE t \in {rows[j] : j \in 1 .. i} : \A j \in 1 .. i : ~Precedes(t, rows[j])

Places(perVenue) == UNION {{v} \X DOMAIN perVenue[v] : v \in Venues}

MergeTrades(perVenue) ==
    LET head == [p \in Places(perVenue) |-> Latest(perVenue[p[1]], p[2])]
        order == InOrder(Places(perVenue),
                     {pq \in Places(perVenue) \X Places(perVenue) :
                         IF pq[1][1] = pq[2][1] THEN pq[1][2] < pq[2][2]
                         ELSE Precedes(head[pq[1]], head[pq[2]])})
    IN  [k \in DOMAIN order |-> perVenue[order[k][1]][order[k][2]]]

Abs(n) == IF n < 0 THEN -n ELSE n

\* Twice the median.
Median2(s) ==
    LET sorted == RowsAt(s, StableSort(s))
    IN  sorted[(Len(s) + 1) \div 2] + sorted[Len(s) \div 2 + 1]

\* Twice the deviation of each price from the median.
Deviations2(rows) ==
    LET med2 == Median2([i \in DOMAIN rows |-> rows[i].price])
    IN  [i \in DOMAIN rows |-> Abs(2 * rows[i].price - med2)]

\* Fault: < for <=, which leaves nothing of a second with one price.
FilterStrict(rows) ==
    LET dev2 == Deviations2(rows)
        mad4 == Median2(dev2)
    IN  Selected(rows, {i \in DOMAIN rows : 20000 * dev2[i] < MadK * 14826 * mad4})

\* |price - med| <= mad_k * 1.4826 * mad, or a thousandth of the median when
\* the mad is zero.
RobustFilter(rows) ==
    LET dev2 == Deviations2(rows)
        mad4 == Median2(dev2)
        near(i) == IF mad4 <= 0 THEN 1000 * dev2[i] <= Median2([j \in DOMAIN rows |-> rows[j].price])
                   ELSE 20000 * dev2[i] <= MadK * 14826 * mad4
    IN  IF Cardinality({rows[i].venue : i \in DOMAIN rows}) < MinVenues THEN rows
        ELSE Selected(rows, {i \in DOMAIN rows : near(i)})

Eligible(t) == t.recv - t.ts <= StaleLag /\ t.size > 0

\* The eligible trades of each second, filtered.
Filtered(tape) ==
    {RobustFilter(part) : part \in
        BySecond(Selected(tape, {i \in DOMAIN tape : Eligible(tape[i])}))} \ {<<>>}

\* Fault: the close is the first trade.
BuildAggBarsFirst(tape, now) ==
    {[BarOf(part, Sec(Head(part)), Agg, now) EXCEPT !.close = Head(part).price] : part \in Filtered(tape)}

BuildAggBars(tape, now) ==
    {BarOf(part, Sec(Head(part)), Agg, now) : part \in Filtered(tape)}

-----------------------------------------------------------------------------
(* Longer bars.                                                            *)

\* The mask o is a greater number than m: the highest bit in which they differ is its.
Above(o, m) == \E v \in o \ m : \A u \in m \ o : u < v

\* The window that begins at `at` of bars in time order: the mask is the
\* largest, the stamp the latest.
WindowOf(rows, at) ==
    LET all(field) == {rows[i][field] : i \in DOMAIN rows}
        sum(field) == Total([i \in DOMAIN rows |-> rows[i][field]])
    IN  [ts     |-> at, series |-> Head(rows).series, stamp |-> Max(all("stamp")),
         open   |-> Head(rows).open,        close |-> Last(rows).close,
         high   |-> Max(all("high")),       low   |-> Min(all("low")),
         volume |-> sum("volume"), pxv |-> sum("pxv"), trades |-> sum("trades"),
         mask   |-> CHOOSE m \in all("mask") : \A o \in all("mask") : ~Above(o, m)]

\* Fault: windows are closed and labelled on the right.
ResampleBarsRight(rows, seconds) ==
    LET label(b) == seconds * ((b.ts + seconds - 1) \div seconds)
    IN  {WindowOf(Selected(rows, {i \in DOMAIN rows : label(rows[i]) = w}), w) :
            w \in {label(rows[i]) : i \in DOMAIN rows}}

ResampleBars(rows, seconds) ==
    {WindowOf(Selected(rows, {i \in DOMAIN rows : rows[i].ts \div seconds = w}), w * seconds) :
        w \in {rows[i].ts \div seconds : i \in DOMAIN rows}}
=============================================================================
