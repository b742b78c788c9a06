------------------------------- MODULE Quality -------------------------------
(***************************************************************************)
(* The checks and the score of one slice (quality/checks.py and            *)
(* quality/report.py): a symbol's bars of one series on one date, with the *)
(* trades of that venue and, for agg, the bars of the other series.        *)
(*                                                                         *)
(* A slice here has no quotes.  The tolerances of the comparisons (1e-6    *)
(* and less) are below the unit of a price.                                *)
(***************************************************************************)
EXTENDS Bars

Weight == [info |-> 0, minor |-> 2, major |-> 10, critical |-> 30]

\* The checks of a table <<check, severity, whether it finds something>>.
Found(table) == {[check |-> r[1], severity |-> r[2]] : r \in {x \in table : x[3]}}

CheckBarOhlc(B) == Found({
    <<"bar.high_below_body", "major", \E b \in B : b.high < Max({b.open, b.close})>>,
    <<"bar.low_above_body", "major", \E b \in B : b.low > Min({b.open, b.close})>>,
    <<"bar.high_below_low", "critical", \E b \in B : b.high < b.low>>,
    <<"bar.negative_volume", "critical", \E b \in B : b.volume < 0>>,
    <<"bar.vwap_outside_hl", "major", \E b \in B :
        b.volume > 0 /\ (b.pxv < b.low * b.volume \/ b.pxv > b.high * b.volume)>>,
    <<"bar.nonpositive_price", "critical", \E b \in B : Min({b.open, b.high, b.low, b.close}) <= 0>>})

GapsOf(B) == LET t == ByTime(B) IN [i \in 1 .. Len(t) - 1 |-> t[i + 1].ts - t[i].ts]

\* Fault: only an order that runs backwards is looked for.
CheckOrderOnly(B) == {}

\* Bars are loaded in order and begin on a second.
CheckBarTimestamps(B) ==
    Found({<<"bar.duplicate_timestamps", "major", \E b, c \in B : b # c /\ b.ts = c.ts>>})

\* Gaps that are long, and long for this slice.
CheckBarGaps(B) ==
    LET gaps  == GapsOf(B)
        over(least, k) == \E i \in DOMAIN gaps :
            gaps[i] > 1 /\ 2 * gaps[i] >= Max({2 * least, k * Median2(gaps)})
    IN  IF Cardinality(B) < 2 THEN {}
        ELSE Found({<<"bar.gaps", IF over(MajorGap, MajorK) THEN "major" ELSE "minor",
                      over(WarnGap, WarnK)>>})

CheckFlatline(B) ==
    LET t == ByTime(B)
    IN  Found({<<"bar.flatline", "minor", \E i \in 1 .. Len(t) - MinRun + 1 :
                    \A j \in i .. i + MinRun - 1 : t[j].close = t[i].close>>})

NoId == 0      \* a trade_id that is null or empty

RepeatsId(rows) == \E i, j \in DOMAIN rows : i # j /\ rows[i].id = rows[j].id /\ rows[i].id # NoId

\* Rows are loaded in order; sides are +1 or -1; 20 trades are never here.
CheckTrades(rows) == Found({
    <<"trade.nonpositive_price", "critical", \E i \in DOMAIN rows : rows[i].price <= 0>>,
    <<"trade.nonpositive_size", "major", \E i \in DOMAIN rows : rows[i].size <= 0>>,
    <<"trade.duplicate_trade_id", "major", RepeatsId(rows)>>,
    <<"trade.high_receive_lag", "minor", \E i \in DOMAIN rows : rows[i].recv - rows[i].ts > StaleLag>>})

ClosesAt(B, s) == {b.close : b \in {c \in B : c.ts = s}}

OutsideVenues(b, others) ==
    LET closes == ClosesAt(others, b.ts)
    IN  closes # {} /\ (b.close < Min(closes) \/ b.close > Max(closes))

CheckAggWithinVenueRange(B, others, venues) ==
    Found({<<"agg.outside_venue_range", "major",
             Cardinality(venues) >= 2 /\ \E b \in B : OutsideVenues(b, others)>>})

\* How far two closes are apart, beyond so many bps of their mean.
Beyond(b, c, bps) == 20000 * (b.close - c.close) - bps * (b.close + c.close)

\* More than 50 bps apart, and major from 200 on (the p99 of few seconds is
\* taken as the largest).
CheckDispersion(others) ==
    LET pairs == {p \in others \X others : p[1].ts = p[2].ts}
    IN  Found({<<"xvenue.dispersion",
                 IF \E p \in pairs : Beyond(p[1], p[2], 200) >= 0 THEN "major" ELSE "minor",
                 /\ Cardinality({b.series : b \in others}) >= 2
                 /\ \E p \in pairs : Beyond(p[1], p[2], 50) > 0>>})

\* Fault: the series are compared as they are, without being joined.
CannotCompare(B, others, venues) ==
    /\ Cardinality(venues) >= 2
    /\ \E b, c \in others : b.series # c.series /\ b.ts \notin {d.ts : d \in {e \in others : e.series = c.series}}

\* pandas joins series by time: their indexes are all equal, or each holds a time
\* once.  Series are compared only over equal indexes.
CannotJoin(B, others, venues) ==
    LET times == {b.ts : b \in others}
        names == {b.series : b \in others}
        held(C, s) == Cardinality({b \in C : b.ts = s})
        of(v) == {b \in others : b.series = v}
    IN  \/ /\ \E v, w \in names, s \in times : held(of(v), s) # held(of(w), s)
           /\ \E v \in names, s \in times : held(of(v), s) > 1
        \/ /\ Cardinality(venues) >= 2
           /\ \E s \in times : /\ held(B, s) > 0
                              /\ held(B, s) # Max({held(of(v), s) : v \in names})

RunChecks(B, rows, others, venues) ==
    CheckBarOhlc(B) \cup CheckBarTimestamps(B) \cup CheckBarGaps(B) \cup CheckFlatline(B)
    \cup CheckTrades(rows) \cup CheckAggWithinVenueRange(B, others, venues) \cup CheckDispersion(others)

\* Of the seconds with a bar of any other series, the percentage with an agg bar.
AggCoverageOfUnion(B, others) ==
    LET union == {b.ts : b \in others}
    IN  IF union = {} THEN 100
        ELSE (100 * Cardinality(union \cap {b.ts : b \in B})) \div Cardinality(union)

GradeFor(score) ==
    IF score >= 95 THEN "A" ELSE IF score >= 85 THEN "B" ELSE IF score >= 70 THEN "C"
    ELSE IF score >= 50 THEN "D" ELSE "F"

ScoreOf(base, issues) ==
    LET penalty(s) == Weight[s] * Cardinality({i \in issues : i.severity = s})
    IN  Max({0, base - (penalty("minor") + penalty("major") + penalty("critical"))})

\* A slice as it was read: the bars of its series, its trades, and for agg the
\* venues and their bars.
IssuesOf(slice) == RunChecks(slice.own, slice.rows, slice.others, slice.venues)
ScoreDay(series, slice, issues) ==
    GradeFor(ScoreOf(IF series = Agg THEN AggCoverageOfUnion(slice.own, slice.others) ELSE 100, issues))
=============================================================================
