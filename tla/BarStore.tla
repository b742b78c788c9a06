------------------------------ MODULE BarStore ------------------------------
(***************************************************************************)
(* One symbol on one date, from trades on disk to bars and scorecards:     *)
(* scripts/build_bars_1s.py and the steps of scripts/build_dataset.py, the *)
(* reads of query/bars.py, and quality/report.py.                          *)
(*                                                                         *)
(* A build reads the trades, and for each venue and then for agg makes     *)
(* bars, stamped with the time, and writes them as a new part; nothing     *)
(* removes the bars of an earlier build.  Trades go on arriving.  One job  *)
(* runs at a time; a write, a read or DuckDB may fail under it, and it may *)
(* be killed, which leaves a torn part if it was writing one.              *)
(***************************************************************************)
EXTENDS Quality, Functions

CONSTANTS
    Feed,       \* the venues' trades
    MaxClock,   \* bound of the model: time
    MaxBuilds,  \* bound of the model: builds
    MaxFaults   \* bound of the model: failures, kills, and trades that are stored again

ASSUME StoreAssumption ==
    /\ IsFiniteSet(Feed)
    /\ \A t \in Feed : t.venue \in Venues /\ {t.ts, t.recv, t.size} \subseteq Nat /\ t.price \in Nat \ {0}
    /\ {MaxClock, MaxBuilds, MaxFaults} \subseteq Nat

VARIABLES
    raw,      \* venue -> rows in file order
    bars,     \* rows of bars_1s, each with the build that wrote it
    job,      \* "bars", "dataset" or "validate", at which step, and whether a failure
              \* raised in it
    todo,     \* venues the step has still to do
    hand,     \* bars made and not yet written
    read,     \* a build's rows, and when it read them
    builds,   \* builds so far
    log,      \* build -> rows_affected of its correction
    cards,    \* series -> scorecard
    clock,
    torn,     \* tables with a torn part: trades, or any that only DuckDB reads (bars)
    faults    \* history: failures and kills so far
vars == <<raw, bars, job, todo, hand, read, builds, log, cards, clock, torn, faults>>

Now == builds               \* the build that runs
Nothing == [at |-> 0, rows |-> [v \in Venues |-> <<>>]]
NoCard == [grade |-> "none", copied |-> FALSE, blind |-> FALSE]
Of(series) == {b \in bars : b.series = series}
Series == {b.series : b \in bars}
SecondsTwice(B) == \E b, c \in B : b.series = c.series /\ b.ts = c.ts /\ b # c

Idle == job.at = "idle"
At(step) == job.at = step
Goto(step) == job' = [job EXCEPT !.at = step]
Leave(step) == Goto(step) /\ read' = Nothing
NoJob == [kind |-> "none", at |-> "idle", hurt |-> FALSE]
Finish == job' = NoJob /\ read' = Nothing
Begin(kind, step) == job' = [kind |-> kind, at |-> step, hurt |-> FALSE]

TypeOK ==
    /\ raw \in [Venues -> Seq(Feed)]
    /\ job \in [kind : {"none", "bars", "dataset", "validate"},
                at : {"idle", "backfill", "collect", "make", "write", "agg", "write_agg", "log",
                      "score", "manifest", "raised"},
                hurt : BOOLEAN]
    /\ todo \subseteq Venues
    /\ \A b \in bars : b.build \in 1 .. builds /\ b.series \in Venues \cup {Agg} /\ b.stamp \in 0 .. clock
    /\ \A b \in hand : b.series \in Venues \cup {Agg} /\ b.stamp \in 0 .. clock
    /\ builds \in 0 .. MaxBuilds
    /\ DOMAIN log \subseteq 1 .. builds
    /\ DOMAIN cards = Venues \cup {Agg}
    /\ clock \in 0 .. MaxClock
    /\ torn \subseteq {"trades", "bars"} /\ faults \in Nat

Init ==
    /\ raw = [v \in Venues |-> <<>>]
    /\ bars = {} /\ hand = {}
    /\ job = NoJob /\ todo = {}
    /\ read = Nothing /\ builds = 0 /\ log = <<>>
    /\ torn = {} /\ faults = 0
    /\ cards = [s \in Venues \cup {Agg} |-> NoCard]
    /\ clock = 0

-----------------------------------------------------------------------------
(* Trades on disk.                                                         *)

Copies == MapThenSumSet(LAMBDA v : Len(raw[v]) - Cardinality(Range(raw[v])), Venues)

\* A part of one trade.  Its name puts it before or after the venue's others.
Store(t) ==
    \E rows \in {<<t>> \o raw[t.venue], Append(raw[t.venue], t)} :
        raw' = [raw EXCEPT ![t.venue] = rows]

\* A job reads the trades of a venue once: one that arrives meanwhile is as one
\* that arrives after it.
Arrive ==
    /\ Idle
    /\ \E t \in Feed : t \notin Range(raw[t.venue]) /\ Store(t)
    /\ UNCHANGED <<bars, job, todo, hand, read, builds, log, cards, clock, torn, faults>>

\* It matters only between builds, and between the stamp of bars and their part.
Tick ==
    /\ clock < MaxClock
    /\ Idle \/ hand # {}
    /\ clock' = clock + 1
    /\ UNCHANGED <<raw, bars, job, todo, hand, read, builds, log, cards, torn, faults>>

-----------------------------------------------------------------------------
(* Failures.                                                               *)

Fault == faults + Copies < MaxFaults /\ faults' = faults + 1
NoFault == UNCHANGED faults

\* An exception that nothing in the job handles.
Raise == job' = [job EXCEPT !.at = "raised", !.hurt = TRUE] /\ todo' = {} /\ hand' = {}

\* The parts a job may be writing: a backfill also writes klines and funding rates.
Writing == IF At("backfill") THEN {"trades", "bars"}
           ELSE IF job.at \in {"write", "write_agg"} THEN {"bars"} ELSE {}

\* A part has its final name while it is written (storage/parquet.py:117, :146).
Kill ==
    /\ ~Idle
    /\ Fault
    /\ Finish
    /\ todo' = {} /\ hand' = {}
    /\ torn' \in {torn} \cup {torn \cup {table} : table \in Writing}
    /\ UNCHANGED <<raw, bars, builds, log, cards, clock>>

-----------------------------------------------------------------------------
(* Jobs: cda-build-bars, cda-build-dataset and cda-validate.               *)

StartBuild ==
    /\ Idle /\ builds < MaxBuilds
    /\ Begin("bars", "collect")
    /\ UNCHANGED <<raw, bars, todo, hand, read, builds, log, cards, clock, torn, faults>>

\* init_db registers all views, and raises on a torn part.
StartDataset ==
    /\ Idle /\ builds < MaxBuilds /\ torn = {}
    /\ Begin("dataset", "backfill")
    /\ todo' = Venues
    /\ UNCHANGED <<raw, bars, hand, read, builds, log, cards, clock, torn, faults>>

InitDbRaises ==
    /\ Idle /\ torn # {}
    /\ job' = [kind |-> "dataset", at |-> "raised", hurt |-> TRUE]
    /\ UNCHANGED <<raw, bars, todo, hand, read, builds, log, cards, clock, torn, faults>>

StartValidate ==
    /\ Idle
    /\ Begin("validate", "score")
    /\ UNCHANGED <<raw, bars, todo, hand, read, builds, log, cards, clock, torn, faults>>

\* A trade that is there already is stored again.
Backfill ==
    /\ At("backfill")
    /\ \E v \in todo, t \in Feed :
        /\ t.venue = v
        /\ t \in Range(raw[v]) => faults + Copies < MaxFaults
        /\ Store(t)
        /\ todo' = todo \ {v}
    /\ UNCHANGED <<bars, job, hand, read, builds, log, cards, clock, torn, faults>>

\* An exception of one venue is logged; or there was nothing.
BackfillFails ==
    /\ At("backfill")
    /\ \E v \in todo : todo' = todo \ {v}
    /\ UNCHANGED <<raw, bars, job, hand, read, builds, log, cards, clock, torn, faults>>

\* build_for for each date that has trades; a date without is passed over.
BackfillDone ==
    /\ At("backfill") /\ todo = {}
    /\ Goto("collect")
    /\ UNCHANGED <<raw, bars, todo, hand, read, builds, log, cards, clock, torn, faults>>

CollectTrades ==
    /\ At("collect") /\ "trades" \notin torn
    /\ IF \A v \in Venues : raw[v] = <<>>
       THEN /\ IF job.kind = "dataset" THEN Leave("score") ELSE Finish
            /\ UNCHANGED <<todo, builds>>
       ELSE /\ read' = [at |-> clock, rows |-> [v \in Venues |-> SortedByTs(raw[v])]]
            /\ builds' = builds + 1
            /\ todo' = {v \in Venues : raw[v] # <<>>}
            /\ Goto("make")
    /\ UNCHANGED <<raw, bars, hand, log, cards, clock, torn, faults>>

\* A torn part, or one that a compaction removed after the listing.
CollectRaises ==
    /\ At("collect")
    /\ IF "trades" \in torn THEN NoFault ELSE Fault
    /\ Raise
    /\ UNCHANGED <<raw, bars, read, builds, log, cards, clock, torn>>

\* Fault: bars are stamped with the time of their second.
MakeVenueBarsDated ==
    /\ At("make") /\ todo # {}
    /\ LET v == Min(todo) IN hand' = BarsFromTrades(read.rows[v], v, 0)
    /\ Goto("write")
    /\ UNCHANGED <<raw, bars, todo, read, builds, log, cards, clock, torn, faults>>

MakeVenueBars ==
    /\ At("make") /\ todo # {}
    /\ LET v == Min(todo) IN hand' = BarsFromTrades(read.rows[v], v, clock)
    /\ Goto("write")
    /\ UNCHANGED <<raw, bars, todo, read, builds, log, cards, clock, torn, faults>>

Written == {[f \in DOMAIN b \cup {"build"} |-> IF f = "build" THEN Now ELSE b[f]] : b \in hand}

WriteVenueBars ==
    /\ At("write")
    /\ bars' = bars \cup Written
    /\ hand' = {}
    /\ todo' = todo \ {Min(todo)}
    /\ Goto("make")
    /\ UNCHANGED <<raw, read, builds, log, cards, clock, torn, faults>>

MakeAggBars ==
    /\ At("make") /\ todo = {}
    /\ \E tape \in {MergeTrades(read.rows)} : hand' = BuildAggBars(tape, clock)
    /\ Goto("write_agg")
    /\ UNCHANGED <<raw, bars, todo, read, builds, log, cards, clock, torn, faults>>

WriteAggBars ==
    /\ At("write_agg")
    /\ bars' = bars \cup Written
    /\ hand' = {}
    /\ Goto("log")
    /\ UNCHANGED <<raw, todo, read, builds, log, cards, clock, torn, faults>>

\* A full disk, say: the part is removed, those before it stay.
WriteRaises ==
    /\ job.at \in {"write", "write_agg"}
    /\ Fault
    /\ Raise
    /\ UNCHANGED <<raw, bars, read, builds, log, cards, clock, torn>>

\* Fault: the venues' bars are not counted.
RowsOfAgg == Cardinality({b \in Of(Agg) : b.build = Now})

RowsAffected == Cardinality({b \in bars : b.build = Now})

RecordBuild ==
    /\ At("log") /\ torn = {}
    /\ log' = [n \in DOMAIN log \cup {Now} |-> IF n = Now THEN RowsAffected ELSE log[n]]
    /\ IF job.kind = "dataset" THEN Leave("score") ELSE Finish
    /\ UNCHANGED <<raw, bars, todo, hand, builds, cards, clock, torn, faults>>

\* record_correction connects: a torn part, or DuckDB locked by another process.
RecordRaises ==
    /\ At("log")
    /\ IF torn # {} THEN NoFault ELSE Fault
    /\ Raise
    /\ UNCHANGED <<raw, bars, read, builds, log, cards, clock, torn>>

-----------------------------------------------------------------------------
(* Scoring.                                                                *)

TradesOf(s) == IF s = Agg THEN <<>> ELSE raw[s]

\* What the reads for a card return.
Whole(s) ==
    IF s = Agg THEN [own |-> Of(Agg), rows |-> <<>>, others |-> bars \ Of(Agg), venues |-> Series \ {Agg}]
    ELSE [own |-> Of(s), rows |-> TradesOf(s), others |-> {}, venues |-> {}]

\* The same when one of them raises, for it then returns an empty frame: that of
\* the bars, of the trades, of the venues, or of the bars of one venue.
Partial(s) ==
    LET w == Whole(s)
    IN  {[w EXCEPT !.own = {}], [w EXCEPT !.rows = <<>>], [w EXCEPT !.others = {}, !.venues = {}]}
        \cup {[w EXCEPT !.others = @ \ Of(v)] : v \in w.venues}

AllWhole == [s \in Series |-> Whole(s)]
OneFails == UNION {{[AllWhole EXCEPT ![s] = slice] : slice \in Partial(s)} : s \in Series}

ScoringRaises(slices) ==
    /\ Agg \in Series
    /\ CannotJoin(slices[Agg].own, slices[Agg].others, slices[Agg].venues)

\* Every series that has bars gets a card; the others keep theirs.
Cards(slices) ==
    [s \in DOMAIN cards |->
        IF s \notin Series THEN cards[s]
        ELSE [grade  |-> ScoreDay(s, slices[s], IssuesOf(slices[s])),
              copied |-> SecondsTwice(Of(s)) \/ RepeatsId(TradesOf(s)),
              blind  |-> slices[s] # Whole(s)]]

WriteDailyQuality ==
    /\ At("score") /\ torn = {}
    /\ \/ \E slices \in {AllWhole} : ~ScoringRaises(slices) /\ cards' = Cards(slices) /\ NoFault
       \/ \E slices \in OneFails : ~ScoringRaises(slices) /\ cards' = Cards(slices) /\ Fault
    /\ IF job.kind = "dataset" THEN Leave("manifest") ELSE Finish
    /\ UNCHANGED <<raw, bars, todo, hand, builds, log, clock, torn>>

\* The read of the series raises: there is nothing to score.
NothingScored ==
    /\ At("score") /\ torn = {}
    /\ Fault
    /\ IF job.kind = "dataset" THEN Leave("manifest") ELSE Finish
    /\ UNCHANGED <<raw, bars, todo, hand, builds, log, cards, clock, torn>>

\* No card is written when one raises.
ScoreRaises ==
    /\ At("score") /\ torn = {}
    /\ \/ ScoringRaises(AllWhole) /\ NoFault
       \/ \E slices \in OneFails : ScoringRaises(slices) /\ Fault
    /\ Goto("raised")
    /\ UNCHANGED <<raw, bars, todo, hand, read, builds, log, cards, clock, torn>>

\* Each card connects, and so does what writes them.
ConnectRaises ==
    /\ At("score")
    /\ IF torn # {} THEN NoFault ELSE Fault
    /\ Raise
    /\ UNCHANGED <<raw, bars, read, builds, log, cards, clock, torn>>

WriteManifest ==
    /\ At("manifest")
    /\ Finish
    /\ UNCHANGED <<raw, bars, todo, hand, builds, log, cards, clock, torn, faults>>

\* Its summary connects once more.
ManifestRaises ==
    /\ At("manifest")
    /\ Fault
    /\ Raise
    /\ UNCHANGED <<raw, bars, read, builds, log, cards, clock, torn>>

\* The traceback ends the process.
Exit ==
    /\ At("raised")
    /\ Finish
    /\ UNCHANGED <<raw, bars, todo, hand, builds, log, cards, clock, torn, faults>>

Next ==
    \/ Arrive \/ Tick
    \/ StartBuild \/ StartDataset \/ InitDbRaises \/ StartValidate
    \/ Backfill \/ BackfillFails \/ BackfillDone
    \/ CollectTrades \/ CollectRaises
    \/ MakeVenueBars \/ WriteVenueBars \/ MakeAggBars \/ WriteAggBars \/ WriteRaises
    \/ RecordBuild \/ RecordRaises
    \/ WriteDailyQuality \/ NothingScored \/ ScoreRaises \/ ConnectRaises
    \/ WriteManifest \/ ManifestRaises \/ Exit \/ Kill

Spec == Init /\ [][Next]_vars

-----------------------------------------------------------------------------
(* Reads (query/bars.py).                                                  *)

AsOf(a) == {b \in bars : b.stamp <= a}

GetBars(series, seconds, a) ==
    ResampleBars(ByTime({b \in AsOf(a) : b.series = series}), seconds)

-----------------------------------------------------------------------------
(* Properties                                                              *)

Tape == MergeTrades(read.rows)
KeptOf(tape) == UNION {Range(part) : part \in Filtered(tape)}
By(s) == {b \in bars : b.build = Now /\ b.series = s}

\* The bars of a build are all written, and never change.
Built == At("log")

OutOfRecvOrder(s) ==
    \E v \in Venues : \E i, j \in DOMAIN read.rows[v] :
        LET t == read.rows[v][i]  u == read.rows[v][j]
        IN  i < j /\ t.ts = u.ts /\ Sec(t) = s /\ t.recv > u.recv

\* Each second with an eligible trade has an agg bar, for the outlier filter
\* never empties one (core/consolidated.py:74-92).  The bar opens with the first
\* and closes with the last trade it keeps, in order of exchange time, then
\* receive time and venue; the second part only where no venue's rows of one time
\* lie in another order on disk, for they are sorted by ts_ns alone
\* (scripts/build_bars_1s.py:54, core/consolidated.py:46-71).
AggBarsOfTape ==
    Built =>
        /\ {b.ts : b \in By(Agg)} = {Sec(t) : t \in {u \in Range(Tape) : Eligible(u)}}
        /\ \A b \in By(Agg) :
            LET kept == {t \in KeptOf(Tape) : Sec(t) = b.ts}
            IN  \E first, last \in kept :
                    /\ b.open = first.price /\ b.close = last.price
                    /\ \A t \in kept : first.ts <= t.ts /\ t.ts <= last.ts
                    /\ OutOfRecvOrder(b.ts) \/ \A t \in kept : ~Precedes(t, first) /\ ~Precedes(last, t)

\* An agg close outside the closes of all venues, which quality/checks.py:245-273
\* takes for an error, comes of a trade that is in a venue's bar and was kept out
\* of the tape: an outlier, a late or an empty trade.
OutsideOnlyWhenDropped ==
    Built => \A b \in By(Agg) :
        OutsideVenues(b, {c \in bars : c.build = Now /\ c.series # Agg}) =>
            \E t \in Range(Tape) : Sec(t) = b.ts /\ t \notin KeptOf(Tape)

Window == 2

\* Longer bars are what the same trades give at that length, but for the mask,
\* which names some of the venues (core/resample.py:30-53), for a series that was
\* built once.
ResampleIsBarOfTrades ==
    Built => \A s \in Series : Of(s) = By(s) =>
        \E rows \in {IF s = Agg THEN LET kept == KeptOf(Tape) IN Selected(Tape, {i \in DOMAIN Tape : Tape[i] \in kept})
                     ELSE read.rows[s]} :
            LET window(x) == Window * (x \div Window)
                long == GetBars(s, Window, clock)
            IN  /\ {b.ts : b \in long} = {window(x) : x \in Secs(rows)}
                /\ \A b \in long :
                    LET ref == BarOf(Selected(rows, {i \in DOMAIN rows : window(Sec(rows[i])) = b.ts}), b.ts, s, b.stamp)
                    IN  b = [ref EXCEPT !.mask = b.mask] /\ b.mask \subseteq ref.mask

\* The builds that have read trades, have ended and are not logged.
Unlogged == {n \in 1 .. builds \ DOMAIN log :
                n = Now => job.at \notin {"make", "write", "write_agg", "log"}}

\* The corrections log has the number of bars of each build that it has, and of
\* each build but one per failure or kill (scripts/build_bars_1s.py:102-108),
\* until a torn part makes connect() raise: from then on no build is logged.
BuildsAreLogged ==
    /\ \A n \in DOMAIN log : log[n] = Cardinality({b \in bars : b.build = n})
    /\ torn = {} => Cardinality(Unlogged) <= faults

\* A series that held a second twice, or a venue's that held a trade id twice, when
\* it was scored was not given an A (quality/checks.py:88-107, :185-192), unless a
\* read for its card failed, which looks like a day without rows
\* (quality/report.py:75-76, :86-87).  The agg series may be given one, though its
\* volume counts such a trade twice.
CopiesNeverGradeA ==
    \A s \in DOMAIN cards : cards[s].grade = "A" => ~cards[s].copied \/ cards[s].blind

\* A job in which no write, read or connection failed ends with an exception only on
\* a day that two builds gave bars of one second (quality/checks.py:258-262): a
\* build alone makes one bar of a second (core/aggregate.py:127-150).
RaisesOnlyOnRebuilds ==
    At("raised") =>
        \/ job.hurt
        \/ \E b, c \in bars : b.series = c.series /\ b.ts = c.ts /\ b.build # c.build

\* A build that began after an instant changes nothing of what a read as of
\* that instant returns (query/bars.py:60-62); one that had begun may.
AsOfSettles ==
    [][\A a \in 0 .. clock : AsOf(a)' # AsOf(a) => read.at <= a]_vars

\* scripts/build_dataset.py:15-16 says that the build always finishes.
DatasetFinishes == ~(At("raised") /\ job.kind = "dataset")
=============================================================================
