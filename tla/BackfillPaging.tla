--------------------------- MODULE BackfillPaging ---------------------------
(***************************************************************************)
(* A REST backfill of one (symbol, venue, table) over a window             *)
(* (scripts/backfill.py): the adapter pages through what the venue has     *)
(* (fetch_trades, fetch_klines and fetch_funding of                        *)
(* cryptodata/sources/*.py), and the rows are written date by date and     *)
(* logged.  The adapters differ in what they continue by - a time, an id, a *)
(* cursor of the venue - and in what ends their loop: one operator each.   *)
(*                                                                         *)
(* What the venue has is a sequence of times, oldest first: row x is its   *)
(* x-th trade, candle or funding rate.  Ticks stand for nanoseconds and    *)
(* Grain of them for the unit in which an API counts.  How a venue cuts a  *)
(* page out of its rows is external, modelled from what the loops and their *)
(* comments expect, and from the depths that docs/METHODOLOGY.md:133-135    *)
(* names.                                                                  *)
(***************************************************************************)
EXTENDS Integers, FiniteSets, FiniteSetsExt, Sequences

CONSTANTS
    Grain,      \* ticks in the unit of an API: a millisecond, or a second
    PageSize,   \* the most rows in an answer: 100 (OKX) to 10000 (Bitfinex)
    MaxPages,   \* the page caps: 2000 and 5000
    Minute,     \* 60_000 ms, in grains
    Steps,      \* candle intervals, in grains
    Day,        \* ticks in a date partition
    Now,        \* the present; no row is younger
    LastDay,    \* ticks that a venue's "last day of trades" reaches back
    Windows,    \* <<start_ns, end_ns>> of the backfills
    MaxRows,    \* bound of the model: rows of the venue
    MaxRuns,    \* bound of the model: how often the backfill is run
    MaxFaults   \* bound of the model: requests, writes or inserts that raise, and kills

ASSUME PagingAssumption ==
    /\ Grain \in Nat \ {0} /\ PageSize \in Nat \ {0, 1} /\ MaxPages \in Nat \ {0}
    /\ Minute \in Nat \ {0} /\ Day \in Nat \ {0} /\ Now \in Nat /\ LastDay \in Nat
    /\ Steps \subseteq Nat \ {0}
    /\ Windows \subseteq {w \in (0 .. Now) \X (0 .. Now) : w[1] < w[2]}
    /\ MaxRows \in Nat /\ MaxRuns \in Nat /\ MaxFaults \in Nat

ByMillisecond == {"binance", "bybit", "futures_funding", "binance_klines", "futures_klines",
                  "gemini", "bitfinex", "bitfinex_klines"}
Capped   == {"gemini", "bitfinex", "bitfinex_klines", "okx", "okx_klines"}
MinuteOn == {"binance_klines", "futures_klines", "bybit_klines"}
Candles  == MinuteOn \cup {"kraken_klines", "coinbase_klines", "gemini_klines", "okx_klines",
                           "bitfinex_klines", "bitstamp_klines"}
\* Those for which a body without rows, as that of an error, is an empty page;
\* the others raise on such a body.
Lenient  == {"kraken", "kraken_klines", "bybit", "bybit_klines", "bybit_funding", "okx",
             "okx_klines", "bitstamp_klines"}
Fetchers == ByMillisecond \cup Capped \cup Candles \cup
                {"kraken", "coinbase", "bitstamp", "bybit_funding"}

VARIABLES
    fetcher,   \* the adapter's function
    start, end,
    step,      \* interval of the candles
    venue,     \* times of the venue's rows, oldest first
    pc,        \* where the backfill is
    cursor,    \* in ticks, grains or row numbers: what the fetcher continues by
    pages,     \* answers so far, where a loop counts them
    out,       \* rows it has collected
    todo,      \* date partitions it has still to write
    stored,    \* row -> copies in the files
    logged,    \* history: row -> corrections that cover it
    repeated,  \* history: rows that one fetch collected twice
    known,     \* history: rows of the venue when the fetch began
    blank,     \* history: a body without rows has ended the fetch
    runs, faults

job     == <<fetcher, start, end, step>>
paging  == <<cursor, pages, out, repeated, known, blank>>
vars == <<job, venue, pc, paging, todo, stored, logged, runs, faults>>

Rows == 1 .. MaxRows
G(t) == t \div Grain                                  \* t_ns // 1_000_000
Between(lo, hi) == {x \in DOMAIN venue : lo <= venue[x] /\ venue[x] <= hi}
GrainsBetween(lo, hi) == {x \in DOMAIN venue : lo <= G(venue[x]) /\ G(venue[x]) <= hi}
Oldest(S) == {x \in S : Cardinality({y \in S : y < x}) < PageSize}
Newest(S) == {x \in S : Cardinality({y \in S : y > x}) < PageSize}

TypeOK ==
    /\ fetcher \in Fetchers /\ <<start, end>> \in Windows /\ step \in Steps
    /\ venue \in Seq(0 .. Now) /\ Len(venue) <= MaxRows
    /\ pc \in {"idle", "paging", "fetched", "writing", "logging"}
    /\ cursor \in Nat /\ pages \in Nat
    /\ out \subseteq Rows /\ repeated \subseteq Rows /\ known \subseteq Rows
    /\ blank \in BOOLEAN
    /\ todo \subseteq Nat
    /\ stored \in [Rows -> Nat] /\ logged \in [Rows -> Nat]
    /\ runs \in 0 .. MaxRuns /\ faults \in 0 .. MaxFaults

\* Trades come at any time, in any number; only Kraken's cursor tells the ticks
\* of a grain apart.  A candle exists where trades did.
Histories(f, s) ==
    LET times == IF f = "kraken" THEN 0 .. Now
                 ELSE {t \in 0 .. Now : t % Grain = 0}
        starts == {t \in 0 .. Now : t % (s * Grain) = 0}
    IN  IF f \in Candles
        THEN {h \in UNION {[1 .. n -> starts] : n \in 0 .. MaxRows} :
                \A x, y \in DOMAIN h : x < y => h[x] < h[y]}
        ELSE {h \in UNION {[1 .. n -> times] : n \in 0 .. MaxRows} :
                \A x, y \in DOMAIN h : x < y => h[x] <= h[y]}

Init ==
    /\ fetcher \in Fetchers /\ step \in Steps
    /\ fetcher \notin Candles => step = Min(Steps)
    /\ \E w \in Windows : start = w[1] /\ end = w[2]
    /\ venue \in Histories(fetcher, step)
    /\ pc = "idle" /\ cursor = 0 /\ pages = 0
    /\ out = {} /\ repeated = {} /\ known = {} /\ blank = FALSE /\ todo = {}
    /\ stored = [x \in Rows |-> 0] /\ logged = stored
    /\ runs = 0 /\ faults = 0

-----------------------------------------------------------------------------
(* One pass of a fetcher's loop at cursor c: the rows it keeps, where it   *)
(* goes on, and whether it does.                                           *)

Answer(keep, next, more) == [keep |-> keep, next |-> next, more |-> more]

\* Fault: the time of the last row is not stepped over.
UpwardsAgain(c, skip) ==
    LET rows == Oldest(GrainsBetween(c, G(end)))
    IN  Answer(rows, IF rows = {} THEN c ELSE G(venue[Max(rows)]), Cardinality(rows) = PageSize)

\* Oldest first between two times; on from the last one, until a short page.
Upwards(c, skip) ==
    LET rows == Oldest(GrainsBetween(c, G(end)))
    IN  Answer(rows, IF rows = {} THEN c ELSE G(venue[Max(rows)]) + skip,
               Cardinality(rows) = PageSize)

Binance(c)        == Upwards(c, 1)
Bybit(c)          == Upwards(c, 1)
FuturesFunding(c) == Upwards(c, 1)
Bitfinex(c)       == Upwards(c, 1)
BitfinexKlines(c) == Upwards(c, 1)
BinanceKlines(c)  == Upwards(c, Minute)
FuturesKlines(c)  == Upwards(c, Minute)

\* The rows come newest first: a full page holds the last ones of the window,
\* and the fetch goes on after the newest (rows[0]).
BybitKlines(c) ==
    LET rows == Newest(GrainsBetween(c, G(end)))
    IN  Answer(rows, IF rows = {} THEN c ELSE G(venue[Max(rows)]) + Minute,
               Cardinality(rows) = PageSize)

\* The answer has no upper end, and the fetch stops at the first row past it.
Gemini(c) ==
    LET rows == Oldest(GrainsBetween(c, G(Now)))
    IN  IF rows = {} THEN Answer({}, c, FALSE)
        ELSE Answer(rows \cap Between(start, end), G(venue[Max(rows)]) + 1,
                    \A x \in rows : venue[x] <= end)

\* `last` names the last row; the next page begins after it.
Kraken(c) ==
    LET rows == Oldest(Between(c + 1, Now))
    IN  IF rows = {} THEN Answer({}, c, FALSE)
        ELSE Answer({x \in rows : venue[x] <= end}, venue[Max(rows)], TRUE)

\* Newest first, back by row id (0: none yet).
Older(c) == Newest({x \in DOMAIN venue : c = 0 \/ x < c})

Coinbase(c) ==
    LET rows == Older(c)
    IN  Answer(rows \cap Between(start, end), IF rows = {} THEN c ELSE Min(rows),
               Cardinality(rows) = PageSize /\ \A x \in rows : venue[x] >= start)

\* Fault: a row younger than the window ends the loop.
OkxBreaks(c) ==
    LET rows == Older(c)
    IN  Answer(rows \cap Between(start, end), IF rows = {} THEN c ELSE Min(rows),
               rows # {} /\ \A x \in rows : start <= venue[x] /\ venue[x] <= end)

Okx(c) ==
    LET rows == Older(c)
    IN  Answer(rows \cap Between(start, end), IF rows = {} THEN c ELSE Min(rows),
               rows # {} /\ \A x \in rows : venue[x] >= start)

OkxKlines(c) ==
    LET rows == Newest({x \in DOMAIN venue : G(venue[x]) < c})
    IN  IF rows = {} THEN Answer({}, c, FALSE)
        ELSE Answer({x \in rows : G(venue[x]) >= G(start)}, G(venue[Min(rows)]),
                    G(venue[Min(rows)]) > G(start))

\* Chunks of 300 steps, whose ends belong to two of them; the venue gives at
\* most 300 candles, the newest.
CoinbaseKlines(c) ==
    LET stop == Min({c + PageSize * step * Grain, end})
    IN  Answer(Newest(Between(c, stop)), stop, TRUE)

\* Fault: a chunk that holds only its first candle is no end.
BitstampOn(c) ==
    LET rows == Oldest(GrainsBetween(c, Min({c + PageSize * step, G(end)})))
    IN  IF rows = {} THEN Answer({}, c, TRUE) ELSE Answer(rows, G(venue[Max(rows)]) + step, TRUE)

\* Chunks too; an empty one, or one with only its first candle, is the end.
BitstampKlines(c) ==
    LET rows == Oldest(GrainsBetween(c, Min({c + PageSize * step, G(end)})))
    IN  IF rows = {} THEN Answer({}, c, FALSE)
        ELSE Answer(rows, G(venue[Max(rows)]) + step, G(venue[Max(rows)]) > c)

\* One request each: the last day, the last candles whatever is asked for, or
\* one page.
Bitstamp(c)     == Answer(Between(Now - LastDay, Now) \cap Between(start, end), c, FALSE)
KrakenKlines(c) == Answer(Newest(GrainsBetween(G(start), G(Now))) \cap Between(start, end), c, FALSE)
GeminiKlines(c) == Answer(Newest(DOMAIN venue) \cap Between(start, end), c, FALSE)
BybitFunding(c) == Answer(Newest(GrainsBetween(G(start), G(end))), c, FALSE)

Page(c) ==
    CASE fetcher = "binance"         -> Binance(c)
      [] fetcher = "bybit"           -> Bybit(c)
      [] fetcher = "gemini"          -> Gemini(c)
      [] fetcher = "bitfinex"        -> Bitfinex(c)
      [] fetcher = "kraken"          -> Kraken(c)
      [] fetcher = "coinbase"        -> Coinbase(c)
      [] fetcher = "okx"             -> Okx(c)
      [] fetcher = "bitstamp"        -> Bitstamp(c)
      [] fetcher = "futures_funding" -> FuturesFunding(c)
      [] fetcher = "bybit_funding"   -> BybitFunding(c)
      [] fetcher = "binance_klines"  -> BinanceKlines(c)
      [] fetcher = "futures_klines"  -> FuturesKlines(c)
      [] fetcher = "bybit_klines"    -> BybitKlines(c)
      [] fetcher = "bitfinex_klines" -> BitfinexKlines(c)
      [] fetcher = "kraken_klines"   -> KrakenKlines(c)
      [] fetcher = "coinbase_klines" -> CoinbaseKlines(c)
      [] fetcher = "okx_klines"      -> OkxKlines(c)
      [] fetcher = "bitstamp_klines" -> BitstampKlines(c)
      [] fetcher = "gemini_klines"   -> GeminiKlines(c)

FirstCursor ==
    CASE fetcher \in {"coinbase", "okx"}              -> 0
      [] fetcher \in {"kraken", "coinbase_klines"}    -> start
      [] fetcher = "okx_klines"                       -> G(end)
      [] OTHER                                        -> G(start)

\* The while of the loop, or the range of its pages.
Loops ==
    CASE fetcher \in Capped                           -> pages < MaxPages
      [] fetcher \in {"kraken", "coinbase_klines"}    -> cursor < end
      [] fetcher = "bybit"                            -> cursor * Grain < end
      [] fetcher \in {"binance", "futures_funding", "bitstamp_klines"} \cup MinuteOn
                                                      -> cursor < G(end)
      [] OTHER                                        -> TRUE

-----------------------------------------------------------------------------
(* run_backfill                                                            *)

Forget == /\ cursor' = 0 /\ pages' = 0 /\ out' = {} /\ repeated' = {} /\ known' = {}
          /\ blank' = FALSE

Begin ==
    /\ pc = "idle"
    /\ runs < MaxRuns
    /\ runs' = runs + 1
    /\ pc' = "paging"
    /\ cursor' = FirstCursor
    /\ pages' = 0 /\ out' = {} /\ repeated' = {}
    /\ known' = DOMAIN venue /\ blank' = FALSE
    /\ UNCHANGED <<job, venue, todo, stored, logged, faults>>

AskPage ==
    /\ pc = "paging"
    /\ Loops
    /\ LET a == Page(cursor)
       IN  /\ out' = out \cup a.keep
           /\ repeated' = repeated \cup (out \cap a.keep)
           /\ cursor' = a.next
           /\ pc' = IF a.more THEN "paging" ELSE "fetched"
    /\ pages' = IF fetcher \in Capped THEN pages + 1 ELSE pages
    /\ UNCHANGED <<job, venue, todo, stored, logged, known, blank, runs, faults>>

\* (body.get("result") or {}).get("list") or [], and the like: the end of the
\* history, as far as the loop can tell.
BlankBody ==
    /\ pc = "paging"
    /\ Loops
    /\ fetcher \in Lenient
    /\ blank' = TRUE
    /\ pc' = "fetched"
    /\ pages' = IF fetcher \in Capped THEN pages + 1 ELSE pages
    /\ UNCHANGED <<job, venue, cursor, out, repeated, known, todo, stored, logged, runs, faults>>

LoopEnds ==
    /\ pc = "paging"
    /\ ~Loops
    /\ pc' = "fetched"
    /\ UNCHANGED <<job, venue, paging, todo, stored, logged, runs, faults>>

\* Fault: the batch is logged before it is written.
LogFirst ==
    /\ pc = "fetched"
    /\ logged' = [x \in Rows |-> IF x \in out THEN logged[x] + 1 ELSE logged[x]]
    /\ todo' = {venue[x] \div Day : x \in out}
    /\ pc' = IF out = {} THEN "idle" ELSE "writing"
    /\ UNCHANGED <<job, venue, paging, stored, runs, faults>>

\* Nothing is written, and nothing logged, for no rows.
Group ==
    /\ pc = "fetched"
    /\ todo' = {venue[x] \div Day : x \in out}
    /\ pc' = IF out = {} THEN "idle" ELSE "writing"
    /\ IF out = {} THEN Forget ELSE UNCHANGED paging
    /\ UNCHANGED <<job, venue, stored, logged, runs, faults>>

WriteDate ==
    /\ pc = "writing"
    /\ \E d \in todo :
        /\ todo' = todo \ {d}
        /\ stored' = [x \in Rows |-> IF x \in out /\ venue[x] \div Day = d
                                     THEN stored[x] + 1 ELSE stored[x]]
        /\ pc' = IF todo = {d} THEN "logging" ELSE "writing"
    /\ UNCHANGED <<job, venue, paging, logged, runs, faults>>

RecordCorrection ==
    /\ pc = "logging"
    /\ logged' = [x \in Rows |-> IF x \in out THEN logged[x] + 1 ELSE logged[x]]
    /\ pc' = "idle"
    /\ Forget
    /\ UNCHANGED <<job, venue, todo, stored, runs, faults>>

\* An exception of a request, a write or the insert, which build_dataset logs
\* and skips, or a kill: the rows in memory are gone, the written ones stay.
Abort ==
    /\ pc \in {"paging", "writing", "logging"}
    /\ faults < MaxFaults
    /\ faults' = faults + 1
    /\ pc' = "idle"
    /\ todo' = {}
    /\ Forget
    /\ UNCHANGED <<job, venue, stored, logged, runs>>

\* The market goes on while the fetcher pages.
Trade ==
    /\ fetcher \notin Candles
    /\ pc = "paging"
    /\ Len(venue) < MaxRows
    /\ venue' = Append(venue, Now)
    /\ UNCHANGED <<job, pc, paging, todo, stored, logged, runs, faults>>

Next ==
    \/ Begin \/ AskPage \/ BlankBody \/ LoopEnds
    \/ Group \/ WriteDate \/ RecordCorrection
    \/ Abort \/ Trade

Spec == Init /\ [][Next]_vars

\* A loop that can go on does.  That the venue answers without rows, which would
\* end a loop that stands still, is not assumed.
FairSpec == Spec /\ WF_vars(AskPage \/ LoopEnds)

-----------------------------------------------------------------------------
(* Properties                                                              *)

Skip == IF fetcher \in MinuteOn THEN Minute ELSE 1

\* The rows that the window asks for: Kraken begins after its start, and the
\* last grain of the window, where the loops stop, is left out of the claim.
Wanted == {x \in known : /\ start + (IF fetcher = "kraken" THEN 1 ELSE 0) <= venue[x]
                         /\ G(venue[x]) < G(end)}

\* A fetched row in whose grain - or in whose minute, for candles finer than
\* that - the page was cut.
CutAfterRow(x) == \E y \in out : G(venue[y]) <= G(venue[x]) /\ G(venue[x]) < G(venue[y]) + Skip

\* No candles for the length of a chunk before x.
AfterHole(x) == \E h \in start .. venue[x] :
    GrainsBetween(G(h) + 1, G(h) + PageSize * step) = {} /\ G(h) + PageSize * step < G(venue[x])

\* S holds a page of rows younger than x.
PageAfter(x, S) == Cardinality({y \in S : y > x}) >= PageSize

\* x lies beyond all that was collected when a body without rows came.
Unreached(x) ==
    /\ blank
    /\ \A y \in out : IF fetcher \in {"okx", "okx_klines"} THEN x < y ELSE y < x

\* What a finished fetch leaves out of its window, and why: pages are cut by
\* count and continued by time (sources/binance.py:151 and its kin), the page
\* caps (sources/okx.py:114), a body without rows that ends a loop silently
\* (sources/kraken.py:185-190), what a single request reaches, newest-first
\* pages continued upwards (sources/bybit.py:251), and the first candle of a
\* chunk that holds one too many (sources/coinbase.py:214).  Nothing else gets
\* lost between two pages, even while the market goes on.
LossesExplained ==
    pc = "fetched" => \A x \in Wanted \ out :
        \/ fetcher \in ByMillisecond \cup {"kraken"} /\ CutAfterRow(x)
        \/ fetcher \in Capped /\ pages = MaxPages
        \/ fetcher \in Lenient /\ Unreached(x)
        \/ fetcher = "bitstamp" /\ venue[x] < Now - LastDay
        \/ fetcher = "bitstamp_klines" /\ AfterHole(x)
        \/ fetcher \in {"bybit_funding", "bybit_klines"} /\ PageAfter(x, out)
        \/ fetcher \in {"kraken_klines", "gemini_klines"} /\ PageAfter(x, DOMAIN venue)
        \/ fetcher = "coinbase_klines" /\ venue[x] = start /\ PageAfter(x, out)

\* A fetch collects a row once, but for the candles on which two chunks of
\* Coinbase meet (sources/coinbase.py:239).
CollectedOnce ==
    \A x \in repeated : fetcher = "coinbase_klines"
                        /\ (venue[x] - start) % (PageSize * step * Grain) = 0

\* Copies in the files and the corrections log (docs/SLA.md:50): a correction
\* stands for a copy of each of its rows, and a copy without a correction costs
\* an exception or a kill (scripts/backfill.py:74-83).
CopiesAreLogged ==
    \A x \in Rows :
        /\ logged[x] <= stored[x]
        /\ stored[x] <= logged[x] + faults + (IF pc \in {"writing", "logging"} THEN 1 ELSE 0)

\* Every loop ends: each page moves its cursor on.
FetchEnds == pc = "paging" ~> pc # "paging"
=============================================================================
