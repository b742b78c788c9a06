# A TLA+ model of crypto-data-aggregator

TLA+ modules, TLC runs and TLAPS proofs for the program in `src/`: a collector
of crypto market data that streams trades, quotes and books from venues, stores
them as partitioned Parquet files behind DuckDB views, repairs and compacts
them, and derives bars and a consolidated tape. Line numbers below are those of
the files under `src/`.

`PROJECT.json` lists components, runs, mutants, findings, hazards and theorems,
and maps every definition that models code to its lines.

## 1. The system

One long-lived process, **ingest** (`scripts/run_ingest.py`, `core/ingest.py`),
runs an asyncio event loop. Everything else is a command or a query in a process
of its own, and the processes meet only in the directory tree and in the DuckDB
file.

| Component | State | Operations | Interacts through |
|---|---|---|---|
| Venue adapters `sources/*` | a WebSocket, books, a reconnect backoff | `stream_*`, `fetch_*` | rows to the workers, lists to reconciler and backfills |
| Worker `core/worker.py` | backoff, restarts | run: stream, append, back off | writer, health tracker |
| Writer task `core/writer.py` | stop event | timer flush, last flush | part-file writer |
| Part-file writer `storage/parquet.py` | buffers by (table, symbol, venue, hour), a lock | `append`, `flush_all`, `_flush_key`, `write_dataframe` | files |
| Reconciler `core/reconciler.py` | clock of the pass, newest stored time | hourly pass | reads the view, writes files |
| Health tracker, health writer `core/health*.py` | arrival times by stream | `record`, `evaluate`, dump | table `venue_status` |
| Ingest main `core/ingest.py` | its tasks | gather, stop | cancellation |
| Compaction `storage/compact.py` | listed parts, merged rows | merge, write, unlink | files |
| Views and queries `storage/duckdb_views.py`, `query/*` | the glob of a view | list, open, answer | files |
| Symbol map, corrections `core/corrections.py`, `core/symbols.py` | `symbol_map`, `corrections`, the cached configuration | seed, retire, as-of, record | DuckDB tables |
| Consolidated tape `core/consolidated.py`, `core/aggregate.py` | none | merge, filter, roll up | lists of trades |
| Bars `scripts/build_bars_1s.py`, `query/bars.py`, `core/resample.py` | none | build a day, read as of, resample | files |
| Backfill `scripts/backfill.py`, `scripts/build_dataset.py` | a cursor | fetch pages, write | files, corrections |
| Quality `quality/*`, `scripts/validate.py` | `daily_quality` | check, score | DuckDB tables |
| Rate limiter `core/ratelimit.py` | tokens | acquire | nothing: only its unit test makes one |
| Observability `obs/*`, `scripts/status.py`, `scripts/coverage_report.py` | counters | report | - |

### What is hard

- **Interleavings.** `PartitionedParquetWriter` calls itself thread-safe, and it
  lets go of its lock between deciding to flush, popping a buffer and writing
  it. Compaction, writers and queries share a directory without any lock.
- **Failures in the middle.** A popped buffer is lost when its write raises;
  `flush_all` stops at the first failing buffer; a file has its final name while
  it is written; compaction unlinks one file at a time; a retirement is two
  transactions.
- **Stale reads.** The reconciler takes the newest *stored* time for the newest
  *received* one, and awaits before it uses it. A query opens files it listed
  earlier. The configuration is cached for the life of a process.
- **Retries.** Passes, backfills, builds and re-seeds are repeated over what is
  there, and nothing removes what an earlier one left.
- **Delivery.** Venues repeat trades after a subscription, connections end with
  messages on their way, and books outlive or lose what was told before.
- **Paging.** Nine adapters page in as many ways; each loop must end, miss nothing and
  collect nothing twice while the market goes on.
- **Numbers at their edges.** A rate over a full deque or an empty baseline, a
  median deviation of zero, an as-of time that falls between a stamp and its file.
- **Shutdown.** The last flush must come after the last append.

What makes each component correct is stated with its module in section 3; the
hazards, each at its line, are in `PROJECT.json`.

## 2. Plan

Order: what can lose or double data first.

| # | Modules | State |
|---|---|---|
| 1 | `RowSink` (abstract), `ParquetWriter`, `ParquetWriterProofs` | done |
| 2 | `CopyStore` (abstract), `PartitionDir`, `PartitionDirProofs` | done |
| 3 | `TradeReconcile`, `TradeReconcileProofs` | done |
| 4 | `IngestProcess`, `IngestProofs` | done |
| 5 | `SymbolMap`, `SymbolMapProofs` | done |
| 6 | `BackfillPaging`, `BackfillPagingProofs`: the REST loops of the adapters and the backfill around them | done |
| 7 | `VenueStreams`, `VenueStreamsProofs`: connections, messages, books and quotes of the WebSocket streams | done |
| 8 | `Bars`, `Quality` (operators), `BarStore`, `BarStoreProofs`: tape, bars, resampling, scores; builds, rebuilds, as-of reads | done |
| 9 | `HealthTracker`, `IngestProofs`: the deques, the two rates, `venue_status` | done |
| 10 | Proofs of what only runs had checked: the paging loops, the books, the writer's buffers and its last flush, the log of retirements, the verdicts, `CopyStore` as implemented by `PartitionDir`, builds and grades | done |
| 11 | Proofs about the tape: the sorts, the merge and the filter of `Bars` stated by ranks, so that `AggBarsOfTape` and `OutsideOnlyWhenDropped` are proved without induction | done |
| 12 | Proofs about sums and windows: `ResampleIsBarOfTrades`, with what a bar tells of its trades | done |

A module brings one run that checks its safety and its liveness together, and where a
docstring of the code is contradicted, a second one that shows it. Where one instance
would be too large, the MC module names a `CONSTRAINT` that leaves out combinations
which no property needs: `TakenInOrder`, `Small` and `FailsUnlessRounds`, explained with
their modules. A type invariant that is proved for all
constants is not also a property of a run. `HealthTracker` prefixes the names that
every specification has, so that `IngestProofs` can be about it and `IngestProcess`.

Composition: `BarStore` is built on `Quality` and that on `Bars`, whose operators
it applies to what its jobs read. `ParquetWriter` refines `RowSink`, `PartitionDir` refines
`CopyStore`. `IngestProcess` and `TradeReconcile` use the writer as `RowSink`
describes it, with its flushes as single steps. That is sound for them because
all their calls come from one event loop, and `_flush_key` has no await.

## 3. The modules

### ParquetWriter — buffers, flushes, parts

`storage/parquet.py:43-124` with the flusher of `core/writer.py`. A call of
`append` is three steps: file the row and decide (`:73-80`), pop the buffer
(`:97-98`), write the file (`:99-124`). `flush_all` lists the keys and then
pops them one by one. Threads interleave between the steps; a write may raise; the
process may be killed.

- `RowsInOnePlace`: an accepted row is in one buffer, in one thread's hands, in
  one complete part, or lost, never in two of them.
- `PartsInTheirPartition`: the date taken from the first row is that of all.
- `BuffersBounded`: how far a buffer outgrows its size and its age.
- `DrainLeavesOnlyLateRows`: the last flush leaves only what came after it.
- `ImplementsRowSink`: the writer with all its threads is a `RowSink`.
- `RowsLeaveMemory` (liveness): every buffered row is written or dropped.

Run: `writer` (two threads and the flusher, four rows, three of one hour
and one of the next, which is another date, one kill: every pair of pieces of code
meets on one key). Rows of one buffer differ in nothing, so `TakenInOrder` lets them
come in one order only. Fairness: threads go on, timers fire, time passes; nothing is
assumed of arrivals.

### PartitionDir — one directory, many processes

Writers (`_flush_key`, `write_dataframe`), compactions (`storage/compact.py:15-42`)
and queries (`storage/duckdb_views.py:151-184`, `query/trades.py:55-59`) as
separate processes. Each listing, read, write and unlink is a step, a file
appears with its final name before it is complete, and any process may be
killed in between. Parts are multisets of rows, so copies stay visible.

- `PresentIsWritten`: a row whose writing completed stays readable, and nothing
  else appears.
- `QueryComplete`: a query that answers with rows has all that were readable
  when it listed the files.
- `ImplementsCopyStore`: as long as no two compactions overlap and none is killed,
  merging changes no copy count (`tangled` records that one of these has happened).
- `OneCompactedFile`: what `compact.py:18-19` says, and what does not hold: a second
  night leaves a second compacted file beside the first, as only `part-*` is merged.

`compact_all` (`compact.py:45-62`) goes over all directories and ends at the first
exception of any of them, so that nothing makes a compaction of this one begin. The
module has no fairness and no liveness for that reason.

Runs: `dir` (two writers, two compactions that may overlap, a query, a kill and a
failing write) and `dir_single` (two nights, no kill, no failure), which TLC must find
violated. Two rows are enough for two parts and a merge of both, in two compactions at
once or under a query; more rows are left to the proofs. `Small` explores everything
over rows that are written once; rows that are written twice, so that a part arrives
after a listing and a second compaction finds it, are explored while nobody queries,
is killed or overlaps.

### TradeReconcile — the feed and the hourly pass

One symbol on one venue. Time is a counter and a trade is named by its time, so
"a hole before a stored trade" is a comparison. The feed: a connection in order, a
buffer that is flushed within `FlushAge`, disconnects, a kill. The pass
(`core/reconciler.py:23-73`): read the clock, ask for MAX(ts_ns), await the
venue, write the answer date by date; any of them may raise.

A message may come again (Bitfinex sends each trade as `te` and `tu`), and a new
subscription may repeat any number of the last trades. An answer may be any part of
what was asked for: the paging loops of `fetch_trades` have a cap of pages and end at a
body without rows (`BackfillPaging` has how), and a write may raise between two dates
(`FillPart`). A kill may leave a part without its footer, and from then on every
`connect()` raises, and with it every pass (`torn`).

- `TailIsFilled`: after a pass that wrote a complete answer or had nothing to ask for,
  a missing trade of its window that is older than `MinGap` lies before a stored one,
  whatever passes with partial answers did before.
- `RepeatsOnlyNewest`: of what its query saw in the files a pass stores nothing again,
  but the newest trade where the adapter rounds its start.
- `OncePerQuery`: where it rounds nothing, the reconciler stores a trade once, and once
  more for every query that raised.
- `TailEventuallyFilled` (liveness): once time stands still the tail is filled, unless
  a part is torn.

How often the feed stores a trade is the matter of `CopiesExplained` in `VenueStreams`.
`rounds` tells the adapters that round the start down to a millisecond (Binance) from
those that do not; it is chosen at the start and never changes.

Run: `reconcile` (three units of time, a window of two, one kill, one failing query,
adapters of both kinds: a window that is left behind, rows that wait in the buffer, a
partial answer, one over two units and a retry all occur). `FailsUnlessRounds` leaves out failing queries where the
adapter rounds, as `OncePerQuery` says nothing there.
Fairness: timers fire and the loop comes again (weak). That passes which try again and
again reach their query once, and once get a complete answer and write it (strong
fairness of `Check` and `Fill`), is no promise of the code but an assumption about
venue and file system, as the code has no bound on failures; `Check` is disabled for
good by a torn part, so nothing is assumed of it then.

### IngestProcess — tasks, backoff, shutdown

The event loop (`core/ingest.py:37-78`) with its workers (`core/worker.py:51-80`),
the writer task (`core/writer.py:31-43`), the health writer and the reconciler
as tasks. A step is what a task does between two awaits. Cancelling is one
synchronous call for all tasks: `cancelled` holds those whose CancelledError has
not landed. The initial state is that after the first step of every task, in
which the reconciler makes its adapters and has raised if the configuration names
a venue without one. The rows of a worker are one buffer,
which holds something or nothing.

- `LastFlushIsLast`: once the writer has ended without an exception no row is in
  memory.
- `NoFeedDies`: until the process begins to stop, every worker lives.
- `FeedsComeBack`, `StopEnds` (liveness).

Run: `ingest_stop` (two workers, one of them of a stream that its venue does not
have, up to three failures, so the timer flush, its
finally clause and another task can all fail; a backoff of 1, 2, 3, whose second
doubling meets the cap). Fairness: the loop runs ready tasks and timers fire; neither
rows, nor failures, nor Ctrl-C are assumed. One Ctrl-C is modelled, not a second.

### SymbolMap — seeds and retirements

The table `symbol_map` and the retirements in `corrections`
(`core/corrections.py:112-165`), the configuration that operators edit, and its
cache (`core/symbols.py:28-40`). `effective_to_ns IS NULL` is a time later than
all. A retirement is two steps, and a seed may be killed between its inserts.

- `OneMapping`: at any time a pair has at most one mapping.
- `RetiredStaysRetired`: a ticker that was retired comes back into no as-of answer
  about a later time, although every start of ingest seeds the table with a
  configuration that may still list it.
- `UnloggedOnlyByKill`: a closed mapping without a correction costs a kill.
- `RenameIsRecorded`: what `corrections.py:117-118` says of a rename, and what does not
  hold: the key of a row has no ticker in it, so the re-seed meets the retired row and
  is dropped.

Runs: `symbols_asof` (two pairs, two tickers, two times, a kill) and `symbols_rename`,
which TLC must find violated. Two times are enough for an answer before and one after a
retirement, and two pairs for a seed that is killed half way.

### BackfillPaging — REST loops and the backfill around them

What a venue has is a sequence of times, and a fetch is a loop over it: 19
fetchers (`fetch_trades`, `fetch_klines`, `fetch_funding` of `sources/*.py`), each
an operator that says which rows a page keeps, where the loop goes on and whether
it does. They share the actions of `scripts/backfill.py:18-83`: ask for pages, group by
date, write each date, log one correction. A request, a write or the insert may
raise, the process may be killed, and the market trades while it is paged. A body that
holds no rows, such as that of an error, ends a loop of Kraken, Bybit, OKX or Bitstamp
without an exception (`Lenient`, `BlankBody`). `Grain`
is the unit in which an API counts: a row's time is finer than that.

- `LossesExplained`: what a finished fetch misses in its window, and the only
  reasons: a millisecond or minute cut by a page, a page cap, a body without rows, the
  reach of a single request (Bitstamp's day, Kraken's and Gemini's candles), an empty
  chunk of Bitstamp, newest-first pages that Bybit's loops continue upwards, and the
  first candle of a chunk of Coinbase that holds one more than a page.
- `CollectedOnce`: no fetch collects a row twice, but for the candles on which two
  chunks of Coinbase meet.
- `CopiesAreLogged`: corrections and copies differ by one run per fault.
- `FetchEnds` (liveness): every loop ends.

Run: `backfill_pages`, every history of up to five rows in nine ticks, with pages
of two rows and a cap of two pages: a page is cut inside a grain, a cap is met
inside the window, a chunk is empty, a window begins inside a grain, and a
backfill is repeated after a fault. The caps of 2000 and 5000 are one constant.
Fairness: a loop that can go on does; neither an answer without rows, nor an exception,
nor the beginning of a backfill is assumed.

How a venue cuts its answers is external and taken from what the loops rely on.
Bybit answers a window that holds more than a page with its newest rows, which the code
itself says (`bybit.py:238`). Kraken's times go through a float in the code (`kraken.py:193`); here they are
exact. The `before` cursor of Coinbase is taken to mean what the loop expects of it.

### VenueStreams — connections, messages, books

One generator (`stream_trades`, `stream_quotes`, `stream_book`) of any of the
eight adapters that have them: 19 streams that differ in what a message holds, what the generator keeps
and what it yields, and share the connection. A normal close ends the inner loop:
`_connect` waits, connects again, and the generator keeps its book. A broken
connection raises through it to the worker, which begins a fresh one. Messages
wait in `wire`, and are lost with it. After a subscription a venue may repeat its
trades. A level of a book is its price.

Kraken's book is subscribed to a depth (`kraken.py:122`), here `Scope`: the venue tells
of the best levels only, and of a level that better ones push out nothing is told any
more. The handler does not cut its book to that depth, so such levels stay held until
they come into view again. They are in `carried`, with the levels of Coinbase that
outlive a connection.

- `CopiesExplained`: a trade has no more rows than its messages explain, and one
  that was made while connected is not lost.
- `BookIsMarket`: when everything is received the books of Kraken and Coinbase hold
  every level in view and no other but carried ones, and Gemini's best
  prices are the best ever told.
- `CrossedOnlyWhenStale`: a crossed quote or snapshot has a carried level in it, or is
  Gemini's, or has what stands in for an empty side; there is no other way to one.
- `LinkComesBack` (liveness).

Run: `venue_streams`, two trades, two moves of a market of three prices, two
connections that end, a depth of one in subscription and snapshot: a level leaves the
depth and comes back to the top, a book meets a second connection after the market moved
away and back, and a trade is repeated while its first message is on the wire.
Fairness: a venue that is tried again and again lets the adapter in some time, and the event loop hands over
what has arrived; trades, moves and drops are not assumed.

### Bars, Quality, BarStore — from trades to scorecards

`Bars` has the pure part: stable sorts as ranks (`InOrder`), the k-way merge as a
sort by the latest row before (`core/consolidated.py:46-71`), the median and MAD filter, the bar of a second and
of a window. Prices and sizes are whole numbers, and `pxv` stands for the vwap, so
that all of it is exact. `Quality` has the checks and the score of one slice.
`BarStore` runs them as the jobs do: `cda-build-bars` (`scripts/build_bars_1s.py`)
reads the trades, then makes and writes the bars of one venue after another, then
those of `agg`, then logs; `cda-build-dataset` backfills before it and scores after
it; `cda-validate` scores. Trades arrive between jobs, time passes between the
stamp of a bar and its file, a backfill may store a trade that is there already, and a
day may be built twice.

A job has no handler around most of its calls. Each read of the trades, each write,
each connection (`record_correction`, the scores, the manifest) may raise and end it:
DuckDB's file may be locked, a disk full, a part torn. A kill while a part is written
leaves a torn one (`torn`), after which `init_db` and every connection raise. While
scoring, a read that fails gives an empty frame instead (`quality/report.py:75-76`,
`:86-87`), so a card may be made `blind`. `MaxFaults` bounds failures, kills and copies
together. Trades without an id are in no check of duplicates (`checks.py:186-187`).

- `AggBarsOfTape`: every second with an eligible trade has its agg bar, which opens
  and closes with the right trades of the tape.
- `OutsideOnlyWhenDropped`: what it means when the agg close lies outside those of
  the venues.
- `ResampleIsBarOfTrades`: resampling a day's bars gives the bars of its trades,
  but for the mask.
- `BuildsAreLogged`: a build is missing from the log only for a failure or kill of its
  own, until a torn part keeps all builds from being logged.
- `CopiesNeverGradeA`: a second or a trade id that is there twice costs the A, unless
  a read for the card failed.
- `RaisesOnlyOnRebuilds`: where nothing failed, a job raises only on a day that two
  builds gave bars of one second.
- `AsOfSettles`: a read as of an instant changes only by a build that had begun.
- `DatasetFinishes`: what `build_dataset.py:15-16` says, and what does not hold.

Runs: `bars` (three venues, five trades: one venue with a trade in both seconds of a
window, so that a window of two seconds merges two bars of it and of `agg`; two rows of
one time in either order on disk, one of them an outlier; one trade without a size and
one without an id; two builds of one day, one tick) and `bars_twice`, which TLC must
find violated. Two faults are explored where `Small` allows them: over three of the
trades, of two venues and both seconds, and while the clock stands still; `AsOfSettles`
is the only property that looks at the clock. The reference for a merged tape is
`Precedes`, and for a longer bar `BarOf` over the trades themselves. No fairness is
assumed and no liveness claimed: each job is a finite chain of calls, and what could
keep one from ending, a request or a lock that is waited for, is a single step here.

A slice has no quotes here. The p99 of a few seconds is their maximum, and the
INSERT of the scorecards and the JSON beside it are one step.

### HealthTracker — rates and verdicts

`core/health.py`, `core/health_writer.py` and the latest snapshot of
`venue_status`. Time goes in ticks of the loop's interval, and a message is its age. A
history variable `sent` knows what the venue really sent, so that the verdict of
the deques can be compared with the rule of `core/health.py:3-4`.

- `VerdictExplained`: DOWN is never a false alarm, and a slow stream is called UP
  only by a young process or a full deque.
- `SilenceIsReported`: a silent stream is shown DOWN while the baseline window
  remembers that it was not.
- `AlarmClears` (liveness): a stream that recovers for good is UP for good.

Run: `health` (two streams, a baseline of three ticks, a deque of three arrivals
against eight that may come, restarts, INSERTs that fail half way). Fairness: time
goes by and the loop is woken.

## 4. What is proved

TLAPS checks every proof, for all values of the constants that satisfy the named
assumptions (`WriterAssumption`, `DirAssumption`, `ReconcileAssumption`,
`IngestAssumption`, `SymbolAssumption`, `PagingAssumption`, `StreamAssumption`,
`HealthAssumption`, `BarsAssumption`, `StoreAssumption`: types, distinct names,
positive thresholds, positive prices, that `MadK`, 5 in the code, is at least 1, that a pass's `MinGap` is within its window, that the baseline
window is longer than the recent one and an interval, and that a page has more than
one row: in a page of one, a chunk of Bitstamp's candles would never hold more than
its first, which ends that loop). Every safety invariant and every
action property that a passing run checks is proved.

### Parts and directories

| Theorem | Property | Argument |
|---|---|---|
| `ParquetWriterProofs!TypeCorrect` | `TypeOK` | by action |
| `RowsStayInOnePlace`, `PartsStayInTheirPartition` | `RowsInOnePlace`, `PartsInTheirPartition` | invariant: places are disjoint; the rows in a caller's hands have one key, and the part it writes holds exactly those rows under a name nobody else has |
| `BuffersStayBounded` | `BuffersBounded` | invariant: a worker has one key to do, so those that filed a row and have not popped are counted by key; a row in a buffer is no older than its buffer, and the timer of a live flusher is ahead of every age |
| `DrainIsComplete` | `DrainLeavesOnlyLateRows` | while the flusher drains, a key with a row that is not late is still in its list |
| `WriterImplementsSink` | `ImplementsRowSink` | each action maps to Accept, Persist, GiveUp or a stutter |
| `PartitionDirProofs!TypeCorrect` | `TypeOK` | by action |
| `NothingWrittenGoesAway` | `PresentIsWritten` | invariant: names are never reused; a file under construction has one owner; whatever a compactor is going to unlink is merged in a file that exists, and nobody unlinks compacted files |
| `QueriesAreComplete` | `QueryComplete` | what a query saw and has not read is still in a file it has to open, or its answer is no longer rows |
| `MergingIsInvisible` | `ImplementsCopyStore` | until compactions overlap or one is killed. The compactor at work is then the only one (`Others`). The store counts the complete files without the parts that a complete output supersedes; the compactor's merged rows are those of the parts it read, one by one, so when the output is complete the counts of output and parts are equal, and every unlink is a stutter |

The hypothesis of the last is in the property and is what the code needs: two
compactors that read the same parts leave two outputs, and a kill between the output and
the last unlink leaves the rows in both. `dir` has both in its states.

### The feed, the reconciler and ingest

| Theorem | Property | Argument |
|---|---|---|
| `TradeReconcileProofs!TypeCorrect` | `TypeOK` | by action |
| `StoredOncePerQuery` | `OncePerQuery` | nothing a pass is going to ask for was stored by a pass, but for queries that raised; what a partial answer left out was not stored either |
| `OnlyNewestRepeats` | `RepeatsOnlyNewest` | what a pass asks for begins after the newest trade its query saw, or with it where the adapter rounds |
| `PassesFillTheTail` | `TailIsFilled` | what a pass leaves out of its request lies before a stored trade, when it asks and ever after; a pass that is not complete makes no claim and takes none back |
| `IngestProofs!TypeCorrect`, `LastFlush`, `FeedsLive` | `TypeOK`, `LastFlushIsLast`, `NoFeedDies` | until main stops no task is cancelled; from then on every live task is, so that nobody appends |
| `HealthTypeCorrect` | `HealthTypeOK` | by action |
| `SilenceReported` | `SilenceIsReported` | invariant: what a deque holds was sent; a process that is stopped holds nothing; a stream silent for the recent window was seen so by the last report, or the next one is due before an interval has passed |
| `VerdictsExplained` | `VerdictExplained` | invariant: a deque holds its arrivals in order of age, and counts of each age no more than were sent; equally many of every age below that of its oldest arrival and, until it has been full, of every age below the uptime. Both rates follow from the counts |

### Symbols

| Theorem | Property | Argument |
|---|---|---|
| `SymbolMapProofs!TypeCorrect` | `TypeOK` | by action |
| `OneMappingAtATime`, `RetiredTickersStayRetired` | `OneMapping`, `RetiredStaysRetired` | where all seeds use one effective_from: the primary key leaves one row for a pair |
| `KillsExplainUnlogged` | `UnloggedOnlyByKill` | where all seeds start at 0: closed rows without a log entry are at most the kills and the retirement that is between its two transactions. With several starts one retirement closes several rows |

### Venues and backfills

| Theorem | Property | Argument |
|---|---|---|
| `VenueStreamsProofs!TypeCorrect` | `TypeOK` | by action; a message's levels are the market's |
| `CopiesAreExplained` | `CopiesExplained` | the copies of a trade and its mentions in the messages on the wire, counted by a running sum over the sequence, never exceed its rate and its repeats; a connected trade without a row is still on the wire |
| `BooksAreMarkets` | `BookIsMarket` | a book is right only when all on the wire is applied. Invariant: there is a sequence of stages, one for each message on the wire, that begins with the book held, goes on as the handler would and ends with what the venue shows of the market, and at each stage the book without its carried levels is what was told |
| `CrossedIsStale` | `CrossedOnlyWhenStale` | from the same stages: a market is never crossed, so one side of a crossed yield is carried, Gemini's, or empty |
| `BackfillPagingProofs!TypeCorrect` | `TypeOK` | each of the 19 pages keeps rows of the venue and goes on at a number, because the ends of a page that is not empty exist |
| `CopiesLogged` | `CopiesAreLogged` | invariant: a row of the fetch whose date is written and whose correction is not owes one copy; outside writing no date is outstanding |
| `RowsCollectedOnce` | `CollectedOnce` | what is collected lies behind the cursor (`Behind`), by the order in which each loop walks, but for a candle on the seam of two chunks of Coinbase |
| `LossesHaveReasons` | `LossesExplained` | what is wanted and not collected lies ahead of the cursor, or was passed over for one of the reasons (`Remaining`); a loop ends only when nothing is ahead or for another of them |

### Bars and grades

| Theorem | Property | Argument |
|---|---|---|
| `BarStoreProofs!TypeCorrect` | `TypeOK` | by action |
| `BuildsLogged` | `BuildsAreLogged` | only the build that runs adds bars, and its number is not in the log before it ends; every build that ended without an entry took a failure or a kill of its own, unless a part was torn |
| `AsOfReadsSettle` | `AsOfSettles` | the bars in hand bear stamps from the build's read on |
| `RaisesOnRebuilds` | `RaisesOnlyOnRebuilds` | one build makes one bar of a series and a second (`Once`), so on a day that no two builds share a second all counts are 0 or 1, every read returns a part of such a day, and such series can be joined and compared; all else that raises is a failure and is recorded in the job |
| `CopiesGraded` | `CopiesNeverGradeA` | where the reads returned, a copy is a major issue, issues are finitely many, and the base is at most 100: the share of a finite union of seconds. So the score is at most 90 |
| `AggBarsFollowTape` | `AggBarsOfTape` | see below |
| `OutsideExplained` | `OutsideOnlyWhenDropped` | see below |
| `ResampleFollowsTrades` | `ResampleIsBarOfTrades` | see below |

The last three need to know what sorting, merging and filtering compute. `Bars` says it
without recursion: `InOrder(S, R)` puts the member with k - 1 others before it in
place k. The ranks of a finite ordered set are distinct numbers below its size, hence
all of them, so `InOrder` is a bijection that keeps the order (`InOrderFacts`). From
this follow, each as a lemma, that a selection keeps the order of its rows, that a
stable sort is sorted, and that some member of a list is at most its median.

- *Merge.* The key of a place is the latest row up to it, in its list. Along a list
  keys do not fall, so places are totally ordered and each list keeps its order
  (`MergeFacts`). Where each list is sorted by `ts_ns`, so is the tape; where each
  is sorted by `Precedes`, every row is its own key and so is the tape.
- *Filter.* Some deviation is at most the median deviation, so with `MadK >= 1` its
  trade is kept; when the median is zero, a trade without deviation is. Equal trades
  are kept or dropped together (`FilterFacts`). So no second is emptied,
  and its agg bar opens and closes with kept trades that no other kept one precedes
  or follows.
- *Close.* If everything of a second is kept, its last trade is the last of its
  venue's list in that second too, and so the close of a venue's bar.

- *Sums.* `Total` is a recursive function, and the library's induction theorems take
  an operator that the provers cannot instantiate. Induction is therefore by sets: a
  set of numbers with 0, and with i + 1 whenever it has i, has all up to the end, or
  there would be a least one missing (`StepByStep`). So running sums exist and are
  unique (`TotalFacts`), the sum at a set of places is additive (`SumOfTwo`), and the
  sums of the parts of a set add up to its own (`SumOfParts`).
- *Windows.* `Tells(c, T, I)` says that the prices, sums and count of the bar c are
  those of the trades of T at the places I. A bar made of them tells of them
  (`BarTells`); the window of bars in time order that tell of parts, one after the
  other, tells of their union (`WindowTells`); and two bars that tell of the same
  places agree (`ToldOnce`). Seconds do not straddle windows and rows of a later
  second stand later in a sorted list, so the parts of a window are such parts
  (`OneWindow`), and `LongBars` compares its bar with the one made of the window's
  trades. Masks are totally ordered by the highest bit in which they differ, so the
  largest is one of them (`HighestMask`) and names venues of the window.

`TapeInv` carries these to the states: what is in hand is the bars of a read list or
of the tape, a venue that is done has exactly its bars and one that is not has none of
this build, and nothing of agg is written before. That a series has each second once in
this build follows, and with it that its bars can be put in time order.

Each strengthening is the operator `IInv` of its module, or one beside it: `BufferInv`,
`CopyInv`, `HealthInv` and `CInv`, `KillsExplain`, `TradeInv` and `BookInv`, `FInv`,
`FiniteBars` and `TapeInv`.

Only model-checked:

- all liveness properties (`RowsLeaveMemory`, `TailEventuallyFilled`, `FeedsComeBack`,
  `StopEnds`, `FetchEnds`, `LinkComesBack`, `AlarmClears`): they need fairness, which is
  out of the prover's reach;
- the three properties that do not hold (section 5).

The prover knows no definition of the operators of TLC's own module (`@@`, `:>`,
`SortSeq`) nor of the folds, so `Bars`, `BarStore` and `PartitionDir` use function
constructors, ranks, a recursive function and cardinalities where a proof has to look
inside.

## 5. Where the code contradicts its documents

Three of them are runs that TLC must find violated; the findings in `PROJECT.json`
quote the lines.

| Run | What the code does |
|---|---|
| `bars_twice` | on a day that was built twice the dataset build ends with an exception (`checks.py:261`), though `build_dataset.py:15-16` says that it always finishes |
| `dir_single` | compaction merges `part-*` only (`compact.py:21`), so a second night leaves two compacted files where `:18-19` promise a single one |
| `symbols_rename` | the rename that `corrections.py:117-118` describes adds nothing: the key of the new row is that of the retired one (`:132`) |

The following are visible in the actions and the exceptions of the properties, and
have no run of their own.

| Where | What the code does |
|---|---|
| `compact.py:39`, against `duckdb_views.py:10` | a query during compaction may return a row twice (`seen` is a subset of `result`, not equal to it) |
| `reconciler.py:37`, against `:24` | rows in the writer's buffer are fetched and stored again, once (`OncePerQuery` counts the reconciler's copies only) |
| `reconciler.py:40` | a failing MAX query makes the whole window be stored again (the `errors` of `OncePerQuery`) |
| `worker.py:78`, against `OPERATIONS.md:15` | the jitter comes after the cap: a sleep of up to 90 s (the `3 * MaxBackoff` half-seconds of `TypeOK`) |
| `health_writer.py:31`, against `run_ingest.py:1-6` | one failing INSERT of the health writer ends the process |
| `reconciler.py:66`, against `ingest.py:50-54` | a venue without an adapter ends it, though workers skip it |
| `parquet.py:91`, against `run_ingest.py:6-7` | one failing buffer keeps the others from being written at the end |
| `corrections.py:128`, against `:115` | a seed with another start doubles every mapping |
| `corrections.py:148`, against `README.md:61` | a retirement may stay unlogged after a kill (`UnloggedOnlyByKill`) |
| `parquet.py:117` | a kill while a part is written leaves a file that fails every later query, pass and build (`torn` in `TradeReconcile` and `BarStore`, the second way of `QueryComplete` to an empty answer) |
| `reconciler.py:37`, against `:3-5` | a gap that ended before the pass is never filled (`TailIsFilled` is about the tail) |
| `binance.py:129`, against `reconciler.py:24` | an adapter that asks in milliseconds gets the last trade again (`rounds`) |
| `worker.py:70` | the worker of an unsupported stream restarts for ever: its stub is no generator, so the exception that would stop it is not raised (`Stub` in `ingest_stop`) |
| `binance.py:151` and its kin, against `METHODOLOGY.md:136` | the rest of a millisecond is skipped where a page ends in it (`LossesExplained`) |
| `bitstamp.py:150` | an empty chunk ends the fetch, whatever comes later |
| `kraken.py:185-190`, `bybit.py:180`, `:211`, `:235`, `okx.py:121`, `:162`, `bitstamp.py:149`, against `SLA.md:24` | a body without rows, such as that of an error, ends a fetch as if the history were over (`BlankBody`) |
| `bybit.py:251`, against `SLA.md:24` | pages that come newest first are continued upwards, so the older candles of a window of more than a page are never asked for |
| `coinbase.py:214` | a chunk of 300 steps has 301 candles, and a page 300 |
| `kraken.py:122` | the book is not cut to the depth it is subscribed to, so levels that nothing tells of stay held and may cross (`CrossedOnlyWhenStale`) |
| `report.py:75-76`, `:86-87` | a read that fails looks like a day without rows, and may give a better grade (`blind` in `CopiesNeverGradeA`) |
| `binance.py:148`, with `:59` | the live stream and the REST request name a trade by different ids, so a trade that both stored is no duplicate to `checks.py:185-192`; what the venue's ids have in common is outside the code, and no property is about it |
| `backfill.py:74`, `build_bars_1s.py:102`, against `SLA.md:50` | a backfill or a build that is cut off is not in the log (`CopiesAreLogged`, `BuildsAreLogged`) |
| `binance.py:89`, against `:89` | ten snapshots a second are yielded, and nothing is downsampled |
| `binance.py:192`, against its comment | for candles finer than a minute the skip of a minute does not work for a full page |
| `gemini.py:91`, against `:86` | the best prices never worsen, so a quote stays crossed (`BookIsMarket`) |
| `build_bars_1s.py:78-90`, against `OPERATIONS.md:70` | nobody passes `excluded_venues`: the tape does not exclude DOWN venues |
| `health.py:55`, against `:3-4` | after the baseline window a dead stream is UP again (`SilenceIsReported`) |
| `checks.py:245`, against `METHODOLOGY.md:107` | a dropped trade moves a venue's close and is no error of the roll-up (`OutsideOnlyWhenDropped`) |
| `resample.py:21`, against its comment | the mask of a window is the largest, not the union (`ResampleIsBarOfTrades`) |
| `consolidated.py:46`, with `build_bars_1s.py:54` | the callers sort by `ts_ns` alone, so rows of one time come out in the order of their files (`AggBarsOfTape`) |
| `query/bars.py:62`, against `:48-50` | a bar stamped before the instant and written after it appears in a read as of that instant (`AsOfSettles`) |
| `checks.py:185`, `report.py:181` | a trade that is stored twice counts twice in the agg volume, and only the venue's card says so (`CopiesNeverGradeA`) |
| `report.py:130` | the coverage of agg counts every other series, not only those on the tape (`AggCoverageOfUnion`) |

## 6. What is not modelled

- The rate limiter: only its unit test makes a `TokenBucket`.
- The streams that poll funding and open interest, and the legacy combiner
  `aggregate_second`, which no job calls.
- Of the quality checks, those of quotes and the completeness of a slice; the gate of
  `cda-validate` reads the cards of earlier runs too (`validate.py:62-69`).
- A change of Kraken's or Coinbase's book inside the five seconds after a snapshot is
  not in any row; a quiet market leaves the last snapshot old. `VenueStreams` has
  this (`FiveSeconds` yields nothing) without a property.
- Parsing of venue messages, SQL text, data-frame shaping, the command lines,
  reports, the metrics exporter and benchmarks: no state that another part reads.
- The worker and its stream together: `IngestProcess` sees a stream that ends,
  raises or goes on, `VenueStreams` a worker that begins a fresh generator.
- Sizes in books, and the sequence numbers and checksums that some venues send and
  no handler reads.
- File-system semantics below "a file exists, complete or not": fsync, torn
  directory entries, full disks other than as a write that raises.
- DuckDB's file lock between processes, other than as a connection that fails; more than
  one failing read in one scoring run.
- The order in which `compact_all` comes to the directories.
