--------------------------- MODULE TradeReconcile ---------------------------
(***************************************************************************)
(* One symbol on one venue: the live trade feed with its write buffer, and *)
(* the REST reconciler that is to fill what the feed missed                *)
(* (cryptodata/core/reconciler.py).  Both run in the ingest process; the   *)
(* reconciler sees only what is in the files.                              *)
(*                                                                         *)
(* Time is a counter: one trade at most in a unit, named by its time.  The *)
(* reconciler awaits between reading the clock, asking for MAX(ts_ns) and  *)
(* the answer of the venue, so time and the feed go on in between.  How    *)
(* many copies the feed makes of a trade is the matter of VenueStreams,    *)
(* and what an answer may miss that of BackfillPaging: here a trade can be *)
(* received again, and an answer can be any part of what was asked for.    *)
(***************************************************************************)
EXTENDS Integers, FiniteSetsExt

CONSTANTS
    MaxTime,     \* bound of the model: the last unit of time
    MaxCrashes,  \* bound of the model: how often the process is killed
    MaxErrors,   \* bound of the model: how often the MAX query raises
    FlushAge,    \* how long the live writer may keep a row in memory
    Lookback,    \* lookback_minutes
    MinGap,      \* 60 s: a younger tail is not worth a request
    MaxCopies    \* bound of the model: copies of a trade are counted up to it

ASSUME ReconcileAssumption ==
    /\ MaxTime \in Nat /\ MaxCrashes \in Nat /\ MaxErrors \in Nat
    /\ MaxCopies \in Nat /\ MaxErrors + 1 < MaxCopies
    /\ FlushAge \in Nat
    /\ MinGap \in Nat \ {0}
    /\ Lookback \in Nat /\ MinGap <= Lookback

Times == 1 .. MaxTime

VARIABLES
    rounds,     \* the adapter rounds start_ns down to its millisecond, as Binance's
    now,
    traded,     \* the trades of the venue so far
    connected,  \* the WebSocket is up
    wire,       \* trades sent on it and not yet received
    buffered,   \* received trades in the writer's buffer
    age,        \* how long that buffer has been open
    live,       \* the trades the live writer has stored
    filled,     \* trade -> copies the reconciler has stored
    rpc,        \* where reconcile_venue_trades is
    passNow,    \* its now_ns
    from,       \* the first time it asks the venue for
    had,        \* history: the trades its query saw in the files
    lastPass,   \* history: now_ns of the last pass that missed nothing it asked for
    errors,     \* how often the MAX query has raised
    crashes,
    torn        \* a kill left a part without its footer

feed == <<connected, wire, buffered, age, live>>
pass == <<rpc, passNow, from, had, lastPass>>
accidents == <<errors, crashes, torn>>
vars == <<rounds, now, traded, feed, filled, pass, accidents>>

Stored    == live \cup {t \in Times : filled[t] > 0}
Add(m, S) == [t \in Times |-> IF t \in S /\ m[t] < MaxCopies THEN m[t] + 1 ELSE m[t]]

TypeOK ==
    /\ rounds \in BOOLEAN
    /\ now \in 0 .. MaxTime
    /\ traded \subseteq 1 .. now
    /\ connected \in BOOLEAN
    /\ wire \subseteq traded
    /\ buffered \subseteq traded
    /\ age \in 0 .. FlushAge
    /\ filled \in [Times -> 0 .. MaxCopies]
    /\ Stored \subseteq traded
    /\ rpc \in {"idle", "checking", "fetching"}
    /\ passNow \in 0 .. now
    /\ from \in Int
    /\ had \subseteq Stored
    /\ lastPass \in 0 .. now
    /\ errors \in 0 .. MaxErrors
    /\ crashes \in 0 .. MaxCrashes
    /\ torn \in BOOLEAN

Init ==
    /\ rounds \in BOOLEAN
    /\ now = 0
    /\ traded = {}
    /\ connected = FALSE
    /\ wire = {}
    /\ buffered = {}
    /\ age = 0
    /\ live = {}
    /\ filled = [t \in Times |-> 0]
    /\ rpc = "idle"
    /\ passNow = 0
    /\ from = 0
    /\ had = {}
    /\ lastPass = 0
    /\ errors = 0
    /\ crashes = 0
    /\ torn = FALSE

\* The variables of a call that is over.
Forget == rpc' = "idle" /\ passNow' = 0 /\ from' = 0 /\ had' = {}

-----------------------------------------------------------------------------
(* The venue, the feed and the writer's buffer                             *)

\* Time passes, with or without a trade; the buffer is flushed in time.
Tick ==
    /\ now < MaxTime
    /\ buffered # {} => age < FlushAge
    /\ now' = now + 1
    /\ age' = IF buffered = {} THEN 0 ELSE age + 1
    /\ \E new \in {{}, {now + 1}} :
        /\ traded' = traded \cup new
        /\ wire' = IF connected THEN wire \cup new ELSE wire
    /\ UNCHANGED <<rounds, connected, buffered, live, filled, pass, accidents>>

\* A connection delivers in order; a message may come again, as Bitfinex sends
\* each trade as te and as tu.
Receive ==
    /\ wire # {}
    /\ wire' \in {wire, wire \ {Min(wire)}}
    /\ buffered' = buffered \cup {Min(wire)}
    /\ age' = IF buffered = {} THEN 0 ELSE age
    /\ UNCHANGED <<rounds, now, traded, connected, live, filled, pass, accidents>>

Flush ==
    /\ buffered # {}
    /\ live' = live \cup buffered
    /\ buffered' = {}
    /\ age' = 0
    /\ UNCHANGED <<rounds, now, traded, connected, wire, filled, pass, accidents>>

Disconnect ==
    /\ connected
    /\ connected' = FALSE
    /\ wire' = {}
    /\ UNCHANGED <<rounds, now, traded, buffered, age, live, filled, pass, accidents>>

\* The venue may repeat the last trades to a new subscription.
Reconnect ==
    /\ ~connected
    /\ connected' = TRUE
    /\ \E t \in 0 .. now : wire' = {s \in traded : s > t}
    /\ UNCHANGED <<rounds, now, traded, buffered, age, live, filled, pass, accidents>>

\* kill -9 and a new start: memory goes, files stay, also one whose writing was
\* cut short.
Crash ==
    /\ crashes < MaxCrashes
    /\ crashes' = crashes + 1
    /\ connected' = FALSE
    /\ wire' = {}
    /\ buffered' = {}
    /\ age' = 0
    /\ torn' \in {torn, TRUE}
    /\ Forget
    /\ UNCHANGED <<rounds, now, traded, live, filled, lastPass, errors>>

-----------------------------------------------------------------------------
(* reconcile_venue_trades                                                  *)

\* now_ns is read once for all symbols of the venue; the requests for the
\* symbols before this one take their time.
BeginPass ==
    /\ rpc = "idle"
    /\ rpc' = "checking"
    /\ passNow' = now
    /\ UNCHANGED <<rounds, now, traded, feed, filled, from, had, lastPass, accidents>>

Window   == passNow - Lookback
Recent   == {t \in Stored : t >= Window}
LastSeen == IF Recent = {} THEN Window ELSE Max(Recent)

Start(t) == IF rounds THEN t ELSE t + 1

\* Fault: the request starts one unit late.
CheckLate ==
    /\ rpc = "checking"
    /\ passNow - LastSeen >= MinGap
    /\ from' = LastSeen + 2
    /\ had' = Stored
    /\ rpc' = "fetching"
    /\ UNCHANGED <<rounds, now, traded, feed, filled, passNow, lastPass, accidents>>

\* Fault: the whole window is asked for again.
CheckWindow ==
    /\ rpc = "checking"
    /\ from' = Start(Window)
    /\ had' = Stored
    /\ rpc' = "fetching"
    /\ UNCHANGED <<rounds, now, traded, feed, filled, passNow, lastPass, accidents>>

\* connect() binds every view: with a torn part it raises, for good.
Check ==
    /\ rpc = "checking"
    /\ ~torn
    /\ IF passNow - LastSeen < MinGap
       THEN /\ Forget
            /\ lastPass' = passNow
       ELSE /\ rpc' = "fetching"
            /\ from' = Start(LastSeen)
            /\ had' = Stored
            /\ UNCHANGED <<passNow, lastPass>>
    /\ UNCHANGED <<rounds, now, traded, feed, filled, accidents>>

\* Any exception of the query, such as a file that compaction unlinks under
\* it, counts as "no rows in the window".
CheckRaises ==
    /\ rpc = "checking"
    /\ ~torn
    /\ errors < MaxErrors
    /\ errors' = errors + 1
    /\ rpc' = "fetching"
    /\ from' = Start(Window)
    /\ UNCHANGED <<rounds, now, traded, feed, filled, passNow, had, lastPass, crashes,
                   torn>>

Asked == {t \in traded : from <= t /\ t <= passNow}

\* The answer is complete and written, date by date and without an await.
Fill ==
    /\ rpc = "fetching"
    /\ filled' = Add(filled, Asked)
    /\ Forget
    /\ lastPass' = passNow
    /\ UNCHANGED <<rounds, now, traded, feed, accidents>>

\* The answer misses trades, as fetch_trades has a cap of pages and ends at a body
\* without rows; or the write of a date raises, and the others stay written or
\* are not reached.
FillPart ==
    /\ rpc = "fetching"
    /\ \E S \in SUBSET Asked : S # Asked /\ filled' = Add(filled, S)
    /\ Forget
    /\ UNCHANGED <<rounds, now, traded, feed, lastPass, accidents>>

\* An exception of connect() or of the request is logged, and the next pass
\* tries again.
PassRaises ==
    /\ rpc \in {"checking", "fetching"}
    /\ Forget
    /\ UNCHANGED <<rounds, now, traded, feed, filled, lastPass, accidents>>

FeedStep == Receive \/ Flush \/ Disconnect \/ Reconnect
PassStep == BeginPass \/ Check \/ CheckRaises \/ Fill \/ FillPart \/ PassRaises

Next == Tick \/ FeedStep \/ PassStep \/ Crash

Spec == Init /\ [][Next]_vars

\* Timers fire and the loop comes again.  Of the venue and of the file system
\* this assumes that passes that try again and again reach their query once, and
\* once get a complete answer and write it; after a torn part none does.
FairSpec == Spec /\ WF_vars(Tick) /\ WF_vars(Flush) /\ WF_vars(BeginPass)
                 /\ SF_vars(Check) /\ SF_vars(Fill)

-----------------------------------------------------------------------------
(* Properties                                                              *)

\* When a pass has written a complete answer, or found nothing to ask for, a
\* trade of its window that is not stored and is older than MinGap lies before a
\* stored trade: the tail is filled, whatever the feed, the buffer, kills and
\* passes with partial answers did before (reconciler.py:32-61).
TailIsFilled ==
    \A t \in traded \ Stored :
        lastPass - Lookback < t /\ t <= lastPass - MinGap => \E s \in Stored : s > t

\* Of what its query saw in the files a pass stores nothing again, but the newest
\* trade where the adapter rounds its start down to a millisecond: there a quiet
\* symbol gets its last trade again every hour (reconciler.py:36-48).
RepeatsOnlyNewest ==
    [][\A t \in had : filled'[t] # filled[t] => rounds /\ t = Max(had)]_vars

\* Where the adapter rounds nothing, the reconciler stores a trade once, and once
\* more for every query that raised: neither rows in the writer's buffer, nor
\* partial answers that are fetched again, nor kills add to that
\* (reconciler.py:40-41).
OncePerQuery == ~rounds => \A t \in Times : filled[t] <= 1 + errors

\* Once time stands still the tail is filled up to MinGap, unless a torn part
\* makes every pass raise.
TailEventuallyFilled ==
    <>[](\/ torn
         \/ \A t \in traded \ Stored :
               now - Lookback < t /\ t <= now - MinGap => \E s \in Stored : s > t)

=============================================================================
