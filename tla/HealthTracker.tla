---------------------------- MODULE HealthTracker ----------------------------
(***************************************************************************)
(* The health tracker of the ingest process (cryptodata/core/health.py),   *)
(* the loop that writes its verdicts to venue_status                       *)
(* (core/health_writer.py), and the latest snapshot that cda-status shows  *)
(* (obs/status.py).                                                        *)
(*                                                                         *)
(* A key is a (venue, symbol, stream).  Time goes by in ticks of the       *)
(* loop's interval; a message is its age in ticks, and what is older than  *)
(* the baseline window has one age more than it.  A report neither waits   *)
(* nor lets another task run, and DuckDB locks its file, so that evaluate  *)
(* and the INSERTs are one step.                                           *)
(***************************************************************************)
EXTENDS Integers, FiniteSets, SequencesExt

CONSTANTS
    Keys,
    Recent,     \* trade_rate_window_seconds
    Baseline,   \* trade_rate_baseline_seconds
    Slowdown,   \* 1 / down_threshold_ratio
    MaxLen,     \* of a deque of arrivals: 20000
    Interval,   \* check_interval_seconds
    PerTick     \* bound of the model: key -> messages in a tick

ASSUME HealthAssumption ==
    /\ {Recent, Baseline, Slowdown, MaxLen, Interval} \subseteq Nat \ {0}
    /\ PerTick \in [Keys -> Nat]
    /\ Recent + Interval < Baseline

Ages == 0 .. Baseline + 1
Verdicts == {"none", "up", "down"}

VARIABLES
    running,   \* the ingest process
    windows,   \* the tracker: key -> ages of the arrivals it holds, oldest first
    asleep,    \* ticks until the loop wakes
    snapshot,  \* the rows of venue_status with the latest time
    sent,      \* history: key -> age -> messages the venue sent
    uptime     \* history: ticks since the process began

healthVars == <<running, windows, asleep, snapshot, sent, uptime>>

HealthTypeOK ==
    /\ running \in BOOLEAN
    /\ windows \in [Keys -> Seq(Ages)]
    /\ \A k \in Keys : Len(windows[k]) <= MaxLen
    /\ asleep \in 0 .. Interval
    /\ snapshot \in [Keys -> Verdicts]
    /\ sent \in [Keys -> [0 .. Baseline -> Nat]]
    /\ \A k \in Keys, a \in 0 .. Baseline : sent[k][a] <= PerTick[k]
    /\ uptime \in Ages

HealthInit ==
    /\ running = TRUE
    /\ windows = [k \in Keys |-> <<>>]
    /\ asleep = Interval
    /\ snapshot = [k \in Keys |-> "none"]
    /\ sent = [k \in Keys |-> [a \in 0 .. Baseline |-> 0]]
    /\ uptime = 0

-----------------------------------------------------------------------------

\* Fault: a full deque refuses what is new.
KeepOldest(w, age) == IF Len(w) = MaxLen THEN w ELSE Append(w, age)

\* _RateWindow.record
Record(w, age) == Append(IF Len(w) = MaxLen THEN Tail(w) ELSE w, age)

Within(w, window) == Cardinality({i \in DOMAIN w : w[i] <= window})

\* Fault: a stream without a recent message is not judged.
UpUnjudged(w) == Within(w, Recent) = 0
                 \/ Within(w, Recent) * Baseline * Slowdown >= Within(w, Baseline) * Recent

\* HealthTracker.evaluate: the recent rate is at least a part of the baseline.
Up(w) == Within(w, Baseline) = 0
         \/ Within(w, Recent) * Baseline * Slowdown >= Within(w, Baseline) * Recent

\* Fault: only what is down is written.
DownRows(k) == IF windows[k] = <<>> \/ Up(windows[k]) THEN "none" ELSE "down"

\* A key has a row when it has had a message.
Row(k) == IF windows[k] = <<>> THEN "none"
          ELSE IF Up(windows[k]) THEN "up" ELSE "down"

Rows == [k \in Keys |-> Row(k)]
Known == {k \in Keys : Row(k) # "none"}

\* A message arrives, and a worker that runs records it.
Arrive(k) ==
    /\ sent[k][0] < PerTick[k]
    /\ sent' = [sent EXCEPT ![k][0] = @ + 1]
    /\ windows' = IF running THEN [windows EXCEPT ![k] = Record(@, 0)] ELSE windows
    /\ UNCHANGED <<running, asleep, snapshot, uptime>>

\* The loop wakes in the tick in which it is due.
Tick ==
    /\ running => asleep > 0
    /\ asleep' = IF running THEN asleep - 1 ELSE asleep
    /\ uptime' = IF uptime > Baseline THEN uptime ELSE uptime + 1
    /\ windows' = [k \in Keys |-> [i \in DOMAIN windows[k] |->
                      IF windows[k][i] > Baseline THEN windows[k][i] ELSE windows[k][i] + 1]]
    /\ sent' = [k \in Keys |-> [a \in 0 .. Baseline |-> IF a = 0 THEN 0 ELSE sent[k][a - 1]]]
    /\ UNCHANGED <<running, snapshot>>

Due == running /\ asleep = 0

\* Without a row, nothing is written.
Report ==
    /\ Due
    /\ snapshot' = IF Known = {} THEN snapshot ELSE Rows
    /\ asleep' = Interval
    /\ UNCHANGED <<running, windows, sent, uptime>>

\* Stopping loses the tracker, not the table.
Stops ==
    /\ running' = FALSE
    /\ windows' = [k \in Keys |-> <<>>]
    /\ asleep' = Interval
    /\ UNCHANGED <<sent, uptime>>

\* The file is locked by another process, or an INSERT fails: the rows before
\* it are in the table, and the exception ends the process.
ReportFails ==
    /\ Due
    /\ Known # {}
    /\ \E done \in SUBSET Known :
        snapshot' = IF done = {} THEN snapshot
                    ELSE [k \in Keys |-> IF k \in done THEN Row(k) ELSE "none"]
    /\ Stops

Stop ==
    /\ running
    /\ Stops
    /\ UNCHANGED snapshot

Start ==
    /\ ~running
    /\ running' = TRUE
    /\ uptime' = 0
    /\ UNCHANGED <<windows, asleep, snapshot, sent>>

HealthNext ==
    \/ \E k \in Keys : Arrive(k)
    \/ Tick \/ Report \/ ReportFails \/ Stop \/ Start

HealthSpec == HealthInit /\ [][HealthNext]_healthVars

\* Time goes by, and the event loop wakes the writer.
HealthFairSpec == HealthSpec /\ WF_healthVars(Tick) /\ WF_healthVars(Report)

-----------------------------------------------------------------------------
(* Properties                                                              *)

SentUpTo(k, age) ==
    Cardinality({m \in (0 .. age) \X (1 .. PerTick[k]) : m[2] <= sent[k][m[1]]})

\* What the rule of core/health.py:3-4 says of the venue's messages.
Slow(k) == SentUpTo(k, Baseline) > (SentUpTo(k, Recent) * Baseline * Slowdown) \div Recent

\* A row says DOWN of a stream only when it has slowed down: neither a restart,
\* which forgets the arrivals, nor a full deque, which drops the oldest, makes an
\* alarm.  A slow stream is called UP only when the tracker misses messages of
\* the baseline window: the process is younger than that, or the deque is full
\* of arrivals within it (core/health.py:17, :45-59).
VerdictExplained ==
    [][Report => \A k \in Known :
        /\ snapshot'[k] = "down" => Slow(k)
        /\ Slow(k) /\ snapshot'[k] = "up" =>
            \/ uptime <= Baseline
            \/ Len(windows[k]) = MaxLen /\ Head(windows[k]) <= Baseline]_healthVars

\* A stream that has been silent for longer than the recent window and the
\* loop's interval is shown DOWN, as long as the process that received from it
\* runs and the baseline window has not passed as well (then it is UP again,
\* core/health.py:55).
SilenceIsReported ==
    \A k \in Keys :
        /\ running
        /\ SentUpTo(k, Recent + Interval) = 0
        /\ Within(windows[k], Baseline) > 0
        => snapshot[k] = "down"

\* When a stream that this process receives is as fast as it was, the snapshot
\* shows it UP for good.
AlarmClears ==
    \A k \in Keys :
        <>[](running /\ ~Slow(k) /\ windows[k] # <<>>) => <>[](snapshot[k] = "up")
=============================================================================
