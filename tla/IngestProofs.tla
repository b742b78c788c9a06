---------------------------- MODULE IngestProofs ----------------------------
(***************************************************************************)
(* Theorems about the ingest process, for every set of workers, streams,   *)
(* windows, ratios and lengths of the deques: about its tasks              *)
(* (IngestProcess) and about its health tracker (HealthTracker).           *)
(*                                                                         *)
(* Tasks. That nobody appends after the last flush is not inductive by     *)
(* itself. The invariant beside it says what the one synchronous call that *)
(* cancels all tasks achieves: until it no task is cancelled, and from it  *)
(* on every task that still lives is, so that the step after its next      *)
(* await is its last.                                                      *)
(*                                                                         *)
(* Health. That silence is reported is not inductive: between two reports  *)
(* the snapshot is as old as the loop has slept. The invariant says what   *)
(* the last report saw: a deque whose youngest arrival is older than the   *)
(* recent window and that sleep was without a recent message then. What a  *)
(* verdict says of the venue's messages needs their counts: of each age    *)
(* the deque counts no more than were sent, and it misses none that is     *)
(* younger than its oldest arrival.                                        *)
(***************************************************************************)
EXTENDS IngestProcess, HealthTracker, FiniteSetTheorems, TLAPS

Stopping ==
    /\ main = "gathering" => cancelled = {} /\ task["writer"] # "over"
    /\ main # "gathering" => cancelled = Live

IInv == TypeOK /\ Stopping /\ LastFlushIsLast /\ NoFeedDies

LEMMA NamesDiffer ==
    /\ Workers \subseteq Tasks
    /\ "writer" \in Tasks /\ "health" \in Tasks /\ "reconciler" \in Tasks
    /\ "writer" \notin Workers /\ "health" \notin Workers /\ "reconciler" \notin Workers
BY IngestAssumption DEF Tasks, Services

\* The pause after a backoff stays within its type.
LEMMA PauseIsBounded ==
    ASSUME TypeOK, NEW w \in Workers, NEW p \in backoff[w] .. (3 * backoff[w] - 1)
    PROVE  p \in 0 .. 3 * MaxBackoff
<1>1. backoff[w] \in MinBackoff .. MaxBackoff BY DEF TypeOK
<1> QED BY <1>1, IngestAssumption

\* A worker that goes to sleep: what changes, and what is live then.
LEMMA SleepFacts ==
    ASSUME TypeOK, NEW w \in Workers, Runs(w), Sleep(w)
    PROVE  /\ task' \in [Tasks -> {"running", "sleeping", "over", "raised"}]
           /\ pause' \in [Workers -> 0 .. 3 * MaxBackoff]
           /\ Live' = Live
           /\ task'["writer"] = task["writer"]
<1>1. PICK p \in backoff[w] .. (3 * backoff[w] - 1) : pause' = [pause EXCEPT ![w] = p]
  BY DEF Sleep
<1>2. p \in 0 .. 3 * MaxBackoff BY PauseIsBounded
<1>3. pause' \in [Workers -> 0 .. 3 * MaxBackoff] BY <1>1, <1>2 DEF TypeOK
<1>4. task' = [task EXCEPT ![w] = "sleeping"] /\ task[w] = "running"
  BY DEF Sleep, Runs
<1> QED BY <1>3, <1>4, NamesDiffer DEF TypeOK, Live

LEMMA InitIInv == Init => IInv
<1> SUFFICES ASSUME Init PROVE IInv
  OBVIOUS
<1>1. TypeOK
  <2>1. MinBackoff \in MinBackoff .. MaxBackoff /\ 0 \in 0 .. 3 * MaxBackoff
        /\ 0 \in 0 .. MaxFailures
    BY IngestAssumption
  <2>2. /\ backoff \in [Workers -> MinBackoff .. MaxBackoff]
        /\ pause \in [Workers -> 0 .. 3 * MaxBackoff]
        /\ failures \in 0 .. MaxFailures
    BY <2>1 DEF Init
  <2>3. task \in [Tasks -> {"running", "sleeping", "over", "raised"}]
    BY DEF Init
  <2> QED BY <2>2, <2>3 DEF Init, TypeOK
<1>2. Stopping BY NamesDiffer DEF Init, Stopping
<1>3. LastFlushIsLast BY DEF Init, LastFlushIsLast
<1>4. NoFeedDies BY NamesDiffer DEF Init, NoFeedDies, Live
<1> QED BY <1>1, <1>2, <1>3, <1>4 DEF IInv

-----------------------------------------------------------------------------
(* The steps of a worker                                                   *)

LEMMA WorkerKeepsIInv ==
    ASSUME IInv, NEW w \in Workers,
           AppendRow(w) \/ AppendFails(w) \/ StreamFails(w) \/ Wake(w)
    PROVE  IInv'
<1> USE DEF IInv
<1>0. w \in Tasks /\ w # "writer" BY NamesDiffer
<1>1. CASE AppendRow(w)
  <2>1. w \in Live /\ w \notin cancelled BY <1>0, <1>1 DEF AppendRow, Runs, Live
  <2>2. main = "gathering" /\ task["writer"] # "over" BY <2>1 DEF Stopping
  <2>3. memory' \subseteq Workers BY <1>1 DEF AppendRow, TypeOK
  <2> QED BY <1>1, <2>2, <2>3
      DEF AppendRow, TypeOK, Live, Stopping, LastFlushIsLast, NoFeedDies
<1>2. CASE AppendFails(w)
  <2>1. Runs(w) /\ Sleep(w) BY <1>2 DEF AppendFails
  <2>2. failures' \in 0 .. MaxFailures
    BY <1>2, IngestAssumption DEF AppendFails, TypeOK
  <2>3. memory' \subseteq memory BY <1>2 DEF AppendFails
  <2>4. UNCHANGED <<main, cancelled, backoff, interrupted>> BY <1>2 DEF AppendFails
  <2> QED BY <2>1, <2>2, <2>3, <2>4, SleepFacts
      DEF TypeOK, Stopping, LastFlushIsLast, NoFeedDies
<1>3. CASE StreamFails(w)
  <2>1. Runs(w) /\ Sleep(w) /\ UNCHANGED <<main, cancelled, backoff, memory, interrupted, failures>>
    BY <1>3 DEF StreamFails
  <2> QED BY <2>1, SleepFacts DEF TypeOK, Stopping, LastFlushIsLast, NoFeedDies
<1>4. CASE Wake(w)
  <2>1. /\ task[w] = "sleeping" /\ task' = [task EXCEPT ![w] = "running"]
        /\ pause' = [pause EXCEPT ![w] = 0]
        /\ UNCHANGED <<main, cancelled, memory, interrupted, failures>>
    BY <1>4 DEF Wake
  <2>2. Live' = Live /\ task'["writer"] = task["writer"]
        /\ task' \in [Tasks -> {"running", "sleeping", "over", "raised"}]
    BY <1>0, <2>1, NamesDiffer DEF TypeOK, Live
  <2>3. backoff' \in [Workers -> MinBackoff .. MaxBackoff]
    <3>1. backoff[w] \in MinBackoff .. MaxBackoff BY DEF TypeOK
    <3>2. (IF 2 * backoff[w] < MaxBackoff THEN 2 * backoff[w] ELSE MaxBackoff)
             \in MinBackoff .. MaxBackoff
      BY <3>1, IngestAssumption
    <3> QED BY <1>4, <3>2 DEF Wake, TypeOK
  <2>4. pause' \in [Workers -> 0 .. 3 * MaxBackoff]
    BY <2>1, IngestAssumption DEF TypeOK
  <2> QED BY <2>1, <2>2, <2>3, <2>4 DEF TypeOK, Stopping, LastFlushIsLast, NoFeedDies
<1> QED BY <1>1, <1>2, <1>3, <1>4

-----------------------------------------------------------------------------
(* The steps of the services                                               *)

\* A service that raises while the process runs has not been cancelled.
LEMMA RaisedFacts ==
    ASSUME IInv, NEW s \in Services, Runs(s), task' = [task EXCEPT ![s] = "raised"],
           UNCHANGED <<main, cancelled>>
    PROVE  /\ task' \in [Tasks -> {"running", "sleeping", "over", "raised"}]
           /\ cancelled' \subseteq Live' /\ Stopping' /\ NoFeedDies'
           /\ task'["writer"] = "over" => task["writer"] = "over"
<1>1. s \in Tasks /\ s \notin Workers BY IngestAssumption DEF Tasks
<1>2. s \in Live /\ s \notin cancelled BY <1>1 DEF Runs, Live
<1>3. main = "gathering" BY <1>2 DEF IInv, Stopping
<1> QED BY <1>1, <1>2, <1>3, NamesDiffer DEF IInv, TypeOK, Live, Stopping, NoFeedDies

LEMMA ServiceKeepsIInv == ASSUME IInv, ServiceStep PROVE IInv'
<1> USE DEF IInv
<1>1. CASE FlushTimer
  BY <1>1 DEF FlushTimer, TypeOK, Live, Stopping, LastFlushIsLast, NoFeedDies
<1>2. CASE FlushTimerFails
  <2>1. Runs("writer") /\ task' = [task EXCEPT !["writer"] = "raised"]
        /\ UNCHANGED <<main, cancelled, backoff, pause, interrupted>>
    BY <1>2 DEF FlushTimerFails
  <2>2. failures' \in 0 .. MaxFailures
    BY <1>2, IngestAssumption DEF FlushTimerFails, TypeOK
  <2>3. memory' \subseteq Workers BY <1>2 DEF FlushTimerFails, BrokenFlush, TypeOK
  <2>4. task'["writer"] # "over" BY <2>1, NamesDiffer DEF TypeOK
  <2> QED BY <2>1, <2>2, <2>3, <2>4, RaisedFacts DEF TypeOK, LastFlushIsLast, Services
<1>3. CASE HealthRaises
  <2>1. Runs("health") /\ task' = [task EXCEPT !["health"] = "raised"]
        /\ UNCHANGED <<main, cancelled, backoff, pause, memory, interrupted>>
    BY <1>3 DEF HealthRaises
  <2>2. failures' \in 0 .. MaxFailures
    BY <1>3, IngestAssumption DEF HealthRaises, TypeOK
  <2> QED BY <2>1, <2>2, RaisedFacts DEF TypeOK, LastFlushIsLast, Services
<1> QED BY <1>1, <1>2, <1>3 DEF ServiceStep

-----------------------------------------------------------------------------
(* Stopping                                                                *)

\* A cancelled task that ends, in one way or another.
LEMMA EndFacts ==
    ASSUME IInv, NEW t \in cancelled, NEW e \in {"over", "raised"},
           task' = [task EXCEPT ![t] = e], cancelled' = cancelled \ {t}, main' = main
    PROVE  /\ task' \in [Tasks -> {"running", "sleeping", "over", "raised"}]
           /\ cancelled' \subseteq Live' /\ Stopping' /\ NoFeedDies'
           /\ t # "writer" => task'["writer"] = task["writer"]
<1>1. main # "gathering" /\ t \in Live /\ t \in Tasks
  BY DEF IInv, Stopping, Live
<1>2. Live' = Live \ {t} BY <1>1 DEF IInv, TypeOK, Live
<1>3. cancelled = Live BY <1>1 DEF IInv, Stopping
<1> QED BY <1>1, <1>2, <1>3, NamesDiffer DEF IInv, TypeOK, Stopping, NoFeedDies

LEMMA StopKeepsIInv == ASSUME IInv, StopStep PROVE IInv'
<1> USE DEF IInv
<1>1. CASE MainWakes \/ Interrupt
  <2>1. main' = "stopping" /\ cancelled' = Live /\ interrupted' \in BOOLEAN
        /\ UNCHANGED <<task, backoff, pause, memory, failures>>
    BY <1>1 DEF MainWakes, Interrupt, CancelAll, TypeOK
  <2> QED BY <2>1 DEF TypeOK, Live, Stopping, LastFlushIsLast, NoFeedDies
<1>2. ASSUME NEW t \in Tasks, CancelLands(t) PROVE IInv'
  <2>1. t \in cancelled /\ t # "writer" /\ task' = [task EXCEPT ![t] = "over"]
        /\ cancelled' = cancelled \ {t}
        /\ UNCHANGED <<main, backoff, pause, memory, interrupted, failures>>
    BY <1>2 DEF CancelLands
  <2> QED BY <2>1, EndFacts DEF TypeOK, LastFlushIsLast
<1>3. CASE WriterEnds
  <2>1. "writer" \in cancelled /\ cancelled' = cancelled \ {"writer"}
        /\ UNCHANGED <<main, backoff, pause, interrupted>>
    BY <1>3 DEF WriterEnds
  <2>2. CASE task' = [task EXCEPT !["writer"] = "over"] /\ memory' = {} /\ UNCHANGED failures
    BY <2>1, <2>2, EndFacts DEF TypeOK, LastFlushIsLast
  <2>3. CASE /\ failures < MaxFailures /\ failures' = failures + 1
             /\ task' = [task EXCEPT !["writer"] = "raised"]
             /\ memory' \in BrokenFlush(memory)
    <3>1. failures' \in 0 .. MaxFailures BY <2>3, IngestAssumption DEF TypeOK
    <3>2. memory' \subseteq Workers BY <2>3 DEF BrokenFlush, TypeOK
    <3>3. task'["writer"] # "over" BY <2>3, NamesDiffer DEF TypeOK
    <3> QED BY <2>1, <2>3, <3>1, <3>2, <3>3, EndFacts DEF TypeOK, LastFlushIsLast
  <2> QED BY <1>3, <2>2, <2>3 DEF WriterEnds
<1>4. CASE MainEnds
  BY <1>4 DEF MainEnds, TypeOK, Live, Stopping, LastFlushIsLast, NoFeedDies
<1> QED BY <1>1, <1>2, <1>3, <1>4 DEF StopStep

LEMMA NextKeepsIInv == IInv /\ [Next]_vars => IInv'
<1> SUFFICES ASSUME IInv, [Next]_vars PROVE IInv'
  OBVIOUS
<1>1. CASE WorkerStep BY <1>1, WorkerKeepsIInv DEF WorkerStep
<1>2. CASE ServiceStep BY <1>2, ServiceKeepsIInv
<1>3. CASE StopStep BY <1>3, StopKeepsIInv
<1>4. CASE UNCHANGED vars
  BY <1>4 DEF vars, IInv, TypeOK, Live, Stopping, LastFlushIsLast, NoFeedDies
<1> QED BY <1>1, <1>2, <1>3, <1>4 DEF Next

-----------------------------------------------------------------------------
(* The theorems about the tasks                                            *)

\* Backoffs, pauses and the failures of the model stay within their bounds, and
\* only tasks that live are cancelled (core/worker.py, core/ingest.py).
THEOREM TypeCorrect == Spec => []TypeOK
<1>1. IInv => TypeOK BY DEF IInv
<1> QED BY <1>1, InitIInv, NextKeepsIInv, PTL DEF Spec

\* The last flush of the writer is the last: no worker adds a row after it,
\* however cancellation, failing tasks and the writer interleave
\* (core/ingest.py:75-77, core/writer.py:39-40).
THEOREM LastFlush == Spec => []LastFlushIsLast
<1>1. IInv => LastFlushIsLast BY DEF IInv
<1> QED BY <1>1, InitIInv, NextKeepsIInv, PTL DEF Spec

\* No failure of a stream or of a write takes a worker out of a process that is
\* not stopping (core/worker.py:58-80).
THEOREM FeedsLive == Spec => []NoFeedDies
<1>1. IInv => NoFeedDies BY DEF IInv
<1> QED BY <1>1, InitIInv, NextKeepsIInv, PTL DEF Spec
-----------------------------------------------------------------------------
(* The health tracker                                                      *)

\* An arrival that still counts was sent.
ArrivalsWereSent ==
    \A k \in Keys : \A i \in DOMAIN windows[k] :
        windows[k][i] <= Baseline => sent[k][windows[k][i]] >= 1

StoppedIsEmpty ==
    ~running => asleep = Interval /\ \A k \in Keys : windows[k] = <<>>

\* The window has arrivals of the baseline, and none since the recent window
\* and the sleep.
FellSilent(k) ==
    /\ \E i \in DOMAIN windows[k] : windows[k][i] <= Baseline
    /\ \A i \in DOMAIN windows[k] : windows[k][i] > Recent + (Interval - asleep)

SilenceSeen == \A k \in Keys : FellSilent(k) => snapshot[k] = "down"

HealthInv == HealthTypeOK /\ ArrivalsWereSent /\ StoppedIsEmpty /\ SilenceSeen

-----------------------------------------------------------------------------
(* Facts about the operators                                               *)

LEMMA RecordType ==
    ASSUME NEW w \in Seq(Ages), Len(w) <= MaxLen, NEW a \in Ages
    PROVE  /\ Record(w, a) \in Seq(Ages) /\ Len(Record(w, a)) <= MaxLen
           /\ \A i \in DOMAIN Record(w, a) :
                Record(w, a)[i] = a \/ \E j \in DOMAIN w : Record(w, a)[i] = w[j]
           /\ \E i \in DOMAIN Record(w, a) : Record(w, a)[i] = a
<1> DEFINE v == IF Len(w) = MaxLen THEN Tail(w) ELSE w
<1>0. MaxLen \in Nat \ {0} BY HealthAssumption
<1>1. v \in Seq(Ages) /\ Len(v) + 1 <= MaxLen
  <2>1. CASE Len(w) = MaxLen
    <3>1. w # <<>> BY <2>1, <1>0
    <3> QED BY <2>1, <3>1, <1>0
  <2>2. CASE Len(w) # MaxLen BY <2>2, <1>0
  <2> QED BY <2>1, <2>2
<1>2. \A i \in DOMAIN v : \E j \in DOMAIN w : v[i] = w[j]
  <2>1. CASE Len(w) = MaxLen
    <3>1. w # <<>> BY <2>1, <1>0
    <3>2. \A i \in DOMAIN v : i + 1 \in DOMAIN w /\ v[i] = w[i + 1] BY <2>1, <3>1
    <3> QED BY <3>2
  <2>2. CASE Len(w) # MaxLen BY <2>2
  <2> QED BY <2>1, <2>2
<1>3. Record(w, a) = Append(v, a) BY DEF Record
<1> HIDE DEF v
<1>4. Len(v) + 1 \in DOMAIN Append(v, a) /\ Append(v, a)[Len(v) + 1] = a BY <1>1
<1>5. \A i \in DOMAIN Append(v, a) : Append(v, a)[i] = a \/ (i \in DOMAIN v /\ Append(v, a)[i] = v[i])
  BY <1>1
<1>6. Append(v, a) \in Seq(Ages) /\ Len(Append(v, a)) <= MaxLen BY <1>1
<1> QED BY <1>2, <1>3, <1>4, <1>5, <1>6

LEMMA WithinFacts ==
    ASSUME NEW w \in Seq(Ages), NEW n \in Nat
    PROVE  /\ Within(w, n) \in Nat
           /\ Within(w, n) = 0 <=> \A i \in DOMAIN w : w[i] > n
<1> DEFINE S == {i \in DOMAIN w : w[i] <= n}
<1>1. IsFiniteSet(DOMAIN w)
  <2>1. DOMAIN w = 1 .. Len(w) /\ Len(w) \in Nat OBVIOUS
  <2> QED BY <2>1, FS_Interval
<1>2. IsFiniteSet(S) BY <1>1, FS_Subset
<1>3. Cardinality(S) \in Nat /\ (Cardinality(S) = 0 <=> S = {})
  BY <1>2, FS_CardinalityType, FS_EmptySet
<1>4. \A i \in DOMAIN w : w[i] \in Nat BY HealthAssumption DEF Ages
<1>5. S = {} <=> \A i \in DOMAIN w : w[i] > n BY <1>4
<1> QED BY <1>3, <1>5 DEF Within

\* A stream with messages of the baseline and none of the recent window is down.
LEMMA SilentIsDown ==
    ASSUME NEW w \in Seq(Ages),
           \E i \in DOMAIN w : w[i] <= Baseline,
           \A i \in DOMAIN w : w[i] > Recent
    PROVE  ~Up(w)
<1>0. Recent \in Nat \ {0} /\ Baseline \in Nat \ {0} /\ Slowdown \in Nat \ {0} BY HealthAssumption
<1>1. Within(w, Recent) = 0 BY <1>0, WithinFacts
<1>2. Within(w, Baseline) \in Nat /\ Within(w, Baseline) # 0
  <2>1. PICK i \in DOMAIN w : w[i] <= Baseline OBVIOUS
  <2>2. w[i] \in Nat BY HealthAssumption DEF Ages
  <2>3. ~(w[i] > Baseline) BY <1>0, <2>1, <2>2
  <2> QED BY <1>0, <2>3, WithinFacts
<1>3. 0 * Baseline * Slowdown = 0 BY <1>0
<1>4. \A m, n \in Nat \ {0} : m * n > 0 OBVIOUS
<1>5. Within(w, Baseline) * Recent > 0 BY <1>0, <1>2, <1>4
<1>6. Within(w, Recent) * Baseline * Slowdown = 0 BY <1>1, <1>3, Zenon
<1>7. Within(w, Baseline) * Recent \in Nat BY <1>0, <1>2
<1>8. ~(0 >= Within(w, Baseline) * Recent) BY <1>5, <1>7
<1> QED BY <1>2, <1>6, <1>8, Zenon DEF Up

LEMMA NothingSent ==
    ASSUME HealthTypeOK, NEW k \in Keys, NEW n \in 0 .. Baseline, SentUpTo(k, n) = 0
    PROVE  \A a \in 0 .. n : sent[k][a] = 0
<1> SUFFICES ASSUME NEW a \in 0 .. n, sent[k][a] # 0 PROVE FALSE
  OBVIOUS
<1> DEFINE P == (0 .. n) \X (1 .. PerTick[k])
           S == {m \in P : m[2] <= sent[k][m[1]]}
<1>0. Baseline \in Nat /\ PerTick[k] \in Nat BY HealthAssumption
<1>1. sent[k][a] \in Nat /\ 1 <= sent[k][a] /\ sent[k][a] <= PerTick[k] BY <1>0 DEF HealthTypeOK
<1>2. <<a, 1>> \in S BY <1>0, <1>1
<1>3. IsFiniteSet(0 .. n) /\ IsFiniteSet(1 .. PerTick[k]) BY <1>0, FS_Interval
<1>4. IsFiniteSet(P) BY <1>3, FS_Product
<1>5. IsFiniteSet(S) BY <1>4, FS_Subset
<1>6. Cardinality(S) # 0 BY <1>2, <1>5, FS_EmptySet
<1> QED BY <1>6 DEF SentUpTo

-----------------------------------------------------------------------------
(* The type of each action.                                                *)

LEMMA Bounds ==
    /\ Recent \in Nat \ {0} /\ Baseline \in Nat \ {0} /\ Interval \in Nat \ {0}
    /\ MaxLen \in Nat \ {0} /\ PerTick \in [Keys -> Nat]
    /\ Recent + Interval < Baseline
BY HealthAssumption

LEMMA RowsType == Rows \in [Keys -> Verdicts]
BY DEF Rows, Row, Verdicts

LEMMA EmptyType ==
    /\ [k \in Keys |-> <<>>] \in [Keys -> Seq(Ages)]
    /\ \A k \in Keys : Len([j \in Keys |-> <<>>][k]) <= MaxLen
<1>1. <<>> \in Seq(Ages) /\ Len(<<>>) = 0 OBVIOUS
<1> QED BY <1>1, Bounds

LEMMA InitType == HealthInit => HealthTypeOK
<1> SUFFICES ASSUME HealthInit PROVE HealthTypeOK
  OBVIOUS
<1>1. sent \in [Keys -> [0 .. Baseline -> Nat]]
      /\ \A k \in Keys, a \in 0 .. Baseline : sent[k][a] <= PerTick[k]
  BY Bounds DEF HealthInit
<1>2. uptime \in Ages BY Bounds DEF HealthInit, Ages
<1> QED BY <1>1, <1>2, EmptyType, Bounds DEF HealthInit, HealthTypeOK, Verdicts

LEMMA ArriveType ==
    ASSUME HealthTypeOK, NEW k \in Keys, Arrive(k)
    PROVE  HealthTypeOK'
<1>1. sent[k][0] \in Nat /\ sent[k][0] < PerTick[k] BY Bounds DEF HealthTypeOK, Arrive
<1>2. sent' \in [Keys -> [0 .. Baseline -> Nat]]
      /\ \A j \in Keys, a \in 0 .. Baseline : sent'[j][a] <= PerTick[j]
  <2>1. sent' = [sent EXCEPT ![k] = [sent[k] EXCEPT ![0] = sent[k][0] + 1]]
    BY DEF Arrive
  <2>2. sent[k] \in [0 .. Baseline -> Nat] /\ 0 \in 0 .. Baseline BY Bounds DEF HealthTypeOK
  <2>3. sent[k][0] + 1 \in Nat /\ sent[k][0] + 1 <= PerTick[k] BY <1>1, Bounds
  <2> DEFINE row == [sent[k] EXCEPT ![0] = sent[k][0] + 1]
  <2>4. row \in [0 .. Baseline -> Nat] BY <2>2, <2>3
  <2>5. \A a \in 0 .. Baseline : row[a] <= PerTick[k] BY <2>2, <2>3 DEF HealthTypeOK
  <2>6. sent' = [sent EXCEPT ![k] = row] BY <2>1
  <2> HIDE DEF row
  <2> QED BY <2>4, <2>5, <2>6 DEF HealthTypeOK
<1>3. 0 \in Ages BY Bounds DEF Ages
<1>4. windows[k] \in Seq(Ages) /\ Len(windows[k]) <= MaxLen BY DEF HealthTypeOK
<1>5. Record(windows[k], 0) \in Seq(Ages) /\ Len(Record(windows[k], 0)) <= MaxLen
  BY <1>3, <1>4, RecordType
<1>6. windows' \in [Keys -> Seq(Ages)] /\ \A j \in Keys : Len(windows'[j]) <= MaxLen
  BY <1>5 DEF HealthTypeOK, Arrive
<1> QED BY <1>2, <1>6 DEF HealthTypeOK, Arrive

Older(w) == [i \in DOMAIN w |-> IF w[i] > Baseline THEN w[i] ELSE w[i] + 1]

LEMMA OlderType ==
    ASSUME NEW w \in Seq(Ages)
    PROVE  Older(w) \in Seq(Ages) /\ Len(Older(w)) = Len(w)
<1>1. DOMAIN w = 1 .. Len(w) /\ Len(w) \in Nat OBVIOUS
<1>2. \A i \in DOMAIN w : (IF w[i] > Baseline THEN w[i] ELSE w[i] + 1) \in Ages
  BY Bounds DEF Ages
<1>3. Older(w) \in [1 .. Len(w) -> Ages] BY <1>1, <1>2 DEF Older
<1> QED BY <1>1, <1>3

LEMMA TickType ==
    ASSUME HealthTypeOK, Tick
    PROVE  HealthTypeOK'
<1>1. windows' = [k \in Keys |-> Older(windows[k])] BY Zenon DEF Tick, Older
<1>2. windows' \in [Keys -> Seq(Ages)] /\ \A k \in Keys : Len(windows'[k]) <= MaxLen
  BY <1>1, OlderType DEF HealthTypeOK
<1>3. sent' \in [Keys -> [0 .. Baseline -> Nat]]
      /\ \A k \in Keys, a \in 0 .. Baseline : sent'[k][a] <= PerTick[k]
  <2> DEFINE row(k) == [a \in 0 .. Baseline |-> IF a = 0 THEN 0 ELSE sent[k][a - 1]]
  <2>1. ASSUME NEW k \in Keys
        PROVE  row(k) \in [0 .. Baseline -> Nat] /\ \A a \in 0 .. Baseline : row(k)[a] <= PerTick[k]
    <3>1. sent[k] \in [0 .. Baseline -> Nat] /\ \A a \in 0 .. Baseline : sent[k][a] <= PerTick[k]
      BY DEF HealthTypeOK
    <3>2. \A a \in 0 .. Baseline : a # 0 => a - 1 \in 0 .. Baseline BY Bounds
    <3>3. PerTick[k] \in Nat BY Bounds
    <3>4. ASSUME NEW a \in 0 .. Baseline
          PROVE  LET n == IF a = 0 THEN 0 ELSE sent[k][a - 1] IN n \in Nat /\ n <= PerTick[k]
      <4>1. CASE a = 0 BY <3>3, <4>1
      <4>2. CASE a # 0
        <5>1. a - 1 \in 0 .. Baseline BY <3>2, <4>2
        <5> QED BY <3>1, <4>2, <5>1
      <4> QED BY <4>1, <4>2
    <3> QED BY <3>4
  <2>2. sent' = [k \in Keys |-> row(k)] BY DEF Tick
  <2> HIDE DEF row
  <2> QED BY <2>1, <2>2
<1>4. uptime' \in Ages BY Bounds DEF HealthTypeOK, Tick, Ages
<1>5. asleep' \in 0 .. Interval BY Bounds DEF HealthTypeOK, Tick
<1> QED BY <1>2, <1>3, <1>4, <1>5 DEF HealthTypeOK, Tick

LEMMA StopsType ==
    ASSUME HealthTypeOK, Stops, snapshot' \in [Keys -> Verdicts]
    PROVE  HealthTypeOK'
<1>1. windows' \in [Keys -> Seq(Ages)] /\ \A k \in Keys : Len(windows'[k]) <= MaxLen
  BY EmptyType, Zenon DEF Stops
<1>2. Interval \in 0 .. Interval BY Bounds
<1>3. asleep' \in 0 .. Interval /\ running' \in BOOLEAN BY <1>2, Zenon DEF Stops
<1> QED BY <1>1, <1>3 DEF HealthTypeOK, Stops

LEMMA StepType == HealthTypeOK /\ [HealthNext]_healthVars => HealthTypeOK'
<1> SUFFICES ASSUME HealthTypeOK, [HealthNext]_healthVars PROVE HealthTypeOK'
  OBVIOUS
<1>1. ASSUME NEW k \in Keys, Arrive(k) PROVE HealthTypeOK' BY <1>1, ArriveType
<1>2. CASE Tick BY <1>2, TickType
<1>3. CASE Report BY <1>3, RowsType, Bounds DEF HealthTypeOK, Report
<1>4. CASE ReportFails
  <2>1. snapshot' \in [Keys -> Verdicts]
    BY <1>4 DEF HealthTypeOK, ReportFails, Row, Verdicts
  <2> QED BY <1>4, <2>1, StopsType DEF ReportFails
<1>5. CASE Stop BY <1>5, StopsType DEF Stop, HealthTypeOK
<1>6. CASE Start BY <1>6, Bounds DEF HealthTypeOK, Start, Ages
<1>7. CASE UNCHANGED healthVars BY <1>7 DEF HealthTypeOK, healthVars
<1> QED BY <1>1, <1>2, <1>3, <1>4, <1>5, <1>6, <1>7 DEF HealthNext

\* The tracker, the loop and the table keep their shape: no deque outgrows its
\* bound, and no count exceeds what a venue sends (core/health.py:12-19).
THEOREM HealthTypeCorrect == HealthSpec => []HealthTypeOK
<1> QED BY InitType, StepType, PTL DEF HealthSpec

-----------------------------------------------------------------------------
(* What the last report saw.                                               *)

LEMMA InitSilence == HealthInit => ArrivalsWereSent /\ StoppedIsEmpty /\ SilenceSeen
BY DEF HealthInit, ArrivalsWereSent, StoppedIsEmpty, SilenceSeen, FellSilent

\* Where no deque holds anything, nothing is claimed of it.
LEMMA EmptySilence ==
    ASSUME \A k \in Keys : windows'[k] = <<>>
    PROVE  ArrivalsWereSent' /\ SilenceSeen'
BY DEF ArrivalsWereSent, SilenceSeen, FellSilent

LEMMA ArriveSilence ==
    ASSUME HealthInv, NEW k \in Keys, Arrive(k)
    PROVE  ArrivalsWereSent' /\ StoppedIsEmpty' /\ SilenceSeen'
<1> USE DEF HealthInv
<1>1. windows[k] \in Seq(Ages) /\ Len(windows[k]) <= MaxLen /\ 0 \in Ages
  BY Bounds DEF HealthTypeOK, Ages
<1>2. /\ \A i \in DOMAIN Record(windows[k], 0) : Record(windows[k], 0)[i] = 0
            \/ \E j \in DOMAIN windows[k] : Record(windows[k], 0)[i] = windows[k][j]
      /\ \E i \in DOMAIN Record(windows[k], 0) : Record(windows[k], 0)[i] = 0
  BY <1>1, RecordType
<1>3. /\ running => windows'[k] = Record(windows[k], 0)
      /\ ~running => windows'[k] = windows[k]
      /\ \A j \in Keys : j # k => windows'[j] = windows[j]
  BY DEF Arrive, HealthTypeOK
<1>4. /\ \A j \in Keys, a \in 0 .. Baseline : sent[j][a] >= 1 => sent'[j][a] >= 1
      /\ sent'[k][0] >= 1
  <2>1. sent' = [sent EXCEPT ![k] = [sent[k] EXCEPT ![0] = sent[k][0] + 1]] BY DEF Arrive
  <2>2. 0 \in 0 .. Baseline /\ \A j \in Keys : sent[j] \in [0 .. Baseline -> Nat]
    BY Bounds DEF HealthTypeOK
  <2>3. sent'[k] = [sent[k] EXCEPT ![0] = sent[k][0] + 1] /\ \A j \in Keys : j # k => sent'[j] = sent[j]
    BY <2>1 DEF HealthTypeOK
  <2>4. sent'[k][0] = sent[k][0] + 1 /\ \A a \in 0 .. Baseline : a # 0 => sent'[k][a] = sent[k][a]
    BY <2>2, <2>3
  <2>5. sent[k][0] \in Nat BY <2>2
  <2>6. sent'[k][0] >= 1 BY <2>4, <2>5
  <2>7. ASSUME NEW j \in Keys, NEW a \in 0 .. Baseline, sent[j][a] >= 1 PROVE sent'[j][a] >= 1
    <3>1. CASE j # k BY <2>3, <2>7, <3>1
    <3>2. CASE j = k /\ a # 0 BY <2>4, <2>7, <3>2
    <3>3. CASE j = k /\ a = 0 BY <2>6, <3>3
    <3> QED BY <3>1, <3>2, <3>3
  <2> QED BY <2>6, <2>7
<1>5. ArrivalsWereSent'
  <2> SUFFICES ASSUME NEW j \in Keys, NEW i \in DOMAIN windows'[j], windows'[j][i] <= Baseline
               PROVE  sent'[j][windows'[j][i]] >= 1
    BY DEF ArrivalsWereSent
  <2>1. \A h \in Keys : \A x \in DOMAIN windows[h] : windows[h][x] \in Ages BY DEF HealthTypeOK
  <2>2. \A h \in Keys : \A x \in DOMAIN windows[h] :
            windows[h][x] <= Baseline => windows[h][x] \in 0 .. Baseline /\ sent'[h][windows[h][x]] >= 1
    BY <1>4, <2>1, Bounds DEF ArrivalsWereSent, Ages
  <2>3. CASE j = k /\ running
    <3>1. windows'[j] = Record(windows[k], 0) BY <1>3, <2>3
    <3>2. CASE windows'[j][i] = 0 BY <1>4, <2>3, <3>2
    <3>3. CASE \E x \in DOMAIN windows[k] : windows'[j][i] = windows[k][x] BY <2>2, <2>3, <3>3
    <3> QED BY <1>2, <3>1, <3>2, <3>3
  <2>4. CASE ~(j = k /\ running)
    <3>1. windows'[j] = windows[j] BY <1>3, <2>4
    <3> QED BY <2>2, <3>1
  <2> QED BY <2>3, <2>4
<1>6. StoppedIsEmpty' BY <1>3 DEF StoppedIsEmpty, Arrive
<1>7. SilenceSeen'
  <2> SUFFICES ASSUME NEW j \in Keys, FellSilent(j)' PROVE snapshot'[j] = "down"
    BY DEF SilenceSeen
  <2>1. asleep' = asleep /\ snapshot' = snapshot BY DEF Arrive
  <2>2. ~(j = k /\ running)
    <3>1. ~(0 > Recent + (Interval - asleep)) BY Bounds DEF HealthTypeOK
    <3> QED BY <1>2, <1>3, <2>1, <3>1 DEF FellSilent
  <2>3. windows'[j] = windows[j] BY <1>3, <2>2
  <2> QED BY <2>1, <2>3 DEF SilenceSeen, FellSilent
<1> QED BY <1>5, <1>6, <1>7

LEMMA TickSilence ==
    ASSUME HealthInv, Tick
    PROVE  ArrivalsWereSent' /\ StoppedIsEmpty' /\ SilenceSeen'
<1> USE DEF HealthInv
<1>1. \A k \in Keys : windows'[k] = Older(windows[k]) BY DEF Tick, Older
<1>2. \A k \in Keys : \A i \in DOMAIN windows[k] : windows[k][i] \in Ages BY DEF HealthTypeOK
<1>3. \A k \in Keys : DOMAIN windows'[k] = DOMAIN windows[k] BY <1>1 DEF Older
<1>4. \A k \in Keys : \A i \in DOMAIN windows[k] :
        windows'[k][i] = IF windows[k][i] > Baseline THEN windows[k][i] ELSE windows[k][i] + 1
  BY <1>1 DEF Older
<1>5. ArrivalsWereSent'
  <2> SUFFICES ASSUME NEW k \in Keys, NEW i \in DOMAIN windows'[k], windows'[k][i] <= Baseline
               PROVE  sent'[k][windows'[k][i]] >= 1
    BY DEF ArrivalsWereSent
  <2>1. PICK n \in Ages : i \in DOMAIN windows[k] /\ n = windows[k][i] BY <1>2, <1>3
  <2>2. windows'[k][i] = n + 1 /\ n < Baseline BY <1>4, <2>1, Bounds DEF Ages
  <2>3. n \in Nat /\ n <= Baseline BY <2>1, <2>2, Bounds DEF Ages
  <2>4. sent[k][n] >= 1 BY <2>1, <2>3 DEF ArrivalsWereSent
  <2>5. n + 1 \in 0 .. Baseline /\ n + 1 # 0 /\ (n + 1) - 1 = n BY <2>2, <2>3, Bounds
  <2>6. sent'[k] = [a \in 0 .. Baseline |-> IF a = 0 THEN 0 ELSE sent[k][a - 1]] BY DEF Tick
  <2>7. sent'[k][n + 1] = sent[k][(n + 1) - 1] BY <2>5, <2>6
  <2> QED BY <2>2, <2>4, <2>5, <2>7
<1>6. CASE ~running
  <2>1. \A k \in Keys : windows'[k] = <<>>
    <3>1. Older(<<>>) = <<>> BY DEF Older
    <3> QED BY <1>1, <1>6, <3>1 DEF StoppedIsEmpty
  <2> QED BY <1>6, <2>1, EmptySilence DEF StoppedIsEmpty, Tick
<1>7. CASE running
  <2>1. StoppedIsEmpty' BY <1>7 DEF StoppedIsEmpty, Tick
  <2>2. SilenceSeen'
    <3> SUFFICES ASSUME NEW k \in Keys, FellSilent(k)' PROVE FellSilent(k)
      BY DEF SilenceSeen, Tick
    <3>1. asleep' = asleep - 1 /\ asleep \in 0 .. Interval BY <1>7 DEF Tick, HealthTypeOK
    <3>2. \E i \in DOMAIN windows[k] : windows[k][i] <= Baseline
      <4>1. PICK i \in DOMAIN windows[k] : windows'[k][i] <= Baseline BY <1>3 DEF FellSilent
      <4> QED BY <1>2, <1>4, <4>1, Bounds DEF Ages
    <3>3. \A i \in DOMAIN windows[k] : windows[k][i] > Recent + (Interval - asleep)
      <4> SUFFICES ASSUME NEW i \in DOMAIN windows[k]
                   PROVE  windows[k][i] > Recent + (Interval - asleep)
        OBVIOUS
      <4>1. windows'[k][i] > Recent + (Interval - (asleep - 1)) BY <1>3, <3>1 DEF FellSilent
      <4>2. windows[k][i] \in Ages BY <1>2
      <4> QED BY <1>4, <3>1, <4>1, <4>2, Bounds DEF Ages
    <3> QED BY <3>2, <3>3 DEF FellSilent
  <2> QED BY <1>5, <2>1, <2>2
<1> QED BY <1>6, <1>7

LEMMA ReportSilence ==
    ASSUME HealthInv, Report
    PROVE  ArrivalsWereSent' /\ StoppedIsEmpty' /\ SilenceSeen'
<1> USE DEF HealthInv
<1>1. windows' = windows /\ sent' = sent /\ running' = running /\ running /\ asleep' = Interval
  BY DEF Report, Due
<1>2. ASSUME NEW k \in Keys, FellSilent(k)' PROVE snapshot'[k] = "down"
  <2>1. Recent + (Interval - Interval) = Recent BY Bounds
  <2>2. /\ \E i \in DOMAIN windows[k] : windows[k][i] <= Baseline
        /\ \A i \in DOMAIN windows[k] : windows[k][i] > Recent
    BY <1>1, <1>2, <2>1 DEF FellSilent
  <2>3. windows[k] \in Seq(Ages) BY DEF HealthTypeOK
  <2>4. ~Up(windows[k]) BY <2>2, <2>3, SilentIsDown
  <2>5. windows[k] # <<>> BY <2>2
  <2>6. Row(k) = "down" BY <2>4, <2>5 DEF Row
  <2>7. Known # {} BY <2>6 DEF Known
  <2> QED BY <2>6, <2>7 DEF Report, Rows
<1> QED BY <1>1, <1>2 DEF ArrivalsWereSent, StoppedIsEmpty, SilenceSeen

LEMMA StopsSilence ==
    ASSUME Stops
    PROVE  ArrivalsWereSent' /\ StoppedIsEmpty' /\ SilenceSeen'
<1>1. \A k \in Keys : windows'[k] = <<>> BY DEF Stops
<1> QED BY <1>1, EmptySilence DEF Stops, StoppedIsEmpty

LEMMA StepIInv == HealthInv /\ [HealthNext]_healthVars => HealthInv'
<1> SUFFICES ASSUME HealthInv, [HealthNext]_healthVars PROVE ArrivalsWereSent' /\ StoppedIsEmpty' /\ SilenceSeen'
  BY StepType DEF HealthInv
<1>1. ASSUME NEW k \in Keys, Arrive(k) PROVE ArrivalsWereSent' /\ StoppedIsEmpty' /\ SilenceSeen'
  BY <1>1, ArriveSilence
<1>2. CASE Tick BY <1>2, TickSilence
<1>3. CASE Report BY <1>3, ReportSilence
<1>4. CASE ReportFails BY <1>4, StopsSilence DEF ReportFails
<1>5. CASE Stop BY <1>5, StopsSilence DEF Stop
<1>6. CASE Start
  <2>1. \A k \in Keys : windows'[k] = <<>> BY <1>6 DEF Start, HealthInv, StoppedIsEmpty
  <2> QED BY <1>6, <2>1, EmptySilence DEF Start, StoppedIsEmpty
<1>7. CASE UNCHANGED healthVars
  BY <1>7 DEF HealthInv, healthVars, ArrivalsWereSent, StoppedIsEmpty, SilenceSeen, FellSilent
<1> QED BY <1>1, <1>2, <1>3, <1>4, <1>5, <1>6, <1>7 DEF HealthNext

LEMMA SilenceFollows == HealthInv => SilenceIsReported
<1> SUFFICES ASSUME HealthInv, NEW k \in Keys, running, SentUpTo(k, Recent + Interval) = 0,
                    Within(windows[k], Baseline) > 0
             PROVE  snapshot[k] = "down"
  BY DEF SilenceIsReported
<1> USE DEF HealthInv
<1>1. windows[k] \in Seq(Ages) /\ \A i \in DOMAIN windows[k] : windows[k][i] \in Ages
  BY DEF HealthTypeOK
<1>2. \E i \in DOMAIN windows[k] : windows[k][i] <= Baseline
  <2>1. Within(windows[k], Baseline) \in Nat
        /\ (Within(windows[k], Baseline) = 0 <=> \A i \in DOMAIN windows[k] : windows[k][i] > Baseline)
    BY <1>1, WithinFacts, Bounds
  <2>2. PICK i \in DOMAIN windows[k] : ~(windows[k][i] > Baseline) BY <2>1
  <2> QED BY <1>1, <2>2, Bounds DEF Ages
<1>3. \A a \in 0 .. Recent + Interval : sent[k][a] = 0 BY NothingSent, Bounds
<1>4. \A i \in DOMAIN windows[k] : windows[k][i] > Recent + (Interval - asleep)
  <2> SUFFICES ASSUME NEW i \in DOMAIN windows[k], windows[k][i] <= Recent + Interval PROVE FALSE
    BY <1>1, Bounds DEF HealthTypeOK, Ages
  <2>1. windows[k][i] \in 0 .. Recent + Interval /\ windows[k][i] <= Baseline
    BY <1>1, Bounds DEF Ages
  <2>2. sent[k][windows[k][i]] >= 1 BY <2>1 DEF ArrivalsWereSent
  <2> QED BY <1>3, <2>1, <2>2
<1> QED BY <1>2, <1>4 DEF FellSilent, SilenceSeen

\* A stream that has been silent for longer than the recent window and one pause
\* of the loop is shown DOWN, until the baseline window has passed as well
\* (core/health.py:45-57, core/health_writer.py:19-35).
THEOREM SilenceReported == HealthSpec => []SilenceIsReported
<1>1. HealthInit => HealthInv BY InitType, InitSilence DEF HealthInv
<1> QED BY <1>1, StepIInv, SilenceFollows, PTL DEF HealthSpec
-----------------------------------------------------------------------------
(* What a verdict says.  The deque is in the order of arrival, and of each *)
(* age it counts no more messages than the venue sent; it counts them all  *)
(* up to the age of its oldest arrival, and, until it has been full, up to *)
(* the age of the process.                                                 *)

Descends(w) == \A i, j \in DOMAIN w : i <= j => w[i] >= w[j]

NothingMissed(k, a) ==
    \/ windows[k] # <<>> /\ a < windows[k][1]
    \/ running /\ Len(windows[k]) < MaxLen /\ a < uptime

Counted ==
    \A k \in Keys, a \in 0 .. Baseline :
        /\ Within(windows[k], a) <= SentUpTo(k, a)
        /\ NothingMissed(k, a) => Within(windows[k], a) = SentUpTo(k, a)

CInv == HealthInv /\ (\A k \in Keys : Descends(windows[k])) /\ Counted

LEMMA SameSize ==
    ASSUME NEW S, NEW T, IsFiniteSet(S), NEW f \in [S -> T],
           \A x, y \in S : f[x] = f[y] => x = y,
           \A t \in T : \E x \in S : f[x] = t
    PROVE  Cardinality(T) = Cardinality(S)
<1>1. f \in Bijection(S, T) BY DEF Bijection, Injection, Surjection, IsInjective
<1>2. ExistsBijection(S, T) BY <1>1 DEF ExistsBijection
<1> QED BY <1>2, FS_Bijection

LEMMA PartIsFinite ==
    ASSUME NEW w \in Seq(Ages), NEW n \in Nat
    PROVE  IsFiniteSet({i \in DOMAIN w : w[i] <= n})
<1>1. DOMAIN w = 1 .. Len(w) /\ Len(w) \in Nat OBVIOUS
<1>2. IsFiniteSet(DOMAIN w) BY <1>1, FS_Interval
<1> QED BY <1>2, FS_Subset

LEMMA WithinAppend ==
    ASSUME NEW w \in Seq(Ages), NEW n \in Nat
    PROVE  Within(Append(w, 0), n) = Within(w, n) + 1
<1> DEFINE S == {i \in DOMAIN w : w[i] <= n}
           T == {i \in DOMAIN Append(w, 0) : Append(w, 0)[i] <= n}
<1>1. Len(w) \in Nat /\ DOMAIN w = 1 .. Len(w) /\ DOMAIN Append(w, 0) = 1 .. Len(w) + 1
  OBVIOUS
<1>2. Append(w, 0)[Len(w) + 1] = 0 /\ \A i \in DOMAIN w : Append(w, 0)[i] = w[i] OBVIOUS
<1>3. T = S \cup {Len(w) + 1} /\ Len(w) + 1 \notin S BY <1>1, <1>2
<1>4. Cardinality(S \cup {Len(w) + 1}) = Cardinality(S) + 1
  <2>1. IsFiniteSet(S) BY PartIsFinite
  <2> HIDE DEF S
  <2> QED BY <1>3, <2>1, FS_AddElement
<1> QED BY <1>3, <1>4 DEF Within

LEMMA WithinTail ==
    ASSUME NEW w \in Seq(Ages), w # <<>>, NEW n \in Nat
    PROVE  Within(Tail(w), n) = IF w[1] <= n THEN Within(w, n) - 1 ELSE Within(w, n)
<1> DEFINE S == {i \in DOMAIN w : w[i] <= n}
           T == {i \in DOMAIN Tail(w) : Tail(w)[i] <= n}
           f == [i \in T |-> i + 1]
<1>1. /\ Len(w) \in Nat \ {0} /\ DOMAIN w = 1 .. Len(w)
      /\ Tail(w) \in Seq(Ages) /\ DOMAIN Tail(w) = 1 .. Len(w) - 1
      /\ \A i \in DOMAIN Tail(w) : Tail(w)[i] = w[i + 1]
  OBVIOUS
<1>2. f \in [T -> S \ {1}] /\ \A x, y \in T : f[x] = f[y] => x = y BY <1>1
<1>3. \A t \in S \ {1} : \E x \in T : f[x] = t
  <2> SUFFICES ASSUME NEW t \in S \ {1} PROVE t - 1 \in T /\ f[t - 1] = t
    OBVIOUS
  <2>1. t - 1 \in DOMAIN Tail(w) /\ (t - 1) + 1 = t BY <1>1
  <2>2. t - 1 \in T BY <1>1, <2>1
  <2> QED BY <2>1, <2>2
<1>4. IsFiniteSet(S) /\ IsFiniteSet(T) BY <1>1, PartIsFinite
<1>5. 1 \in S <=> w[1] <= n BY <1>1
<1> HIDE DEF S, T, f
<1>6. Cardinality(S \ {1}) = Cardinality(T) BY <1>2, <1>3, <1>4, SameSize
<1>7. Cardinality(S \ {1}) = IF 1 \in S THEN Cardinality(S) - 1 ELSE Cardinality(S)
  BY <1>4, FS_RemoveElement
<1> QED BY <1>5, <1>6, <1>7 DEF Within, S, T

\* A new arrival counts in every window, and at most pushes the oldest out.
LEMMA WithinRecorded ==
    ASSUME NEW w \in Seq(Ages), Len(w) <= MaxLen, NEW n \in Nat
    PROVE  /\ Within(Record(w, 0), n) <= Within(w, n) + 1
           /\ Len(w) < MaxLen \/ w[1] > n => Within(Record(w, 0), n) = Within(w, n) + 1
<1>0. MaxLen \in Nat \ {0} BY HealthAssumption
<1>1. Within(w, n) \in Nat BY WithinFacts
<1>2. CASE Len(w) = MaxLen
  <2>1. w # <<>> /\ Tail(w) \in Seq(Ages) BY <1>0, <1>2
  <2>2. Record(w, 0) = Append(Tail(w), 0) BY <1>2 DEF Record
  <2>3. Within(Record(w, 0), n) = Within(Tail(w), n) + 1 BY <2>1, <2>2, WithinAppend
  <2>4. Within(Tail(w), n) = IF w[1] <= n THEN Within(w, n) - 1 ELSE Within(w, n)
    BY <2>1, WithinTail
  <2>5. w[1] \in Nat BY <2>1, HealthAssumption DEF Ages
  <2> QED BY <1>0, <1>1, <1>2, <2>3, <2>4, <2>5
<1>3. CASE Len(w) # MaxLen
  <2>1. Record(w, 0) = Append(w, 0) BY <1>3 DEF Record
  <2>2. Within(Record(w, 0), n) = Within(w, n) + 1 BY <2>1, WithinAppend
  <2> QED BY <1>1, <2>2
<1> QED BY <1>2, <1>3

LEMMA RecordDescends ==
    ASSUME NEW w \in Seq(Ages), Len(w) <= MaxLen, Descends(w)
    PROVE  /\ Descends(Record(w, 0)) /\ Record(w, 0) # <<>>
           /\ Record(w, 0)[1] = 0 \/ (w # <<>> /\ Record(w, 0)[1] <= w[1])
<1>0. MaxLen \in Nat \ {0} /\ \A a \in Ages : a \in Nat BY HealthAssumption DEF Ages
<1> DEFINE v == IF Len(w) = MaxLen THEN Tail(w) ELSE w
<1>1. v \in Seq(Ages) /\ Descends(v) /\ (v # <<>> => w # <<>> /\ v[1] <= w[1])
  <2>1. CASE Len(w) = MaxLen
    <3>1. w # <<>> /\ v = Tail(w) BY <1>0, <2>1
    <3>2. /\ v \in Seq(Ages) /\ DOMAIN v = 1 .. Len(w) - 1 /\ DOMAIN w = 1 .. Len(w)
          /\ \A i \in DOMAIN v : i + 1 \in DOMAIN w /\ v[i] = w[i + 1]
      BY <3>1
    <3>3. Descends(v) BY <3>2 DEF Descends
    <3>4. v # <<>> => v[1] <= w[1]
      <4> SUFFICES ASSUME v # <<>> PROVE v[1] <= w[1] OBVIOUS
      <4>1. 1 \in DOMAIN v BY <3>2
      <4>2. v[1] = w[2] /\ 2 \in DOMAIN w /\ 1 \in DOMAIN w BY <3>2, <4>1
      <4>3. w[1] >= w[2] BY <4>2 DEF Descends
      <4>4. w[1] \in Nat /\ w[2] \in Nat BY <1>0, <4>2
      <4> QED BY <4>2, <4>3, <4>4
    <3> QED BY <3>1, <3>2, <3>3, <3>4
  <2>2. CASE Len(w) # MaxLen
    <3>1. v = w BY <2>2
    <3>2. w # <<>> => w[1] \in Nat BY <1>0
    <3>3. w # <<>> => w[1] <= w[1] BY <3>2
    <3> QED BY <3>1, <3>3, Zenon
  <2> QED BY <2>1, <2>2
<1>2. Record(w, 0) = Append(v, 0) BY DEF Record
<1> HIDE DEF v
<1>3. /\ Len(v) \in Nat /\ DOMAIN v = 1 .. Len(v) /\ DOMAIN Append(v, 0) = 1 .. Len(v) + 1
      /\ Append(v, 0)[Len(v) + 1] = 0
      /\ \A i \in DOMAIN v : Append(v, 0)[i] = v[i] /\ v[i] \in Nat
  BY <1>0, <1>1
<1>4. Descends(Append(v, 0)) BY <1>1, <1>3 DEF Descends
<1>5. Append(v, 0)[1] = 0 \/ (v # <<>> /\ Append(v, 0)[1] = v[1])
  <2>1. CASE v = <<>> BY <1>3, <2>1
  <2>2. CASE v # <<>>
    <3>1. 1 \in DOMAIN v BY <1>1, <1>3, <2>2
    <3> QED BY <1>3, <2>2, <3>1
  <2> QED BY <2>1, <2>2
<1>6. Append(v, 0) # <<>> BY <1>1
<1> QED BY <1>1, <1>2, <1>4, <1>5, <1>6
\* A tick makes what counted up to an age count up to the next.
LEMMA OlderCounts ==
    ASSUME NEW w \in Seq(Ages)
    PROVE  /\ Within(Older(w), 0) = 0
           /\ \A n \in 0 .. Baseline - 1 :
                /\ Within(Older(w), n + 1) = Within(w, n)
                /\ Older(w) # <<>> /\ n + 1 < Older(w)[1] => w # <<>> /\ n < w[1]
           /\ Descends(w) => Descends(Older(w))
<1>1. /\ Older(w) \in Seq(Ages) /\ Len(Older(w)) = Len(w)
      /\ DOMAIN w = 1 .. Len(w) /\ DOMAIN Older(w) = DOMAIN w
  BY OlderType
<1>2. \A i \in DOMAIN w : w[i] \in Nat /\ w[i] <= Baseline + 1 BY Bounds DEF Ages
<1>3. \A i \in DOMAIN w : Older(w)[i] = IF w[i] > Baseline THEN w[i] ELSE w[i] + 1 BY DEF Older
<1>4. Within(Older(w), 0) = 0
  <2>1. \A i \in DOMAIN Older(w) : Older(w)[i] > 0 BY <1>1, <1>2, <1>3, Bounds
  <2> QED BY <1>1, <2>1, WithinFacts
<1>5. ASSUME NEW n \in 0 .. Baseline - 1
      PROVE  /\ Within(Older(w), n + 1) = Within(w, n)
             /\ Older(w) # <<>> /\ n + 1 < Older(w)[1] => w # <<>> /\ n < w[1]
  <2>1. \A i \in DOMAIN w : Older(w)[i] <= n + 1 <=> w[i] <= n BY <1>2, <1>3, Bounds
  <2>2. {i \in DOMAIN Older(w) : Older(w)[i] <= n + 1} = {i \in DOMAIN w : w[i] <= n}
    BY <1>1, <2>1
  <2>3. Within(Older(w), n + 1) = Within(w, n) BY <2>2, Zenon DEF Within
  <2>4. ASSUME Older(w) # <<>>, n + 1 < Older(w)[1] PROVE w # <<>> /\ n < w[1]
    <3>1. w # <<>> /\ 1 \in DOMAIN w BY <1>1, <2>4
    <3> QED BY <1>2, <1>3, <2>4, <3>1, Bounds
  <2> QED BY <2>3, <2>4
<1>6. Descends(w) => Descends(Older(w)) BY <1>1, <1>2, <1>3, Bounds DEF Descends
<1> QED BY <1>4, <1>5, <1>6

Sendings(k, n) == {m \in (0 .. n) \X (1 .. PerTick[k]) : m[2] <= sent[k][m[1]]}

LEMMA SendingsFinite ==
    ASSUME NEW k \in Keys, NEW n \in Nat
    PROVE  /\ IsFiniteSet(Sendings(k, n)) /\ SentUpTo(k, n) = Cardinality(Sendings(k, n))
           /\ IsFiniteSet(Sendings(k, n)') /\ SentUpTo(k, n)' = Cardinality(Sendings(k, n)')
<1>1. IsFiniteSet(0 .. n) /\ IsFiniteSet(1 .. PerTick[k]) BY Bounds, FS_Interval
<1>2. IsFiniteSet((0 .. n) \X (1 .. PerTick[k])) BY <1>1, FS_Product
<1>3. IsFiniteSet(Sendings(k, n)) /\ IsFiniteSet(Sendings(k, n)') BY <1>2, FS_Subset DEF Sendings
<1> QED BY <1>3, Zenon DEF SentUpTo, Sendings

LEMMA ArriveSent ==
    ASSUME HealthTypeOK, NEW k \in Keys, Arrive(k), NEW n \in 0 .. Baseline
    PROVE  /\ SentUpTo(k, n)' = SentUpTo(k, n) + 1
           /\ \A j \in Keys \ {k} : SentUpTo(j, n)' = SentUpTo(j, n)
<1> DEFINE m0 == <<0, sent[k][0] + 1>>
<1>0. n \in Nat /\ n <= Baseline /\ 0 \in 0 .. Baseline BY Bounds
<1>1. /\ sent' = [sent EXCEPT ![k] = [sent[k] EXCEPT ![0] = sent[k][0] + 1]]
      /\ sent[k] \in [0 .. Baseline -> Nat] /\ sent[k][0] < PerTick[k] /\ PerTick[k] \in Nat
  BY Bounds DEF Arrive, HealthTypeOK
<1>2. sent'[k] = [sent[k] EXCEPT ![0] = sent[k][0] + 1] /\ \A j \in Keys \ {k} : sent'[j] = sent[j]
  BY <1>1 DEF HealthTypeOK
<1>3. sent'[k][0] = sent[k][0] + 1 /\ \A a \in 0 .. Baseline : a # 0 => sent'[k][a] = sent[k][a]
  BY <1>0, <1>1, <1>2
<1>4. sent[k][0] \in Nat BY <1>0, <1>1
<1>5. Sendings(k, n)' = Sendings(k, n) \cup {m0} /\ m0 \notin Sendings(k, n)
  <2>1. \A a \in 0 .. n, b \in 1 .. PerTick[k] :
          b <= sent'[k][a] <=> (b <= sent[k][a] \/ (a = 0 /\ b = sent[k][0] + 1))
    <3> SUFFICES ASSUME NEW a \in 0 .. n, NEW b \in 1 .. PerTick[k]
                 PROVE  b <= sent'[k][a] <=> (b <= sent[k][a] \/ (a = 0 /\ b = sent[k][0] + 1))
      OBVIOUS
    <3>1. CASE a = 0 BY <1>1, <1>3, <1>4, <3>1
    <3>2. CASE a # 0
      <4>1. a \in 0 .. Baseline BY <1>0, Bounds
      <4>2. sent'[k][a] = sent[k][a] BY <1>3, <3>2, <4>1
      <4> QED BY <3>2, <4>2, Zenon
    <3> QED BY <3>1, <3>2
  <2>2. 0 \in 0 .. n /\ sent[k][0] + 1 \in 1 .. PerTick[k] BY <1>0, <1>1, <1>4
  <2>3. ~(sent[k][0] + 1 <= sent[k][0]) BY <1>4
  <2> QED BY <2>1, <2>2, <2>3 DEF Sendings
<1>6. Cardinality(Sendings(k, n) \cup {m0}) = Cardinality(Sendings(k, n)) + 1
  BY <1>0, <1>5, SendingsFinite, FS_AddElement
<1>7. SentUpTo(k, n)' = SentUpTo(k, n) + 1 BY <1>0, <1>5, <1>6, SendingsFinite
<1>8. \A j \in Keys \ {k} : SentUpTo(j, n)' = SentUpTo(j, n) BY <1>2 DEF SentUpTo
<1> QED BY <1>7, <1>8

LEMMA TickSent ==
    ASSUME HealthTypeOK, Tick, NEW k \in Keys
    PROVE  /\ SentUpTo(k, 0)' = 0
           /\ \A n \in 0 .. Baseline - 1 : SentUpTo(k, n + 1)' = SentUpTo(k, n)
<1>0. /\ 0 \in 0 .. Baseline /\ PerTick[k] \in Nat
      /\ sent'[k] = [a \in 0 .. Baseline |-> IF a = 0 THEN 0 ELSE sent[k][a - 1]]
  BY Bounds DEF Tick
<1>1. SentUpTo(k, 0)' = 0
  <2>1. sent'[k][0] = 0 BY <1>0
  <2>2. \A m \in (0 .. 0) \X (1 .. PerTick[k]) : ~(m[2] <= sent'[k][m[1]]) BY <1>0, <2>1
  <2>3. Sendings(k, 0)' = {} BY <2>2 DEF Sendings
  <2>4. Cardinality(Sendings(k, 0)') = 0 BY <2>3, FS_EmptySet
  <2> QED BY <2>4, SendingsFinite
<1>2. ASSUME NEW n \in 0 .. Baseline - 1 PROVE SentUpTo(k, n + 1)' = SentUpTo(k, n)
  <2> DEFINE f == [m \in Sendings(k, n) |-> <<m[1] + 1, m[2]>>]
  <2>1. n \in Nat /\ n + 1 \in Nat /\ n + 1 <= Baseline BY Bounds
  <2>2. \A a \in 0 .. n : a + 1 \in 0 .. Baseline /\ a + 1 # 0 /\ (a + 1) - 1 = a BY <2>1, Bounds
  <2>3. \A a \in 0 .. n : sent'[k][a + 1] = sent[k][a] BY <1>0, <2>2
  <2>4. f \in [Sendings(k, n) -> Sendings(k, n + 1)'] BY <2>1, <2>3 DEF Sendings
  <2>5. \A x, y \in Sendings(k, n) : f[x] = f[y] => x = y
    <3> SUFFICES ASSUME NEW x \in Sendings(k, n), NEW y \in Sendings(k, n), f[x] = f[y]
                 PROVE  x = y
      OBVIOUS
    <3>1. PICK a \in 0 .. n, b \in 1 .. PerTick[k] : x = <<a, b>> BY DEF Sendings
    <3>2. PICK c \in 0 .. n, d \in 1 .. PerTick[k] : y = <<c, d>> BY DEF Sendings
    <3>3. f[x] = <<a + 1, b>> /\ f[y] = <<c + 1, d>> BY <3>1, <3>2
    <3>4. a + 1 = c + 1 /\ b = d BY <3>3
    <3>5. a = c BY <2>1, <3>4
    <3> QED BY <3>1, <3>2, <3>4, <3>5
  <2>6. \A t \in Sendings(k, n + 1)' : \E x \in Sendings(k, n) : f[x] = t
    <3> SUFFICES ASSUME NEW t \in Sendings(k, n + 1)' PROVE \E x \in Sendings(k, n) : f[x] = t
      OBVIOUS
    <3>1. PICK a \in 0 .. n + 1, b \in 1 .. PerTick[k] : t = <<a, b>> /\ b <= sent'[k][a]
      BY DEF Sendings
    <3>2. a # 0 BY <1>0, <3>1
    <3>3. a - 1 \in 0 .. n /\ (a - 1) + 1 = a BY <2>1, <3>2
    <3>4. b <= sent[k][a - 1] BY <2>3, <3>1, <3>3
    <3>5. <<a - 1, b>> \in Sendings(k, n) BY <3>3, <3>4 DEF Sendings
    <3> QED BY <3>1, <3>3, <3>5
  <2> HIDE DEF f
  <2>7. IsFiniteSet(Sendings(k, n)) BY <2>1, SendingsFinite
  <2>8. Cardinality(Sendings(k, n + 1)') = Cardinality(Sendings(k, n))
    BY <2>4, <2>5, <2>6, <2>7, SameSize
  <2> QED BY <2>1, <2>8, SendingsFinite
<1> QED BY <1>1, <1>2
-----------------------------------------------------------------------------
(* The counts in every step.                                               *)

LEMMA SentIsNat ==
    ASSUME NEW k \in Keys, NEW n \in Nat
    PROVE  SentUpTo(k, n) \in Nat /\ SentUpTo(k, n)' \in Nat
BY SendingsFinite, FS_CardinalityType

LEMMA EmptyCounts == Descends(<<>>) /\ \A n \in Nat : Within(<<>>, n) = 0
<1>1. <<>> \in Seq(Ages) /\ DOMAIN <<>> = {} OBVIOUS
<1>2. \A n \in Nat : Within(<<>>, n) = 0 BY <1>1, WithinFacts
<1> QED BY <1>1, <1>2 DEF Descends

LEMMA InitCounts == HealthInit => (\A k \in Keys : Descends(windows[k])) /\ Counted
<1> SUFFICES ASSUME HealthInit PROVE (\A k \in Keys : Descends(windows[k])) /\ Counted
  OBVIOUS
<1>1. \A k \in Keys : windows[k] = <<>> BY DEF HealthInit
<1>2. ASSUME NEW k \in Keys, NEW a \in 0 .. Baseline
      PROVE  /\ Within(windows[k], a) <= SentUpTo(k, a) /\ ~NothingMissed(k, a)
  <2>1. a \in Nat /\ SentUpTo(k, a) \in Nat BY SentIsNat
  <2>2. Within(windows[k], a) = 0 BY <1>1, <2>1, EmptyCounts
  <2>3. ~NothingMissed(k, a) BY <1>1 DEF HealthInit, NothingMissed
  <2> QED BY <2>1, <2>2, <2>3
<1> QED BY <1>1, <1>2, EmptyCounts DEF Counted

LEMMA ArriveCounts ==
    ASSUME CInv, NEW k \in Keys, Arrive(k)
    PROVE  (\A j \in Keys : Descends(windows[j]))' /\ Counted'
<1>0. /\ HealthTypeOK /\ StoppedIsEmpty /\ \A j \in Keys : Descends(windows[j])
      /\ running' = running /\ uptime' = uptime
  BY DEF CInv, HealthInv, Arrive
<1>1. /\ running => windows'[k] = Record(windows[k], 0)
      /\ ~running => windows'[k] = windows[k]
      /\ \A j \in Keys : j # k => windows'[j] = windows[j]
  BY <1>0 DEF Arrive, HealthTypeOK
<1>2. \A j \in Keys : windows[j] \in Seq(Ages) /\ Len(windows[j]) <= MaxLen BY <1>0 DEF HealthTypeOK
<1>3. running => /\ Descends(windows'[k]) /\ windows'[k] # <<>>
                 /\ windows'[k][1] = 0 \/ (windows[k] # <<>> /\ windows'[k][1] <= windows[k][1])
  BY <1>0, <1>1, <1>2, RecordDescends
<1>4. \A j \in Keys : Descends(windows'[j]) BY <1>0, <1>1, <1>3
<1>5. ASSUME NEW j \in Keys, NEW a \in 0 .. Baseline
      PROVE  /\ Within(windows'[j], a) <= SentUpTo(j, a)'
             /\ NothingMissed(j, a)' => Within(windows'[j], a) = SentUpTo(j, a)'
  <2>0. /\ a \in Nat /\ Within(windows[j], a) \in Nat /\ SentUpTo(j, a) \in Nat
        /\ Within(windows[j], a) <= SentUpTo(j, a)
        /\ NothingMissed(j, a) => Within(windows[j], a) = SentUpTo(j, a)
    <3>1. a \in Nat OBVIOUS
    <3>2. Within(windows[j], a) \in Nat /\ SentUpTo(j, a) \in Nat
      BY <1>2, <3>1, WithinFacts, SentIsNat
    <3> QED BY <3>1, <3>2 DEF CInv, Counted
  <2>1. CASE j # k
    <3>1. windows'[j] = windows[j] /\ SentUpTo(j, a)' = SentUpTo(j, a)
      BY <1>0, <1>1, <2>1, ArriveSent
    <3>2. NothingMissed(j, a)' => NothingMissed(j, a) BY <1>0, <3>1 DEF NothingMissed
    <3> QED BY <2>0, <3>1, <3>2
  <2>2. CASE j = k /\ ~running
    <3>1. windows[j] = <<>> /\ windows'[j] = <<>> BY <1>0, <1>1, <2>2 DEF StoppedIsEmpty
    <3>2. SentUpTo(j, a)' = SentUpTo(j, a) + 1 BY <1>0, <2>2, ArriveSent
    <3>3. ~NothingMissed(j, a)' BY <1>0, <2>2, <3>1 DEF NothingMissed
    <3>4. Within(windows'[j], a) = Within(windows[j], a) BY <3>1
    <3> QED BY <2>0, <3>2, <3>3, <3>4
  <2>3. CASE j = k /\ running
    <3>1. SentUpTo(j, a)' = SentUpTo(j, a) + 1 BY <1>0, <2>3, ArriveSent
    <3>2. /\ Within(windows'[j], a) <= Within(windows[j], a) + 1
          /\ Len(windows[j]) < MaxLen \/ windows[j][1] > a
               => Within(windows'[j], a) = Within(windows[j], a) + 1
      BY <1>1, <1>2, <2>0, <2>3, WithinRecorded
    <3>3. Within(windows'[j], a) \in Nat
      <4>1. windows'[j] \in Seq(Ages) BY <1>0, <2>3, ArriveType DEF HealthTypeOK
      <4> QED BY <2>0, <4>1, WithinFacts
    <3>4. ASSUME NothingMissed(j, a)' PROVE Within(windows'[j], a) = SentUpTo(j, a)'
      <4>1. CASE windows'[j] # <<>> /\ a < windows'[j][1]
        <5>1. windows[j] # <<>> /\ windows'[j][1] <= windows[j][1]
          BY <1>3, <2>0, <2>3, <4>1
        <5>2. windows'[j][1] \in Nat /\ windows[j][1] \in Nat
          <6>1. windows'[j] \in Seq(Ages) BY <1>0, <2>3, ArriveType DEF HealthTypeOK
          <6>2. windows'[j][1] \in Ages /\ windows[j][1] \in Ages BY <1>2, <4>1, <5>1, <6>1
          <6> QED BY <6>2, Bounds DEF Ages
        <5>3. a < windows[j][1] /\ windows[j][1] > a BY <2>0, <4>1, <5>1, <5>2
        <5>4. NothingMissed(j, a) BY <5>1, <5>3 DEF NothingMissed
        <5> QED BY <2>0, <3>1, <3>2, <5>3, <5>4
      <4>2. CASE running' /\ Len(windows'[j]) < MaxLen /\ a < uptime'
        <5>1. Len(windows[j]) < MaxLen
          <6>1. windows'[j] = Record(windows[j], 0) BY <1>1, <2>3
          <6>2. Len(windows[j]) = MaxLen => Len(Record(windows[j], 0)) = MaxLen
            <7> SUFFICES ASSUME Len(windows[j]) = MaxLen
                         PROVE  Len(Record(windows[j], 0)) = MaxLen
              OBVIOUS
            <7>1. windows[j] \in Seq(Ages) /\ windows[j] # <<>> /\ MaxLen \in Nat \ {0}
              BY <1>2, Bounds
            <7>2. Len(Append(Tail(windows[j]), 0)) = MaxLen BY <7>1
            <7> QED BY <7>2 DEF Record
          <6>3. Len(windows[j]) \in Nat /\ MaxLen \in Nat BY <1>2, Bounds
          <6> QED BY <1>2, <4>2, <6>1, <6>2, <6>3
        <5>2. NothingMissed(j, a) BY <1>0, <4>2, <5>1 DEF NothingMissed
        <5> QED BY <2>0, <3>1, <3>2, <5>1, <5>2
      <4> QED BY <3>4, <4>1, <4>2 DEF NothingMissed
    <3> QED BY <2>0, <3>1, <3>2, <3>3, <3>4
  <2> QED BY <2>1, <2>2, <2>3
<1> QED BY <1>4, <1>5 DEF Counted

LEMMA TickCounts ==
    ASSUME CInv, Tick
    PROVE  (\A k \in Keys : Descends(windows[k]))' /\ Counted'
<1>0. HealthTypeOK /\ running' = running /\ \A k \in Keys : windows[k] \in Seq(Ages)
  BY DEF CInv, HealthInv, Tick, HealthTypeOK
<1>1. \A k \in Keys : windows'[k] = Older(windows[k]) BY DEF Tick, Older
<1>2. \A k \in Keys : Descends(windows'[k]) BY <1>0, <1>1, OlderCounts DEF CInv
<1>3. ASSUME NEW k \in Keys, NEW a \in 0 .. Baseline
      PROVE  /\ Within(windows'[k], a) <= SentUpTo(k, a)'
             /\ NothingMissed(k, a)' => Within(windows'[k], a) = SentUpTo(k, a)'
  <2>1. CASE a = 0
    <3>1. Within(windows'[k], a) = 0 BY <1>0, <1>1, <2>1, OlderCounts
    <3>2. SentUpTo(k, a)' = 0 BY <1>0, <2>1, TickSent
    <3> QED BY <3>1, <3>2
  <2>2. CASE a # 0
    <3>1. PICK n \in 0 .. Baseline - 1 : a = n + 1
      <4>1. a - 1 \in 0 .. Baseline - 1 /\ a = (a - 1) + 1 BY <2>2, Bounds
      <4> QED BY <4>1
    <3>2. /\ Within(windows'[k], a) = Within(windows[k], n)
          /\ windows'[k] # <<>> /\ a < windows'[k][1] => windows[k] # <<>> /\ n < windows[k][1]
      BY <1>0, <1>1, <3>1, OlderCounts
    <3>3. SentUpTo(k, a)' = SentUpTo(k, n) BY <1>0, <3>1, TickSent
    <3>4. /\ Within(windows[k], n) <= SentUpTo(k, n)
          /\ NothingMissed(k, n) => Within(windows[k], n) = SentUpTo(k, n)
      <4>1. n \in 0 .. Baseline BY Bounds
      <4> QED BY <4>1 DEF CInv, Counted
    <3>5. NothingMissed(k, a)' => NothingMissed(k, n)
      <4>1. Len(windows'[k]) = Len(windows[k]) BY <1>0, <1>1, OlderType
      <4>2. a < uptime' => n < uptime
        <5>1. uptime' = IF uptime > Baseline THEN uptime ELSE uptime + 1 BY DEF Tick
        <5>2. uptime \in Nat BY <1>0, Bounds DEF HealthTypeOK, Ages
        <5> QED BY <3>1, <5>1, <5>2, Bounds
      <4> QED BY <1>0, <3>2, <4>1, <4>2 DEF NothingMissed
    <3> QED BY <3>2, <3>3, <3>4, <3>5
  <2> QED BY <2>1, <2>2
<1> QED BY <1>2, <1>3 DEF Counted

\* A tracker that holds nothing claims nothing.
LEMMA EmptyStepCounts ==
    ASSUME \A k \in Keys : windows'[k] = <<>>, ~running' \/ uptime' = 0
    PROVE  (\A k \in Keys : Descends(windows[k]))' /\ Counted'
<1>1. ASSUME NEW k \in Keys, NEW a \in 0 .. Baseline
      PROVE  Within(windows'[k], a) <= SentUpTo(k, a)' /\ ~NothingMissed(k, a)'
  <2>1. a \in Nat /\ SentUpTo(k, a)' \in Nat BY SentIsNat
  <2>2. Within(windows'[k], a) = 0 BY <2>1, EmptyCounts
  <2>3. ~NothingMissed(k, a)' BY <2>1 DEF NothingMissed
  <2> QED BY <2>1, <2>2, <2>3
<1> QED BY <1>1, EmptyCounts DEF Counted

LEMMA StepCounts == CInv /\ [HealthNext]_healthVars => CInv'
<1> SUFFICES ASSUME CInv, [HealthNext]_healthVars PROVE (\A k \in Keys : Descends(windows[k]))' /\ Counted'
  BY StepIInv DEF CInv
<1>1. ASSUME NEW k \in Keys, Arrive(k)
      PROVE  (\A j \in Keys : Descends(windows[j]))' /\ Counted'
  BY <1>1, ArriveCounts
<1>2. CASE Tick BY <1>2, TickCounts
<1>3. CASE UNCHANGED <<running, windows, sent, uptime>>
  BY <1>3 DEF CInv, Counted, NothingMissed, SentUpTo
<1>4. CASE Report BY <1>3, <1>4 DEF Report
<1>5. CASE ReportFails BY <1>5, EmptyStepCounts DEF ReportFails, Stops
<1>6. CASE Stop BY <1>6, EmptyStepCounts DEF Stop, Stops
<1>7. CASE Start
  <2>1. \A k \in Keys : windows'[k] = <<>> BY <1>7 DEF Start, CInv, HealthInv, StoppedIsEmpty
  <2> QED BY <1>7, <2>1, EmptyStepCounts DEF Start
<1>8. CASE UNCHANGED healthVars BY <1>3, <1>8 DEF healthVars
<1> QED BY <1>1, <1>2, <1>4, <1>5, <1>6, <1>7, <1>8 DEF HealthNext
-----------------------------------------------------------------------------
(* From the counts to the verdict.                                         *)

\* More than the quotient is more than its product.
LEMMA QuotientBelow ==
    ASSUME NEW x \in Nat, NEW m \in Nat, NEW r \in Nat \ {0}
    PROVE  m > x \div r <=> x < m * r
<1>1. x \div r \in Nat /\ r * (x \div r) <= x /\ x < r * ((x \div r) + 1) OBVIOUS
<1> DEFINE q == x \div r
<1> HIDE DEF q
<1>2. q \in Nat /\ r * q <= x /\ x < r * (q + 1) BY <1>1 DEF q
<1>3. m > q => x < m * r
  <2> SUFFICES ASSUME m > q PROVE x < m * r OBVIOUS
  <2>1. m >= q + 1 BY <1>2
  <2>2. m * r >= r * (q + 1) BY <1>2, <2>1
  <2> QED BY <1>2, <2>2
<1>4. m <= q => ~(x < m * r)
  <2> SUFFICES ASSUME m <= q PROVE m * r <= x OBVIOUS
  <2>1. m * r <= r * q BY <1>2
  <2> QED BY <1>2, <2>1
<1> QED BY <1>2, <1>3, <1>4 DEF q

LEMMA Products ==
    ASSUME NEW n \in Nat, NEW m \in Nat, n <= m
    PROVE  /\ n * Recent \in Nat /\ n * Recent <= m * Recent
           /\ n * Baseline * Slowdown \in Nat
           /\ n * Recent <= n * Baseline * Slowdown
<1>1. Recent \in Nat \ {0} /\ Baseline \in Nat /\ Slowdown \in Nat \ {0} /\ Recent <= Baseline
  BY HealthAssumption
<1>2. n * Recent \in Nat /\ n * Recent <= m * Recent BY <1>1
<1>3. n * Recent <= n * Baseline BY <1>1
<1>4. n * Baseline \in Nat BY <1>1
<1>5. \A a \in Nat, b \in Nat \ {0} : a * b \in Nat /\ a <= a * b OBVIOUS
<1>6. n * Baseline * Slowdown \in Nat /\ n * Baseline <= n * Baseline * Slowdown
  BY <1>1, <1>4, <1>5
<1> QED BY <1>2, <1>3, <1>4, <1>6

\* A deque that is judged slow holds an arrival older than the recent window.
LEMMA SlowHasOlder ==
    ASSUME NEW w \in Seq(Ages), Descends(w), ~Up(w)
    PROVE  w # <<>> /\ Recent < w[1]
<1>0. Recent \in Nat /\ Baseline \in Nat /\ Recent <= Baseline /\ \A a \in Ages : a \in Nat
  BY HealthAssumption DEF Ages
<1>1. /\ Within(w, Recent) \in Nat /\ Within(w, Baseline) \in Nat /\ Within(w, Baseline) # 0
      /\ ~(Within(w, Recent) * Baseline * Slowdown >= Within(w, Baseline) * Recent)
  BY <1>0, WithinFacts DEF Up
<1>2. w # <<>> BY <1>0, <1>1, EmptyCounts
<1>3. ASSUME ~(Recent < w[1]) PROVE FALSE
  <2>1. 1 \in DOMAIN w /\ \A i \in DOMAIN w : w[i] \in Nat /\ 1 <= i BY <1>0, <1>2
  <2>2. \A i \in DOMAIN w : w[i] <= w[1] BY <2>1 DEF Descends
  <2>3. \A i \in DOMAIN w : w[i] <= Recent /\ w[i] <= Baseline BY <1>0, <1>3, <2>1, <2>2
  <2>4. Within(w, Recent) = Within(w, Baseline)
    <3>1. {i \in DOMAIN w : w[i] <= Recent} = {i \in DOMAIN w : w[i] <= Baseline} BY <2>3
    <3> QED BY <3>1, Zenon DEF Within
  <2>5. /\ Within(w, Baseline) * Recent \in Nat
        /\ Within(w, Baseline) * Baseline * Slowdown \in Nat
        /\ Within(w, Baseline) * Recent <= Within(w, Baseline) * Baseline * Slowdown
    BY <1>1, Products
  <2>6. ~(Within(w, Baseline) * Baseline * Slowdown >= Within(w, Baseline) * Recent)
    BY <1>1, <2>4, Zenon
  <2> HIDE DEF Within
  <2> QED BY <2>5, <2>6
<1> QED BY <1>2, <1>3

LEMMA DownIsSlow ==
    ASSUME CInv, NEW k \in Keys, ~Up(windows[k])
    PROVE  Slow(k)
<1> DEFINE w == windows[k]
           x == Within(w, Recent) * Baseline * Slowdown
<1>0. Recent \in Nat \ {0} /\ Baseline \in Nat /\ Recent \in 0 .. Baseline /\ Baseline \in 0 .. Baseline
  BY HealthAssumption
<1>1. w \in Seq(Ages) /\ Descends(w) BY DEF CInv, HealthInv, HealthTypeOK
<1>2. NothingMissed(k, Recent) BY <1>1, SlowHasOlder DEF NothingMissed
<1>3. Within(w, Recent) = SentUpTo(k, Recent) /\ Within(w, Baseline) <= SentUpTo(k, Baseline)
  BY <1>0, <1>2 DEF CInv, Counted
<1>4. Within(w, Recent) \in Nat /\ Within(w, Baseline) \in Nat /\ SentUpTo(k, Baseline) \in Nat
  BY <1>0, <1>1, WithinFacts, SentIsNat
<1>5. x \in Nat /\ Within(w, Baseline) * Recent \in Nat
      /\ Within(w, Baseline) * Recent <= SentUpTo(k, Baseline) * Recent
      /\ SentUpTo(k, Baseline) * Recent \in Nat
  BY <1>3, <1>4, Products
<1>6. ~(x >= Within(w, Baseline) * Recent) BY DEF Up
<1> HIDE DEF x, w
<1>7. x < SentUpTo(k, Baseline) * Recent BY <1>5, <1>6
<1>8. SentUpTo(k, Baseline) > x \div Recent BY <1>0, <1>4, <1>5, <1>7, QuotientBelow
<1> QED BY <1>3, <1>8, Zenon DEF Slow, x

LEMMA UpMisses ==
    ASSUME CInv, NEW k \in Keys, running, Slow(k), Up(windows[k])
    PROVE  \/ uptime <= Baseline
           \/ Len(windows[k]) = MaxLen /\ Head(windows[k]) <= Baseline
<1> SUFFICES ASSUME ~(uptime <= Baseline),
                    ~(Len(windows[k]) = MaxLen /\ Head(windows[k]) <= Baseline)
             PROVE  FALSE
  OBVIOUS
<1> DEFINE w == windows[k]
           x == Within(w, Recent) * Baseline * Slowdown
<1>0. /\ Recent \in Nat \ {0} /\ Baseline \in Nat /\ Recent \in 0 .. Baseline
      /\ Baseline \in 0 .. Baseline /\ MaxLen \in Nat \ {0}
  BY HealthAssumption
<1>1. w \in Seq(Ages) /\ Len(w) <= MaxLen /\ Baseline < uptime BY <1>0 DEF CInv, HealthInv, HealthTypeOK, Ages
<1>2. ASSUME NEW a \in 0 .. Baseline PROVE NothingMissed(k, a)
  <2>1. a < uptime BY <1>0, <1>1 DEF CInv, HealthInv, HealthTypeOK, Ages
  <2>2. CASE Len(w) = MaxLen
    <3>1. w # <<>> BY <1>0, <1>1, <2>2
    <3>2. ~(w[1] <= Baseline) /\ w[1] \in Ages BY <1>1, <2>2, <3>1
    <3>3. a < w[1] BY <1>0, <3>2 DEF Ages
    <3> QED BY <3>1, <3>3 DEF NothingMissed
  <2>3. CASE Len(w) # MaxLen
    <3>1. Len(w) < MaxLen BY <1>0, <1>1, <2>3
    <3> QED BY <2>1, <3>1 DEF NothingMissed
  <2> QED BY <2>2, <2>3
<1>3. Within(w, Recent) = SentUpTo(k, Recent) /\ Within(w, Baseline) = SentUpTo(k, Baseline)
  BY <1>0, <1>2 DEF CInv, Counted
<1>4. Within(w, Recent) \in Nat /\ Within(w, Baseline) \in Nat
  BY <1>0, <1>1, WithinFacts
<1>5. x \in Nat /\ Within(w, Baseline) * Recent \in Nat BY <1>4, Products
<1>6. Within(w, Baseline) > x \div Recent BY <1>3, Zenon DEF Slow
<1>7. Within(w, Baseline) = 0 \/ x >= Within(w, Baseline) * Recent BY Zenon DEF Up
<1> HIDE DEF x, w
<1>8. x < Within(w, Baseline) * Recent BY <1>0, <1>4, <1>5, <1>6, QuotientBelow
<1>9. Within(w, Baseline) = 0 BY <1>5, <1>7, <1>8
<1>10. x \div Recent \in Nat BY <1>0, <1>5, QuotientBelow
<1> QED BY <1>6, <1>9, <1>10

LEMMA ReportExplained ==
    ASSUME CInv, Report, NEW k \in Known
    PROVE  /\ snapshot'[k] = "down" => Slow(k)
           /\ Slow(k) /\ snapshot'[k] = "up" =>
                \/ uptime <= Baseline
                \/ Len(windows[k]) = MaxLen /\ Head(windows[k]) <= Baseline
<1>1. k \in Keys /\ windows[k] # <<>> BY DEF Known, Row
<1>2. snapshot'[k] = IF Up(windows[k]) THEN "up" ELSE "down"
  <2>1. snapshot' = Rows BY DEF Report
  <2> QED BY <1>1, <2>1 DEF Rows, Row
<1>3. running BY DEF Report, Due
<1>4. CASE Up(windows[k])
  <2>1. snapshot'[k] # "down" BY <1>2, <1>4
  <2> QED BY <1>1, <1>3, <1>4, <2>1, UpMisses, Zenon
<1>5. CASE ~Up(windows[k])
  <2>1. snapshot'[k] # "up" BY <1>2, <1>5
  <2> QED BY <1>1, <1>5, <2>1, DownIsSlow, Zenon
<1> QED BY <1>4, <1>5

\* A row says DOWN of a stream only when its messages have fallen below the part
\* of the baseline that the rule names; it says UP of such a stream only while
\* the process is younger than the baseline window or the deque overflows with
\* it (core/health.py:12-19, 45-59).
THEOREM VerdictsExplained == HealthSpec => VerdictExplained
<1>1. HealthInit => CInv BY InitType, InitSilence, InitCounts DEF CInv, HealthInv
<1>2. CInv /\ [HealthNext]_healthVars =>
        [Report => \A k \in Known :
            /\ snapshot'[k] = "down" => Slow(k)
            /\ Slow(k) /\ snapshot'[k] = "up" =>
                \/ uptime <= Baseline
                \/ Len(windows[k]) = MaxLen /\ Head(windows[k]) <= Baseline]_healthVars
  BY ReportExplained
<1> QED BY <1>1, <1>2, StepCounts, PTL DEF HealthSpec, VerdictExplained
=============================================================================
