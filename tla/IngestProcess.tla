--------------------------- MODULE IngestProcess ---------------------------
(***************************************************************************)
(* The live ingest process (cryptodata/core/ingest.py): one event loop     *)
(* with a supervised worker for each (venue, stream) (core/worker.py), the *)
(* periodic flusher (core/writer.py), the health writer                    *)
(* (core/health_writer.py), the reconciler (core/reconciler.py), and the   *)
(* main coroutine, which gathers them and stops them all when one of them  *)
(* raises or when Ctrl-C cancels it.                                       *)
(*                                                                         *)
(* A step is what a task does between two awaits.  The rows of a worker    *)
(* that the writer holds are one buffer: it has rows or it has none.       *)
(***************************************************************************)
EXTENDS Naturals

CONSTANTS
    Workers,       \* the (venue, stream) workers
    Stub,          \* those whose adapter only raises NotImplementedError
    MinBackoff,    \* _MIN_BACKOFF, in seconds
    MaxBackoff,    \* _MAX_BACKOFF, in seconds
    MaxFailures    \* bound of the model: failing writes of files or of the database

Services == {"writer", "health", "reconciler"}

ASSUME IngestAssumption ==
    /\ Workers \cap Services = {}
    /\ Stub \subseteq Workers
    /\ MinBackoff \in Nat \ {0}
    /\ MaxBackoff \in Nat /\ MinBackoff <= MaxBackoff
    /\ MaxFailures \in Nat

Tasks == Workers \cup Services

VARIABLES
    main,         \* run_ingest_forever: gathering, stopping or over
    task,         \* task -> running, sleeping before a restart, over, raised
    cancelled,    \* tasks with a CancelledError on its way
    backoff,      \* worker -> seconds
    pause,        \* worker -> half-seconds it sleeps, 0 while it streams
    memory,       \* workers with rows in the writer's buffers
    interrupted,  \* Ctrl-C has come
    failures

vars == <<main, task, cancelled, backoff, pause, memory, interrupted, failures>>

Live == {t \in Tasks : task[t] \in {"running", "sleeping"}}
Raised == {t \in Tasks : task[t] = "raised"}
Asleep == {w \in Workers : task[w] = "sleeping"}

TypeOK ==
    /\ main \in {"gathering", "stopping", "over"}
    /\ task \in [Tasks -> {"running", "sleeping", "over", "raised"}]
    /\ cancelled \subseteq Live
    /\ backoff \in [Workers -> MinBackoff .. MaxBackoff]
    /\ pause \in [Workers -> 0 .. 3 * MaxBackoff]
    /\ memory \subseteq Workers
    /\ interrupted \in BOOLEAN
    /\ failures \in 0 .. MaxFailures

\* Every task has taken its first step.  The main coroutine skips a venue
\* without an adapter, but the reconciler makes the adapters of all venues, and
\* has raised where the configuration names such a venue.
Init ==
    /\ main = "gathering"
    /\ \E reconciler \in {"running", "raised"} :
        task = [t \in Tasks |-> IF t = "reconciler" THEN reconciler ELSE "running"]
    /\ cancelled = {}
    /\ backoff = [w \in Workers |-> MinBackoff]
    /\ pause = [w \in Workers |-> 0]
    /\ memory = {}
    /\ interrupted = FALSE
    /\ failures = 0

Runs(t) == task[t] = "running" /\ t \notin cancelled

-----------------------------------------------------------------------------
(* IngestWorker.run                                                        *)

\* Fault: an exception of the stream ends the task.
SleepDies(w) ==
    /\ task' = [task EXCEPT ![w] = "raised"]
    /\ UNCHANGED pause

\* It sleeps between half the backoff and one and a half times the backoff.
Sleep(w) ==
    /\ task' = [task EXCEPT ![w] = "sleeping"]
    /\ \E p \in backoff[w] .. (3 * backoff[w] - 1) : pause' = [pause EXCEPT ![w] = p]

\* A row goes to the writer, which flushes the buffer when it is full or old.
AppendRow(w) ==
    /\ Runs(w) /\ w \notin Stub
    /\ memory' \in {memory \cup {w}, memory \ {w}}
    /\ UNCHANGED <<main, task, cancelled, backoff, pause, interrupted, failures>>

\* That flush raises: its rows are gone, and the worker restarts the stream.
AppendFails(w) ==
    /\ Runs(w) /\ w \notin Stub
    /\ failures < MaxFailures
    /\ failures' = failures + 1
    /\ memory' = memory \ {w}
    /\ Sleep(w)
    /\ UNCHANGED <<main, cancelled, backoff, interrupted>>

\* The stream ends or raises.  A stub is a coroutine function, so that iterating
\* over what it returns is a TypeError, an exception like any other.
StreamFails(w) ==
    /\ Runs(w)
    /\ Sleep(w)
    /\ UNCHANGED <<main, cancelled, backoff, memory, interrupted, failures>>

\* Fault: the worker gives up at the largest backoff.
WakeUnlessMax(w) ==
    /\ task[w] = "sleeping" /\ w \notin cancelled
    /\ backoff[w] < MaxBackoff
    /\ task' = [task EXCEPT ![w] = "running"]
    /\ pause' = [pause EXCEPT ![w] = 0]
    /\ backoff' = [backoff EXCEPT ![w] = MaxBackoff]
    /\ UNCHANGED <<main, cancelled, memory, interrupted, failures>>

\* Nothing resets the backoff when a stream has run well.
Wake(w) ==
    /\ task[w] = "sleeping" /\ w \notin cancelled
    /\ task' = [task EXCEPT ![w] = "running"]
    /\ pause' = [pause EXCEPT ![w] = 0]
    /\ backoff' = [backoff EXCEPT ![w] = IF 2 * @ < MaxBackoff THEN 2 * @ ELSE MaxBackoff]
    /\ UNCHANGED <<main, cancelled, memory, interrupted, failures>>

-----------------------------------------------------------------------------
(* AsyncWriter.run and run_health_writer                                   *)

\* flush_all stops at the first buffer whose write raises: that buffer has left
\* the memory for nothing, and the buffers after it stay.
BrokenFlush(rows) == {rest \in SUBSET rows : rest # rows}

FlushTimer ==
    /\ Runs("writer")
    /\ memory' = {}
    /\ UNCHANGED <<main, task, cancelled, backoff, pause, interrupted, failures>>

\* The flush raises, the finally clause flushes what is left, and the exception
\* ends the writer.
FlushTimerFails ==
    /\ Runs("writer")
    /\ \E rest \in BrokenFlush(memory) :
        \/ failures + 1 <= MaxFailures /\ failures' = failures + 1 /\ memory' = {}
        \/ /\ failures + 2 <= MaxFailures
           /\ failures' = failures + 2
           /\ memory' \in BrokenFlush(rest)
    /\ task' = [task EXCEPT !["writer"] = "raised"]
    /\ UNCHANGED <<main, cancelled, backoff, pause, interrupted>>

\* The INSERT into venue_status raises, or the connection to the database that
\* another process holds open.
HealthRaises ==
    /\ Runs("health")
    /\ failures < MaxFailures
    /\ failures' = failures + 1
    /\ task' = [task EXCEPT !["health"] = "raised"]
    /\ UNCHANGED <<main, cancelled, backoff, pause, memory, interrupted>>

-----------------------------------------------------------------------------
(* run_ingest_forever                                                      *)

\* Fault: the services are cancelled before the workers.
CancelServices == cancelled' = Live \cap Services

\* One call, without an await: no task runs in between.
CancelAll == cancelled' = Live

\* The exception of a task reaches the await of gather.
MainWakes ==
    /\ main = "gathering"
    /\ Raised # {}
    /\ main' = "stopping"
    /\ CancelAll
    /\ UNCHANGED <<task, backoff, pause, memory, interrupted, failures>>

\* Cancelling the main coroutine cancels what it gathers.
Interrupt ==
    /\ main = "gathering"
    /\ main' = "stopping"
    /\ interrupted' = TRUE
    /\ CancelAll
    /\ UNCHANGED <<task, backoff, pause, memory, failures>>

\* Fault: the worker takes a CancelledError for an exception of the stream.
CancelSwallowed(t) ==
    /\ t \in cancelled \ {"writer"}
    /\ cancelled' = cancelled \ {t}
    /\ task' = [task EXCEPT ![t] = "sleeping"]
    /\ UNCHANGED <<main, backoff, pause, memory, interrupted, failures>>

CancelLands(t) ==
    /\ t \in cancelled \ {"writer"}
    /\ cancelled' = cancelled \ {t}
    /\ task' = [task EXCEPT ![t] = "over"]
    /\ UNCHANGED <<main, backoff, pause, memory, interrupted, failures>>

\* The finally clause of the writer: the last flush.
WriterEnds ==
    /\ "writer" \in cancelled
    /\ cancelled' = cancelled \ {"writer"}
    /\ \/ /\ task' = [task EXCEPT !["writer"] = "over"]
          /\ memory' = {}
          /\ UNCHANGED failures
       \/ /\ failures < MaxFailures
          /\ failures' = failures + 1
          /\ task' = [task EXCEPT !["writer"] = "raised"]
          /\ memory' \in BrokenFlush(memory)
    /\ UNCHANGED <<main, backoff, pause, interrupted>>

MainEnds ==
    /\ main = "stopping"
    /\ Live = {}
    /\ main' = "over"
    /\ UNCHANGED <<task, cancelled, backoff, pause, memory, interrupted, failures>>

WorkerStep == \E w \in Workers : AppendRow(w) \/ AppendFails(w) \/ StreamFails(w) \/ Wake(w)
ServiceStep == FlushTimer \/ FlushTimerFails \/ HealthRaises
StopStep == MainWakes \/ Interrupt \/ (\E t \in Tasks : CancelLands(t)) \/ WriterEnds \/ MainEnds

Next == WorkerStep \/ ServiceStep \/ StopStep

Spec == Init /\ [][Next]_vars

\* The event loop runs every task that is ready, and its timers fire.
FairSpec ==
    /\ Spec
    /\ \A w \in Workers : WF_vars(Wake(w))
    /\ \A t \in Tasks : WF_vars(CancelLands(t))
    /\ WF_vars(MainWakes) /\ WF_vars(WriterEnds) /\ WF_vars(MainEnds)

-----------------------------------------------------------------------------
(* Properties                                                              *)

\* No worker appends a row after the last flush: once the writer has ended
\* without an exception, no row is left in memory (run_ingest.py:6-7 "All worker
\* tasks are cancelled, the writer flushes pending batches").
LastFlushIsLast == task["writer"] = "over" => memory = {}

\* Whatever its stream or its writes raise, a worker lives as long as the
\* process has not begun to stop (README.md:58 "it never dies for the life of
\* the process").
NoFeedDies == main = "gathering" => Workers \subseteq Live

\* A worker that backs off streams again, or the process stops.
FeedsComeBack == \A w \in Workers : task[w] = "sleeping" ~> task[w] = "running" \/ main # "gathering"

\* A process that has begun to stop, or has lost a task, ends.
StopEnds == main = "stopping" \/ Raised # {} ~> main = "over"

=============================================================================
