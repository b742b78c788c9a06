--------------------------- MODULE ParquetWriter ---------------------------
(***************************************************************************)
(* The batched, partitioned Parquet writer (cryptodata/storage/parquet.py) *)
(* with the periodic flusher the ingest process runs around it             *)
(* (cryptodata/core/writer.py).                                            *)
(*                                                                         *)
(* A caller of append() runs three pieces of code that the lock keeps      *)
(* apart: it files the row and decides whether to flush, it pops the       *)
(* buffer, and it writes the popped rows to a part file.  Each piece is an *)
(* action, so callers on different threads interleave between them, and    *)
(* the process may be killed between any two.  cda-ingest makes all its    *)
(* calls from one event loop, so its behaviours are those of this module   *)
(* in which a caller that starts runs until it is idle again.              *)
(***************************************************************************)
EXTENDS Naturals, FiniteSets

CONSTANTS
    Rows,          \* the rows the feeds deliver, each handed over once
    Streams,       \* the (table, symbol, venue) triples
    StreamOf,      \* row -> its stream
    HourOf,        \* row -> hour since the epoch of its ts_ns
    HoursPerDay,   \* 24 in the code
    Workers,       \* callers of append()
    Flusher,       \* the AsyncWriter.run() task, the only caller of flush_all()
    BatchRows,     \* batch_rows
    BatchSeconds,  \* batch_seconds: a buffer's maximum age and the flush interval
    MaxCrashes     \* bound of the model: how often the process may be killed

ASSUME WriterAssumption ==
    /\ HourOf \in [Rows -> Nat]
    /\ StreamOf \in [Rows -> Streams]
    /\ HoursPerDay \in Nat \ {0}
    /\ Flusher \notin Workers
    /\ BatchRows \in Nat \ {0}
    /\ BatchSeconds \in Nat \ {0}
    /\ MaxCrashes \in Nat

Callers == Workers \cup {Flusher}

\* Fault: the buffers are keyed by stream alone.
KeyWithoutHour(r) == <<StreamOf[r]>>

KeyOf(r)  == <<StreamOf[r], HourOf[r]>>
DateOf(r) == HourOf[r] \div HoursPerDay
Keys      == {KeyOf(r) : r \in Rows}

VARIABLES
    buf,       \* key -> rows of its buffer; {} when the key is not in _buffers
    age,       \* key -> time units since its buffer was opened, up to BatchSeconds + 1
    todo,      \* caller -> keys it has decided to flush and not yet popped
    held,      \* caller -> rows it has popped and not yet finished writing
    out,       \* caller -> name of the part file it is writing, 0 if none
    parts,     \* the part files on disk
    names,     \* how many part names ns_now() has supplied
    flusher,   \* where AsyncWriter.run() is
    timer,     \* time units the flusher has been in wait_for()
    stop,      \* the _stop event
    crashes,   \* how often the process was killed (bounded by MaxCrashes)
    accepted,  \* history: rows append() has taken
    lost,      \* history: rows a failed write or a crash has dropped
    late       \* history: rows taken after the final flush listed its keys

memory  == <<buf, age, todo, held, out>>
service == <<flusher, timer, stop>>
history == <<accepted, lost, late>>
vars    == <<memory, parts, names, service, crashes, history>>

Part == [name : Nat, stream : Streams, date : Nat,
         rows : SUBSET Rows, complete : BOOLEAN]

TypeOK ==
    /\ buf \in [Keys -> SUBSET Rows]
    /\ age \in [Keys -> 0 .. BatchSeconds + 1]
    /\ todo \in [Callers -> SUBSET Keys]
    /\ held \in [Callers -> SUBSET Rows]
    /\ out \in [Callers -> Nat]
    /\ parts \in SUBSET Part
    /\ names \in Nat
    /\ flusher \in {"waiting", "flushing", "draining", "done", "failed"}
    /\ timer \in 0 .. BatchSeconds
    /\ stop \in BOOLEAN
    /\ crashes \in 0 .. MaxCrashes
    /\ accepted \in SUBSET Rows
    /\ lost \in SUBSET Rows
    /\ late \in SUBSET Rows

OpenKeys    == {k \in Keys : buf[k] # {}}
Buffered    == UNION {buf[k] : k \in Keys}
InHand      == UNION {held[c] : c \in Callers}
InMemory    == Buffered \cup InHand
Durable     == UNION {p.rows : p \in {q \in parts : q.complete}}
Idle(c)     == todo[c] = {} /\ held[c] = {}
FlusherLive == flusher \in {"waiting", "flushing"}

Init ==
    /\ buf = [k \in Keys |-> {}]
    /\ age = [k \in Keys |-> 0]
    /\ todo = [c \in Callers |-> {}]
    /\ held = [c \in Callers |-> {}]
    /\ out = [c \in Callers |-> 0]
    /\ parts = {}
    /\ names = 0
    /\ flusher = "waiting"
    /\ timer = 0
    /\ stop = FALSE
    /\ crashes = 0
    /\ accepted = {}
    /\ lost = {}
    /\ late = {}

-----------------------------------------------------------------------------
(* append(): the locked section.  A missing buffer is opened now.          *)

\* Fault: off by one at the row threshold.
ShouldFlushLate(rows, openFor) ==
    \/ Cardinality(rows) > BatchRows
    \/ openFor >= BatchSeconds

ShouldFlush(rows, openFor) ==
    \/ Cardinality(rows) >= BatchRows
    \/ openFor >= BatchSeconds

\* Fault: the buffer is looked up outside the lock, so a caller may replace
\* the one another caller has just opened.
FileRowUnlocked(c, r) ==
    LET k == KeyOf(r)
    IN  /\ Idle(c)
        /\ r \notin accepted
        /\ buf' = [buf EXCEPT ![k] = {r}]
        /\ age' = [age EXCEPT ![k] = 0]
        /\ todo' = [todo EXCEPT ![c] = IF ShouldFlush({r}, 0) THEN {k} ELSE {}]
        /\ accepted' = accepted \cup {r}
        /\ late' = IF FlusherLive THEN late ELSE late \cup {r}
        /\ UNCHANGED <<held, out, parts, names, service, crashes, lost>>

FileRow(c, r) ==
    LET k       == KeyOf(r)
        openFor == IF buf[k] = {} THEN 0 ELSE age[k]
        rows    == buf[k] \cup {r}
    IN  /\ Idle(c)
        /\ r \notin accepted
        /\ buf' = [buf EXCEPT ![k] = rows]
        /\ age' = [age EXCEPT ![k] = openFor]
        /\ todo' = [todo EXCEPT ![c] = IF ShouldFlush(rows, openFor) THEN {k} ELSE {}]
        /\ accepted' = accepted \cup {r}
        /\ late' = IF FlusherLive THEN late ELSE late \cup {r}
        /\ UNCHANGED <<held, out, parts, names, service, crashes, lost>>

-----------------------------------------------------------------------------
(* _flush_key(): pop under the lock, then write a new part outside it.     *)

\* Fault: the buffer is read but stays in _buffers.
PopKeeps(c) ==
    /\ held[c] = {}
    /\ \E k \in todo[c] :
        /\ held' = [held EXCEPT ![c] = buf[k]]
        /\ todo' = [todo EXCEPT ![c] = @ \ {k}]
    /\ UNCHANGED <<buf, age, out, parts, names, service, crashes, history>>

Pop(c) ==
    /\ held[c] = {}
    /\ \E k \in todo[c] :
        /\ held' = [held EXCEPT ![c] = buf[k]]
        /\ buf' = [buf EXCEPT ![k] = {}]
        /\ todo' = [todo EXCEPT ![c] = @ \ {k}]
    /\ UNCHANGED <<age, out, parts, names, service, crashes, history>>

\* The date comes from whichever row was filed first.  The part is in the
\* directory, under its final name, from here on.
BeginPart(c) ==
    /\ held[c] # {}
    /\ out[c] = 0
    /\ names' = names + 1
    /\ out' = [out EXCEPT ![c] = names + 1]
    /\ \E first \in held[c] :
        parts' = parts \cup
            {[name |-> names + 1, stream |-> StreamOf[first], date |-> DateOf(first),
              rows |-> held[c], complete |-> FALSE]}
    /\ UNCHANGED <<buf, age, todo, held, service, crashes, history>>

EndPart(c) ==
    /\ out[c] # 0
    /\ parts' = {IF p.name = out[c] THEN [p EXCEPT !.complete = TRUE] ELSE p : p \in parts}
    /\ held' = [held EXCEPT ![c] = {}]
    /\ out' = [out EXCEPT ![c] = 0]
    /\ UNCHANGED <<buf, age, todo, names, service, crashes, history>>

\* An exception between the pop and the end of the write: a row that does not
\* fit the schema, a full disk.  write_table removes its partial file; the
\* popped rows go with the stack frame, and so do the keys flush_all() had
\* still to visit.  In the flusher the finally clause runs one more flush_all().
WriteFails(c) ==
    LET again == c = Flusher /\ flusher = "flushing"
    IN  /\ held[c] # {}
        /\ parts' = {p \in parts : out[c] = 0 \/ p.name # out[c]}
        /\ lost' = lost \cup held[c]
        /\ held' = [held EXCEPT ![c] = {}]
        /\ out' = [out EXCEPT ![c] = 0]
        /\ todo' = [todo EXCEPT ![c] = IF again THEN OpenKeys ELSE {}]
        /\ flusher' = IF c # Flusher THEN flusher
                      ELSE IF again THEN "draining" ELSE "failed"
        /\ late' = IF again THEN {} ELSE late
        /\ UNCHANGED <<buf, age, names, timer, stop, crashes, accepted>>

-----------------------------------------------------------------------------
(* AsyncWriter.run(): every flush lists the keys under the lock first.     *)

\* Fault: the periodic flush leaves partly filled buffers alone.
FlushDueFull ==
    /\ flusher = "waiting"
    /\ ~stop
    /\ timer = BatchSeconds
    /\ flusher' = "flushing"
    /\ todo' = [todo EXCEPT ![Flusher] =
                 {k \in OpenKeys : Cardinality(buf[k]) >= BatchRows}]
    /\ UNCHANGED <<buf, age, held, out, parts, names, timer, stop, crashes, history>>

FlushDue ==
    /\ flusher = "waiting"
    /\ ~stop
    /\ timer = BatchSeconds
    /\ flusher' = "flushing"
    /\ todo' = [todo EXCEPT ![Flusher] = OpenKeys]
    /\ UNCHANGED <<buf, age, held, out, parts, names, timer, stop, crashes, history>>

FlushEnds ==
    /\ flusher = "flushing"
    /\ Idle(Flusher)
    /\ ~stop
    /\ flusher' = "waiting"
    /\ timer' = 0
    /\ UNCHANGED <<memory, parts, names, stop, crashes, history>>

Stop ==
    /\ ~stop
    /\ stop' = TRUE
    /\ UNCHANGED <<memory, parts, names, flusher, timer, crashes, history>>

\* Fault: no finally clause.
DrainNothing ==
    /\ stop
    /\ flusher \in {"waiting", "flushing"}
    /\ Idle(Flusher)
    /\ flusher' = "draining"
    /\ late' = {}
    /\ UNCHANGED <<memory, parts, names, timer, stop, crashes, accepted, lost>>

\* stop() ends the wait; the finally clause flushes what is left.
Drain ==
    /\ stop
    /\ flusher \in {"waiting", "flushing"}
    /\ Idle(Flusher)
    /\ flusher' = "draining"
    /\ todo' = [todo EXCEPT ![Flusher] = OpenKeys]
    /\ late' = {}
    /\ UNCHANGED <<buf, age, held, out, parts, names, timer, stop, crashes,
                   accepted, lost>>

DrainEnds ==
    /\ flusher = "draining"
    /\ Idle(Flusher)
    /\ flusher' = "done"
    /\ UNCHANGED <<memory, parts, names, timer, stop, crashes, history>>

-----------------------------------------------------------------------------
(* The environment: the clock, and kill -9 followed by a restart.          *)

\* One unit is longer than a flush, and the event loop serves a timer that is
\* due before more time passes.
Tick ==
    /\ \A c \in Callers : Idle(c)
    /\ flusher # "flushing"
    /\ flusher = "waiting" => ~stop /\ timer < BatchSeconds
    /\ age' = [k \in Keys |-> IF age[k] <= BatchSeconds THEN age[k] + 1 ELSE age[k]]
    /\ timer' = IF flusher = "waiting" THEN timer + 1 ELSE timer
    /\ UNCHANGED <<buf, todo, held, out, parts, names, flusher, stop, crashes, history>>

\* A part being written stays behind without its footer.
Crash ==
    /\ crashes < MaxCrashes
    /\ crashes' = crashes + 1
    /\ buf' = [k \in Keys |-> {}]
    /\ age' = [k \in Keys |-> 0]
    /\ todo' = [c \in Callers |-> {}]
    /\ held' = [c \in Callers |-> {}]
    /\ out' = [c \in Callers |-> 0]
    /\ flusher' = "waiting"
    /\ timer' = 0
    /\ stop' = FALSE
    /\ lost' = lost \cup InMemory
    /\ late' = {}
    /\ UNCHANGED <<parts, names, accepted>>

FlushStep(c) == Pop(c) \/ BeginPart(c) \/ EndPart(c) \/ WriteFails(c)
RunStep      == FlushDue \/ FlushEnds \/ Drain \/ DrainEnds

Next ==
    \/ \E c \in Workers, r \in Rows : FileRow(c, r)
    \/ \E c \in Callers : FlushStep(c)
    \/ RunStep
    \/ Stop
    \/ Tick
    \/ Crash

Spec == Init /\ [][Next]_vars

\* A thread inside append() or flush_all() finishes it, the event loop resumes
\* a task whose wait is over, and time passes.  No fairness on FileRow, Stop,
\* Crash: rows, shutdown and kills may or may not come.
Fairness ==
    /\ \A c \in Callers : WF_vars(FlushStep(c))
    /\ WF_vars(RunStep)
    /\ WF_vars(Tick)

FairSpec == Spec /\ Fairness

-----------------------------------------------------------------------------
(* Properties                                                              *)

\* A row append() has taken is in one buffer, or in the hands of one caller,
\* or in one complete part, or lost: flushes of several callers never write a
\* row twice and never drop one that no failed write or crash accounts for
\* (parquet.py:65-124, "Thread-safe writer").
RowsInOnePlace ==
    /\ accepted = InMemory \cup Durable \cup lost
    /\ \A k \in Keys : \A r \in buf[k] : KeyOf(r) = k
    /\ Buffered \cap InHand = {}
    /\ InMemory \cap (Durable \cup lost) = {}
    /\ Durable \cap lost = {}
    /\ \A c, d \in Callers : c # d => held[c] \cap held[d] = {}
    /\ \A p, q \in parts : p.complete /\ q.complete /\ p # q => p.rows \cap q.rows = {}

\* A part, complete or not, holds rows of its own stream and date only,
\* although its date is taken from one of its rows (parquet.py:108-109, "all
\* rows in this hour share a date").
PartsInTheirPartition ==
    \A p \in parts : \A r \in p.rows : StreamOf[r] = p.stream /\ DateOf(r) = p.date

\* A buffer outgrows batch_rows by no more than the callers that have filed a
\* row and not yet popped (parquet.py:75-82), and while the flusher runs none of
\* its rows is older than the flush interval: a crash drops no more than that
\* from the buffers (parquet.py:5-6, writer.py:31-38).
BuffersBounded ==
    \A k \in Keys :
        /\ Cardinality(buf[k]) < BatchRows + Cardinality({c \in Workers : k \in todo[c]})
        /\ FlusherLive /\ buf[k] # {} => age[k] <= BatchSeconds

\* Once the flusher has returned normally, the buffers hold only rows taken
\* after its last flush_all() listed its keys (writer.py:39-40).
DrainLeavesOnlyLateRows ==
    flusher = "done" => Buffered \subseteq late

\* What the writer promises its callers, whatever the interleaving.
Sink == INSTANCE RowSink WITH durable <- Durable
ImplementsRowSink == Sink!SinkSpec

\* Every row reaches the disk or is dropped, unless the flusher has returned:
\* after that only an append() of the same stream and hour can flush it.
RowsLeaveMemory ==
    \A r \in Rows : (r \in InMemory) ~> (r \notin InMemory \/ ~FlusherLive)

=============================================================================
