---------------------------- MODULE PartitionDir ----------------------------
(***************************************************************************)
(* One (table, symbol, venue, date) directory, shared without a lock by    *)
(*  - writers of part files: the live writer's _flush_key and the one-shot *)
(*    write_dataframe of the reconciler, backfills and bar builds          *)
(*    (cryptodata/storage/parquet.py),                                     *)
(*  - nightly compaction (cryptodata/storage/compact.py), and              *)
(*  - queries through the DuckDB views (cryptodata/storage/duckdb_views.py,*)
(*    cryptodata/query/trades.py).                                         *)
(* They are separate operating-system processes: each listing, read, write *)
(* and unlink is a step, and a process may be killed between any two.      *)
(* A file appears under its final name as soon as its writing begins.      *)
(***************************************************************************)
EXTENDS Naturals, FiniteSets

CONSTANTS
    Rows,        \* the rows written into the partition
    Writers,     \* processes that write part files
    Compactors,  \* processes that run compact_partition
    Queries,     \* processes that run a query over the view
    MaxCopies,   \* bound of the model: how often one row is written
    MaxCrashes,  \* bound of the model: how many processes are killed
    MaxFailures  \* bound of the model: how many writes raise (a full disk)

ASSUME DirAssumption ==
    /\ MaxCopies \in Nat
    /\ MaxCrashes \in Nat
    /\ MaxFailures \in Nat

Content == [Rows -> Nat]            \* row -> copies of it
Nothing == [r \in Rows |-> 0]
Batch(S) == [r \in Rows |-> IF r \in S THEN 1 ELSE 0]
Plus(a, b) == [r \in Rows |-> a[r] + b[r]]
RowsOf(content) == {r \in Rows : content[r] > 0}

VARIABLES
    files,     \* the files in the directory
    names,     \* how many file names time_ns() has supplied
    writing,   \* writer -> name of the part it is writing, 0 if none
    cpc,       \* compactor -> where compact_partition is
    unread,    \* compactor -> listed parts it has still to read
    victims,   \* compactor -> listed parts it has still to unlink
    merged,    \* compactor -> the rows read so far
    output,    \* compactor -> name of its compacted file, 0 before it exists
    qpc,       \* query -> where it is, or how it ended
    listing,   \* query -> names its glob matched and that it has still to open
    result,    \* query -> the rows of the files it has opened
    seen,      \* history: query -> rows readable when it listed the files
    issued,    \* history: row -> how often its writing began
    written,   \* history: row -> how often its writing completed
    crashes,
    failures,
    tangled    \* history: compactions have overlapped, or one was killed

compacting == <<cpc, unread, victims, merged, output>>
querying   == <<qpc, listing, result, seen>>
accidents  == <<crashes, failures, tangled>>
vars == <<files, names, writing, compacting, querying, issued, written, accidents>>

File == [name : Nat, kind : {"part", "compacted"}, rows : Content, complete : BOOLEAN]

TypeOK ==
    /\ files \in SUBSET File
    /\ names \in Nat
    /\ writing \in [Writers -> Nat]
    /\ cpc \in [Compactors -> {"idle", "reading", "writing", "unlinking"}]
    /\ unread \in [Compactors -> SUBSET Nat]
    /\ victims \in [Compactors -> SUBSET Nat]
    /\ merged \in [Compactors -> Content]
    /\ output \in [Compactors -> Nat]
    /\ qpc \in [Queries -> {"idle", "binding", "bound", "opening", "rows", "empty", "error"}]
    /\ listing \in [Queries -> SUBSET Nat]
    /\ result \in [Queries -> Content]
    /\ seen \in [Queries -> SUBSET Rows]
    /\ issued \in Content
    /\ written \in Content
    /\ crashes \in Nat
    /\ failures \in Nat
    /\ tangled \in BOOLEAN

Init ==
    /\ files = {}
    /\ names = 0
    /\ writing = [w \in Writers |-> 0]
    /\ cpc = [c \in Compactors |-> "idle"]
    /\ unread = [c \in Compactors |-> {}]
    /\ victims = [c \in Compactors |-> {}]
    /\ merged = [c \in Compactors |-> Nothing]
    /\ output = [c \in Compactors |-> 0]
    /\ qpc = [q \in Queries |-> "idle"]
    /\ listing = [q \in Queries |-> {}]
    /\ result = [q \in Queries |-> Nothing]
    /\ seen = [q \in Queries |-> {}]
    /\ issued = Nothing
    /\ written = Nothing
    /\ crashes = 0
    /\ failures = 0
    /\ tangled = FALSE

NewFile(kind, rows) ==
    [name |-> names + 1, kind |-> kind, rows |-> rows, complete |-> FALSE]

Completed(n) ==
    {IF f.name = n THEN [f EXCEPT !.complete = TRUE] ELSE f : f \in files}

Readable(n) == \E f \in files : f.name = n /\ f.complete
Parts       == {f \in files : f.kind = "part"}
Present     == UNION {RowsOf(f.rows) : f \in {g \in files : g.complete}}

-----------------------------------------------------------------------------
(* Writers.  A batch may hold rows the partition already has: a backfill   *)
(* that is run again does not de-duplicate.                                *)

BeginWrite(w) ==
    /\ writing[w] = 0
    /\ \E S \in SUBSET {r \in Rows : issued[r] < MaxCopies} :
        /\ S # {}
        /\ issued' = Plus(issued, Batch(S))
        /\ files' = files \cup {NewFile("part", Batch(S))}
    /\ names' = names + 1
    /\ writing' = [writing EXCEPT ![w] = names + 1]
    /\ UNCHANGED <<compacting, querying, written, accidents>>

EndWrite(w) ==
    /\ writing[w] # 0
    /\ \E f \in files : f.name = writing[w] /\ written' = Plus(written, f.rows)
    /\ files' = Completed(writing[w])
    /\ writing' = [writing EXCEPT ![w] = 0]
    /\ UNCHANGED <<names, compacting, querying, issued, accidents>>

\* write_table removes the file of a write that raises.
WriteFails(w) ==
    /\ writing[w] # 0
    /\ failures < MaxFailures
    /\ files' = {f \in files : f.name # writing[w]}
    /\ writing' = [writing EXCEPT ![w] = 0]
    /\ failures' = failures + 1
    /\ UNCHANGED <<names, compacting, querying, issued, written, crashes, tangled>>

-----------------------------------------------------------------------------
(* compact_partition                                                       *)

Rest(c) ==
    /\ cpc' = [cpc EXCEPT ![c] = "idle"]
    /\ unread' = [unread EXCEPT ![c] = {}]
    /\ victims' = [victims EXCEPT ![c] = {}]
    /\ merged' = [merged EXCEPT ![c] = Nothing]
    /\ output' = [output EXCEPT ![c] = 0]

\* The glob matches every part-*.parquet, also one being written, and no
\* compacted-*.parquet.  A single part is left alone.  compact_all comes here
\* only when no directory before this one raised: nothing says that it does.
ListParts(c) ==
    /\ cpc[c] = "idle"
    /\ Cardinality(Parts) > 1
    /\ cpc' = [cpc EXCEPT ![c] = "reading"]
    /\ unread' = [unread EXCEPT ![c] = {f.name : f \in Parts}]
    /\ victims' = [victims EXCEPT ![c] = {f.name : f \in Parts}]
    /\ tangled' = (tangled \/ \E d \in Compactors : cpc[d] # "idle")
    /\ UNCHANGED <<files, names, writing, merged, output, querying, issued, written, crashes,
                   failures>>

ReadPart(c) ==
    /\ cpc[c] = "reading"
    /\ \E f \in files :
        /\ f.name \in unread[c]
        /\ f.complete
        /\ merged' = [merged EXCEPT ![c] = Plus(@, f.rows)]
        /\ unread' = [unread EXCEPT ![c] = @ \ {f.name}]
    /\ UNCHANGED <<files, names, writing, cpc, victims, output, querying, issued, written,
                   accidents>>

\* Fault: a part that cannot be read is skipped, and unlinked with the others.
ReadSkips(c) ==
    /\ cpc[c] = "reading"
    /\ \E n \in unread[c] : ~Readable(n) /\ unread' = [unread EXCEPT ![c] = @ \ {n}]
    /\ UNCHANGED <<files, names, writing, cpc, victims, merged, output, querying, issued,
                   written, accidents>>

\* A part without its footer, or one another compactor has unlinked.
ReadRaises(c) ==
    /\ cpc[c] = "reading"
    /\ \E n \in unread[c] : ~Readable(n)
    /\ Rest(c)
    /\ UNCHANGED <<files, names, writing, querying, issued, written, accidents>>

BeginMerged(c) ==
    /\ cpc[c] = "reading"
    /\ unread[c] = {}
    /\ files' = files \cup {NewFile("compacted", merged[c])}
    /\ names' = names + 1
    /\ output' = [output EXCEPT ![c] = names + 1]
    /\ cpc' = [cpc EXCEPT ![c] = "writing"]
    /\ UNCHANGED <<writing, unread, victims, merged, querying, issued, written, accidents>>

EndMerged(c) ==
    /\ cpc[c] = "writing"
    /\ files' = Completed(output[c])
    /\ cpc' = [cpc EXCEPT ![c] = "unlinking"]
    /\ UNCHANGED <<names, writing, unread, victims, merged, output, querying, issued, written,
                   accidents>>

MergedFails(c) ==
    /\ cpc[c] = "writing"
    /\ failures < MaxFailures
    /\ files' = {f \in files : f.name # output[c]}
    /\ Rest(c)
    /\ failures' = failures + 1
    /\ UNCHANGED <<names, writing, querying, issued, written, crashes, tangled>>

Unlink(c) ==
    /\ cpc[c] = "unlinking"
    /\ \E f \in files :
        /\ f.name \in victims[c]
        /\ files' = files \ {f}
        /\ victims' = [victims EXCEPT ![c] = @ \ {f.name}]
    /\ UNCHANGED <<names, writing, cpc, unread, merged, output, querying, issued, written,
                   accidents>>

UnlinkRaises(c) ==
    /\ cpc[c] = "unlinking"
    /\ \E n \in victims[c] : \A f \in files : f.name # n
    /\ Rest(c)
    /\ UNCHANGED <<files, names, writing, querying, issued, written, accidents>>

\* Fault: the last part is not unlinked.
CompactEndsEarly(c) ==
    /\ cpc[c] = "unlinking"
    /\ Cardinality(victims[c]) <= 1
    /\ Rest(c)
    /\ UNCHANGED <<files, names, writing, querying, issued, written, accidents>>

CompactEnds(c) ==
    /\ cpc[c] = "unlinking"
    /\ victims[c] = {}
    /\ Rest(c)
    /\ UNCHANGED <<files, names, writing, querying, issued, written, accidents>>

-----------------------------------------------------------------------------
(* A query.  connect() re-registers the views: binding a view lists the    *)
(* glob and opens every file (union_by_name), and an exception there       *)
(* reaches the caller.  execute() lists and opens again, and any exception *)
(* there becomes an empty frame.  A file that was opened stays readable    *)
(* when it is unlinked.                                                    *)

ListFiles(q) ==
    /\ qpc[q] \in {"idle", "bound"}
    /\ listing' = [listing EXCEPT ![q] = {f.name : f \in files}]
    /\ seen' = [seen EXCEPT ![q] = Present]
    /\ qpc' = [qpc EXCEPT ![q] = IF @ = "idle" THEN "binding" ELSE "opening"]
    /\ UNCHANGED <<files, names, writing, compacting, result, issued, written, accidents>>

OpenFile(q) ==
    /\ qpc[q] \in {"binding", "opening"}
    /\ \E f \in files :
        /\ f.name \in listing[q]
        /\ f.complete
        /\ listing' = [listing EXCEPT ![q] = @ \ {f.name}]
        /\ result' = IF qpc[q] = "opening" THEN [result EXCEPT ![q] = Plus(@, f.rows)]
                                           ELSE result
    /\ UNCHANGED <<files, names, writing, compacting, qpc, seen, issued, written, accidents>>

\* Fault: files that cannot be opened are skipped.
OpenSkips(q) ==
    /\ qpc[q] \in {"binding", "opening"}
    /\ \E n \in listing[q] :
        ~Readable(n) /\ listing' = [listing EXCEPT ![q] = @ \ {n}]
    /\ UNCHANGED <<files, names, writing, compacting, qpc, result, seen, issued, written,
                   accidents>>

OpenRaises(q) ==
    /\ qpc[q] \in {"binding", "opening"}
    /\ \E n \in listing[q] : ~Readable(n)
    /\ qpc' = [qpc EXCEPT ![q] = IF @ = "binding" THEN "error" ELSE "empty"]
    /\ UNCHANGED <<files, names, writing, compacting, listing, result, seen, issued, written,
                   accidents>>

AllOpened(q) ==
    /\ qpc[q] \in {"binding", "opening"}
    /\ listing[q] = {}
    /\ qpc' = [qpc EXCEPT ![q] = IF @ = "binding" THEN "bound" ELSE "rows"]
    /\ UNCHANGED <<files, names, writing, compacting, listing, result, seen, issued, written,
                   accidents>>

\* The caller has its answer and may query again.
Return(q) ==
    /\ qpc[q] \in {"rows", "empty", "error"}
    /\ qpc' = [qpc EXCEPT ![q] = "idle"]
    /\ listing' = [listing EXCEPT ![q] = {}]
    /\ result' = [result EXCEPT ![q] = Nothing]
    /\ seen' = [seen EXCEPT ![q] = {}]
    /\ UNCHANGED <<files, names, writing, compacting, issued, written, accidents>>

-----------------------------------------------------------------------------
(* kill -9 of one process: the file it was writing keeps its name and      *)
(* never gets its footer; whatever compaction had left to do stays undone. *)

CrashWriter(w) ==
    /\ crashes < MaxCrashes
    /\ writing[w] # 0
    /\ writing' = [writing EXCEPT ![w] = 0]
    /\ crashes' = crashes + 1
    /\ UNCHANGED <<files, names, compacting, querying, issued, written, failures, tangled>>

CrashCompactor(c) ==
    /\ crashes < MaxCrashes
    /\ cpc[c] # "idle"
    /\ Rest(c)
    /\ crashes' = crashes + 1
    /\ tangled' = TRUE
    /\ UNCHANGED <<files, names, writing, querying, issued, written, failures>>

WriterStep(w) == BeginWrite(w) \/ EndWrite(w) \/ WriteFails(w) \/ CrashWriter(w)

CompactStep(c) ==
    \/ ListParts(c) \/ ReadPart(c) \/ ReadRaises(c)
    \/ BeginMerged(c) \/ EndMerged(c) \/ MergedFails(c)
    \/ Unlink(c) \/ UnlinkRaises(c) \/ CompactEnds(c)

QueryStep(q) ==
    ListFiles(q) \/ OpenFile(q) \/ OpenRaises(q) \/ AllOpened(q) \/ Return(q)

Next ==
    \/ \E w \in Writers : WriterStep(w)
    \/ \E c \in Compactors : CompactStep(c) \/ CrashCompactor(c)
    \/ \E q \in Queries : QueryStep(q)

Spec == Init /\ [][Next]_vars

-----------------------------------------------------------------------------
(* Properties                                                              *)

\* However writers and compactors interleave, fail and are killed, a row whose
\* writing completed stays readable, and nothing else appears: the originals
\* go only after a complete file holds their rows (compact.py:30-40).
PresentIsWritten == Present = RowsOf(written)

\* As long as no two compactions overlap and none is killed, the directory is a
\* store of copies (CopyStore) to whoever leaves out the originals that a complete
\* merged file supersedes: nothing but the end of a write changes how many copies
\* of a row there are (compact.py:16-41).
Copies(S, r)  == UNION {{f.name} \X (1 .. f.rows[r]) : f \in S}
Total(S)      == [r \in Rows |-> Cardinality(Copies(S, r))]
Superseded    == UNION {victims[c] : c \in {d \in Compactors : cpc[d] = "unlinking"}}
LogicalFiles  == {f \in files : f.complete /\ f.name \notin Superseded}
LogicalCopies == Total(LogicalFiles)
Store == INSTANCE CopyStore WITH asked <- issued, copies <- LogicalCopies
ImplementsCopyStore ==
    Store!StoreInit /\ [][~tangled' => [Store!StoreNext]_<<issued, LogicalCopies>>]_vars

\* A query that returns rows returns every row that was readable when it
\* listed the files, although compaction unlinks files under it
\* (duckdb_views.py:151-184, trades.py:55-59).
QueryComplete ==
    \A q \in Queries : qpc[q] = "rows" => seen[q] \subseteq RowsOf(result[q])

\* What compact.py:18-19 says of a directory: compaction "leaves a single
\* compacted-<ns>.parquet".  It merges part files only, so each night that had
\* parts to merge adds a compacted file to those of the nights before.
OneCompactedFile ==
    (\A c \in Compactors : cpc[c] = "idle")
        => Cardinality({f \in files : f.kind = "compacted" /\ f.complete}) <= 1

=============================================================================
