------------------------- MODULE PartitionDirProofs -------------------------
(***************************************************************************)
(* Theorems about PartitionDir, for any rows, any number of writers,       *)
(* compactors and queries, and any number of kills and failed writes.      *)
(*                                                                         *)
(* That merging is invisible to the count of copies holds until two        *)
(* compactions overlap or one is killed: of two that merge the same parts  *)
(* each leaves its own output, and a kill between the output and the last  *)
(* unlink leaves rows in both.                                             *)
(***************************************************************************)
EXTENDS PartitionDir, FiniteSetTheorems, TLAPS

\* Names are never used twice.
DistinctNames ==
    /\ \A f \in files : f.name \in 1 .. names
    /\ \A f, g \in files : f.name = g.name => f = g

\* A file under construction has one owner, who will complete or remove it.
OneOwner ==
    /\ \A w \in Writers : writing[w] # 0 =>
        \E f \in files : f.name = writing[w] /\ f.kind = "part" /\ ~f.complete
    /\ \A w, v \in Writers : writing[w] # 0 /\ writing[w] = writing[v] => w = v
    /\ \A c \in Compactors : cpc[c] \in {"writing", "unlinking"} =>
        \E f \in files : /\ f.name = output[c] /\ f.kind = "compacted" /\ f.rows = merged[c]
                         /\ f.complete <=> cpc[c] = "unlinking"
    /\ \A c, d \in Compactors :
        cpc[c] = "writing" /\ cpc[d] \in {"writing", "unlinking"} /\ output[c] = output[d] => c = d

\* What a compactor is going to unlink is a part, and its rows are merged.
VictimsMerged ==
    \A c \in Compactors :
        /\ victims[c] \subseteq 1 .. names
        /\ cpc[c] # "idle" => \A f \in files : f.name \in victims[c] =>
            /\ f.kind = "part"
            /\ f.name \notin unread[c] \/ cpc[c] # "reading" =>
                f.complete /\ RowsOf(f.rows) \subseteq RowsOf(merged[c])

\* A compactor merges no row that was not written.
MergedWritten == \A c \in Compactors : RowsOf(merged[c]) \subseteq RowsOf(written)

IInv ==
    /\ TypeOK
    /\ PresentIsWritten
    /\ DistinctNames
    /\ OneOwner
    /\ VictimsMerged
    /\ MergedWritten

-----------------------------------------------------------------------------
(* Facts about contents and file sets                                      *)

LEMMA PlusRows ==
    ASSUME NEW a \in Content, NEW b \in Content
    PROVE  Plus(a, b) \in Content /\ RowsOf(Plus(a, b)) = RowsOf(a) \cup RowsOf(b)
BY DEF Content, Plus, RowsOf

LEMMA SmallContents ==
    /\ Nothing \in Content /\ RowsOf(Nothing) = {}
    /\ \A S \in SUBSET Rows : Batch(S) \in Content
BY DEF Content, Nothing, Batch, RowsOf

\* Only complete files count.
LEMMA PresentSame ==
    ASSUME \A f : f \in files' /\ f.complete <=> f \in files /\ f.complete
    PROVE  Present' = Present
BY DEF Present

\* A file that begins to be written has a fresh name and is not readable.
LEMMA FileBegun ==
    ASSUME TypeOK, DistinctNames, NEW kind \in {"part", "compacted"}, NEW rows \in Content,
           files' = files \cup {NewFile(kind, rows)}, names' = names + 1
    PROVE  /\ files' \in SUBSET File /\ names' \in Nat
           /\ DistinctNames'
           /\ Present' = Present
           /\ NewFile(kind, rows).name = names'
           /\ NewFile(kind, rows).kind = kind
           /\ NewFile(kind, rows).rows = rows
           /\ ~NewFile(kind, rows).complete
<1> DEFINE g == NewFile(kind, rows)
<1>1. g.name = names + 1 /\ g.kind = kind /\ g.rows = rows /\ g.complete = FALSE /\ g \in File
  BY DEF NewFile, File, TypeOK
<1>2. files' \in SUBSET File /\ names' \in Nat
  BY <1>1 DEF TypeOK
<1>3. DistinctNames'
  BY <1>1 DEF DistinctNames, TypeOK, File
<1>4. Present' = Present
  BY <1>1, PresentSame
<1> QED BY <1>1, <1>2, <1>3, <1>4

\* Completing a file changes that file only, and makes its rows readable.
LEMMA FileCompleted ==
    ASSUME TypeOK, DistinctNames, NEW h \in files, ~h.complete,
           files' = Completed(h.name), names' = names
    PROVE  /\ files' = (files \ {h}) \cup {[h EXCEPT !.complete = TRUE]}
           /\ files' \in SUBSET File
           /\ DistinctNames'
           /\ Present' = Present \cup RowsOf(h.rows)
<1> DEFINE g == [h EXCEPT !.complete = TRUE]
<1>1. g \in File /\ g.name = h.name /\ g.kind = h.kind /\ g.rows = h.rows /\ g.complete
  BY DEF File, TypeOK
<1>2. files' = (files \ {h}) \cup {g}
  BY DEF Completed, DistinctNames
<1>3. files' \in SUBSET File
  BY <1>1, <1>2 DEF TypeOK
<1>4. DistinctNames'
  BY <1>1, <1>2 DEF DistinctNames
<1>5. Present' = Present \cup RowsOf(h.rows)
  BY <1>1, <1>2 DEF Present
<1> QED BY <1>2, <1>3, <1>4, <1>5

\* A write that raises removes its own file only, which was not readable.
LEMMA FileRemoved ==
    ASSUME TypeOK, DistinctNames, NEW h \in files, ~h.complete,
           files' = {f \in files : f.name # h.name}, names' = names
    PROVE  /\ files' = files \ {h}
           /\ files' \in SUBSET File
           /\ DistinctNames'
           /\ Present' = Present
<1>1. files' = files \ {h}
  BY DEF DistinctNames
<1>2. Present' = Present
  BY <1>1, PresentSame
<1> QED BY <1>1, <1>2 DEF DistinctNames, TypeOK

-----------------------------------------------------------------------------
(* Type correctness                                                        *)

LEMMA RestTypes ==
    ASSUME TypeOK, NEW c \in Compactors, Rest(c)
    PROVE  /\ cpc' \in [Compactors -> {"idle", "reading", "writing", "unlinking"}]
           /\ unread' \in [Compactors -> SUBSET Nat] /\ victims' \in [Compactors -> SUBSET Nat]
           /\ merged' \in [Compactors -> Content] /\ output' \in [Compactors -> Nat]
BY SmallContents DEF Rest, TypeOK

LEMMA TypeStep == TypeOK /\ DistinctNames /\ OneOwner /\ [Next]_vars => TypeOK'
<1> SUFFICES ASSUME TypeOK, DistinctNames, OneOwner, [Next]_vars PROVE TypeOK'
  OBVIOUS
<1> USE DirAssumption
<1>1. ASSUME NEW w \in Writers, BeginWrite(w) PROVE TypeOK'
  <2> PICK S \in SUBSET Rows : /\ issued' = Plus(issued, Batch(S))
                               /\ files' = files \cup {NewFile("part", Batch(S))}
    BY <1>1 DEF BeginWrite
  <2>1. names' = names + 1 BY <1>1 DEF BeginWrite
  <2>2. files' \in SUBSET File /\ names' \in Nat
    BY <2>1, SmallContents, FileBegun
  <2>3. issued' \in Content BY SmallContents, PlusRows DEF TypeOK
  <2> QED BY <1>1, <2>2, <2>3 DEF BeginWrite, TypeOK, compacting, querying, accidents
<1>2. ASSUME NEW w \in Writers, EndWrite(w) PROVE TypeOK'
  <2> PICK h \in files : h.name = writing[w] /\ written' = Plus(written, h.rows)
    BY <1>2 DEF EndWrite
  <2>1. ~h.complete BY <1>2 DEF EndWrite, OneOwner, DistinctNames
  <2>2. files' \in SUBSET File BY <1>2, <2>1, FileCompleted DEF EndWrite
  <2>3. written' \in Content BY PlusRows DEF TypeOK, File
  <2> QED BY <1>2, <2>2, <2>3 DEF EndWrite, TypeOK, compacting, querying, accidents
<1>3. ASSUME NEW w \in Writers, WriteFails(w) PROVE TypeOK'
  BY <1>3 DEF WriteFails, TypeOK, compacting, querying
<1>4. ASSUME NEW c \in Compactors, ListParts(c) PROVE TypeOK'
  <2>1. {f.name : f \in Parts} \in SUBSET Nat BY DEF Parts, TypeOK, File
  <2> QED BY <1>4, <2>1 DEF ListParts, TypeOK, querying, accidents
<1>5. ASSUME NEW c \in Compactors, ReadPart(c) PROVE TypeOK'
  <2> PICK f \in files : /\ merged' = [merged EXCEPT ![c] = Plus(@, f.rows)]
                         /\ unread' = [unread EXCEPT ![c] = @ \ {f.name}]
    BY <1>5 DEF ReadPart
  <2>1. merged' \in [Compactors -> Content] BY PlusRows DEF TypeOK, File
  <2> QED BY <1>5, <2>1 DEF ReadPart, TypeOK, querying, accidents
<1>6. ASSUME NEW c \in Compactors, ReadRaises(c) PROVE TypeOK'
  BY <1>6, RestTypes DEF ReadRaises, TypeOK, querying, accidents
<1>7. ASSUME NEW c \in Compactors, BeginMerged(c) PROVE TypeOK'
  <2>1. files' \in SUBSET File /\ names' \in Nat
    BY <1>7, FileBegun DEF BeginMerged, TypeOK
  <2> QED BY <1>7, <2>1 DEF BeginMerged, TypeOK, querying, accidents
<1>8. ASSUME NEW c \in Compactors, EndMerged(c) PROVE TypeOK'
  <2> PICK h \in files : h.name = output[c] /\ ~h.complete
    BY <1>8 DEF EndMerged, OneOwner
  <2>1. files' \in SUBSET File BY <1>8, FileCompleted DEF EndMerged
  <2> QED BY <1>8, <2>1 DEF EndMerged, TypeOK, querying, accidents
<1>9. ASSUME NEW c \in Compactors, MergedFails(c) PROVE TypeOK'
  BY <1>9, RestTypes DEF MergedFails, TypeOK, querying
<1>10. ASSUME NEW c \in Compactors, Unlink(c) PROVE TypeOK'
  BY <1>10 DEF Unlink, TypeOK, querying, accidents
<1>11. ASSUME NEW c \in Compactors, UnlinkRaises(c) \/ CompactEnds(c) PROVE TypeOK'
  BY <1>11, RestTypes DEF UnlinkRaises, CompactEnds, TypeOK, querying, accidents
<1>12. ASSUME NEW c \in Compactors, CrashCompactor(c) PROVE TypeOK'
  BY <1>12, RestTypes DEF CrashCompactor, TypeOK, querying
<1>13. ASSUME NEW w \in Writers, CrashWriter(w) PROVE TypeOK'
  BY <1>13 DEF CrashWriter, TypeOK, compacting, querying
<1>14. ASSUME NEW q \in Queries, QueryStep(q) PROVE TypeOK'
  <2>1. CASE ListFiles(q)
    <3>1. {f.name : f \in files} \in SUBSET Nat /\ Present \in SUBSET Rows
      BY DEF Present, RowsOf, TypeOK, File
    <3> QED BY <2>1, <3>1 DEF ListFiles, TypeOK, compacting, accidents
  <2>2. CASE OpenFile(q)
    <3>1. result' \in [Queries -> Content]
      BY <2>2, PlusRows DEF OpenFile, TypeOK, File
    <3> QED BY <2>2, <3>1 DEF OpenFile, TypeOK, compacting, accidents
  <2>3. CASE OpenRaises(q) \/ AllOpened(q)
    BY <2>3 DEF OpenRaises, AllOpened, TypeOK, compacting, accidents
  <2>4. CASE Return(q)
    BY <2>4, SmallContents DEF Return, TypeOK, compacting, accidents
  <2> QED BY <1>14, <2>1, <2>2, <2>3, <2>4 DEF QueryStep
<1>15. CASE UNCHANGED vars
  BY <1>15 DEF vars, TypeOK, compacting, querying, accidents
<1> QED
  BY <1>1, <1>2, <1>3, <1>4, <1>5, <1>6, <1>7, <1>8, <1>9, <1>10, <1>11, <1>12, <1>13, <1>14,
     <1>15 DEF Next, WriterStep, CompactStep

-----------------------------------------------------------------------------
(* Each step preserves the invariant                                       *)

LEMMA InitIInv == Init => IInv
<1> SUFFICES ASSUME Init PROVE IInv
  OBVIOUS
<1> USE SmallContents, DirAssumption DEF Init
<1>1. TypeOK
  BY DEF TypeOK
<1>2. PresentIsWritten
  BY DEF PresentIsWritten, Present
<1>3. DistinctNames /\ OneOwner /\ VictimsMerged /\ MergedWritten
  BY DEF DistinctNames, OneOwner, VictimsMerged, MergedWritten
<1> QED BY <1>1, <1>2, <1>3 DEF IInv

LEMMA BeginWriteStep ==
    ASSUME IInv, NEW w \in Writers, BeginWrite(w)
    PROVE  PresentIsWritten' /\ DistinctNames' /\ OneOwner' /\ VictimsMerged' /\ MergedWritten'
<1> USE DEF IInv
<1> PICK S \in SUBSET Rows : files' = files \cup {NewFile("part", Batch(S))}
  BY DEF BeginWrite
<1> DEFINE g == NewFile("part", Batch(S))
<1>1. /\ names' = names + 1 /\ writing' = [writing EXCEPT ![w] = names + 1]
      /\ UNCHANGED <<cpc, unread, victims, merged, output, written>>
  BY DEF BeginWrite, compacting
<1>2. /\ DistinctNames' /\ Present' = Present
      /\ g.name = names + 1 /\ g.kind = "part" /\ ~g.complete
  BY <1>1, SmallContents, FileBegun
<1>3. PresentIsWritten'
  BY <1>1, <1>2 DEF PresentIsWritten
<1>4. OneOwner'
  <2>1. \A v \in Writers : writing[v] # 0 => writing[v] \in 1 .. names
    BY DEF OneOwner, DistinctNames
  <2>2. \A v \in Writers : writing'[v] # 0 =>
          \E f \in files' : f.name = writing'[v] /\ f.kind = "part" /\ ~f.complete
    BY <1>1, <1>2 DEF OneOwner, TypeOK
  <2>3. \A v, u \in Writers : writing'[v] # 0 /\ writing'[v] = writing'[u] => v = u
    BY <1>1, <2>1 DEF OneOwner, TypeOK
  <2> QED BY <1>1, <2>2, <2>3 DEF OneOwner
<1>5. VictimsMerged'
  BY <1>1, <1>2 DEF VictimsMerged, TypeOK
<1>6. MergedWritten'
  BY <1>1 DEF MergedWritten
<1> QED BY <1>2, <1>3, <1>4, <1>5, <1>6

LEMMA EndWriteStep ==
    ASSUME IInv, NEW w \in Writers, EndWrite(w)
    PROVE  PresentIsWritten' /\ DistinctNames' /\ OneOwner' /\ VictimsMerged' /\ MergedWritten'
<1> USE DEF IInv
<1> PICK h \in files : h.name = writing[w] /\ written' = Plus(written, h.rows)
  BY DEF EndWrite
<1> DEFINE g == [h EXCEPT !.complete = TRUE]
<1>1. /\ writing[w] # 0 /\ writing' = [writing EXCEPT ![w] = 0] /\ names' = names
      /\ files' = Completed(h.name)
      /\ UNCHANGED <<cpc, unread, victims, merged, output>>
  BY DEF EndWrite, compacting
<1>2. h.kind = "part" /\ ~h.complete
  BY <1>1 DEF OneOwner, DistinctNames
<1>3. /\ files' = (files \ {h}) \cup {g} /\ DistinctNames'
      /\ Present' = Present \cup RowsOf(h.rows)
  BY <1>1, <1>2, FileCompleted
<1>4. h.rows \in Content /\ RowsOf(written') = RowsOf(written) \cup RowsOf(h.rows)
  BY PlusRows DEF TypeOK, File
<1>5. g.name = h.name /\ g.kind = h.kind /\ g.rows = h.rows /\ g.complete
  BY DEF File, TypeOK
<1>6. PresentIsWritten'
  BY <1>3, <1>4 DEF PresentIsWritten
<1>7. OneOwner'
  <2>1. ASSUME NEW v \in Writers, writing'[v] # 0
        PROVE  \E f \in files' : f.name = writing'[v] /\ f.kind = "part" /\ ~f.complete
    <3>1. v # w /\ writing'[v] = writing[v] /\ writing[v] # writing[w]
      BY <1>1, <2>1 DEF OneOwner, TypeOK
    <3> QED BY <1>3, <2>1, <3>1 DEF OneOwner
  <2>2. ASSUME NEW c \in Compactors, cpc[c] \in {"writing", "unlinking"}
        PROVE  \E f \in files' : /\ f.name = output[c] /\ f.kind = "compacted"
                                 /\ f.rows = merged[c]
                                 /\ f.complete <=> cpc[c] = "unlinking"
    BY <1>2, <1>3, <2>2 DEF OneOwner
  <2>3. \A v, u \in Writers : writing'[v] # 0 /\ writing'[v] = writing'[u] => v = u
    BY <1>1 DEF OneOwner, TypeOK
  <2> QED BY <1>1, <2>1, <2>2, <2>3 DEF OneOwner
<1>8. VictimsMerged'
  BY <1>1, <1>2, <1>3, <1>5 DEF VictimsMerged
<1>9. MergedWritten'
  BY <1>1, <1>4 DEF MergedWritten
<1> QED BY <1>3, <1>6, <1>7, <1>8, <1>9

\* A writer's part that is removed again.
LEMMA WriteFailsStep ==
    ASSUME IInv, NEW w \in Writers, WriteFails(w)
    PROVE  PresentIsWritten' /\ DistinctNames' /\ OneOwner' /\ VictimsMerged' /\ MergedWritten'
<1> USE DEF IInv
<1> PICK h \in files : h.name = writing[w] /\ h.kind = "part" /\ ~h.complete
  BY DEF WriteFails, OneOwner
<1>1. /\ writing[w] # 0 /\ writing' = [writing EXCEPT ![w] = 0] /\ names' = names
      /\ files' = {f \in files : f.name # h.name}
      /\ UNCHANGED <<cpc, unread, victims, merged, output, written>>
  BY DEF WriteFails, compacting
<1>2. files' = files \ {h} /\ DistinctNames' /\ Present' = Present
  BY <1>1, FileRemoved
<1>3. OneOwner'
  <2>1. ASSUME NEW v \in Writers, writing'[v] # 0
        PROVE  \E f \in files' : f.name = writing'[v] /\ f.kind = "part" /\ ~f.complete
    <3>1. v # w /\ writing'[v] = writing[v] /\ writing[v] # writing[w]
      BY <1>1, <2>1 DEF OneOwner, TypeOK
    <3> QED BY <1>2, <2>1, <3>1 DEF OneOwner
  <2>2. ASSUME NEW c \in Compactors, cpc[c] \in {"writing", "unlinking"}
        PROVE  \E f \in files' : /\ f.name = output[c] /\ f.kind = "compacted"
                                 /\ f.rows = merged[c]
                                 /\ f.complete <=> cpc[c] = "unlinking"
    BY <1>2, <2>2 DEF OneOwner
  <2>3. \A v, u \in Writers : writing'[v] # 0 /\ writing'[v] = writing'[u] => v = u
    BY <1>1 DEF OneOwner, TypeOK
  <2> QED BY <1>1, <2>1, <2>2, <2>3 DEF OneOwner
<1>4. PresentIsWritten' /\ VictimsMerged' /\ MergedWritten'
  BY <1>1, <1>2 DEF PresentIsWritten, VictimsMerged, MergedWritten
<1> QED BY <1>2, <1>3, <1>4

\* Listing: every victim is a part that is still unread.
LEMMA ListPartsStep ==
    ASSUME IInv, NEW c \in Compactors, ListParts(c)
    PROVE  PresentIsWritten' /\ DistinctNames' /\ OneOwner' /\ VictimsMerged' /\ MergedWritten'
<1> USE DEF IInv
<1> DEFINE listed == {f.name : f \in Parts}
<1>1. /\ cpc[c] = "idle" /\ cpc' = [cpc EXCEPT ![c] = "reading"]
      /\ unread' = [unread EXCEPT ![c] = listed]
      /\ victims' = [victims EXCEPT ![c] = listed]
      /\ UNCHANGED <<files, names, writing, merged, output, written>>
  BY DEF ListParts
<1>2. PresentIsWritten' /\ DistinctNames' /\ MergedWritten'
  BY <1>1 DEF PresentIsWritten, Present, DistinctNames, MergedWritten
<1>3. OneOwner'
  BY <1>1 DEF OneOwner, TypeOK
<1>4. VictimsMerged'
  <2>1. listed \subseteq 1 .. names
    BY DEF Parts, DistinctNames
  <2>2. \A f \in files : f.name \in listed => f.kind = "part"
    BY DEF Parts, DistinctNames
  <2>3. ASSUME NEW d \in Compactors, d # c
        PROVE  /\ cpc'[d] = cpc[d] /\ unread'[d] = unread[d] /\ victims'[d] = victims[d]
    BY <1>1, <2>3 DEF TypeOK
  <2>4. cpc'[c] = "reading" /\ unread'[c] = listed /\ victims'[c] = listed
    BY <1>1 DEF TypeOK
  <2> QED BY <1>1, <2>1, <2>2, <2>3, <2>4 DEF VictimsMerged
<1> QED BY <1>2, <1>3, <1>4

\* Reading: a victim that leaves the unread ones has its rows merged.
LEMMA ReadPartStep ==
    ASSUME IInv, NEW c \in Compactors, ReadPart(c)
    PROVE  PresentIsWritten' /\ DistinctNames' /\ OneOwner' /\ VictimsMerged' /\ MergedWritten'
<1> USE DEF IInv
<1> PICK h \in files : /\ h.name \in unread[c] /\ h.complete
                       /\ merged' = [merged EXCEPT ![c] = Plus(merged[c], h.rows)]
                       /\ unread' = [unread EXCEPT ![c] = unread[c] \ {h.name}]
  BY DEF ReadPart
<1>1. cpc[c] = "reading" /\ UNCHANGED <<files, names, writing, cpc, victims, output, written>>
  BY DEF ReadPart
<1>2. /\ merged'[c] = Plus(merged[c], h.rows) /\ unread'[c] = unread[c] \ {h.name}
      /\ \A d \in Compactors : d # c => merged'[d] = merged[d] /\ unread'[d] = unread[d]
  BY DEF TypeOK
<1>3. RowsOf(merged'[c]) = RowsOf(merged[c]) \cup RowsOf(h.rows)
  BY <1>2, PlusRows DEF TypeOK, File
<1>4. PresentIsWritten' /\ DistinctNames'
  BY <1>1 DEF PresentIsWritten, Present, DistinctNames
<1>5. OneOwner'
  BY <1>1, <1>2 DEF OneOwner
<1>6. VictimsMerged'
  <2>1. ASSUME NEW f \in files, f.name \in victims[c], f.name \notin unread'[c]
        PROVE  f.complete /\ RowsOf(f.rows) \subseteq RowsOf(merged'[c])
    <3>1. CASE f = h BY <1>3, <3>1
    <3>2. CASE f # h
      <4>1. f.name \notin unread[c] BY <1>2, <2>1, <3>2 DEF DistinctNames
      <4> QED BY <1>1, <1>3, <2>1, <4>1 DEF VictimsMerged
    <3> QED BY <3>1, <3>2
  <2> QED BY <1>1, <1>2, <2>1 DEF VictimsMerged
<1>7. MergedWritten'
  <2>1. RowsOf(h.rows) \subseteq RowsOf(written)
    BY DEF PresentIsWritten, Present
  <2> QED BY <1>1, <1>2, <1>3, <2>1 DEF MergedWritten
<1> QED BY <1>4, <1>5, <1>6, <1>7

\* Giving up or ending: only the compactor's own variables change.
LEMMA RestStep ==
    ASSUME IInv, NEW c \in Compactors, Rest(c), UNCHANGED <<files, names, writing, written>>
    PROVE  PresentIsWritten' /\ DistinctNames' /\ OneOwner' /\ VictimsMerged' /\ MergedWritten'
<1> USE DEF IInv
<1>1. /\ cpc'[c] = "idle" /\ victims'[c] = {} /\ merged'[c] = Nothing
      /\ \A d \in Compactors : d # c =>
            /\ cpc'[d] = cpc[d] /\ unread'[d] = unread[d] /\ victims'[d] = victims[d]
            /\ merged'[d] = merged[d] /\ output'[d] = output[d]
  BY DEF Rest, TypeOK
<1>2. PresentIsWritten' /\ DistinctNames'
  BY DEF PresentIsWritten, Present, DistinctNames
<1>3. OneOwner'
  BY <1>1 DEF OneOwner
<1>4. VictimsMerged'
  BY <1>1 DEF VictimsMerged
<1>5. MergedWritten'
  BY <1>1, SmallContents DEF MergedWritten
<1> QED BY <1>2, <1>3, <1>4, <1>5

\* The merged file appears, unreadable; all victims are read.
LEMMA BeginMergedStep ==
    ASSUME IInv, NEW c \in Compactors, BeginMerged(c)
    PROVE  PresentIsWritten' /\ DistinctNames' /\ OneOwner' /\ VictimsMerged' /\ MergedWritten'
<1> USE DEF IInv
<1> DEFINE g == NewFile("compacted", merged[c])
<1>1. /\ cpc[c] = "reading" /\ unread[c] = {}
      /\ cpc' = [cpc EXCEPT ![c] = "writing"] /\ output' = [output EXCEPT ![c] = names + 1]
      /\ files' = files \cup {g} /\ names' = names + 1
      /\ UNCHANGED <<writing, unread, victims, merged, written>>
  BY DEF BeginMerged
<1>2. /\ DistinctNames' /\ Present' = Present
      /\ g.name = names + 1 /\ g.kind = "compacted" /\ g.rows = merged[c] /\ ~g.complete
  BY <1>1, FileBegun DEF TypeOK
<1>3. PresentIsWritten' /\ MergedWritten'
  BY <1>1, <1>2 DEF PresentIsWritten, MergedWritten
<1>4. /\ cpc'[c] = "writing" /\ output'[c] = names + 1
      /\ \A d \in Compactors : d # c => cpc'[d] = cpc[d] /\ output'[d] = output[d]
  BY <1>1 DEF TypeOK
<1>5. OneOwner'
  <2>1. \A d \in Compactors : cpc[d] \in {"writing", "unlinking"} => output[d] \in 1 .. names
    BY DEF OneOwner, DistinctNames
  <2>2. ASSUME NEW d \in Compactors, cpc'[d] \in {"writing", "unlinking"}
        PROVE  \E f \in files' : /\ f.name = output'[d] /\ f.kind = "compacted"
                                 /\ f.rows = merged[d]
                                 /\ f.complete <=> cpc'[d] = "unlinking"
    <3>1. CASE d = c BY <1>1, <1>2, <1>4, <3>1
    <3>2. CASE d # c BY <1>1, <1>4, <2>2, <3>2 DEF OneOwner
    <3> QED BY <3>1, <3>2
  <2>3. ASSUME NEW d \in Compactors, NEW e \in Compactors, cpc'[d] = "writing",
               cpc'[e] \in {"writing", "unlinking"}, output'[d] = output'[e]
        PROVE  d = e
    <3>1. names \in Nat BY DEF TypeOK
    <3> QED BY <1>4, <2>1, <2>3, <3>1 DEF OneOwner
  <2>4. \A w \in Writers : writing[w] # 0 =>
          \E f \in files' : f.name = writing[w] /\ f.kind = "part" /\ ~f.complete
    BY <1>1 DEF OneOwner
  <2> QED BY <1>1, <2>2, <2>3, <2>4 DEF OneOwner
<1>6. VictimsMerged'
  <2>1. names \in Nat BY DEF TypeOK
  <2>2. \A d \in Compactors : victims[d] \subseteq 1 .. names /\ g.name \notin victims[d]
    BY <1>2, <2>1 DEF VictimsMerged
  <2> QED BY <1>1, <1>4, <2>1, <2>2 DEF VictimsMerged
<1> QED BY <1>2, <1>3, <1>5, <1>6

\* The merged file gets its footer: its rows are all victims' rows.
LEMMA EndMergedStep ==
    ASSUME IInv, NEW c \in Compactors, EndMerged(c)
    PROVE  PresentIsWritten' /\ DistinctNames' /\ OneOwner' /\ VictimsMerged' /\ MergedWritten'
<1> USE DEF IInv
<1> PICK h \in files : /\ h.name = output[c] /\ h.kind = "compacted" /\ h.rows = merged[c]
                       /\ ~h.complete
  BY DEF EndMerged, OneOwner
<1> DEFINE g == [h EXCEPT !.complete = TRUE]
<1>1. /\ cpc[c] = "writing" /\ cpc' = [cpc EXCEPT ![c] = "unlinking"]
      /\ files' = Completed(h.name)
      /\ UNCHANGED <<names, writing, unread, victims, merged, output, written>>
  BY DEF EndMerged
<1>2. /\ files' = (files \ {h}) \cup {g} /\ DistinctNames'
      /\ Present' = Present \cup RowsOf(h.rows)
  BY <1>1, FileCompleted
<1>3. g.name = h.name /\ g.kind = h.kind /\ g.rows = h.rows /\ g.complete
  BY DEF File, TypeOK
<1>4. /\ cpc'[c] = "unlinking"
      /\ \A d \in Compactors : d # c => cpc'[d] = cpc[d]
  BY <1>1 DEF TypeOK
<1>5. PresentIsWritten' /\ MergedWritten'
  BY <1>1, <1>2 DEF PresentIsWritten, MergedWritten
<1>6. OneOwner'
  <2>1. ASSUME NEW d \in Compactors, cpc'[d] \in {"writing", "unlinking"}
        PROVE  \E f \in files' : /\ f.name = output[d] /\ f.kind = "compacted"
                                 /\ f.rows = merged[d]
                                 /\ f.complete <=> cpc'[d] = "unlinking"
    <3>1. CASE d = c BY <1>2, <1>3, <1>4, <3>1
    <3>2. CASE d # c
      <4>1. PICK f \in files : /\ f.name = output[d] /\ f.kind = "compacted"
                               /\ f.rows = merged[d]
                               /\ f.complete <=> cpc[d] = "unlinking"
        BY <1>4, <2>1, <3>2 DEF OneOwner
      <4>2. f # h
        BY <1>1, <1>4, <2>1, <3>2, <4>1 DEF OneOwner
      <4> QED BY <1>2, <1>4, <3>2, <4>1, <4>2
    <3> QED BY <3>1, <3>2
  <2>2. \A w \in Writers : writing[w] # 0 =>
          \E f \in files' : f.name = writing[w] /\ f.kind = "part" /\ ~f.complete
    BY <1>2 DEF OneOwner
  <2>3. \A d, e \in Compactors :
          cpc'[d] = "writing" /\ cpc'[e] \in {"writing", "unlinking"} /\ output[d] = output[e]
            => d = e
    BY <1>1, <1>4 DEF OneOwner
  <2> QED BY <1>1, <2>1, <2>2, <2>3 DEF OneOwner
<1>7. VictimsMerged'
  BY <1>1, <1>2, <1>3, <1>4 DEF VictimsMerged
<1> QED BY <1>2, <1>5, <1>6, <1>7

LEMMA MergedFailsStep ==
    ASSUME IInv, NEW c \in Compactors, MergedFails(c)
    PROVE  PresentIsWritten' /\ DistinctNames' /\ OneOwner' /\ VictimsMerged' /\ MergedWritten'
<1> USE DEF IInv
<1> PICK h \in files : /\ h.name = output[c] /\ h.kind = "compacted" /\ ~h.complete
  BY DEF MergedFails, OneOwner
<1>1. /\ cpc[c] = "writing" /\ Rest(c) /\ files' = {f \in files : f.name # h.name}
      /\ UNCHANGED <<names, writing, written>>
  BY DEF MergedFails
<1>2. files' = files \ {h} /\ DistinctNames' /\ Present' = Present
  BY <1>1, FileRemoved
<1>3. /\ cpc'[c] = "idle" /\ victims'[c] = {} /\ merged'[c] = Nothing
      /\ \A d \in Compactors : d # c =>
            /\ cpc'[d] = cpc[d] /\ unread'[d] = unread[d] /\ victims'[d] = victims[d]
            /\ merged'[d] = merged[d] /\ output'[d] = output[d]
  BY <1>1 DEF Rest, TypeOK
<1>4. PresentIsWritten' /\ MergedWritten'
  BY <1>1, <1>2, <1>3, SmallContents DEF PresentIsWritten, MergedWritten
<1>5. OneOwner'
  <2>1. ASSUME NEW d \in Compactors, cpc'[d] \in {"writing", "unlinking"}
        PROVE  \E f \in files' : /\ f.name = output'[d] /\ f.kind = "compacted"
                                 /\ f.rows = merged'[d]
                                 /\ f.complete <=> cpc'[d] = "unlinking"
    <3>1. d # c BY <1>3, <2>1
    <3>2. PICK f \in files : /\ f.name = output[d] /\ f.kind = "compacted"
                             /\ f.rows = merged[d]
                             /\ f.complete <=> cpc[d] = "unlinking"
      BY <1>3, <2>1, <3>1 DEF OneOwner
    <3>3. f # h
      BY <1>1, <1>3, <2>1, <3>1, <3>2 DEF OneOwner
    <3> QED BY <1>2, <1>3, <3>1, <3>2, <3>3
  <2>2. \A w \in Writers : writing[w] # 0 =>
          \E f \in files' : f.name = writing[w] /\ f.kind = "part" /\ ~f.complete
    BY <1>2 DEF OneOwner
  <2>3. \A d, e \in Compactors :
          cpc'[d] = "writing" /\ cpc'[e] \in {"writing", "unlinking"} /\ output'[d] = output'[e]
            => d = e
    BY <1>3 DEF OneOwner
  <2> QED BY <1>1, <2>1, <2>2, <2>3 DEF OneOwner
<1>6. VictimsMerged'
  BY <1>1, <1>2, <1>3 DEF VictimsMerged
<1> QED BY <1>2, <1>4, <1>5, <1>6

\* The heart of the argument: the part that goes has its rows in the complete
\* merged file, which stays.
LEMMA UnlinkStep ==
    ASSUME IInv, NEW c \in Compactors, Unlink(c)
    PROVE  PresentIsWritten' /\ DistinctNames' /\ OneOwner' /\ VictimsMerged' /\ MergedWritten'
<1> USE DEF IInv
<1> PICK h \in files : /\ h.name \in victims[c] /\ files' = files \ {h}
                       /\ victims' = [victims EXCEPT ![c] = victims[c] \ {h.name}]
  BY DEF Unlink
<1>1. /\ cpc[c] = "unlinking"
      /\ UNCHANGED <<names, writing, cpc, unread, merged, output, written>>
  BY DEF Unlink
<1>2. h.kind = "part" /\ h.complete /\ RowsOf(h.rows) \subseteq RowsOf(merged[c])
  BY <1>1 DEF VictimsMerged
<1>3. PICK g \in files : g.kind = "compacted" /\ g.complete /\ g.rows = merged[c]
  BY <1>1 DEF OneOwner
<1>4. g \in files' BY <1>2, <1>3
<1>5. Present' = Present
  BY <1>2, <1>3, <1>4 DEF Present
<1>6. PresentIsWritten' /\ MergedWritten' /\ DistinctNames'
  BY <1>1, <1>5 DEF PresentIsWritten, MergedWritten, DistinctNames
<1>7. OneOwner'
  <2>1. \A w \in Writers : writing[w] # 0 =>
          \E f \in files' : f.name = writing[w] /\ f.kind = "part" /\ ~f.complete
    BY <1>2 DEF OneOwner
  <2>2. \A d \in Compactors : cpc[d] \in {"writing", "unlinking"} =>
          \E f \in files' : /\ f.name = output[d] /\ f.kind = "compacted" /\ f.rows = merged[d]
                            /\ f.complete <=> cpc[d] = "unlinking"
    BY <1>2 DEF OneOwner
  <2> QED BY <1>1, <2>1, <2>2 DEF OneOwner
<1>8. VictimsMerged'
  <2>1. \A d \in Compactors : victims'[d] \subseteq victims[d]
    BY DEF TypeOK
  <2> QED BY <1>1, <2>1 DEF VictimsMerged
<1> QED BY <1>6, <1>7, <1>8

LEMMA IInvStep == IInv /\ [Next]_vars => IInv'
<1> SUFFICES ASSUME IInv, [Next]_vars PROVE IInv'
  OBVIOUS
<1> DEFINE Rest5 == PresentIsWritten /\ DistinctNames /\ OneOwner /\ VictimsMerged /\ MergedWritten
<1>1. TypeOK'
  BY TypeStep DEF IInv
<1>2. ASSUME UNCHANGED <<files, names, writing, compacting, written>> PROVE Rest5'
  BY <1>2 DEF IInv, PresentIsWritten, Present, DistinctNames, OneOwner, VictimsMerged,
              MergedWritten, compacting
<1>3. ASSUME NEW w \in Writers, WriterStep(w) PROVE Rest5'
  <2>1. CASE CrashWriter(w)
    <3>1. /\ writing' = [writing EXCEPT ![w] = 0]
          /\ UNCHANGED <<files, names, cpc, unread, victims, merged, output, written>>
      BY <2>1 DEF CrashWriter, compacting
    <3>2. OneOwner'
      BY <3>1 DEF IInv, OneOwner, TypeOK
    <3> QED
      BY <3>1, <3>2 DEF IInv, PresentIsWritten, Present, DistinctNames, VictimsMerged, MergedWritten
  <2> QED BY <1>3, <2>1, BeginWriteStep, EndWriteStep, WriteFailsStep DEF WriterStep
<1>4. ASSUME NEW c \in Compactors, CompactStep(c) PROVE Rest5'
  <2>1. CASE ReadRaises(c) \/ UnlinkRaises(c) \/ CompactEnds(c)
    BY <2>1, RestStep DEF ReadRaises, UnlinkRaises, CompactEnds
  <2> QED
    BY <1>4, <2>1, ListPartsStep, ReadPartStep, BeginMergedStep, EndMergedStep, MergedFailsStep,
       UnlinkStep DEF CompactStep
<1>5. ASSUME NEW c \in Compactors, CrashCompactor(c) PROVE Rest5'
  BY <1>5, RestStep DEF CrashCompactor
<1>6. ASSUME NEW q \in Queries, QueryStep(q) PROVE Rest5'
  BY <1>2, <1>6 DEF QueryStep, ListFiles, OpenFile, OpenRaises, AllOpened, Return
<1>7. ASSUME UNCHANGED vars PROVE Rest5'
  BY <1>2, <1>7 DEF vars
<1>8. Rest5'
  BY <1>3, <1>4, <1>5, <1>6, <1>7 DEF Next
<1> QED BY <1>1, <1>8 DEF IInv

-----------------------------------------------------------------------------
(* Theorems                                                                *)

\* The directory, its processes and the history keep their types.
THEOREM TypeCorrect == Spec => []TypeOK
<1>1. IInv => TypeOK BY DEF IInv
<1> QED BY <1>1, InitIInv, IInvStep, PTL DEF Spec

\* However many writers and compactors interleave, fail or are killed, the rows
\* that can be read are exactly those whose writing completed.
THEOREM NothingWrittenGoesAway == Spec => []PresentIsWritten
<1>1. IInv => PresentIsWritten BY DEF IInv
<1> QED BY <1>1, InitIInv, IInvStep, PTL DEF Spec

-----------------------------------------------------------------------------
(* Queries                                                                 *)

\* A row that was readable when the query listed is among those it has read, or
\* in a file it will still have to open; if that file went, opening it raises.
SeenKept ==
    \A q \in Queries :
        /\ listing[q] \subseteq 1 .. names
        /\ qpc[q] = "rows" => listing[q] = {}
        /\ qpc[q] \in {"opening", "rows"} => \A r \in seen[q] :
            \/ r \in RowsOf(result[q])
            \/ \E n \in listing[q] : \A f \in files : f.name = n => r \in RowsOf(f.rows)

\* What a name stands for never changes: a file keeps its rows, and only fresh
\* names are given to new files.
LEMMA RowsKept ==
    ASSUME IInv, [Next]_vars
    PROVE  /\ names' \in Nat /\ names \in Nat /\ names' >= names
           /\ \A f \in files' : \/ f.name = names + 1
                                \/ \E g \in files : g.name = f.name /\ g.rows = f.rows
<1> USE DEF IInv
<1> DEFINE Kept == \A f \in files' : \/ f.name = names + 1
                                     \/ \E g \in files : g.name = f.name /\ g.rows = f.rows
<1>1. names \in Nat BY DEF TypeOK
<1>2. ASSUME files' \subseteq files, names' = names
      PROVE  names' \in Nat /\ names' >= names /\ Kept
  BY <1>1, <1>2
<1>3. ASSUME NEW n, files' = Completed(n), names' = names
      PROVE  names' \in Nat /\ names' >= names /\ Kept
  <2>1. \A h \in files : LET g == [h EXCEPT !.complete = TRUE]
                        IN  g.name = h.name /\ g.rows = h.rows
    BY DEF TypeOK, File
  <2>2. ASSUME NEW f \in files'
        PROVE  \E g \in files : g.name = f.name /\ g.rows = f.rows
    <3>1. PICK h \in files : f = IF h.name = n THEN [h EXCEPT !.complete = TRUE] ELSE h
      BY <1>3 DEF Completed
    <3>2. f.name = h.name /\ f.rows = h.rows
      BY <2>1, <3>1
    <3> QED BY <3>2
  <2> QED BY <1>1, <1>3, <2>2
<1>4. ASSUME NEW w \in Writers, WriterStep(w)
      PROVE  names' \in Nat /\ names' >= names /\ Kept
  <2>1. CASE BeginWrite(w)
    BY <1>1, <2>1 DEF BeginWrite, NewFile
  <2>2. CASE EndWrite(w)
    BY <1>3, <2>2 DEF EndWrite
  <2>3. CASE WriteFails(w) \/ CrashWriter(w)
    BY <1>2, <2>3 DEF WriteFails, CrashWriter
  <2> QED BY <1>4, <2>1, <2>2, <2>3 DEF WriterStep
<1>5. ASSUME NEW c \in Compactors, CompactStep(c) \/ CrashCompactor(c)
      PROVE  names' \in Nat /\ names' >= names /\ Kept
  <2>1. CASE BeginMerged(c)
    BY <1>1, <2>1 DEF BeginMerged, NewFile
  <2>2. CASE EndMerged(c)
    BY <1>3, <2>2 DEF EndMerged
  <2>3. CASE ListParts(c) \/ ReadPart(c) \/ ReadRaises(c) \/ MergedFails(c)
    BY <1>2, <2>3 DEF ListParts, ReadPart, ReadRaises, MergedFails
  <2>4. CASE Unlink(c) \/ UnlinkRaises(c) \/ CompactEnds(c) \/ CrashCompactor(c)
    BY <1>2, <2>4 DEF Unlink, UnlinkRaises, CompactEnds, CrashCompactor
  <2> QED BY <1>5, <2>1, <2>2, <2>3, <2>4 DEF CompactStep
<1>6. ASSUME NEW q \in Queries, QueryStep(q)
      PROVE  names' \in Nat /\ names' >= names /\ Kept
  BY <1>2, <1>6 DEF QueryStep, ListFiles, OpenFile, OpenRaises, AllOpened, Return
<1>7. ASSUME UNCHANGED vars
      PROVE  names' \in Nat /\ names' >= names /\ Kept
  BY <1>2, <1>7 DEF vars
<1> QED BY <1>1, <1>4, <1>5, <1>6, <1>7 DEF Next

LEMMA SeenKeptStep == IInv /\ SeenKept /\ [Next]_vars => SeenKept'
<1> SUFFICES ASSUME IInv, SeenKept, [Next]_vars PROVE SeenKept'
  OBVIOUS
<1> USE DEF IInv
<1> DEFINE Kept(q) ==
      /\ listing[q] \subseteq 1 .. names
      /\ qpc[q] = "rows" => listing[q] = {}
      /\ qpc[q] \in {"opening", "rows"} => \A r \in seen[q] :
          \/ r \in RowsOf(result[q])
          \/ \E n \in listing[q] : \A f \in files : f.name = n => r \in RowsOf(f.rows)
<1>1. ASSUME NEW q \in Queries, qpc'[q] = qpc[q], listing'[q] = listing[q],
             result'[q] = result[q], seen'[q] = seen[q]
      PROVE  Kept(q)'
  <2>1. Kept(q) BY DEF SeenKept
  <2>2. ASSUME NEW r, NEW n \in listing[q],
               \A f \in files : f.name = n => r \in RowsOf(f.rows)
        PROVE  \A f \in files' : f.name = n => r \in RowsOf(f.rows)
    <3>1. n # names + 1 BY <2>1, RowsKept
    <3> QED BY <2>2, <3>1, RowsKept DEF RowsOf
  <2>3. 1 .. names \subseteq 1 .. names' BY RowsKept
  <2>4. RowsOf(result'[q]) = RowsOf(result[q]) BY <1>1 DEF RowsOf
  <2> QED BY <1>1, <2>1, <2>2, <2>3, <2>4
<1>2. ASSUME UNCHANGED querying PROVE SeenKept'
  BY <1>1, <1>2 DEF SeenKept, querying
<1>3. ASSUME NEW p \in Queries, QueryStep(p) PROVE SeenKept'
  <2>1. ASSUME NEW q \in Queries, q # p PROVE Kept(q)'
    <3>1. /\ qpc'[q] = qpc[q] /\ listing'[q] = listing[q]
          /\ result'[q] = result[q] /\ seen'[q] = seen[q]
      BY <1>3, <2>1 DEF QueryStep, ListFiles, OpenFile, OpenRaises, AllOpened, Return, TypeOK
    <3> QED BY <1>1, <3>1
  <2>2. Kept(p)'
    <3>1. CASE ListFiles(p)
      <4>1. /\ listing'[p] = {f.name : f \in files} /\ seen'[p] = Present
            /\ qpc'[p] # "rows" /\ UNCHANGED <<files, names>>
        BY <3>1 DEF ListFiles, TypeOK
      <4>2. {f.name : f \in files} \subseteq 1 .. names BY DEF DistinctNames
      <4>3. ASSUME NEW r \in Present
            PROVE  \E n \in {f.name : f \in files} :
                      \A f \in files : f.name = n => r \in RowsOf(f.rows)
        <5> PICK f \in files : r \in RowsOf(f.rows) BY DEF Present
        <5> QED BY DEF DistinctNames
      <4> QED BY <4>1, <4>2, <4>3
    <3>2. CASE OpenFile(p)
      <4> PICK h \in files : /\ h.name \in listing[p]
                             /\ listing' = [listing EXCEPT ![p] = listing[p] \ {h.name}]
                             /\ result' = IF qpc[p] = "opening"
                                          THEN [result EXCEPT ![p] = Plus(result[p], h.rows)]
                                          ELSE result
        BY <3>2 DEF OpenFile
      <4>1. /\ qpc[p] \in {"binding", "opening"}
            /\ UNCHANGED <<files, names, qpc, seen>>
        BY <3>2 DEF OpenFile
      <4>2. Kept(p) BY DEF SeenKept
      <4>3. listing'[p] = listing[p] \ {h.name} BY DEF TypeOK
      <4>4. CASE qpc[p] = "binding"
        BY <4>1, <4>2, <4>3, <4>4
      <4>5. CASE qpc[p] = "opening"
        <5>1. RowsOf(result'[p]) = RowsOf(result[p]) \cup RowsOf(h.rows)
          BY <4>5, PlusRows DEF TypeOK, File
        <5>2. ASSUME NEW r \in seen[p]
              PROVE  \/ r \in RowsOf(result'[p])
                     \/ \E n \in listing'[p] : \A f \in files : f.name = n => r \in RowsOf(f.rows)
          BY <4>2, <4>3, <4>5, <5>1, <5>2
        <5> QED BY <4>1, <4>2, <4>3, <4>5, <5>2
      <4> QED BY <4>1, <4>4, <4>5
    <3>3. CASE OpenRaises(p)
      <4>1. qpc'[p] \in {"error", "empty"} /\ listing' = listing /\ names' = names
        BY <3>3 DEF OpenRaises, TypeOK
      <4> QED BY <4>1 DEF SeenKept
    <3>4. CASE AllOpened(p)
      <4>1. /\ listing[p] = {} /\ qpc[p] \in {"binding", "opening"}
            /\ qpc'[p] = IF qpc[p] = "binding" THEN "bound" ELSE "rows"
            /\ UNCHANGED <<files, names, listing, result, seen>>
        BY <3>4 DEF AllOpened, TypeOK
      <4> QED BY <4>1 DEF SeenKept
    <3>5. CASE Return(p)
      <4>1. qpc'[p] = "idle" /\ listing'[p] = {} BY <3>5 DEF Return, TypeOK
      <4> QED BY <4>1
    <3> QED BY <1>3, <3>1, <3>2, <3>3, <3>4, <3>5 DEF QueryStep
  <2>3. \A q \in Queries : Kept(q)' BY <2>1, <2>2
  <2> QED BY <2>3 DEF SeenKept
<1>4. ASSUME NEW w \in Writers, WriterStep(w) PROVE UNCHANGED querying
  BY <1>4 DEF WriterStep, BeginWrite, EndWrite, WriteFails, CrashWriter
<1>5. ASSUME NEW c \in Compactors, CompactStep(c) \/ CrashCompactor(c) PROVE UNCHANGED querying
  BY <1>5 DEF CompactStep, ListParts, ReadPart, ReadRaises, BeginMerged, EndMerged, MergedFails,
              Unlink, UnlinkRaises, CompactEnds, CrashCompactor
<1>6. ASSUME UNCHANGED vars PROVE UNCHANGED querying
  BY <1>6 DEF vars
<1> QED BY <1>2, <1>3, <1>4, <1>5, <1>6 DEF Next

\* A query that returns rows returns every row that was readable when it listed,
\* whatever compaction unlinks meanwhile: a file it misses makes it return none.
THEOREM QueriesAreComplete == Spec => []QueryComplete
<1>1. Init => SeenKept
  BY DEF Init, SeenKept
<1>2. SeenKept => QueryComplete
  BY DEF SeenKept, QueryComplete
<1> QED BY <1>1, <1>2, InitIInv, IInvStep, SeenKeptStep, PTL DEF Spec

-----------------------------------------------------------------------------
(* Until compactions overlap or are killed, the directory implements       *)
(* CopyStore.                                                              *)
(*                                                                         *)
(* The copies a reader counts may only grow by what was asked for.  Beside *)
(* them, the parts that are being written are counted against what was     *)
(* asked for, so that their completion finds room.  What a compactor has   *)
(* merged are the copies of the parts that it has read, and those parts    *)
(* stay until the merged file has its footer and they are superseded.      *)

Alone == \A c, d \in Compactors : cpc[c] # "idle" /\ cpc[d] # "idle" => c = d

\* What is counted, and what a writer may still complete.
Live == {f \in files : f.name \notin Superseded /\ (f.complete \/ f.kind = "part")}

ReadBy(c) == {f \in files : f.name \in victims[c] \ unread[c]}

PartsAreBatches == \A f \in files : f.kind = "part" => \A r \in Rows : f.rows[r] \in {0, 1}

NoMoreThanAsked == \A r \in Rows : Total(Live)[r] <= issued[r]

Merges(c) ==
    /\ unread[c] \subseteq victims[c]
    /\ cpc[c] = "idle" => victims[c] = {} /\ merged[c] = Nothing
    /\ cpc[c] \in {"writing", "unlinking"} => unread[c] = {}
    /\ cpc[c] \in {"reading", "writing"} => merged[c] = Total(ReadBy(c))
    /\ \A n \in victims[c] \ unread[c] : \E f \in files : f.name = n

MergesWhatItRead == \A c \in Compactors : Merges(c)

Accounted ==
    /\ IsFiniteSet(files)
    /\ Alone
    /\ PartsAreBatches
    /\ NoMoreThanAsked
    /\ MergesWhatItRead

CopyInv == IInv /\ Accounted

CopyStep == Accounted' /\ [Store!StoreNext]_<<issued, LogicalCopies>>

-----------------------------------------------------------------------------
(* Totals of file sets                                                     *)

LEMMA OneFile ==
    ASSUME NEW f \in File, NEW r \in Rows
    PROVE  /\ IsFiniteSet({f.name} \X (1 .. f.rows[r]))
           /\ Cardinality({f.name} \X (1 .. f.rows[r])) = f.rows[r]
<1>1. f.rows[r] \in Nat BY DEF File, Content
<1> DEFINE k == f.rows[r]
           x == f.name
<1>2. k \in Nat BY <1>1
<1> HIDE DEF k, x
<1>3. IsFiniteSet(1 .. k) /\ Cardinality(1 .. k) = k
  <2>1. IsFiniteSet(1 .. k) /\ Cardinality(1 .. k) = IF 1 > k THEN 0 ELSE k - 1 + 1
    BY <1>2, FS_Interval
  <2> QED BY <1>2, <2>1
<1>4. IsFiniteSet({x}) /\ Cardinality({x}) = 1 BY FS_Singleton
<1>5. IsFiniteSet({x} \X (1 .. k)) /\ Cardinality({x} \X (1 .. k)) = 1 * k
  BY <1>3, <1>4, FS_Product
<1> QED BY <1>2, <1>5 DEF k, x

LEMMA CopiesFinite ==
    ASSUME NEW S \in SUBSET File, IsFiniteSet(S), NEW r \in Rows
    PROVE  IsFiniteSet(Copies(S, r)) /\ Total(S)[r] = Cardinality(Copies(S, r)) /\ Total(S)[r] \in Nat
<1> DEFINE Of(f) == {f.name} \X (1 .. f.rows[r])
           P == {Of(f) : f \in S}
<1>1. IsFiniteSet(P)
  <2>1. [f \in S |-> Of(f)] \in Surjection(S, P) BY DEF Surjection
  <2> HIDE DEF P
  <2> QED BY <2>1, FS_Surjection
<1>2. \A T \in P : IsFiniteSet(T) BY OneFile
<1>3. IsFiniteSet(UNION P)
  <2> HIDE DEF P
  <2> QED BY <1>1, <1>2, FS_UNION
<1>4. Copies(S, r) = UNION P BY DEF Copies
<1>5. Total(S)[r] = Cardinality(Copies(S, r)) BY DEF Total
<1> QED BY <1>3, <1>4, <1>5, FS_CardinalityType

LEMMA TotalType ==
    ASSUME NEW S \in SUBSET File, IsFiniteSet(S)
    PROVE  Total(S) \in Content
<1>1. \A r \in Rows : Cardinality(Copies(S, r)) \in Nat BY CopiesFinite, FS_CardinalityType
<1> QED BY <1>1 DEF Total, Content

\* The copies of files with different names are different copies.
LEMMA TotalUnion ==
    ASSUME NEW A \in SUBSET File, NEW B \in SUBSET File, IsFiniteSet(A), IsFiniteSet(B),
           \A f \in A, g \in B : f.name # g.name
    PROVE  Total(A \cup B) = Plus(Total(A), Total(B))
<1>1. ASSUME NEW r \in Rows
      PROVE  Cardinality(Copies(A \cup B, r)) = Total(A)[r] + Total(B)[r]
  <2>1. Copies(A \cup B, r) = Copies(A, r) \cup Copies(B, r) BY DEF Copies
  <2>2. Copies(A, r) \cap Copies(B, r) = {} BY DEF Copies
  <2>3. /\ IsFiniteSet(Copies(A, r)) /\ Total(A)[r] = Cardinality(Copies(A, r)) /\ Total(A)[r] \in Nat
        /\ IsFiniteSet(Copies(B, r)) /\ Total(B)[r] = Cardinality(Copies(B, r)) /\ Total(B)[r] \in Nat
    BY CopiesFinite
  <2> DEFINE a == Copies(A, r)
             b == Copies(B, r)
  <2> HIDE DEF a, b
  <2>4. Cardinality(a \cup b) = Cardinality(a) + Cardinality(b) - Cardinality(a \cap b)
    BY <2>3, FS_Union DEF a, b
  <2>5. Cardinality(a \cap b) = 0 BY <2>2, FS_EmptySet DEF a, b
  <2>6. Cardinality(a) \in Nat /\ Cardinality(b) \in Nat BY <2>3 DEF a, b
  <2>7. Cardinality(a \cup b) = Cardinality(a) + Cardinality(b) BY <2>4, <2>5, <2>6
  <2> QED BY <2>1, <2>3, <2>7, Zenon DEF a, b
<1> QED BY <1>1 DEF Total, Plus

LEMMA TotalOne ==
    ASSUME NEW f \in File
    PROVE  Total({f}) = f.rows
<1>1. \A r \in Rows : Copies({f}, r) = {f.name} \X (1 .. f.rows[r]) BY DEF Copies
<1>2. \A r \in Rows : Cardinality(Copies({f}, r)) = f.rows[r] BY <1>1, OneFile
<1>3. f.rows = [r \in Rows |-> f.rows[r]] BY DEF File, Content
<1> QED BY <1>2, <1>3 DEF Total

LEMMA TotalGrows ==
    ASSUME NEW B \in SUBSET File, IsFiniteSet(B), NEW A \in SUBSET B, NEW r \in Rows
    PROVE  Total(A)[r] <= Total(B)[r]
<1>1. IsFiniteSet(A) BY FS_Subset
<1>2. Copies(A, r) \subseteq Copies(B, r) BY DEF Copies
<1>3. IsFiniteSet(Copies(B, r)) /\ Total(B)[r] = Cardinality(Copies(B, r)) BY CopiesFinite
<1>4. Total(A)[r] = Cardinality(Copies(A, r)) BY <1>1, CopiesFinite
<1>5. Cardinality(Copies(A, r)) <= Cardinality(Copies(B, r)) BY <1>2, <1>3, FS_Subset
<1> QED BY <1>3, <1>4, <1>5

\* Putting a file in the place of others: the parts that it merged, or its own
\* unfinished form.
LEMMA TotalReplaced ==
    ASSUME NEW S \in SUBSET File, IsFiniteSet(S), NEW V \in SUBSET S, NEW g \in File,
           \A f, h \in S : f.name = h.name => f = h,
           \A f \in S \ V : f.name # g.name,
           g.rows = Total(V)
    PROVE  Total((S \ V) \cup {g}) = Total(S)
<1>1. IsFiniteSet(V) /\ IsFiniteSet(S \ V) /\ IsFiniteSet({g}) BY FS_Subset, FS_Singleton
<1>2. Total((S \ V) \cup {g}) = Plus(Total(S \ V), g.rows) BY <1>1, TotalUnion, TotalOne
<1>3. Total((S \ V) \cup V) = Plus(Total(S \ V), Total(V)) BY <1>1, TotalUnion
<1>4. (S \ V) \cup V = S OBVIOUS
<1> QED BY <1>2, <1>3, <1>4
LEMMA TotalNone == Total({}) = Nothing
<1>1. \A r \in Rows : Copies({}, r) = {} BY DEF Copies
<1>2. Cardinality({}) = 0 BY FS_EmptySet
<1> QED BY <1>1, <1>2 DEF Total, Nothing

-----------------------------------------------------------------------------
(* What the steps have in common                                           *)

LEMMA FileSets ==
    ASSUME CopyInv, NEW S \in SUBSET files
    PROVE  S \in SUBSET File /\ IsFiniteSet(S) /\ Total(S) \in Content
<1>1. IsFiniteSet(S) BY FS_Subset DEF CopyInv, Accounted
<1>2. S \in SUBSET File BY DEF CopyInv, IInv, TypeOK
<1> QED BY <1>1, <1>2, TotalType

\* As long as nothing is tangled, the compactor that takes a step is the only one
\* at work: the others have merged nothing and supersede nothing.
Others(c) ==
    /\ Superseded = IF cpc[c] = "unlinking" THEN victims[c] ELSE {}
    /\ Superseded' = IF cpc'[c] = "unlinking" THEN victims'[c] ELSE {}
    /\ \A d \in Compactors \ {c} : Merges(d)'
    /\ Alone'

LEMMA OthersAreIdle ==
    ASSUME CopyInv, NEW c \in Compactors, CompactStep(c), ~tangled'
    PROVE  Others(c)
<1> DEFINE D == Compactors \ {c}
<1>1. \A d \in D : cpc[d] = "idle"
  <2>1. CASE ListParts(c) BY <2>1 DEF ListParts
  <2>2. CASE cpc[c] # "idle" BY <2>2 DEF CopyInv, Accounted, Alone
  <2>3. ListParts(c) \/ cpc[c] # "idle"
    BY DEF CompactStep, ReadPart, ReadRaises, BeginMerged, EndMerged, MergedFails, Unlink,
           UnlinkRaises, CompactEnds
  <2> QED BY <2>1, <2>2, <2>3
<1>2. \A d \in D : /\ cpc'[d] = cpc[d] /\ unread'[d] = unread[d]
                   /\ victims'[d] = victims[d] /\ merged'[d] = merged[d]
  <2> USE DEF CopyInv, IInv, TypeOK
  <2>1. CASE ListParts(c) BY <2>1 DEF ListParts
  <2>2. CASE ReadPart(c) BY <2>2 DEF ReadPart
  <2>3. CASE BeginMerged(c) \/ EndMerged(c) BY <2>3 DEF BeginMerged, EndMerged
  <2>4. CASE Unlink(c) BY <2>4 DEF Unlink
  <2>5. CASE Rest(c) BY <2>5 DEF Rest
  <2> QED BY <2>1, <2>2, <2>3, <2>4, <2>5
          DEF CompactStep, ReadRaises, MergedFails, UnlinkRaises, CompactEnds
<1>3. \A d \in D : victims[d] = {} /\ merged[d] = Nothing /\ unread[d] \subseteq victims[d]
  BY <1>1 DEF CopyInv, Accounted, MergesWhatItRead, Merges
<1>4. \A d \in D : Merges(d)' BY <1>1, <1>2, <1>3 DEF Merges
<1>5. Alone' BY <1>1, <1>2 DEF Alone
<1>6. Superseded = IF cpc[c] = "unlinking" THEN victims[c] ELSE {} BY <1>1 DEF Superseded
<1>7. Superseded' = IF cpc'[c] = "unlinking" THEN victims'[c] ELSE {}
  BY <1>1, <1>2 DEF Superseded
<1> QED BY <1>4, <1>5, <1>6, <1>7 DEF Others

\* A file without its footer was neither read nor superseded.
LEMMA UnfinishedIsUnread ==
    ASSUME CopyInv, NEW h \in files, ~h.complete
    PROVE  /\ h.name \notin Superseded
           /\ \A c \in Compactors : h.name \notin victims[c] \ unread[c]
<1>1. h.name \notin Superseded BY DEF CopyInv, IInv, VictimsMerged, Superseded
<1>2. ASSUME NEW c \in Compactors, h.name \in victims[c] \ unread[c] PROVE FALSE
  <2>1. cpc[c] # "idle" BY <1>2 DEF CopyInv, Accounted, MergesWhatItRead, Merges
  <2> QED BY <1>2, <2>1 DEF CopyInv, IInv, VictimsMerged
<1> QED BY <1>1, <1>2

\* A fresh name is no victim's.
LEMMA FreshIsNoVictim ==
    ASSUME CopyInv
    PROVE  /\ names + 1 \notin Superseded
           /\ \A c \in Compactors : names + 1 \notin victims[c]
           /\ \A f \in files : f.name # names + 1
<1>1. names \in Nat BY DEF CopyInv, IInv, TypeOK
<1>2. names + 1 \notin 1 .. names BY <1>1
<1> QED BY <1>2 DEF CopyInv, IInv, VictimsMerged, DistinctNames, Superseded

LEMMA NothingCounts ==
    ASSUME CopyInv, UNCHANGED <<files, issued>>, UNCHANGED compacting
    PROVE  CopyStep
<1>1. Superseded' = Superseded BY DEF Superseded, compacting
<1>2. LogicalCopies' = LogicalCopies BY <1>1 DEF LogicalCopies, LogicalFiles, Total, Copies
<1>3. NoMoreThanAsked' BY <1>1 DEF CopyInv, Accounted, NoMoreThanAsked, Live, Total, Copies
<1>4. MergesWhatItRead'
  BY DEF CopyInv, Accounted, MergesWhatItRead, Merges, compacting, ReadBy, Total, Copies
<1>5. IsFiniteSet(files)' /\ Alone' /\ PartsAreBatches'
  BY DEF CopyInv, Accounted, PartsAreBatches, Alone, compacting
<1> QED BY <1>2, <1>3, <1>4, <1>5 DEF CopyStep, Accounted

\* Giving up before the merged file exists, or ending after the last victim.
LEMMA RestCounts ==
    ASSUME CopyInv, NEW c \in Compactors, CompactStep(c), ~tangled', Rest(c), Superseded = {},
           UNCHANGED <<files, issued>>
    PROVE  CopyStep
<1>0. Others(c) BY OthersAreIdle DEF CompactStep
<1>1. /\ cpc'[c] = "idle" /\ unread'[c] = {} /\ victims'[c] = {} /\ merged'[c] = Nothing
  BY DEF Rest, CopyInv, IInv, TypeOK
<1>2. Superseded' = {} BY <1>0, <1>1 DEF Others
<1>3. LogicalCopies' = LogicalCopies BY <1>2 DEF LogicalCopies, LogicalFiles, Total, Copies
<1>4. NoMoreThanAsked' BY <1>2 DEF CopyInv, Accounted, NoMoreThanAsked, Live, Total, Copies
<1>5. MergesWhatItRead'
  <2>1. \A d \in Compactors \ {c} : Merges(d)' BY <1>0 DEF Others
  <2>9. Merges(c)' BY <1>1 DEF Merges
  <2> QED BY <2>1, <2>9 DEF MergesWhatItRead
<1>6. IsFiniteSet(files)' /\ PartsAreBatches'
  BY DEF CopyInv, Accounted, PartsAreBatches
<1> QED BY <1>0, <1>3, <1>4, <1>5, <1>6 DEF CopyStep, Accounted, Others
-----------------------------------------------------------------------------
(* The steps of writers                                                    *)

LEMMA BeginWriteCounts ==
    ASSUME CopyInv, NEW w \in Writers, BeginWrite(w)
    PROVE  CopyStep
<1> PICK S \in SUBSET Rows : /\ issued' = Plus(issued, Batch(S))
                             /\ files' = files \cup {NewFile("part", Batch(S))}
  BY DEF BeginWrite
<1> DEFINE g == NewFile("part", Batch(S))
<1>1. g \in File /\ g.name = names + 1 /\ g.kind = "part" /\ g.rows = Batch(S) /\ g.complete = FALSE
  BY SmallContents DEF NewFile, File, CopyInv, IInv, TypeOK
<1>2. UNCHANGED <<cpc, unread, victims, merged>>
  BY DEF BeginWrite, compacting, accidents
<1>3. Superseded' = Superseded BY <1>2 DEF Superseded
<1> HIDE DEF g
<1>4. files' = files \cup {g} BY DEF g
<1>5. LogicalFiles' = LogicalFiles BY <1>1, <1>3, <1>4 DEF LogicalFiles
<1>6. LogicalCopies' = LogicalCopies BY <1>5 DEF LogicalCopies, Total, Copies
<1>7. Live' = Live \cup {g} BY <1>1, <1>3, <1>4, FreshIsNoVictim DEF Live
<1>8. Total(Live') = Plus(Total(Live), Batch(S))
  <2>1. Live \in SUBSET files BY DEF Live
  <2>2. Live \in SUBSET File /\ IsFiniteSet(Live) BY <2>1, FileSets
  <2>3. \A f \in Live : f.name # g.name BY <1>1, <2>1, FreshIsNoVictim
  <2>4. {g} \in SUBSET File /\ IsFiniteSet({g}) BY <1>1, FS_Singleton
  <2>5. Total(Live \cup {g}) = Plus(Total(Live), Total({g})) BY <2>2, <2>3, <2>4, TotalUnion
  <2> QED BY <1>1, <1>7, <2>5, TotalOne
<1>9. NoMoreThanAsked'
  <2>1. \A r \in Rows : Total(Live)[r] \in Nat /\ issued[r] \in Nat /\ Batch(S)[r] \in Nat
    <3>1. Live \in SUBSET files BY DEF Live
    <3>2. Total(Live) \in Content BY <3>1, FileSets
    <3> QED BY <3>2, SmallContents DEF Content, CopyInv, IInv, TypeOK
  <2>2. \A r \in Rows : /\ Total(Live')[r] = Total(Live)[r] + Batch(S)[r]
                        /\ issued'[r] = issued[r] + Batch(S)[r]
    BY <1>8 DEF Plus
  <2>3. \A r \in Rows : Total(Live')[r] <= issued'[r]
    BY <2>1, <2>2 DEF CopyInv, Accounted, NoMoreThanAsked
  <2> QED BY <2>3 DEF NoMoreThanAsked, Total, Copies
<1>10. MergesWhatItRead'
  <2>1. \A c \in Compactors : ReadBy(c)' = ReadBy(c)
    BY <1>1, <1>2, <1>4, FreshIsNoVictim DEF ReadBy
  <2>2. \A c \in Compactors : Total(ReadBy(c))' = Total(ReadBy(c)) BY <2>1 DEF Total, Copies
  <2> QED BY <1>2, <1>4, <2>2 DEF CopyInv, Accounted, MergesWhatItRead, Merges
<1>11. IsFiniteSet(files') /\ Alone' /\ PartsAreBatches'
  <2>1. IsFiniteSet(files') BY <1>4, FS_AddElement DEF CopyInv, Accounted
  <2>2. \A r \in Rows : g.rows[r] \in {0, 1} BY <1>1 DEF Batch
  <2> QED BY <1>2, <1>4, <2>1, <2>2 DEF CopyInv, Accounted, PartsAreBatches, Alone
<1>12. Store!StoreNext
  <2>1. issued' = Store!AddTo(issued, S)
    BY DEF Plus, Batch, Store!AddTo, CopyInv, IInv, TypeOK, Content
  <2>2. Store!Ask(S) BY <1>6, <2>1 DEF Store!Ask
  <2> QED BY <2>2 DEF Store!StoreNext
<1> QED BY <1>9, <1>10, <1>11, <1>12 DEF CopyStep, Accounted

\* A part that gets its footer takes the room that was kept for it.
LEMMA EndWriteCounts ==
    ASSUME CopyInv, NEW w \in Writers, EndWrite(w)
    PROVE  CopyStep
<1> PICK h \in files : h.name = writing[w]
  BY DEF EndWrite
<1> DEFINE g == [h EXCEPT !.complete = TRUE]
<1>1. /\ writing[w] # 0 /\ names' = names /\ files' = Completed(h.name)
      /\ UNCHANGED <<cpc, unread, victims, merged, issued>>
  BY DEF EndWrite, compacting, accidents
<1>2. h.kind = "part" /\ ~h.complete /\ h \in File
  BY <1>1 DEF CopyInv, IInv, OneOwner, DistinctNames, TypeOK
<1>3. files' = (files \ {h}) \cup {g}
  BY <1>1, <1>2, FileCompleted DEF CopyInv, IInv
<1>4. g \in File /\ g.name = h.name /\ g.kind = h.kind /\ g.rows = h.rows /\ g.complete
  BY <1>2 DEF File
<1> HIDE DEF g
<1>5. Superseded' = Superseded BY <1>1 DEF Superseded
<1>6. \A f \in files : f.name = h.name => f = h BY DEF CopyInv, IInv, DistinctNames
<1>7. h.name \notin Superseded /\ \A c \in Compactors : h.name \notin victims[c] \ unread[c]
  BY <1>2, UnfinishedIsUnread
<1>8. /\ Live \in SUBSET File /\ IsFiniteSet(Live) /\ Live \in SUBSET files /\ h \in Live
      /\ LogicalFiles \in SUBSET File /\ IsFiniteSet(LogicalFiles)
      /\ LogicalFiles \subseteq Live \ {h}
  <2>1. Live \in SUBSET files /\ LogicalFiles \in SUBSET files BY DEF Live, LogicalFiles
  <2>2. h \in Live /\ LogicalFiles \subseteq Live \ {h} BY <1>2, <1>7 DEF Live, LogicalFiles
  <2> QED BY <2>1, <2>2, FileSets
<1>9. LogicalFiles' = LogicalFiles \cup {g}
  BY <1>2, <1>3, <1>4, <1>5, <1>7 DEF LogicalFiles
<1>10. Total(LogicalFiles') = Plus(Total(LogicalFiles), h.rows)
  <2>1. \A f \in LogicalFiles : f.name # g.name BY <1>4, <1>6, <1>8
  <2>2. {g} \in SUBSET File /\ IsFiniteSet({g}) BY <1>4, FS_Singleton
  <2>3. Total(LogicalFiles \cup {g}) = Plus(Total(LogicalFiles), Total({g}))
    BY <1>8, <2>1, <2>2, TotalUnion
  <2> QED BY <1>4, <1>9, <2>3, TotalOne
<1>11. Total(Live') = Total(Live) /\ Total(Live) = Plus(Total(Live \ {h}), h.rows)
  <2>1. Live' = (Live \ {h}) \cup {g}
    BY <1>2, <1>3, <1>4, <1>5, <1>7, <1>8 DEF Live
  <2>2. \A f, e \in Live : f.name = e.name => f = e
    BY <1>8 DEF CopyInv, IInv, DistinctNames
  <2>3. g.rows = Total({h}) BY <1>2, <1>4, TotalOne
  <2>4. {h} \in SUBSET Live /\ \A f \in Live \ {h} : f.name # g.name BY <1>4, <1>6, <1>8
  <2>5. Total((Live \ {h}) \cup {g}) = Total(Live)
    BY <1>4, <1>8, <2>2, <2>3, <2>4, TotalReplaced
  <2>6. Live \ {h} \in SUBSET File /\ IsFiniteSet(Live \ {h}) /\ {h} \in SUBSET File /\ IsFiniteSet({h})
    BY <1>2, <1>8, FS_Subset, FS_Singleton
  <2>7. \A f \in Live \ {h}, e \in {h} : f.name # e.name BY <2>2, <1>8
  <2>8. Total((Live \ {h}) \cup {h}) = Plus(Total(Live \ {h}), Total({h}))
    BY <2>6, <2>7, TotalUnion
  <2>9. (Live \ {h}) \cup {h} = Live BY <1>8
  <2> QED BY <1>2, <2>1, <2>5, <2>8, <2>9, TotalOne
<1>12. NoMoreThanAsked'
  BY <1>1, <1>11 DEF CopyInv, Accounted, NoMoreThanAsked, Total, Copies
<1>13. MergesWhatItRead'
  <2>1. \A c \in Compactors : ReadBy(c)' = ReadBy(c)
    BY <1>1, <1>3, <1>4, <1>7 DEF ReadBy
  <2>2. \A c \in Compactors : Total(ReadBy(c))' = Total(ReadBy(c)) BY <2>1 DEF Total, Copies
  <2>3. \A n : (\E f \in files : f.name = n) => (\E f \in files' : f.name = n) BY <1>3, <1>4
  <2> QED BY <1>1, <2>2, <2>3 DEF CopyInv, Accounted, MergesWhatItRead, Merges
<1>14. IsFiniteSet(files') /\ Alone' /\ PartsAreBatches'
  <2>1. IsFiniteSet(files \ {h}) BY FS_Subset DEF CopyInv, Accounted
  <2>2. IsFiniteSet(files') BY <1>3, <2>1, FS_AddElement
  <2> QED BY <1>1, <1>3, <1>4, <2>2 DEF CopyInv, Accounted, PartsAreBatches, Alone
<1>15. Store!StoreNext
  <2> DEFINE S == {r \in Rows : h.rows[r] = 1}
  <2>1. \A r \in Rows : h.rows[r] \in {0, 1} BY <1>2 DEF CopyInv, Accounted, PartsAreBatches
  <2>2. \A r \in Rows : /\ Total(LogicalFiles)[r] \in Nat /\ Total(Live \ {h})[r] \in Nat
                        /\ issued[r] \in Nat
    <3>1. Live \ {h} \in SUBSET files /\ LogicalFiles \in SUBSET files BY <1>8
    <3>2. Total(LogicalFiles) \in Content /\ Total(Live \ {h}) \in Content BY <3>1, FileSets
    <3> QED BY <3>2 DEF Content, CopyInv, IInv, TypeOK
  <2>3. Total(LogicalFiles)' = Store!AddTo(Total(LogicalFiles), S)
    <3>1. Total(LogicalFiles)' = Total(LogicalFiles') BY DEF Total, Copies
    <3>2. Plus(Total(LogicalFiles), h.rows) = Store!AddTo(Total(LogicalFiles), S)
      BY <2>1, <2>2 DEF Plus, Store!AddTo
    <3> QED BY <1>10, <3>1, <3>2
  <2>4. ASSUME NEW r \in S PROVE Total(LogicalFiles)[r] < issued[r]
    <3>1. Total(LogicalFiles)[r] <= Total(Live \ {h})[r]
      <4>1. Live \ {h} \in SUBSET File /\ IsFiniteSet(Live \ {h}) BY <1>8, FS_Subset
      <4> QED BY <1>8, <4>1, TotalGrows
    <3>2. Total(Live)[r] = Total(Live \ {h})[r] + 1 BY <1>11 DEF Plus
    <3>3. Total(Live)[r] <= issued[r] BY DEF CopyInv, Accounted, NoMoreThanAsked
    <3> QED BY <2>2, <3>1, <3>2, <3>3
  <2>5. Store!Store(S) BY <1>1, <2>3, <2>4 DEF Store!Store, LogicalCopies
  <2> QED BY <2>5 DEF Store!StoreNext
<1> QED BY <1>12, <1>13, <1>14, <1>15 DEF CopyStep, Accounted

LEMMA WriteFailsCounts ==
    ASSUME CopyInv, NEW w \in Writers, WriteFails(w)
    PROVE  CopyStep
<1> PICK h \in files : h.name = writing[w] /\ h.kind = "part" /\ ~h.complete
  BY DEF WriteFails, CopyInv, IInv, OneOwner
<1>1. /\ names' = names /\ files' = {f \in files : f.name # h.name}
      /\ UNCHANGED <<cpc, unread, victims, merged, issued>>
  BY DEF WriteFails, compacting
<1>2. files' = files \ {h} BY <1>1, FileRemoved DEF CopyInv, IInv
<1>3. Superseded' = Superseded BY <1>1 DEF Superseded
<1>4. \A c \in Compactors : h.name \notin victims[c] \ unread[c] BY UnfinishedIsUnread
<1>5. LogicalFiles' = LogicalFiles BY <1>2, <1>3 DEF LogicalFiles
<1>6. LogicalCopies' = LogicalCopies BY <1>5 DEF LogicalCopies, Total, Copies
<1>7. NoMoreThanAsked'
  <2>1. Live' \subseteq Live /\ Live \in SUBSET files BY <1>2, <1>3 DEF Live
  <2>2. Live \in SUBSET File /\ IsFiniteSet(Live) /\ Total(Live) \in Content BY <2>1, FileSets
  <2>3. \A r \in Rows : Total(Live')[r] <= Total(Live)[r] BY <2>1, <2>2, TotalGrows
  <2>4. Live' \in SUBSET files BY <2>1
  <2>5. Total(Live') \in Content BY <2>4, FileSets
  <2>6. \A r \in Rows : Total(Live')[r] <= issued[r]
    BY <2>2, <2>3, <2>5 DEF Content, CopyInv, IInv, TypeOK, Accounted, NoMoreThanAsked
  <2> QED BY <1>1, <2>6 DEF NoMoreThanAsked, Total, Copies
<1>8. MergesWhatItRead'
  <2>1. \A c \in Compactors : ReadBy(c)' = ReadBy(c) BY <1>1, <1>2, <1>4 DEF ReadBy
  <2>2. \A c \in Compactors : Total(ReadBy(c))' = Total(ReadBy(c)) BY <2>1 DEF Total, Copies
  <2> QED BY <1>1, <1>2, <1>4, <2>2 DEF CopyInv, Accounted, MergesWhatItRead, Merges
<1>9. IsFiniteSet(files') /\ Alone' /\ PartsAreBatches'
  <2>1. IsFiniteSet(files') BY <1>2, FS_Subset DEF CopyInv, Accounted
  <2> QED BY <1>1, <1>2, <2>1 DEF CopyInv, Accounted, PartsAreBatches, Alone
<1> QED BY <1>1, <1>6, <1>7, <1>8, <1>9 DEF CopyStep, Accounted
-----------------------------------------------------------------------------
(* The steps of the compactor                                              *)

LEMMA ListPartsCounts ==
    ASSUME CopyInv, NEW c \in Compactors, ListParts(c), ~tangled'
    PROVE  CopyStep
<1>0. Others(c) BY OthersAreIdle DEF CompactStep
<1>1. /\ cpc[c] = "idle" /\ cpc'[c] = "reading" /\ unread'[c] = victims'[c]
      /\ UNCHANGED <<files, merged, issued>>
  BY DEF ListParts, accidents, CopyInv, IInv, TypeOK
<1>2. Superseded = {} /\ Superseded' = {} BY <1>0, <1>1 DEF Others
<1>3. LogicalCopies' = LogicalCopies BY <1>1, <1>2 DEF LogicalCopies, LogicalFiles, Total, Copies
<1>4. NoMoreThanAsked' BY <1>1, <1>2 DEF CopyInv, Accounted, NoMoreThanAsked, Live, Total, Copies
<1>5. MergesWhatItRead'
  <2>1. \A d \in Compactors \ {c} : Merges(d)' BY <1>0 DEF Others
  <2>2. ReadBy(c)' = {} BY <1>1 DEF ReadBy
  <2>3. Total(ReadBy(c))' = Nothing
    <3>1. Total(ReadBy(c))' = Total(ReadBy(c)') BY DEF Total, Copies
    <3> QED BY <2>2, <3>1, TotalNone
  <2>4. merged'[c] = Nothing BY <1>1 DEF CopyInv, Accounted, MergesWhatItRead, Merges
  <2>5. victims'[c] \ unread'[c] = {} BY <1>1
  <2>9. Merges(c)' BY <1>1, <2>3, <2>4, <2>5 DEF Merges
  <2> QED BY <2>1, <2>9 DEF MergesWhatItRead
<1>6. IsFiniteSet(files)' /\ PartsAreBatches'
  BY <1>1 DEF CopyInv, Accounted, PartsAreBatches
<1> QED BY <1>0, <1>1, <1>3, <1>4, <1>5, <1>6 DEF CopyStep, Accounted, Others

LEMMA ReadPartCounts ==
    ASSUME CopyInv, NEW c \in Compactors, ReadPart(c), ~tangled'
    PROVE  CopyStep
<1>0. Others(c) BY OthersAreIdle DEF CompactStep
<1> PICK h \in files : /\ h.name \in unread[c] /\ h.complete
                       /\ merged' = [merged EXCEPT ![c] = Plus(merged[c], h.rows)]
                       /\ unread' = [unread EXCEPT ![c] = unread[c] \ {h.name}]
  BY DEF ReadPart
<1>1. /\ cpc[c] = "reading"
      /\ UNCHANGED <<files, cpc, victims, issued>>
      /\ merged'[c] = Plus(merged[c], h.rows) /\ unread'[c] = unread[c] \ {h.name}
  BY DEF ReadPart, accidents, CopyInv, IInv, TypeOK
<1>2. Superseded' = Superseded BY <1>1 DEF Superseded
<1>3. LogicalCopies' = LogicalCopies BY <1>1, <1>2 DEF LogicalCopies, LogicalFiles, Total, Copies
<1>4. NoMoreThanAsked' BY <1>1, <1>2 DEF CopyInv, Accounted, NoMoreThanAsked, Live, Total, Copies
<1>5. MergesWhatItRead'
  <2>1. \A d \in Compactors \ {c} : Merges(d)' BY <1>0 DEF Others
  <2>2. h.name \in victims[c] /\ merged[c] = Total(ReadBy(c))
    BY <1>1 DEF CopyInv, Accounted, MergesWhatItRead, Merges
  <2>3. \A f \in files : f.name = h.name => f = h BY DEF CopyInv, IInv, DistinctNames
  <2>4. ReadBy(c)' = ReadBy(c) \cup {h} BY <1>1, <2>2, <2>3 DEF ReadBy
  <2>5. Total(ReadBy(c) \cup {h}) = Plus(Total(ReadBy(c)), h.rows)
    <3>1. ReadBy(c) \in SUBSET files /\ {h} \in SUBSET files BY DEF ReadBy
    <3>2. /\ ReadBy(c) \in SUBSET File /\ IsFiniteSet(ReadBy(c))
          /\ {h} \in SUBSET File /\ IsFiniteSet({h})
      BY <3>1, FileSets
    <3>3. \A f \in ReadBy(c), e \in {h} : f.name # e.name BY DEF ReadBy
    <3>4. Total(ReadBy(c) \cup {h}) = Plus(Total(ReadBy(c)), Total({h}))
      BY <3>2, <3>3, TotalUnion
    <3> QED BY <3>2, <3>4, TotalOne
  <2>6. Total(ReadBy(c))' = merged'[c]
    <3>1. Total(ReadBy(c))' = Total(ReadBy(c)') BY DEF Total, Copies
    <3> QED BY <1>1, <2>2, <2>4, <2>5, <3>1
  <2>7. \A n \in victims'[c] \ unread'[c] : \E f \in files' : f.name = n
    BY <1>1 DEF CopyInv, Accounted, MergesWhatItRead, Merges
  <2>8. unread'[c] \subseteq victims'[c] BY <1>1 DEF CopyInv, Accounted, MergesWhatItRead, Merges
  <2>9. Merges(c)' BY <1>1, <2>6, <2>7, <2>8 DEF Merges
  <2> QED BY <2>1, <2>9 DEF MergesWhatItRead
<1>6. IsFiniteSet(files)' /\ PartsAreBatches'
  BY <1>1 DEF CopyInv, Accounted, PartsAreBatches
<1> QED BY <1>0, <1>1, <1>3, <1>4, <1>5, <1>6 DEF CopyStep, Accounted, Others

LEMMA BeginMergedCounts ==
    ASSUME CopyInv, NEW c \in Compactors, BeginMerged(c), ~tangled'
    PROVE  CopyStep
<1>0. Others(c) BY OthersAreIdle DEF CompactStep
<1> DEFINE g == NewFile("compacted", merged[c])
<1>1. g.name = names + 1 /\ g.kind = "compacted" /\ g.complete = FALSE BY DEF NewFile
<1>2. /\ cpc[c] = "reading" /\ unread[c] = {} /\ cpc'[c] = "writing"
      /\ UNCHANGED <<unread, victims, merged, issued>>
  BY DEF BeginMerged, accidents, CopyInv, IInv, TypeOK
<1>3. files' = files \cup {g} BY DEF BeginMerged
<1> HIDE DEF g
<1>4. Superseded = {} /\ Superseded' = {} BY <1>0, <1>2 DEF Others
<1>5. LogicalFiles' = LogicalFiles /\ Live' = Live BY <1>1, <1>3, <1>4 DEF LogicalFiles, Live
<1>6. LogicalCopies' = LogicalCopies BY <1>5 DEF LogicalCopies, Total, Copies
<1>7. NoMoreThanAsked' BY <1>2, <1>5 DEF CopyInv, Accounted, NoMoreThanAsked, Total, Copies
<1>8. MergesWhatItRead'
  <2>1. \A d \in Compactors \ {c} : Merges(d)' BY <1>0 DEF Others
  <2>2. ReadBy(c)' = ReadBy(c) BY <1>1, <1>2, <1>3, FreshIsNoVictim DEF ReadBy
  <2>3. Total(ReadBy(c))' = Total(ReadBy(c)) BY <2>2 DEF Total, Copies
  <2>9. Merges(c)' BY <1>2, <1>3, <2>3 DEF CopyInv, Accounted, MergesWhatItRead, Merges
  <2> QED BY <2>1, <2>9 DEF MergesWhatItRead
<1>9. IsFiniteSet(files') /\ PartsAreBatches'
  <2>1. IsFiniteSet(files') BY <1>3, FS_AddElement DEF CopyInv, Accounted
  <2> QED BY <1>1, <1>2, <1>3, <2>1 DEF CopyInv, Accounted, PartsAreBatches
<1> QED BY <1>0, <1>2, <1>6, <1>7, <1>8, <1>9 DEF CopyStep, Accounted, Others

\* The heart of the argument: in one step the merged file counts, and the parts
\* whose copies it holds no longer do.
LEMMA EndMergedCounts ==
    ASSUME CopyInv, NEW c \in Compactors, EndMerged(c), ~tangled'
    PROVE  CopyStep
<1>0. Others(c) BY OthersAreIdle DEF CompactStep
<1> PICK h \in files : /\ h.name = output[c] /\ h.kind = "compacted" /\ h.rows = merged[c]
                       /\ ~h.complete
  BY DEF EndMerged, CopyInv, IInv, OneOwner
<1> DEFINE g == [h EXCEPT !.complete = TRUE]
           V == ReadBy(c)
<1>1. /\ cpc[c] = "writing" /\ cpc'[c] = "unlinking" /\ files' = Completed(h.name)
      /\ UNCHANGED <<names, unread, victims, merged, issued>>
  BY DEF EndMerged, accidents, CopyInv, IInv, TypeOK
<1>2. files' = (files \ {h}) \cup {g} BY <1>1, FileCompleted DEF CopyInv, IInv
<1>3. /\ g \in File /\ g.name = h.name /\ g.kind = "compacted" /\ g.rows = merged[c] /\ g.complete
      /\ h \in File
  BY DEF File, CopyInv, IInv, TypeOK
<1> HIDE DEF g
<1>4. Superseded = {} /\ Superseded' = victims[c] BY <1>0, <1>1 DEF Others
<1>5. unread[c] = {} /\ merged[c] = Total(V) /\ \A n \in victims[c] : \E f \in files : f.name = n
  BY <1>1 DEF CopyInv, Accounted, MergesWhatItRead, Merges
<1>6. V = {f \in files : f.name \in victims[c]} BY <1>5 DEF ReadBy
<1>7. \A f \in V : f.kind = "part" /\ f.complete BY <1>1, <1>6 DEF CopyInv, IInv, VictimsMerged
<1>8. h.name \notin victims[c] BY <1>1 DEF CopyInv, IInv, VictimsMerged
<1> HIDE DEF V
<1>9. /\ V \in SUBSET LogicalFiles /\ V \in SUBSET Live /\ h \notin Live /\ h \notin LogicalFiles
  BY <1>4, <1>6, <1>7 DEF LogicalFiles, Live
<1>10. LogicalFiles' = (LogicalFiles \ V) \cup {g} /\ Live' = (Live \ V) \cup {g}
  BY <1>2, <1>3, <1>4, <1>6, <1>8 DEF LogicalFiles, Live
<1>11. ASSUME NEW S \in SUBSET files, V \in SUBSET S, h \notin S
       PROVE  Total((S \ V) \cup {g}) = Total(S)
  <2>1. S \in SUBSET File /\ IsFiniteSet(S) BY FileSets
  <2>2. \A f, e \in S : f.name = e.name => f = e BY DEF CopyInv, IInv, DistinctNames
  <2>3. \A f \in S \ V : f.name # g.name
    BY <1>3, <1>11 DEF CopyInv, IInv, DistinctNames
  <2>4. g.rows = Total(V) BY <1>3, <1>5
  <2> QED BY <1>3, <1>11, <2>1, <2>2, <2>3, <2>4, TotalReplaced
<1>12. LogicalFiles \in SUBSET files /\ Live \in SUBSET files BY DEF LogicalFiles, Live
<1>13. Total(LogicalFiles') = Total(LogicalFiles) /\ Total(Live') = Total(Live)
  BY <1>9, <1>10, <1>11, <1>12
<1>14. LogicalCopies' = LogicalCopies
  <2>1. LogicalCopies' = Total(LogicalFiles') BY DEF LogicalCopies, Total, Copies
  <2> QED BY <1>13, <2>1 DEF LogicalCopies
<1>15. NoMoreThanAsked'
  BY <1>1, <1>13 DEF CopyInv, Accounted, NoMoreThanAsked, Total, Copies
<1>16. MergesWhatItRead'
  <2>1. \A d \in Compactors \ {c} : Merges(d)' BY <1>0 DEF Others
  <2>2. \A n \in victims'[c] : \E f \in files' : f.name = n BY <1>1, <1>2, <1>5, <1>8
  <2>9. Merges(c)' BY <1>1, <1>5, <2>2 DEF Merges
  <2> QED BY <2>1, <2>9 DEF MergesWhatItRead
<1>17. IsFiniteSet(files') /\ PartsAreBatches'
  <2>1. IsFiniteSet(files \ {h}) BY FS_Subset DEF CopyInv, Accounted
  <2>2. IsFiniteSet(files') BY <1>2, <2>1, FS_AddElement
  <2> QED BY <1>1, <1>2, <1>3, <2>2 DEF CopyInv, Accounted, PartsAreBatches
<1> QED BY <1>0, <1>1, <1>14, <1>15, <1>16, <1>17 DEF CopyStep, Accounted, Others

LEMMA MergedFailsCounts ==
    ASSUME CopyInv, NEW c \in Compactors, MergedFails(c), ~tangled'
    PROVE  CopyStep
<1>0. Others(c) BY OthersAreIdle DEF CompactStep
<1> PICK h \in files : h.name = output[c] /\ h.kind = "compacted" /\ ~h.complete
  BY DEF MergedFails, CopyInv, IInv, OneOwner
<1>1. /\ cpc[c] = "writing" /\ files' = {f \in files : f.name # h.name}
      /\ UNCHANGED <<names, issued>>
      /\ cpc'[c] = "idle" /\ unread'[c] = {} /\ victims'[c] = {} /\ merged'[c] = Nothing
  BY DEF MergedFails, Rest, CopyInv, IInv, TypeOK
<1>2. files' = files \ {h} BY <1>1, FileRemoved DEF CopyInv, IInv
<1>3. Superseded = {} /\ Superseded' = {} BY <1>0, <1>1 DEF Others
<1>4. LogicalFiles' = LogicalFiles /\ Live' = Live BY <1>2, <1>3 DEF LogicalFiles, Live
<1>5. LogicalCopies' = LogicalCopies BY <1>4 DEF LogicalCopies, Total, Copies
<1>6. NoMoreThanAsked' BY <1>1, <1>4 DEF CopyInv, Accounted, NoMoreThanAsked, Total, Copies
<1>7. MergesWhatItRead'
  <2>1. \A d \in Compactors \ {c} : Merges(d)' BY <1>0 DEF Others
  <2>9. Merges(c)' BY <1>1 DEF Merges
  <2> QED BY <2>1, <2>9 DEF MergesWhatItRead
<1>8. IsFiniteSet(files') /\ PartsAreBatches'
  <2>1. IsFiniteSet(files') BY <1>2, FS_Subset DEF CopyInv, Accounted
  <2> QED BY <1>1, <1>2, <2>1 DEF CopyInv, Accounted, PartsAreBatches
<1> QED BY <1>0, <1>1, <1>5, <1>6, <1>7, <1>8 DEF CopyStep, Accounted, Others

LEMMA UnlinkCounts ==
    ASSUME CopyInv, NEW c \in Compactors, Unlink(c), ~tangled'
    PROVE  CopyStep
<1>0. Others(c) BY OthersAreIdle DEF CompactStep
<1> PICK h \in files : /\ h.name \in victims[c] /\ files' = files \ {h}
                       /\ victims' = [victims EXCEPT ![c] = victims[c] \ {h.name}]
  BY DEF Unlink
<1>1. /\ cpc[c] = "unlinking" /\ UNCHANGED <<cpc, unread, merged, issued>>
      /\ victims'[c] = victims[c] \ {h.name}
  BY DEF Unlink, accidents, CopyInv, IInv, TypeOK
<1>2. Superseded = victims[c] /\ Superseded' = victims[c] \ {h.name} BY <1>0, <1>1 DEF Others
<1>3. \A f \in files : f.name = h.name => f = h BY DEF CopyInv, IInv, DistinctNames
<1>4. LogicalFiles' = LogicalFiles /\ Live' = Live BY <1>2, <1>3 DEF LogicalFiles, Live
<1>5. LogicalCopies' = LogicalCopies BY <1>4 DEF LogicalCopies, Total, Copies
<1>6. NoMoreThanAsked' BY <1>1, <1>4 DEF CopyInv, Accounted, NoMoreThanAsked, Total, Copies
<1>7. MergesWhatItRead'
  <2>1. \A d \in Compactors \ {c} : Merges(d)' BY <1>0 DEF Others
  <2>2. unread[c] = {} /\ \A n \in victims[c] : \E f \in files : f.name = n
    BY <1>1 DEF CopyInv, Accounted, MergesWhatItRead, Merges
  <2>3. \A n \in victims'[c] : \E f \in files' : f.name = n BY <1>1, <2>2
  <2>9. Merges(c)' BY <1>1, <2>2, <2>3 DEF Merges
  <2> QED BY <2>1, <2>9 DEF MergesWhatItRead
<1>8. IsFiniteSet(files') /\ PartsAreBatches'
  <2>1. IsFiniteSet(files') BY FS_Subset DEF CopyInv, Accounted
  <2> QED BY <1>1, <2>1 DEF CopyInv, Accounted, PartsAreBatches
<1> QED BY <1>0, <1>1, <1>5, <1>6, <1>7, <1>8 DEF CopyStep, Accounted, Others

-----------------------------------------------------------------------------
(* Every step maps to a step of the store, or to none.                     *)

LEMMA InitCopies == Init => CopyInv /\ Store!StoreInit
<1> SUFFICES ASSUME Init PROVE Accounted /\ Store!StoreInit
  BY InitIInv DEF CopyInv
<1>1. files = {} /\ issued = Nothing /\ Alone BY DEF Init, Alone
<1>2. IsFiniteSet(files) BY <1>1, FS_EmptySet
<1>3. Live = {} /\ LogicalFiles = {} BY <1>1 DEF Live, LogicalFiles
<1>4. NoMoreThanAsked
  <2>1. Total(Live) = Nothing BY <1>3, TotalNone
  <2> QED BY <1>1, <2>1 DEF NoMoreThanAsked, Nothing
<1>5. PartsAreBatches /\ MergesWhatItRead
  BY <1>1 DEF Init, PartsAreBatches, MergesWhatItRead, Merges
<1>6. Store!StoreInit
  <2>1. LogicalCopies = Nothing BY <1>3, TotalNone DEF LogicalCopies
  <2> QED BY <1>1, <2>1 DEF Store!StoreInit, Nothing
<1> QED BY <1>1, <1>2, <1>4, <1>5, <1>6 DEF Accounted

\* Kills of compactors, and their overlaps, are what tangles.
LEMMA TangledStays ==
    ASSUME [Next]_vars, ~tangled'
    PROVE  ~tangled /\ \A c \in Compactors : ~CrashCompactor(c)
<1>1. ASSUME NEW w \in Writers, WriterStep(w) PROVE tangled => tangled'
  BY <1>1 DEF WriterStep, BeginWrite, EndWrite, WriteFails, CrashWriter, accidents
<1>2. ASSUME NEW c \in Compactors, CompactStep(c) PROVE tangled => tangled'
  BY <1>2 DEF CompactStep, ListParts, ReadPart, ReadRaises, BeginMerged, EndMerged, MergedFails,
              Unlink, UnlinkRaises, CompactEnds, accidents
<1>3. ASSUME NEW c \in Compactors, CrashCompactor(c) PROVE FALSE
  BY <1>3 DEF CrashCompactor
<1>4. ASSUME NEW q \in Queries, QueryStep(q) PROVE tangled => tangled'
  BY <1>4 DEF QueryStep, ListFiles, OpenFile, OpenRaises, AllOpened, Return, accidents
<1>5. ASSUME UNCHANGED vars PROVE tangled => tangled'
  BY <1>5 DEF vars, accidents
<1>6. ASSUME NEW c \in Compactors, CrashCompactor(c) PROVE tangled => tangled'
  BY <1>3, <1>6
<1>7. tangled => tangled'
  BY <1>1, <1>2, <1>4, <1>5, <1>6, Zenon DEF Next
<1> QED BY <1>3, <1>7, Zenon

LEMMA StepCopies ==
    ASSUME CopyInv, [Next]_vars, ~tangled'
    PROVE  CopyInv' /\ [Store!StoreNext]_<<issued, LogicalCopies>>
<1>1. ASSUME NEW w \in Writers, WriterStep(w) PROVE CopyStep
  <2>1. CASE CrashWriter(w)
    BY <2>1, NothingCounts DEF CrashWriter
  <2> QED BY <1>1, <2>1, BeginWriteCounts, EndWriteCounts, WriteFailsCounts DEF WriterStep
<1>2. ASSUME NEW c \in Compactors, CompactStep(c) PROVE CopyStep
  <2>0. Others(c) BY <1>2, OthersAreIdle
  <2>1. CASE ReadRaises(c)
    <3>1. Superseded = {} BY <2>0, <2>1 DEF ReadRaises, Others
    <3> QED BY <1>2, <2>1, <3>1, RestCounts DEF ReadRaises
  <2>2. CASE UnlinkRaises(c)
    BY <2>2 DEF UnlinkRaises, CopyInv, Accounted, MergesWhatItRead, Merges
  <2>3. CASE CompactEnds(c)
    <3>1. Superseded = {} BY <2>0, <2>3 DEF CompactEnds, Others
    <3> QED BY <1>2, <2>3, <3>1, RestCounts DEF CompactEnds
  <2> QED BY <1>2, <2>1, <2>2, <2>3, ListPartsCounts, ReadPartCounts, BeginMergedCounts,
             EndMergedCounts, MergedFailsCounts, UnlinkCounts DEF CompactStep
<1>3. ASSUME NEW q \in Queries, QueryStep(q) PROVE CopyStep
  BY <1>3, NothingCounts DEF QueryStep, ListFiles, OpenFile, OpenRaises, AllOpened, Return
<1>4. ASSUME UNCHANGED vars PROVE CopyStep
  <2>1. UNCHANGED <<files, issued>> /\ UNCHANGED compacting BY <1>4 DEF vars
  <2> QED BY <2>1, NothingCounts
<1>5. ASSUME Next PROVE CopyStep
  BY <1>1, <1>2, <1>3, <1>5, TangledStays, Zenon DEF Next
<1>6. CopyStep BY <1>4, <1>5
<1> QED BY <1>6, IInvStep DEF CopyInv, CopyStep

\* Until two compactions overlap or one is killed: for whoever leaves out the parts
\* that a complete merged file supersedes, nothing but a completed write changes how
\* many copies of a row there are, and no write adds a copy that was not asked for
\* (compact.py:16-41, parquet.py:156-209).
THEOREM MergingIsInvisible == Spec => ImplementsCopyStore
<1> DEFINE Inv == IInv /\ (~tangled => Accounted)
<1>1. Init => Inv /\ Store!StoreInit
  BY InitCopies DEF CopyInv
<1>2. Inv /\ [Next]_vars => Inv'
  BY IInvStep, StepCopies, TangledStays DEF CopyInv
<1>3. Inv /\ [Next]_vars => (~tangled' => [Store!StoreNext]_<<issued, LogicalCopies>>)
  BY StepCopies, TangledStays DEF CopyInv
<1> QED BY <1>1, <1>2, <1>3, PTL DEF Spec, ImplementsCopyStore
=============================================================================
