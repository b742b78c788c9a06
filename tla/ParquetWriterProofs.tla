------------------------ MODULE ParquetWriterProofs ------------------------
(***************************************************************************)
(* Theorems about ParquetWriter, for any rows, callers, thresholds and     *)
(* number of crashes.                                                      *)
(*                                                                         *)
(* How far a buffer outgrows its size is the number of callers that have   *)
(* filed a row under its key and have not yet flushed it. A drain leaves   *)
(* no row that was there when it began: the keys it has not come to yet    *)
(* are in its list, and the rows it popped are in its hands.               *)
(***************************************************************************)
EXTENDS ParquetWriter, FiniteSetTheorems, TLAPS

\* A part being written is in the directory, incomplete, with exactly the rows
\* its caller holds; no other part has its name.
PartsBeingWritten ==
    /\ \A p \in parts : p.name \in 1 .. names
    /\ \A p, q \in parts : p.name = q.name => p = q
    /\ \A c \in Callers : out[c] # 0 =>
        /\ held[c] # {}
        /\ \E p \in parts : p.name = out[c] /\ p.rows = held[c] /\ ~p.complete
    /\ \A c, d \in Callers : c # d /\ out[c] # 0 => out[c] # out[d]

\* The rows of one batch were filed under one key.
BatchesOfOneKey ==
    \A c \in Callers : \A r, s \in held[c] : KeyOf(r) = KeyOf(s)

IInv ==
    /\ TypeOK
    /\ RowsInOnePlace
    /\ PartsInTheirPartition
    /\ PartsBeingWritten
    /\ BatchesOfOneKey

-----------------------------------------------------------------------------
(* Facts about the constants                                               *)

LEMMA ConstantFacts ==
    /\ \A r \in Rows : KeyOf(r) \in Keys /\ DateOf(r) \in Nat /\ StreamOf[r] \in Streams
    /\ \A r, s \in Rows : KeyOf(r) = KeyOf(s) => StreamOf[r] = StreamOf[s] /\ DateOf(r) = DateOf(s)
    /\ Flusher \in Callers
    /\ Workers \subseteq Callers
<1>1. \A r \in Rows : DateOf(r) \in Nat
  BY WriterAssumption DEF DateOf
<1> QED BY <1>1, WriterAssumption DEF KeyOf, Keys, DateOf, Callers

LEMMA InitIInv == Init => IInv
<1> SUFFICES ASSUME Init PROVE IInv
  OBVIOUS
<1> USE ConstantFacts, WriterAssumption DEF Init
<1>1. TypeOK
  <2>1. /\ buf \in [Keys -> SUBSET Rows] /\ age \in [Keys -> 0 .. BatchSeconds + 1]
        /\ todo \in [Callers -> SUBSET Keys] /\ held \in [Callers -> SUBSET Rows]
        /\ out \in [Callers -> Nat]
    OBVIOUS
  <2>2. parts \in SUBSET Part /\ names \in Nat /\ timer \in 0 .. BatchSeconds
        /\ crashes \in 0 .. MaxCrashes
    OBVIOUS
  <2> QED BY <2>1, <2>2 DEF TypeOK
<1>2. Buffered = {} /\ InHand = {} /\ Durable = {}
  BY DEF Buffered, InHand, Durable
<1>3. RowsInOnePlace
  BY <1>2 DEF RowsInOnePlace, InMemory
<1>4. PartsInTheirPartition /\ PartsBeingWritten /\ BatchesOfOneKey
  BY DEF PartsInTheirPartition, PartsBeingWritten, BatchesOfOneKey
<1> QED
  BY <1>1, <1>3, <1>4 DEF IInv

-----------------------------------------------------------------------------
(* Type correctness                                                        *)

LEMMA TypeStep == TypeOK /\ [Next]_vars => TypeOK'
<1> SUFFICES ASSUME TypeOK, [Next]_vars PROVE TypeOK'
  OBVIOUS
<1> USE ConstantFacts, WriterAssumption DEF TypeOK
<1>1. CASE \E c \in Workers, r \in Rows : FileRow(c, r)
  <2> PICK c \in Workers, r \in Rows : FileRow(c, r) BY <1>1
  <2> QED BY SMTT(30) DEF FileRow, service
<1>2. ASSUME NEW c \in Callers, Pop(c) PROVE TypeOK'
  BY <1>2, SMTT(30) DEF Pop, service, history
<1>3. ASSUME NEW c \in Callers, BeginPart(c) PROVE TypeOK'
  <2> PICK first \in held[c] :
        parts' = parts \cup {[name |-> names + 1, stream |-> StreamOf[first],
                              date |-> DateOf(first), rows |-> held[c], complete |-> FALSE]}
    BY <1>3 DEF BeginPart
  <2>1. first \in Rows OBVIOUS
  <2>2. [name |-> names + 1, stream |-> StreamOf[first], date |-> DateOf(first),
         rows |-> held[c], complete |-> FALSE] \in Part
    BY <2>1 DEF Part
  <2>3. parts' \in SUBSET Part
    BY <2>2
  <2> QED BY <1>3, <2>3 DEF BeginPart, service, history
<1>4. ASSUME NEW c \in Callers, EndPart(c) PROVE TypeOK'
  <2>1. parts' \in SUBSET Part
    <3> SUFFICES ASSUME NEW p \in parts
                 PROVE  [p EXCEPT !.complete = TRUE] \in Part
      BY <1>4 DEF EndPart
    <3> QED BY DEF Part
  <2> QED BY <1>4, <2>1 DEF EndPart, service, history
<1>5. ASSUME NEW c \in Callers, WriteFails(c) PROVE TypeOK'
  BY <1>5, SMTT(30) DEF WriteFails, OpenKeys
<1>6. CASE RunStep
  BY <1>6, SMTT(30) DEF RunStep, FlushDue, FlushEnds, Drain, DrainEnds, memory, history, OpenKeys
<1>7. CASE Stop
  BY <1>7 DEF Stop, memory, history
<1>8. CASE Tick
  <2>1. age' \in [Keys -> 0 .. BatchSeconds + 1]
    BY <1>8 DEF Tick
  <2>2. timer' \in 0 .. BatchSeconds
    BY <1>8 DEF Tick
  <2> QED BY <1>8, <2>1, <2>2 DEF Tick, history
<1>9. CASE Crash
  <2>1. InMemory \subseteq Rows
    BY DEF InMemory, Buffered, InHand
  <2>2. crashes' \in 0 .. MaxCrashes
    BY <1>9 DEF Crash
  <2>3. timer' \in 0 .. BatchSeconds /\ age' \in [Keys -> 0 .. BatchSeconds + 1]
    BY <1>9 DEF Crash
  <2>4. lost' \in SUBSET Rows
    BY <1>9, <2>1 DEF Crash
  <2> QED BY <1>9, <2>2, <2>3, <2>4 DEF Crash
<1>10. CASE UNCHANGED vars
  BY <1>10 DEF vars, memory, service, history
<1> QED
  BY <1>1, <1>2, <1>3, <1>4, <1>5, <1>6, <1>7, <1>8, <1>9, <1>10 DEF Next, FlushStep

\* The state of the writer, its history and its files keep their types.
THEOREM TypeCorrect == Spec => []TypeOK
<1>1. Init => TypeOK BY InitIInv DEF IInv
<1> QED BY <1>1, TypeStep, PTL DEF Spec

-----------------------------------------------------------------------------
(* How each step moves rows between the places a row can be                *)

LEMMA FileRowMoves ==
    ASSUME TypeOK, NEW c \in Workers, NEW r \in Rows, FileRow(c, r)
    PROVE  /\ Buffered' = Buffered \cup {r}
           /\ InHand' = InHand
           /\ Durable' = Durable
<1>1. buf' = [buf EXCEPT ![KeyOf(r)] = buf[KeyOf(r)] \cup {r}]
  BY DEF FileRow
<1> QED
  BY <1>1, ConstantFacts DEF FileRow, TypeOK, Buffered, InHand, Durable

LEMMA PopMoves ==
    ASSUME TypeOK, RowsInOnePlace, NEW c \in Callers, NEW k \in todo[c],
           held[c] = {},
           held' = [held EXCEPT ![c] = buf[k]],
           buf' = [buf EXCEPT ![k] = {}]
    PROVE  /\ Buffered' = Buffered \ buf[k]
           /\ InHand' = InHand \cup buf[k]
<1>1. k \in Keys
  BY DEF TypeOK
<1>2. \A j \in Keys : j # k => buf[j] \cap buf[k] = {}
  BY <1>1 DEF RowsInOnePlace
<1>3. Buffered' = Buffered \ buf[k]
  BY <1>1, <1>2 DEF TypeOK, Buffered
<1>4. InHand' = InHand \cup buf[k]
  BY DEF TypeOK, InHand
<1> QED BY <1>3, <1>4

LEMMA ReleaseMoves ==
    ASSUME TypeOK, RowsInOnePlace, NEW c \in Callers,
           held' = [held EXCEPT ![c] = {}]
    PROVE  InHand' = InHand \ held[c]
BY DEF TypeOK, RowsInOnePlace, InHand

LEMMA BeginPartMoves ==
    ASSUME TypeOK, NEW c \in Callers, BeginPart(c)
    PROVE  /\ Durable' = Durable
           /\ {p \in parts' : p.complete} = {p \in parts : p.complete}
<1>1. {p \in parts' : p.complete} = {p \in parts : p.complete}
  BY DEF BeginPart
<1> QED BY <1>1 DEF Durable

\* The part a caller completes is the one it began.
LEMMA EndPartMoves ==
    ASSUME IInv, NEW c \in Callers, EndPart(c)
    PROVE  \E q \in parts :
            /\ q.name = out[c] /\ q.rows = held[c] /\ ~q.complete
            /\ parts' = (parts \ {q}) \cup {[q EXCEPT !.complete = TRUE]}
            /\ Durable' = Durable \cup held[c]
<1> USE DEF IInv, EndPart
<1>1. PICK q \in parts : q.name = out[c] /\ q.rows = held[c] /\ ~q.complete
  BY DEF PartsBeingWritten
<1>2. \A p \in parts : p # q => p.name # out[c]
  BY <1>1 DEF PartsBeingWritten
<1>3. \A p \in parts : p \in Part
  BY DEF TypeOK
<1>6. parts' = (parts \ {q}) \cup {[q EXCEPT !.complete = TRUE]}
  <2>1. \A p \in parts : p # q =>
            (IF p.name = out[c] THEN [p EXCEPT !.complete = TRUE] ELSE p) = p
    BY <1>2
  <2>2. (IF q.name = out[c] THEN [q EXCEPT !.complete = TRUE] ELSE q)
            = [q EXCEPT !.complete = TRUE]
    BY <1>1
  <2> QED BY <2>1, <2>2
<1>7. /\ [q EXCEPT !.complete = TRUE].complete
      /\ [q EXCEPT !.complete = TRUE].rows = held[c]
  BY <1>1, <1>3 DEF Part
<1>8. Durable' = Durable \cup held[c]
  BY <1>1, <1>6, <1>7 DEF Durable
<1> QED BY <1>1, <1>6, <1>8

LEMMA WriteFailsMoves ==
    ASSUME IInv, NEW c \in Callers, WriteFails(c)
    PROVE  /\ {p \in parts' : p.complete} = {p \in parts : p.complete}
           /\ Durable' = Durable
           /\ parts' \subseteq parts
<1> USE DEF IInv
<1>1. \A p \in parts : p.complete /\ out[c] # 0 => p.name # out[c]
  BY DEF PartsBeingWritten
<1>2. {p \in parts' : p.complete} = {p \in parts : p.complete}
  BY <1>1 DEF WriteFails
<1> QED BY <1>2 DEF WriteFails, Durable

-----------------------------------------------------------------------------
(* The inductive invariant                                                 *)

LEMMA FileRowStep ==
    ASSUME IInv, NEW c \in Workers, NEW r \in Rows, FileRow(c, r), TypeOK'
    PROVE  IInv'
<1> USE ConstantFacts DEF IInv
<1>1. Buffered' = Buffered \cup {r} /\ InHand' = InHand /\ Durable' = Durable
  BY FileRowMoves
<1>2. r \notin InMemory \cup Durable \cup lost /\ held' = held /\ parts' = parts
      /\ lost' = lost /\ out' = out /\ names' = names /\ accepted' = accepted \cup {r}
  BY DEF FileRow, RowsInOnePlace
<1>3. \A k \in Keys : \A s \in buf'[k] : KeyOf(s) = k
  BY DEF FileRow, RowsInOnePlace, TypeOK
<1>4. RowsInOnePlace'
  BY <1>1, <1>2, <1>3 DEF RowsInOnePlace, InMemory
<1>5. PartsInTheirPartition' /\ PartsBeingWritten' /\ BatchesOfOneKey'
  BY <1>2 DEF PartsInTheirPartition, PartsBeingWritten, BatchesOfOneKey
<1> QED BY <1>4, <1>5

LEMMA PopStep ==
    ASSUME IInv, NEW c \in Callers, Pop(c), TypeOK'
    PROVE  IInv'
<1> USE DEF IInv
<1>1. PICK k \in todo[c] : /\ held' = [held EXCEPT ![c] = buf[k]]
                           /\ buf' = [buf EXCEPT ![k] = {}]
  BY DEF Pop
<1>2. held[c] = {} /\ k \in Keys
  BY DEF Pop, TypeOK
<1>3. Buffered' = Buffered \ buf[k] /\ InHand' = InHand \cup buf[k]
  BY <1>1, <1>2, PopMoves
<1>4. buf[k] \subseteq Buffered
  BY <1>2 DEF Buffered
<1>5. /\ parts' = parts /\ out' = out /\ names' = names
      /\ accepted' = accepted /\ lost' = lost /\ Durable' = Durable
  BY DEF Pop, history, Durable
<1>6. InMemory' = InMemory
  BY <1>3, <1>4 DEF InMemory
<1>7. \A d \in Callers : held[d] \cap buf[k] = {}
  BY <1>4 DEF RowsInOnePlace, InHand
<1>8. \A d, e \in Callers : d # e => held'[d] \cap held'[e] = {}
  BY <1>1, <1>7 DEF RowsInOnePlace, TypeOK
<1>9. \A j \in Keys : \A s \in buf'[j] : KeyOf(s) = j
  BY <1>1 DEF RowsInOnePlace, TypeOK
<1>10. RowsInOnePlace'
  BY <1>3, <1>4, <1>5, <1>6, <1>8, <1>9 DEF RowsInOnePlace
<1>11. BatchesOfOneKey'
  BY <1>1, <1>2 DEF BatchesOfOneKey, RowsInOnePlace, TypeOK
<1>12. PartsInTheirPartition'
  BY <1>5 DEF PartsInTheirPartition
<1>13. out[c] = 0
  BY <1>2 DEF PartsBeingWritten
<1>14. PartsBeingWritten'
  BY <1>1, <1>5, <1>13 DEF PartsBeingWritten, TypeOK
<1> QED BY <1>10, <1>11, <1>12, <1>14

LEMMA BeginPartStep ==
    ASSUME IInv, NEW c \in Callers, BeginPart(c), TypeOK'
    PROVE  IInv'
<1> USE DEF IInv
<1>1. PICK first \in held[c] :
        parts' = parts \cup {[name |-> names + 1, stream |-> StreamOf[first],
                              date |-> DateOf(first), rows |-> held[c], complete |-> FALSE]}
  BY DEF BeginPart
<1> DEFINE new == [name |-> names + 1, stream |-> StreamOf[first],
                   date |-> DateOf(first), rows |-> held[c], complete |-> FALSE]
<1>2. /\ buf' = buf /\ held' = held /\ accepted' = accepted /\ lost' = lost
      /\ out' = [out EXCEPT ![c] = names + 1] /\ names' = names + 1
      /\ held[c] # {} /\ out[c] = 0
  BY DEF BeginPart, history
<1>3. Buffered' = Buffered /\ InHand' = InHand /\ InMemory' = InMemory /\ Durable' = Durable
      /\ {p \in parts' : p.complete} = {p \in parts : p.complete}
  BY <1>2, BeginPartMoves DEF Buffered, InHand, InMemory
<1>4. RowsInOnePlace'
  <2>1. \A p, q \in parts' : p.complete /\ q.complete /\ p # q => p.rows \cap q.rows = {}
    BY <1>3 DEF RowsInOnePlace
  <2> QED BY <1>2, <1>3, <2>1 DEF RowsInOnePlace
<1>5. PartsInTheirPartition'
  <2>1. \A r \in held[c] : StreamOf[r] = StreamOf[first] /\ DateOf(r) = DateOf(first)
    BY ConstantFacts DEF BatchesOfOneKey, TypeOK
  <2> QED BY <1>1, <2>1 DEF PartsInTheirPartition
<1>6. PartsBeingWritten'
  <2>1. \A p \in parts : p.name \in 1 .. names /\ p.name # names + 1
    BY DEF PartsBeingWritten, TypeOK
  <2>2. \A p \in parts' : p = new \/ p \in parts
    BY <1>1
  <2>3. new.name = names + 1 /\ new.rows = held[c] /\ ~new.complete /\ new \in parts'
    BY <1>1
  <2>4. \A p \in parts' : p.name \in 1 .. names'
    BY <1>2, <2>1, <2>2, <2>3 DEF TypeOK
  <2>5. \A p, q \in parts' : p.name = q.name => p = q
    BY <2>1, <2>2, <2>3 DEF PartsBeingWritten
  <2>6. \A d \in Callers : d # c /\ out[d] # 0 => out[d] # names + 1
    BY <2>1 DEF PartsBeingWritten
  <2>7. \A d, e \in Callers : d # e /\ out'[d] # 0 => out'[d] # out'[e]
    BY <1>2, <2>6 DEF PartsBeingWritten, TypeOK
  <2>8. ASSUME NEW d \in Callers, out'[d] # 0
        PROVE  /\ held'[d] # {}
               /\ \E p \in parts' : p.name = out'[d] /\ p.rows = held'[d] /\ ~p.complete
    <3>1. CASE d = c
      BY <3>1, <1>2, <2>3 DEF TypeOK
    <3>2. CASE d # c
      BY <3>2, <2>8, <1>1, <1>2 DEF PartsBeingWritten, TypeOK
    <3> QED BY <3>1, <3>2
  <2> QED BY <2>4, <2>5, <2>7, <2>8 DEF PartsBeingWritten
<1>7. BatchesOfOneKey'
  BY <1>2 DEF BatchesOfOneKey
<1> QED BY <1>4, <1>5, <1>6, <1>7

LEMMA EndPartStep ==
    ASSUME IInv, NEW c \in Callers, EndPart(c), TypeOK'
    PROVE  IInv'
<1> USE DEF IInv
<1>1. PICK q \in parts :
        /\ q.name = out[c] /\ q.rows = held[c] /\ ~q.complete
        /\ parts' = (parts \ {q}) \cup {[q EXCEPT !.complete = TRUE]}
        /\ Durable' = Durable \cup held[c]
  BY EndPartMoves
<1> DEFINE new == [q EXCEPT !.complete = TRUE]
<1>2. /\ buf' = buf /\ accepted' = accepted /\ lost' = lost /\ names' = names
      /\ held' = [held EXCEPT ![c] = {}] /\ out' = [out EXCEPT ![c] = 0]
      /\ Buffered' = Buffered
  BY DEF EndPart, history, Buffered
<1>3. InHand' = InHand \ held[c] /\ held[c] \subseteq InHand
  BY <1>2, ReleaseMoves DEF InHand
<1>4. q \in Part /\ new \in Part /\ new.name = q.name /\ new.rows = q.rows
      /\ new.stream = q.stream /\ new.date = q.date
  BY DEF TypeOK, Part
<1>5. RowsInOnePlace'
  <2>1. \A p \in parts : p.complete => p.rows \cap held[c] = {}
    BY <1>3 DEF RowsInOnePlace, InMemory, Durable
  <2>2. \A p1, p2 \in parts' : p1.complete /\ p2.complete /\ p1 # p2 => p1.rows \cap p2.rows = {}
    BY <1>1, <1>4, <2>1 DEF RowsInOnePlace
  <2>3. \A d, e \in Callers : d # e => held'[d] \cap held'[e] = {}
    BY <1>2 DEF RowsInOnePlace, TypeOK
  <2> QED BY <1>1, <1>2, <1>3, <2>2, <2>3 DEF RowsInOnePlace, InMemory
<1>6. PartsInTheirPartition'
  BY <1>1, <1>4 DEF PartsInTheirPartition
<1>7. PartsBeingWritten'
  <2>1. \A p \in parts' : p.name \in 1 .. names'
    BY <1>1, <1>2, <1>4 DEF PartsBeingWritten
  <2>2. \A p1, p2 \in parts' : p1.name = p2.name => p1 = p2
    <3>1. \A p \in parts \ {q} : p.name # new.name
      BY <1>4 DEF PartsBeingWritten
    <3>2. \A p1, p2 \in parts : p1.name = p2.name => p1 = p2
      BY DEF PartsBeingWritten
    <3>3. \A p \in parts' : p = new \/ p \in parts \ {q}
      BY <1>1
    <3> HIDE DEF new
    <3> QED BY <3>1, <3>2, <3>3
  <2>3. \A d, e \in Callers : d # e /\ out'[d] # 0 => out'[d] # out'[e]
    BY <1>2 DEF PartsBeingWritten, TypeOK
  <2>4. ASSUME NEW d \in Callers, out'[d] # 0
        PROVE  /\ held'[d] # {}
               /\ \E p \in parts' : p.name = out'[d] /\ p.rows = held'[d] /\ ~p.complete
    <3>1. d # c /\ out'[d] = out[d] /\ held'[d] = held[d] /\ out[d] # out[c]
      BY <1>2, <2>4 DEF PartsBeingWritten, TypeOK, EndPart
    <3>2. PICK p \in parts : p.name = out[d] /\ p.rows = held[d] /\ ~p.complete
      BY <2>4, <3>1 DEF PartsBeingWritten
    <3>3. p \in parts'
      BY <1>1, <3>1, <3>2
    <3> QED BY <2>4, <3>1, <3>2, <3>3 DEF PartsBeingWritten
  <2> QED BY <2>1, <2>2, <2>3, <2>4 DEF PartsBeingWritten
<1>8. BatchesOfOneKey'
  BY <1>2 DEF BatchesOfOneKey, TypeOK
<1> QED BY <1>5, <1>6, <1>7, <1>8

LEMMA WriteFailsStep ==
    ASSUME IInv, NEW c \in Callers, WriteFails(c), TypeOK'
    PROVE  IInv'
<1> USE DEF IInv
<1>1. /\ buf' = buf /\ accepted' = accepted /\ lost' = lost \cup held[c] /\ names' = names
      /\ held' = [held EXCEPT ![c] = {}] /\ out' = [out EXCEPT ![c] = 0]
      /\ Buffered' = Buffered
      /\ parts' = {p \in parts : out[c] = 0 \/ p.name # out[c]}
  BY DEF WriteFails, Buffered
<1>2. InHand' = InHand \ held[c] /\ held[c] \subseteq InHand
  BY <1>1, ReleaseMoves DEF InHand
<1>3. /\ {p \in parts' : p.complete} = {p \in parts : p.complete}
      /\ Durable' = Durable
      /\ parts' \subseteq parts
  BY WriteFailsMoves
<1>4. RowsInOnePlace'
  <2>1. \A p, q \in parts' : p.complete /\ q.complete /\ p # q => p.rows \cap q.rows = {}
    BY <1>3 DEF RowsInOnePlace
  <2>2. \A d, e \in Callers : d # e => held'[d] \cap held'[e] = {}
    BY <1>1 DEF RowsInOnePlace, TypeOK
  <2> QED BY <1>1, <1>2, <1>3, <2>1, <2>2 DEF RowsInOnePlace, InMemory
<1>5. PartsInTheirPartition'
  BY <1>3 DEF PartsInTheirPartition
<1>6. PartsBeingWritten'
  <2>1. ASSUME NEW d \in Callers, out'[d] # 0
        PROVE  /\ held'[d] # {}
               /\ \E p \in parts' : p.name = out'[d] /\ p.rows = held'[d] /\ ~p.complete
    <3>1. d # c /\ out'[d] = out[d] /\ held'[d] = held[d] /\ out[d] # out[c]
      BY <1>1, <2>1 DEF PartsBeingWritten, TypeOK
    <3>2. PICK p \in parts : p.name = out[d] /\ p.rows = held[d] /\ ~p.complete
      BY <2>1, <3>1 DEF PartsBeingWritten
    <3> QED BY <2>1, <1>1, <3>1, <3>2 DEF PartsBeingWritten
  <2>2. \A d, e \in Callers : d # e /\ out'[d] # 0 => out'[d] # out'[e]
    BY <1>1 DEF PartsBeingWritten, TypeOK
  <2>3. /\ \A p \in parts' : p.name \in 1 .. names'
        /\ \A p, q \in parts' : p.name = q.name => p = q
    BY <1>1, <1>3 DEF PartsBeingWritten
  <2> QED BY <2>1, <2>2, <2>3 DEF PartsBeingWritten
<1>7. BatchesOfOneKey'
  BY <1>1 DEF BatchesOfOneKey, TypeOK
<1> QED BY <1>4, <1>5, <1>6, <1>7

LEMMA CrashStep ==
    ASSUME IInv, Crash, TypeOK'
    PROVE  IInv'
<1> USE DEF IInv
<1>1. Buffered' = {} /\ InHand' = {} /\ Durable' = Durable /\ parts' = parts
      /\ lost' = lost \cup InMemory /\ accepted' = accepted /\ names' = names
  BY DEF Crash, Buffered, InHand, Durable
<1>2. RowsInOnePlace'
  BY <1>1 DEF Crash, RowsInOnePlace, InMemory
<1>3. PartsInTheirPartition' /\ PartsBeingWritten' /\ BatchesOfOneKey'
  BY <1>1 DEF Crash, PartsInTheirPartition, PartsBeingWritten, BatchesOfOneKey
<1> QED BY <1>2, <1>3

\* Steps of the flusher, the clock and stop() move no row.
LEMMA QuietStep ==
    ASSUME IInv, TypeOK', UNCHANGED <<buf, held, out, parts, names, accepted, lost>>
    PROVE  IInv'
BY DEF IInv, RowsInOnePlace, PartsInTheirPartition, PartsBeingWritten, BatchesOfOneKey,
       Buffered, InHand, InMemory, Durable

LEMMA IInvStep == IInv /\ [Next]_vars => IInv'
<1> SUFFICES ASSUME IInv, [Next]_vars PROVE IInv'
  OBVIOUS
<1>1. TypeOK'
  BY TypeStep DEF IInv
<1>2. ASSUME NEW c \in Callers, FlushStep(c) PROVE IInv'
  BY <1>1, <1>2, PopStep, BeginPartStep, EndPartStep, WriteFailsStep DEF FlushStep
<1>3. CASE RunStep
  BY <1>1, <1>3, QuietStep DEF RunStep, FlushDue, FlushEnds, Drain, DrainEnds, memory, history
<1>4. CASE Stop
  BY <1>1, <1>4, QuietStep DEF Stop, memory, history
<1>5. CASE Tick
  BY <1>1, <1>5, QuietStep DEF Tick, history
<1>6. CASE UNCHANGED vars
  BY <1>1, <1>6, QuietStep DEF vars, memory, history
<1> QED
  BY <1>1, <1>2, <1>3, <1>4, <1>5, <1>6, FileRowStep, CrashStep DEF Next

LEMMA Invariance == Spec => []IInv
BY InitIInv, IInvStep, PTL DEF Spec

\* However callers interleave, writes fail and the process is killed, a row
\* append() has taken is in one place and never written twice.
THEOREM RowsStayInOnePlace == Spec => []RowsInOnePlace
BY Invariance, PTL DEF IInv

\* Every part holds rows of its own stream and date only.
THEOREM PartsStayInTheirPartition == Spec => []PartsInTheirPartition
BY Invariance, PTL DEF IInv

-----------------------------------------------------------------------------
(* Refinement                                                              *)

LEMMA SinkInitially == Init => Sink!SinkInit
BY DEF Init, Sink!SinkInit, Durable

\* Filing a row accepts it, completing a part persists the rows of the batch,
\* a failed write and a crash give rows up; all other steps stutter.
LEMMA SinkStep ==
    ASSUME IInv, [Next]_vars
    PROVE  Sink!SinkNext \/ UNCHANGED <<accepted, Durable, lost>>
<1> USE DEF IInv
<1>1. InMemory \subseteq Sink!Pending /\ InMemory \subseteq Rows
  BY DEF RowsInOnePlace, Sink!Pending, InMemory, Buffered, InHand, TypeOK
<1>2. \A c \in Callers : held[c] \subseteq InMemory
  BY DEF InMemory, InHand
<1>3. CASE \E c \in Workers, r \in Rows : FileRow(c, r)
  <2> PICK c \in Workers, r \in Rows : FileRow(c, r) BY <1>3
  <2>1. Sink!Accept(r)
    BY FileRowMoves DEF FileRow, Sink!Accept
  <2> QED BY <2>1 DEF Sink!SinkNext
<1>4. ASSUME NEW c \in Callers, Pop(c) \/ BeginPart(c)
      PROVE  UNCHANGED <<accepted, Durable, lost>>
  BY <1>4, BeginPartMoves DEF Pop, BeginPart, history, Durable
<1>5. ASSUME NEW c \in Callers, EndPart(c)
      PROVE  Sink!SinkNext
  <2>1. Sink!Persist(held[c])
    BY <1>1, <1>2, <1>5, EndPartMoves DEF EndPart, history, Sink!Persist
  <2> QED BY <1>1, <1>2, <2>1 DEF Sink!SinkNext
<1>6. ASSUME NEW c \in Callers, WriteFails(c)
      PROVE  Sink!SinkNext
  <2>1. Sink!GiveUp(held[c])
    BY <1>1, <1>2, <1>6, WriteFailsMoves DEF WriteFails, Sink!GiveUp
  <2> QED BY <1>1, <1>2, <2>1 DEF Sink!SinkNext
<1>7. CASE Crash
  <2>1. Sink!GiveUp(InMemory)
    BY <1>1, <1>7 DEF Crash, Durable, Sink!GiveUp
  <2> QED BY <1>1, <2>1 DEF Sink!SinkNext
<1>8. CASE RunStep \/ Stop \/ Tick \/ UNCHANGED vars
  BY <1>8 DEF RunStep, FlushDue, FlushEnds, Drain, DrainEnds, Stop, Tick, vars, memory,
              history, Durable
<1> QED
  BY <1>3, <1>4, <1>5, <1>6, <1>7, <1>8 DEF Next, FlushStep

\* The writer implements RowSink: a row it has taken is persisted or given up,
\* once, and what is on disk stays there.
THEOREM WriterImplementsSink == Spec => ImplementsRowSink
<1>1. Init => Sink!SinkInit
  BY SinkInitially
<1>2. IInv /\ [Next]_vars => [Sink!SinkNext]_(<<accepted, Durable, lost>>)
  BY SinkStep
<1> QED
  BY <1>1, <1>2, Invariance, PTL DEF Spec, ImplementsRowSink, Sink!SinkSpec, Sink!sinkVars
-----------------------------------------------------------------------------
(* What the buffers hold at most                                           *)

\* A worker flushes the one buffer it has filed a row in.
WorkersOneKey ==
    \A c \in Workers : /\ \A j, k \in todo[c] : j = k
                       /\ held[c] # {} => todo[c] = {}

Filers(k) == {c \in Workers : k \in todo[c]}
Busy      == {c \in Workers : todo[c] # {}}

Sized ==
    /\ IsFiniteSet(Busy)
    /\ \A k \in Keys : /\ IsFiniteSet(buf[k])
                       /\ Cardinality(buf[k]) < BatchRows + Cardinality(Filers(k))

\* A buffer that the flusher has not listed was opened since it last did.
Ages ==
    \A k \in Keys : buf[k] # {} =>
        /\ flusher = "waiting" => age[k] <= timer
        /\ flusher = "flushing" /\ k \in todo[Flusher] => age[k] <= BatchSeconds
        /\ flusher = "flushing" /\ k \notin todo[Flusher] => age[k] = 0

\* The final flush has listed every buffer with a row that is not late.
Listed ==
    /\ flusher = "draining" => \A k \in Keys : k \notin todo[Flusher] => buf[k] \subseteq late
    /\ flusher = "done" => \A k \in Keys : buf[k] \subseteq late

BufferInv == WorkersOneKey /\ Sized /\ Ages /\ Listed

LEMMA OneMore ==
    ASSUME NEW S, IsFiniteSet(S), NEW x
    PROVE  /\ IsFiniteSet(S \cup {x}) /\ Cardinality(S) \in Nat /\ Cardinality(S \cup {x}) \in Nat
           /\ Cardinality(S \cup {x}) <= Cardinality(S) + 1
           /\ x \notin S => Cardinality(S \cup {x}) = Cardinality(S) + 1
<1>1. Cardinality(S) \in Nat BY FS_CardinalityType
<1>2. CASE x \in S
  <2>1. S \cup {x} = S BY <1>2
  <2> QED BY <1>1, <1>2, <2>1
<1>3. CASE x \notin S
  <2>1. IsFiniteSet(S \cup {x}) /\ Cardinality(S \cup {x}) = Cardinality(S) + 1
    BY <1>3, FS_AddElement
  <2> QED BY <1>1, <2>1
<1> QED BY <1>2, <1>3

LEMMA FilersFacts ==
    ASSUME IsFiniteSet(Busy), NEW k
    PROVE  IsFiniteSet(Filers(k)) /\ Cardinality(Filers(k)) \in Nat
<1>1. Filers(k) \in SUBSET Busy BY DEF Filers, Busy
<1>2. IsFiniteSet(Filers(k)) BY <1>1, FS_Subset
<1> QED BY <1>2, FS_CardinalityType

LEMMA WriterNumbers ==
    BatchRows \in Nat \ {0} /\ BatchSeconds \in Nat \ {0} /\ Flusher \notin Workers
BY WriterAssumption

LEMMA InitBuffers == Init => BufferInv
<1> SUFFICES ASSUME Init PROVE BufferInv
  OBVIOUS
<1>1. /\ \A k \in Keys : buf[k] = {}
      /\ \A c \in Workers : todo[c] = {} /\ held[c] = {}
      /\ flusher = "waiting"
  BY ConstantFacts DEF Init
<1>2. Busy = {} /\ \A k \in Keys : Filers(k) = {} BY <1>1 DEF Busy, Filers
<1>3. IsFiniteSet({}) /\ Cardinality({}) = 0 BY FS_EmptySet
<1>4. 0 < BatchRows + 0 BY WriterNumbers
<1>5. Sized BY <1>1, <1>2, <1>3, <1>4 DEF Sized
<1>6. WorkersOneKey /\ Ages /\ Listed BY <1>1 DEF WorkersOneKey, Ages, Listed
<1> QED BY <1>5, <1>6 DEF BufferInv

LEMMA FileRowSized ==
    ASSUME TypeOK, Sized, NEW c \in Workers, NEW r \in Rows, FileRow(c, r)
    PROVE  Sized'
<1> DEFINE k == KeyOf(r)
           rows == buf[k] \cup {r}
<1>1. k \in Keys /\ c \in Callers BY ConstantFacts
<1>2. todo[c] = {} /\ buf' = [buf EXCEPT ![k] = rows] BY DEF FileRow, Idle
<1>3. \/ todo' = [todo EXCEPT ![c] = {k}]
      \/ todo' = [todo EXCEPT ![c] = {}] /\ Cardinality(rows) < BatchRows
  <2>1. PICK openFor : todo' = [todo EXCEPT ![c] = IF ShouldFlush(rows, openFor) THEN {k} ELSE {}]
    BY DEF FileRow
  <2>2. CASE ShouldFlush(rows, openFor) BY <2>1, <2>2
  <2>3. CASE ~ShouldFlush(rows, openFor)
    <3>1. ~(Cardinality(rows) >= BatchRows) BY <2>3 DEF ShouldFlush
    <3>2. Cardinality(rows) \in Nat BY <1>1, OneMore DEF Sized
    <3> HIDE DEF rows
    <3>3. Cardinality(rows) < BatchRows BY <3>1, <3>2, WriterNumbers
    <3> QED BY <2>1, <2>3, <3>3
  <2> QED BY <2>2, <2>3
<1> HIDE DEF rows
<1>4. /\ todo'[c] \subseteq {k}
      /\ \A d \in Workers : d # c => todo'[d] = todo[d]
  BY <1>1, <1>3, ConstantFacts DEF TypeOK
<1>5. IsFiniteSet(Busy')
  <2>1. Busy' \in SUBSET (Busy \cup {c}) BY <1>4 DEF Busy
  <2>2. IsFiniteSet(Busy \cup {c}) BY OneMore DEF Sized
  <2> QED BY <2>1, <2>2, FS_Subset
<1>6. ASSUME NEW j \in Keys
      PROVE  IsFiniteSet(buf'[j]) /\ Cardinality(buf'[j]) < BatchRows + Cardinality(Filers(j)')
  <2>1. /\ IsFiniteSet(buf[j]) /\ Cardinality(buf[j]) < BatchRows + Cardinality(Filers(j))
        /\ Cardinality(Filers(j)) \in Nat /\ IsFiniteSet(Filers(j))
    BY FilersFacts DEF Sized
  <2>2. CASE j # k
    <3>1. buf'[j] = buf[j] BY <1>2, <2>2 DEF TypeOK
    <3>2. Filers(j)' = Filers(j) BY <1>2, <1>4, <2>2 DEF Filers
    <3> QED BY <2>1, <3>1, <3>2
  <2>3. CASE j = k
    <3>1. buf'[j] = rows BY <1>1, <1>2, <2>3 DEF TypeOK
    <3>2. /\ IsFiniteSet(rows) /\ Cardinality(buf[k]) \in Nat /\ Cardinality(rows) \in Nat
          /\ Cardinality(rows) <= Cardinality(buf[k]) + 1
      BY <2>1, <2>3, OneMore DEF rows
    <3>3. CASE todo' = [todo EXCEPT ![c] = {k}]
      <4>1. Filers(j)' = Filers(j) \cup {c} /\ c \notin Filers(j)
        BY <1>1, <1>2, <2>3, <3>3 DEF Filers, TypeOK
      <4>2. Cardinality(Filers(j)') = Cardinality(Filers(j)) + 1 BY <2>1, <4>1, OneMore
      <4> HIDE DEF rows
      <4> QED BY <2>1, <2>3, <3>1, <3>2, <4>2, WriterNumbers
    <3>4. CASE todo' = [todo EXCEPT ![c] = {}] /\ Cardinality(rows) < BatchRows
      <4>1. Filers(j)' = Filers(j) BY <1>1, <1>2, <3>4 DEF Filers, TypeOK
      <4> HIDE DEF rows
      <4> QED BY <2>1, <3>1, <3>2, <3>4, <4>1, WriterNumbers
    <3> QED BY <1>3, <3>3, <3>4
  <2> QED BY <2>2, <2>3
<1> QED BY <1>5, <1>6 DEF Sized

LEMMA FileRowBuffers ==
    ASSUME TypeOK, BufferInv, NEW c \in Workers, NEW r \in Rows, FileRow(c, r)
    PROVE  BufferInv'
<1> DEFINE k == KeyOf(r)
<1>1. k \in Keys /\ c \in Callers /\ c # Flusher BY ConstantFacts, WriterNumbers
<1>2. /\ buf' = [buf EXCEPT ![k] = buf[k] \cup {r}]
      /\ age' = [age EXCEPT ![k] = IF buf[k] = {} THEN 0 ELSE age[k]]
      /\ held' = held /\ held[c] = {} /\ UNCHANGED <<flusher, timer>>
      /\ late' = IF FlusherLive THEN late ELSE late \cup {r}
  BY DEF FileRow, Idle, service
<1>3. PICK S \in {{k}, {}} : todo' = [todo EXCEPT ![c] = S] BY DEF FileRow
<1>4. WorkersOneKey' BY <1>2, <1>3, ConstantFacts DEF BufferInv, WorkersOneKey, TypeOK
<1>5. Sized' BY FileRowSized DEF BufferInv
<1>6. todo'[Flusher] = todo[Flusher] BY <1>1, <1>3, ConstantFacts DEF TypeOK
<1>7. Ages'
  <2> SUFFICES ASSUME NEW j \in Keys, buf'[j] # {}
               PROVE  /\ flusher = "waiting" => age'[j] <= timer
                      /\ flusher = "flushing" /\ j \in todo[Flusher] => age'[j] <= BatchSeconds
                      /\ flusher = "flushing" /\ j \notin todo[Flusher] => age'[j] = 0
    BY <1>2, <1>6 DEF Ages
  <2>1. CASE buf[j] # {}
    <3>1. age'[j] = age[j] BY <1>1, <1>2, <2>1 DEF TypeOK
    <3> QED BY <2>1, <3>1 DEF BufferInv, Ages
  <2>2. CASE buf[j] = {}
    <3>1. age'[j] = 0 BY <1>1, <1>2, <2>2 DEF TypeOK
    <3>2. timer \in Nat BY DEF TypeOK
    <3> QED BY <3>1, <3>2, WriterNumbers
  <2> QED BY <2>1, <2>2
<1>8. Listed'
  <2>1. ASSUME flusher \in {"draining", "done"}, NEW j \in Keys, buf[j] \subseteq late
        PROVE  buf'[j] \subseteq late'
    <3>1. late' = late \cup {r} BY <1>2, <2>1 DEF FlusherLive
    <3> QED BY <1>1, <1>2, <2>1, <3>1 DEF TypeOK
  <2> QED BY <1>2, <1>6, <2>1 DEF BufferInv, Listed
<1> QED BY <1>4, <1>5, <1>7, <1>8 DEF BufferInv

\* The steps in which buffers only empty and callers only have less to do.
LEMMA FewerFilers ==
    ASSUME TypeOK, Sized, NEW k \in Keys, NEW c \in Callers,
           todo' = [todo EXCEPT ![c] = @ \ {k}], buf' = [buf EXCEPT ![k] = {}]
    PROVE  Sized'
<1>1. IsFiniteSet(Busy')
  <2>1. Busy' \in SUBSET Busy BY ConstantFacts DEF Busy, TypeOK
  <2> QED BY <2>1, FS_Subset DEF Sized
<1>2. ASSUME NEW j \in Keys
      PROVE  IsFiniteSet(buf'[j]) /\ Cardinality(buf'[j]) < BatchRows + Cardinality(Filers(j)')
  <2>1. CASE j # k
    <3>1. buf'[j] = buf[j] BY <2>1 DEF TypeOK
    <3>2. Filers(j)' = Filers(j) BY <2>1, ConstantFacts DEF Filers, TypeOK
    <3> QED BY <3>1, <3>2 DEF Sized
  <2>2. CASE j = k
    <3>1. buf'[j] = {} BY <2>2 DEF TypeOK
    <3>2. Cardinality(Filers(j)') \in Nat
      <4>1. Filers(j)' \in SUBSET Busy' BY DEF Filers, Busy
      <4>2. IsFiniteSet(Filers(j)') BY <1>1, <4>1, FS_Subset
      <4> QED BY <4>2, FS_CardinalityType
    <3>3. IsFiniteSet({}) /\ Cardinality({}) = 0 BY FS_EmptySet
    <3> QED BY <3>1, <3>2, <3>3, WriterNumbers
  <2> QED BY <2>1, <2>2
<1> QED BY <1>1, <1>2 DEF Sized

LEMMA PopBuffers ==
    ASSUME TypeOK, BufferInv, NEW c \in Callers, Pop(c)
    PROVE  BufferInv'
<1>1. PICK k \in todo[c] : /\ held' = [held EXCEPT ![c] = buf[k]]
                           /\ buf' = [buf EXCEPT ![k] = {}]
                           /\ todo' = [todo EXCEPT ![c] = @ \ {k}]
  BY DEF Pop
<1>2. k \in Keys /\ UNCHANGED <<age, flusher, timer, late>> BY DEF Pop, TypeOK, service, history
<1>3. Sized' BY <1>1, <1>2, FewerFilers DEF BufferInv
<1>4. WorkersOneKey' BY <1>1, ConstantFacts DEF BufferInv, WorkersOneKey, TypeOK
<1>5. /\ \A j \in Keys : buf'[j] = (IF j = k THEN {} ELSE buf[j])
      /\ todo'[Flusher] = IF c = Flusher THEN todo[Flusher] \ {k} ELSE todo[Flusher]
  BY <1>1, <1>2, ConstantFacts DEF TypeOK
<1>6. Ages' BY <1>2, <1>5 DEF BufferInv, Ages
<1>7. Listed' BY <1>2, <1>5 DEF BufferInv, Listed
<1> QED BY <1>3, <1>4, <1>6, <1>7 DEF BufferInv

LEMMA WriteFailsBuffers ==
    ASSUME TypeOK, BufferInv, NEW c \in Callers, WriteFails(c)
    PROVE  BufferInv'
<1> DEFINE again == c = Flusher /\ flusher = "flushing"
<1>1. /\ UNCHANGED <<buf, age, timer>> /\ held[c] # {}
      /\ held' = [held EXCEPT ![c] = {}]
      /\ todo' = [todo EXCEPT ![c] = IF again THEN OpenKeys ELSE {}]
      /\ flusher' = IF c # Flusher THEN flusher ELSE IF again THEN "draining" ELSE "failed"
      /\ late' = IF again THEN {} ELSE late
  BY DEF WriteFails
<1>2. CASE c = Flusher
  <2>1. \A d \in Workers : d \in Callers /\ d # Flusher BY ConstantFacts, WriterNumbers
  <2>2. \A d \in Workers : todo'[d] = todo[d] /\ held'[d] = held[d]
    BY <1>1, <1>2, <2>1 DEF TypeOK
  <2>3. Busy' = Busy /\ \A k \in Keys : Filers(k)' = Filers(k) BY <2>2 DEF Busy, Filers
  <2>4. WorkersOneKey' BY <2>2 DEF BufferInv, WorkersOneKey
  <2>5. Sized' BY <1>1, <2>3 DEF BufferInv, Sized
  <2>6. flusher' \in {"draining", "failed"} BY <1>1, <1>2
  <2>7. Ages' BY <2>6 DEF Ages
  <2>8. flusher' = "draining" => \A k \in Keys : k \notin todo'[Flusher] => buf'[k] = {}
    BY <1>1, <1>2, ConstantFacts DEF OpenKeys, TypeOK
  <2>9. Listed' BY <2>6, <2>8 DEF Listed
  <2> QED BY <2>4, <2>5, <2>7, <2>9 DEF BufferInv
<1>3. CASE c # Flusher
  <2>1. c \in Workers BY <1>3 DEF Callers
  <2>2. todo[c] = {} BY <1>1, <2>1 DEF BufferInv, WorkersOneKey
  <2>3. todo' = todo BY <1>1, <1>3, <2>2 DEF TypeOK
  <2>4. Busy' = Busy /\ \A k \in Keys : Filers(k)' = Filers(k) BY <2>3 DEF Busy, Filers
  <2>5. flusher' = flusher /\ late' = late BY <1>1, <1>3
  <2>6. WorkersOneKey' BY <1>1, <2>3, ConstantFacts DEF BufferInv, WorkersOneKey, TypeOK
  <2>7. Sized' BY <1>1, <2>4 DEF BufferInv, Sized
  <2>8. Ages' /\ Listed' BY <1>1, <2>3, <2>5 DEF BufferInv, Ages, Listed
  <2> QED BY <2>6, <2>7, <2>8 DEF BufferInv
<1> QED BY <1>2, <1>3

LEMMA ListingBuffers ==
    ASSUME TypeOK, BufferInv, FlushDue \/ Drain
    PROVE  BufferInv'
<1>1. /\ UNCHANGED <<buf, age, held, timer>>
      /\ todo' = [todo EXCEPT ![Flusher] = OpenKeys]
  BY DEF FlushDue, Drain
<1>2. \A d \in Workers : d \in Callers /\ d # Flusher BY ConstantFacts, WriterNumbers
<1>3. \A d \in Workers : todo'[d] = todo[d] BY <1>1, <1>2 DEF TypeOK
<1>4. Busy' = Busy /\ \A k \in Keys : Filers(k)' = Filers(k) BY <1>3 DEF Busy, Filers
<1>5. \A k \in Keys : k \in todo'[Flusher] <=> buf[k] # {}
  BY <1>1, ConstantFacts DEF TypeOK, OpenKeys
<1>6. WorkersOneKey' /\ Sized' BY <1>1, <1>3, <1>4 DEF BufferInv, WorkersOneKey, Sized
<1>7. Ages'
  <2>1. CASE FlushDue
    <3>1. flusher = "waiting" /\ flusher' = "flushing" /\ timer = BatchSeconds BY <2>1 DEF FlushDue
    <3> QED BY <1>1, <1>5, <3>1 DEF BufferInv, Ages
  <2>2. CASE Drain
    <3>1. flusher' = "draining" BY <2>2 DEF Drain
    <3> QED BY <3>1 DEF Ages
  <2> QED BY <2>1, <2>2
<1>8. Listed'
  <2>1. flusher' \in {"flushing", "draining"} BY DEF FlushDue, Drain
  <2> QED BY <1>1, <1>5, <2>1 DEF Listed
<1> QED BY <1>6, <1>7, <1>8 DEF BufferInv

LEMMA TickBuffers ==
    ASSUME TypeOK, BufferInv, Tick
    PROVE  BufferInv'
<1>1. /\ UNCHANGED <<buf, todo, held, flusher, late>> /\ flusher # "flushing"
      /\ flusher = "waiting" => timer < BatchSeconds
      /\ age' = [k \in Keys |-> IF age[k] <= BatchSeconds THEN age[k] + 1 ELSE age[k]]
      /\ timer' = IF flusher = "waiting" THEN timer + 1 ELSE timer
  BY DEF Tick, history
<1>2. WorkersOneKey' /\ Listed' BY <1>1 DEF BufferInv, WorkersOneKey, Listed
<1>3. Sized' BY <1>1 DEF BufferInv, Sized, Busy, Filers
<1>4. Ages'
  <2> SUFFICES ASSUME NEW k \in Keys, buf[k] # {}, flusher = "waiting" PROVE age'[k] <= timer'
    BY <1>1 DEF Ages
  <2>1. age[k] <= timer BY DEF BufferInv, Ages
  <2>2. timer \in Nat /\ age[k] \in Nat BY DEF TypeOK
  <2> QED BY <1>1, <2>1, <2>2, WriterNumbers
<1> QED BY <1>2, <1>3, <1>4 DEF BufferInv

LEMMA CrashBuffers ==
    ASSUME Crash
    PROVE  BufferInv'
<1>1. /\ \A k \in Keys : buf'[k] = {}
      /\ \A c \in Workers : todo'[c] = {} /\ held'[c] = {}
      /\ flusher' = "waiting"
  BY ConstantFacts DEF Crash
<1>2. Busy' = {} /\ \A k \in Keys : Filers(k)' = {} BY <1>1 DEF Busy, Filers
<1>3. IsFiniteSet({}) /\ Cardinality({}) = 0 BY FS_EmptySet
<1>4. 0 < BatchRows + 0 BY WriterNumbers
<1>5. Sized' BY <1>1, <1>2, <1>3, <1>4 DEF Sized
<1>6. WorkersOneKey' /\ Ages' /\ Listed' BY <1>1 DEF WorkersOneKey, Ages, Listed
<1> QED BY <1>5, <1>6 DEF BufferInv

LEMMA StepBuffers == TypeOK /\ BufferInv /\ [Next]_vars => BufferInv'
<1> SUFFICES ASSUME TypeOK, BufferInv, [Next]_vars PROVE BufferInv'
  OBVIOUS
<1>1. ASSUME UNCHANGED <<buf, age, todo, flusher, timer, late>>,
             \A c \in Workers : held'[c] = {} \/ held'[c] = held[c]
      PROVE  BufferInv'
  <2>1. Sized' BY <1>1 DEF BufferInv, Sized, Busy, Filers
  <2> QED BY <1>1, <2>1 DEF BufferInv, WorkersOneKey, Ages, Listed
<1>2. ASSUME NEW c \in Callers, FlushStep(c) PROVE BufferInv'
  <2>1. CASE Pop(c) BY <2>1, PopBuffers
  <2>2. CASE BeginPart(c) BY <1>1, <2>2 DEF BeginPart, service, history
  <2>3. CASE EndPart(c)
    <3>1. \A d \in Workers : held'[d] = {} \/ held'[d] = held[d]
      BY <2>3, ConstantFacts DEF EndPart, TypeOK
    <3> QED BY <1>1, <2>3, <3>1 DEF EndPart, service, history
  <2>4. CASE WriteFails(c) BY <2>4, WriteFailsBuffers
  <2> QED BY <1>2, <2>1, <2>2, <2>3, <2>4 DEF FlushStep
<1>3. CASE FlushDue \/ Drain BY <1>3, ListingBuffers
<1>4. CASE FlushEnds
  <2>1. /\ UNCHANGED <<buf, age, todo, held, late>> /\ flusher = "flushing" /\ flusher' = "waiting"
        /\ timer' = 0 /\ todo[Flusher] = {}
    BY <1>4 DEF FlushEnds, memory, history, Idle
  <2>2. Ages' BY <2>1 DEF BufferInv, Ages
  <2>3. Sized' BY <2>1 DEF BufferInv, Sized, Busy, Filers
  <2> QED BY <2>1, <2>2, <2>3 DEF BufferInv, WorkersOneKey, Listed
<1>5. CASE DrainEnds
  <2>1. /\ UNCHANGED <<buf, age, todo, held, late>> /\ flusher = "draining" /\ flusher' = "done"
        /\ todo[Flusher] = {}
    BY <1>5 DEF DrainEnds, memory, history, Idle
  <2>2. Listed' BY <2>1 DEF BufferInv, Listed
  <2>3. Sized' BY <2>1 DEF BufferInv, Sized, Busy, Filers
  <2> QED BY <2>1, <2>2, <2>3 DEF BufferInv, WorkersOneKey, Ages
<1>6. CASE Stop BY <1>1, <1>6 DEF Stop, memory, history
<1>7. CASE Tick BY <1>7, TickBuffers
<1>8. CASE Crash BY <1>8, CrashBuffers
<1>9. CASE UNCHANGED vars BY <1>1, <1>9 DEF vars, memory, service, history
<1> QED
  BY <1>2, <1>3, <1>4, <1>5, <1>6, <1>7, <1>8, <1>9, FileRowBuffers DEF Next, RunStep

LEMMA BufferInvariance == Spec => [](TypeOK /\ BufferInv)
<1>1. Init => TypeOK BY InitIInv DEF IInv
<1>2. (TypeOK /\ BufferInv) /\ [Next]_vars => (TypeOK /\ BufferInv)' BY TypeStep, StepBuffers
<1> QED BY <1>1, <1>2, InitBuffers, PTL DEF Spec

\* A buffer outgrows batch_rows by no more than the callers that have filed a row and
\* not yet popped it, and none of its rows gets older than the flush interval while
\* the flusher runs (parquet.py:75-82, writer.py:31-38): however many threads append,
\* a crash drops no more than that from the buffers.
THEOREM BuffersStayBounded == Spec => []BuffersBounded
<1>1. TypeOK /\ BufferInv => BuffersBounded
  <2> SUFFICES ASSUME TypeOK, BufferInv, NEW k \in Keys
               PROVE  /\ Cardinality(buf[k]) < BatchRows + Cardinality(Filers(k))
                      /\ FlusherLive /\ buf[k] # {} => age[k] <= BatchSeconds
    BY DEF BuffersBounded, Filers
  <2>1. Cardinality(buf[k]) < BatchRows + Cardinality(Filers(k)) BY DEF BufferInv, Sized
  <2>2. ASSUME FlusherLive, buf[k] # {} PROVE age[k] <= BatchSeconds
    <3>1. age[k] \in Nat /\ timer \in Nat /\ timer <= BatchSeconds BY WriterNumbers DEF TypeOK
    <3>2. CASE flusher = "waiting"
      <4>1. age[k] <= timer BY <2>2, <3>2 DEF BufferInv, Ages
      <4> QED BY <3>1, <4>1, WriterNumbers
    <3>3. CASE flusher = "flushing"
      <4>1. age[k] <= BatchSeconds \/ age[k] = 0 BY <2>2, <3>3 DEF BufferInv, Ages
      <4> QED BY <4>1, WriterNumbers
    <3> QED BY <2>2, <3>2, <3>3 DEF FlusherLive
  <2> QED BY <2>1, <2>2
<1> QED BY <1>1, BufferInvariance, PTL

\* Whatever appends run beside it and whichever writes fail, run() returns normally
\* only with buffers of rows that were taken after its last flush_all() listed its
\* keys (writer.py:39-40).
THEOREM DrainIsComplete == Spec => []DrainLeavesOnlyLateRows
<1>1. BufferInv => DrainLeavesOnlyLateRows
  BY DEF BufferInv, Listed, DrainLeavesOnlyLateRows, Buffered
<1> QED BY <1>1, BufferInvariance, PTL
=============================================================================
