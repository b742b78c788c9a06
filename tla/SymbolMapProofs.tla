-------------------------- MODULE SymbolMapProofs --------------------------
(***************************************************************************)
(* Theorems about SymbolMap, for every set of pairs and tickers and every  *)
(* range of times. The invariant beside the types is the primary key of    *)
(* the table, and that every row starts when some seed said it does. That  *)
(* a pair has one mapping at a time, and that the mappings closed without  *)
(* a correction are no more than the kills, follow where all seeds use the *)
(* same effective_from, as all callers of this repository do.              *)
(***************************************************************************)
EXTENDS SymbolMap, FiniteSetTheorems, TLAPS

KeysAreUnique == \A r, s \in rows : r.pair = s.pair /\ r.from = s.from => r = s
StartsAreSeeded == \A r \in rows : r.from \in SeedTimes

IInv == TypeOK /\ KeysAreUnique /\ StartsAreSeeded

\* What retire_mapping does to a row.
Closed(r, p, at) == IF r.pair = p /\ r.to = Open THEN [r EXCEPT !.to = at] ELSE r

LEMMA LoadedTyped == ASSUME TypeOK PROVE Loaded \in Config
BY DEF TypeOK, Loaded

LEMMA NewFacts ==
    ASSUME TypeOK, NEW eff \in SeedTimes, NEW r \in New(eff)
    PROVE  /\ r \in Row /\ r.from = eff /\ r.to = Open
           /\ \A s \in rows : ~(s.pair = r.pair /\ s.from = eff)
<1>1. r \in Seeded(eff) /\ ~HasKey(r) BY DEF New
<1>2. PICK p \in Pairs : Loaded[p] # Unlisted
            /\ r = [pair |-> p, native |-> Loaded[p], from |-> eff, to |-> Open]
  BY <1>1 DEF Seeded
<1>3. Loaded[p] \in Natives BY <1>2, LoadedTyped DEF Config
<1> QED BY <1>1, <1>2, <1>3, SymbolAssumption DEF Row, HasKey

LEMMA NewKeysDiffer ==
    ASSUME NEW eff \in SeedTimes, NEW r \in New(eff), NEW s \in New(eff), r.pair = s.pair
    PROVE  r = s
BY DEF New, Seeded

LEMMA ClosedFacts ==
    ASSUME NEW r \in Row, NEW p \in Pairs, NEW at \in Times
    PROVE  /\ Closed(r, p, at) \in Row
           /\ Closed(r, p, at).pair = r.pair
           /\ Closed(r, p, at).native = r.native
           /\ Closed(r, p, at).from = r.from
           /\ Closed(r, p, at).to <= r.to
<1>1. at \in Nat /\ at <= Open /\ r.to \in Nat
  BY SymbolAssumption DEF Times, Open, Row
<1>2. CASE r.pair = p /\ r.to = Open
  <2>1. Closed(r, p, at) = [r EXCEPT !.to = at] BY <1>2 DEF Closed
  <2> QED BY <1>1, <1>2, <2>1 DEF Row
<1>3. CASE ~(r.pair = p /\ r.to = Open)
  <2>1. Closed(r, p, at) = r BY <1>3 DEF Closed
  <2> QED BY <1>1, <2>1
<1> QED BY <1>2, <1>3

\* Both kinds of seed add only new rows.
LEMMA SeedStep ==
    ASSUME IInv, Seed \/ SeedKilled
    PROVE  \E eff \in SeedTimes : \E done \in SUBSET New(eff) : rows' = rows \cup done
BY DEF Seed, SeedKilled

LEMMA CloseStep ==
    ASSUME IInv, Close
    PROVE  \E p \in Pairs, at \in Times :
              /\ rows' = {Closed(r, p, at) : r \in rows}
              /\ retiring' = [pair |-> p, at |-> at]
BY DEF Close, Closed

-----------------------------------------------------------------------------
(* The invariant                                                           *)

LEMMA RowsKeepIInv ==
    ASSUME IInv, Seed \/ SeedKilled \/ Close
    PROVE  rows' \subseteq Row /\ KeysAreUnique' /\ StartsAreSeeded'
<1> USE DEF IInv
<1>1. CASE Seed \/ SeedKilled
  <2>1. PICK eff \in SeedTimes : \E done \in SUBSET New(eff) : rows' = rows \cup done
    BY <1>1, SeedStep
  <2> PICK done \in SUBSET New(eff) : rows' = rows \cup done BY <2>1
  <2>2. \A r \in done : r \in Row /\ r.from = eff
                       /\ \A s \in rows : ~(s.pair = r.pair /\ s.from = eff)
    BY NewFacts
  <2>3. \A r, s \in done : r.pair = s.pair => r = s BY NewKeysDiffer
  <2>4. rows' \subseteq Row BY <2>1, <2>2 DEF TypeOK
  <2>5. KeysAreUnique' BY <2>1, <2>2, <2>3 DEF KeysAreUnique
  <2>6. StartsAreSeeded' BY <2>1, <2>2 DEF StartsAreSeeded
  <2> QED BY <2>4, <2>5, <2>6
<1>2. CASE Close
  <2>1. PICK p \in Pairs, at \in Times : rows' = {Closed(r, p, at) : r \in rows}
    BY <1>2, CloseStep
  <2>2. \A r \in rows : /\ Closed(r, p, at) \in Row
                        /\ Closed(r, p, at).pair = r.pair
                        /\ Closed(r, p, at).from = r.from
    BY ClosedFacts DEF TypeOK
  <2>3. KeysAreUnique'
    <3> SUFFICES ASSUME NEW r \in rows', NEW s \in rows', r.pair = s.pair, r.from = s.from
                 PROVE  r = s
      BY DEF KeysAreUnique
    <3>1. PICK r0 \in rows : r = Closed(r0, p, at) BY <2>1
    <3>2. PICK s0 \in rows : s = Closed(s0, p, at) BY <2>1
    <3>3. r0 = s0 BY <2>2, <3>1, <3>2 DEF KeysAreUnique
    <3> QED BY <3>1, <3>2, <3>3
  <2> QED BY <2>1, <2>2, <2>3 DEF StartsAreSeeded
<1> QED BY <1>1, <1>2

LEMMA InitIInv == Init => IInv
<1> SUFFICES ASSUME Init PROVE IInv
  OBVIOUS
<1>1. 0 \in 0 .. MaxKills BY SymbolAssumption
<1> QED BY <1>1 DEF Init, IInv, TypeOK, KeysAreUnique, StartsAreSeeded, Config

LEMMA NextKeepsIInv == IInv /\ [Next]_vars => IInv'
<1> SUFFICES ASSUME IInv, [Next]_vars PROVE IInv'
  OBVIOUS
<1> USE DEF IInv
<1>0. kills' \in 0 .. MaxKills
  <2>1. kills \in 0 .. MaxKills /\ MaxKills \in Nat BY SymbolAssumption DEF TypeOK
  <2>2. kills' = kills \/ (kills < MaxKills /\ kills' = kills + 1)
    BY DEF Next, EditConfig, NewProcess, Seed, SeedKilled, Close, RecordCorrection, CloseKilled, vars
  <2> QED BY <2>1, <2>2
<1>1. CASE EditConfig
  <2>1. config' \in Config BY <1>1 DEF EditConfig, TypeOK, Config
  <2> QED BY <1>1, <2>1 DEF EditConfig, TypeOK, KeysAreUnique, StartsAreSeeded
<1>2. CASE NewProcess
  BY <1>2 DEF NewProcess, TypeOK, KeysAreUnique, StartsAreSeeded
<1>3. CASE Seed \/ SeedKilled
  <2>1. index' \in Config \cup {Unread} /\ UNCHANGED <<config, log, retiring>>
    BY <1>3, LoadedTyped DEF Seed, SeedKilled
  <2>2. rows' \subseteq Row /\ KeysAreUnique' /\ StartsAreSeeded' BY <1>3, RowsKeepIInv
  <2> QED BY <1>0, <2>1, <2>2 DEF TypeOK
<1>4. CASE Close
  <2>1. UNCHANGED <<config, index, log>> BY <1>4 DEF Close
  <2>2. retiring' \in Retirement BY <1>4, CloseStep DEF Retirement
  <2>3. rows' \subseteq Row /\ KeysAreUnique' /\ StartsAreSeeded' BY <1>4, RowsKeepIInv
  <2> QED BY <1>0, <2>1, <2>2, <2>3 DEF TypeOK
<1>5. CASE RecordCorrection \/ CloseKilled
  <2>1. /\ log' \subseteq Retirement /\ retiring' = NoCall
        /\ index' \in Config \cup {Unread} /\ UNCHANGED <<config, rows>>
    BY <1>5 DEF RecordCorrection, CloseKilled, TypeOK
  <2> QED BY <1>0, <2>1 DEF TypeOK, KeysAreUnique, StartsAreSeeded
<1>6. CASE UNCHANGED vars
  BY <1>6 DEF vars, TypeOK, KeysAreUnique, StartsAreSeeded
<1> QED BY <1>1, <1>2, <1>3, <1>4, <1>5, <1>6 DEF Next

-----------------------------------------------------------------------------
(* The theorems                                                            *)

\* The table, the cached configuration and the log keep their types
\* (core/corrections.py).
THEOREM TypeCorrect == Spec => []TypeOK
<1>1. IInv => TypeOK BY DEF IInv
<1> QED BY <1>1, InitIInv, NextKeepsIInv, PTL DEF Spec

\* Where every seed uses effective_from 0, as ingest.py:39 and
\* build_dataset.py:74 do, a pair has at most one mapping at any time
\* (corrections.py:155-165).
THEOREM OneMappingAtATime ==
    ASSUME SeedTimes = {0}
    PROVE  Spec => []OneMapping
<1>1. IInv => OneMapping
  BY DEF IInv, KeysAreUnique, StartsAreSeeded, OneMapping, Asof
<1> QED BY <1>1, InitIInv, NextKeepsIInv, PTL DEF Spec

\* Under the same seeds a ticker that was retired never comes back into an
\* answer of symbol_map_asof about a later time (corrections.py:112-152).
THEOREM RetiredTickersStayRetired ==
    ASSUME SeedTimes = {0}
    PROVE  Spec => RetiredStaysRetired
<1> DEFINE StaysOut == \A r \in rows, t \in Times :
              r.to # Open /\ r.to <= t /\ r.native \notin NativesAsof(r.pair, t)
                  => r.native \notin NativesAsof(r.pair, t)'
<1>1. ASSUME IInv, [Next]_vars PROVE [StaysOut]_vars
  <2> SUFFICES ASSUME NEW r \in rows, NEW t \in Times, NEW p, p = r.pair, NEW n,
                      n = r.native, n \in NativesAsof(p, t)'
               PROVE  n \in NativesAsof(p, t)
    OBVIOUS
  <2>0. PICK s \in rows' : s.pair = p /\ s.from <= t /\ t < s.to /\ n = s.native
    BY DEF NativesAsof, Asof
  <2>1. CASE Seed \/ SeedKilled
    <3>1. PICK eff \in SeedTimes : \E done \in SUBSET New(eff) : rows' = rows \cup done
      BY <1>1, <2>1, SeedStep
    <3> PICK done \in SUBSET New(eff) : rows' = rows \cup done BY <3>1
    <3>2. r.from = eff BY <1>1, <3>1 DEF IInv, StartsAreSeeded
    <3>3. s \notin New(eff) BY <1>1, <2>0, <3>2, NewFacts DEF IInv
    <3> QED BY <2>0, <3>1, <3>3 DEF NativesAsof, Asof
  <2>2. CASE Close
    <3>1. PICK q \in Pairs, at \in Times : rows' = {Closed(r1, q, at) : r1 \in rows}
      BY <1>1, <2>2, CloseStep
    <3>2. PICK s0 \in rows : s = Closed(s0, q, at) BY <2>0, <3>1
    <3>3. s0 \in Row BY <1>1 DEF IInv, TypeOK
    <3>4. s0.pair = p /\ s0.from <= t /\ n = s0.native /\ s.to <= s0.to /\ s \in Row
      BY <2>0, <3>2, <3>3, ClosedFacts
    <3>5. s0.to \in Nat /\ s.to \in Nat /\ t \in Nat
      BY <3>3, <3>4, SymbolAssumption DEF Row, Times, Open
    <3>6. t < s0.to BY <2>0, <3>4, <3>5
    <3> QED BY <3>4, <3>6 DEF NativesAsof, Asof
  <2>3. CASE EditConfig \/ NewProcess \/ RecordCorrection \/ CloseKilled \/ UNCHANGED vars
    <3>1. rows' = rows
      BY <2>3 DEF EditConfig, NewProcess, RecordCorrection, CloseKilled, vars
    <3> QED BY <2>0, <3>1 DEF NativesAsof, Asof
  <2> QED BY <1>1, <2>1, <2>2, <2>3 DEF Next
<1> QED BY <1>1, InitIInv, NextKeepsIInv, PTL DEF Spec, RetiredStaysRetired

-----------------------------------------------------------------------------
(* The corrections log                                                     *)

\* The closed mappings that neither the log nor a call going on accounts for.
Unlogged ==
    {r \in rows : r.to # Open /\ [pair |-> r.pair, at |-> r.to] \notin log \cup {retiring}}

KillsExplain == IsFiniteSet(Unlogged) /\ Cardinality(Unlogged) <= kills

LEMMA AtMostOneMore ==
    ASSUME NEW S, IsFiniteSet(S), NEW n \in Nat, Cardinality(S) <= n, NEW x, NEW T \in SUBSET (S \cup {x})
    PROVE  IsFiniteSet(T) /\ Cardinality(T) <= n + 1
<1>1. Cardinality(S) \in Nat BY FS_CardinalityType
<1>2. IsFiniteSet(S \cup {x}) /\ Cardinality(S \cup {x}) \in Nat /\ Cardinality(S \cup {x}) <= n + 1
  <2>1. CASE x \in S
    <3>1. S \cup {x} = S BY <2>1
    <3> QED BY <1>1, <3>1
  <2>2. CASE x \notin S
    <3>1. IsFiniteSet(S \cup {x}) /\ Cardinality(S \cup {x}) = Cardinality(S) + 1
      BY <2>2, FS_AddElement
    <3> QED BY <1>1, <3>1
  <2> QED BY <2>1, <2>2
<1>3. IsFiniteSet(T) /\ Cardinality(T) <= Cardinality(S \cup {x}) BY <1>2, FS_Subset
<1>4. Cardinality(T) \in Nat BY <1>3, FS_CardinalityType
<1> QED BY <1>2, <1>3, <1>4

LEMMA NoMore ==
    ASSUME NEW S, IsFiniteSet(S), NEW T \in SUBSET S
    PROVE  IsFiniteSet(T) /\ Cardinality(T) \in Nat /\ Cardinality(T) <= Cardinality(S)
           /\ Cardinality(S) \in Nat
BY FS_Subset, FS_CardinalityType

\* A step that leaves no more closed mappings unlogged.
LEMMA FewerUnlogged ==
    ASSUME IInv, IInv', KillsExplain, Unlogged' \in SUBSET Unlogged, kills <= kills'
    PROVE  KillsExplain'
<1>1. kills \in Nat /\ kills' \in Nat BY SymbolAssumption DEF IInv, TypeOK
<1>2. /\ IsFiniteSet(Unlogged') /\ Cardinality(Unlogged') \in Nat
      /\ Cardinality(Unlogged') <= Cardinality(Unlogged) /\ Cardinality(Unlogged) \in Nat
  BY NoMore DEF KillsExplain
<1>3. Cardinality(Unlogged) <= kills BY DEF KillsExplain
<1>4. Cardinality(Unlogged') <= kills' BY <1>1, <1>2, <1>3
<1> QED BY <1>2, <1>4 DEF KillsExplain

LEMMA CloseLogs ==
    ASSUME IInv, Close
    PROVE  Unlogged' \in SUBSET Unlogged
<1>1. PICK p \in Pairs, at \in Times : /\ rows' = {Closed(r, p, at) : r \in rows}
                                       /\ retiring' = [pair |-> p, at |-> at]
  BY CloseStep
<1>2. retiring = NoCall /\ log' = log BY DEF Close
<1> SUFFICES ASSUME NEW r \in Unlogged' PROVE r \in Unlogged
  OBVIOUS
<1>3. r \in rows' /\ r.to # Open /\ [pair |-> r.pair, at |-> r.to] \notin log' \cup {retiring'}
  BY DEF Unlogged
<1>4. PICK q \in rows : r = Closed(q, p, at) BY <1>1, <1>3
<1>5. CASE q.pair = p /\ q.to = Open
  <2>1. r = [q EXCEPT !.to = at] BY <1>4, <1>5 DEF Closed
  <2>2. r.pair = p /\ r.to = at BY <1>5, <2>1 DEF IInv, TypeOK, Row
  <2> QED BY <1>1, <1>3, <2>2
<1>6. CASE ~(q.pair = p /\ q.to = Open)
  <2>1. r = q BY <1>4, <1>6 DEF Closed
  <2>2. r.pair \in Pairs /\ r.to \in Times
    BY <1>3, <2>1 DEF IInv, TypeOK, Row
  <2>3. [pair |-> r.pair, at |-> r.to] \in Retirement BY <2>2 DEF Retirement
  <2>4. [pair |-> r.pair, at |-> r.to] # retiring BY <1>2, <2>3, SymbolAssumption
  <2> QED BY <1>2, <1>3, <2>1, <2>4 DEF Unlogged
<1> QED BY <1>5, <1>6

LEMMA SeedLogs ==
    ASSUME IInv, Seed \/ SeedKilled
    PROVE  Unlogged' \in SUBSET Unlogged
<1>1. PICK eff \in SeedTimes : \E done \in SUBSET New(eff) : rows' = rows \cup done
  BY SeedStep
<1> PICK done \in SUBSET New(eff) : rows' = rows \cup done BY <1>1
<1>2. \A r \in done : r.to = Open BY NewFacts DEF IInv
<1>3. log' = log /\ retiring' = retiring BY DEF Seed, SeedKilled
<1> QED BY <1>2, <1>3 DEF Unlogged

LEMMA KillLeavesOne ==
    ASSUME IInv, SeedTimes = {0}, KillsExplain, CloseKilled
    PROVE  KillsExplain'
<1>1. rows' = rows /\ log' = log /\ kills' = kills + 1 BY DEF CloseKilled
<1>2. \A r, s \in rows : r.pair = s.pair => r = s BY DEF IInv, KeysAreUnique, StartsAreSeeded
<1>3. \E x : Unlogged' \in SUBSET (Unlogged \cup {x})
  <2>1. \A r \in Unlogged' \ Unlogged : r \in rows /\ [pair |-> r.pair, at |-> r.to] = retiring
    BY <1>1 DEF Unlogged
  <2>2. \A r \in Unlogged' \ Unlogged : r \in rows /\ r.pair = retiring.pair
    <3> SUFFICES ASSUME NEW r \in Unlogged' \ Unlogged PROVE r \in rows /\ r.pair = retiring.pair
      OBVIOUS
    <3>1. r \in rows /\ [pair |-> r.pair, at |-> r.to] = retiring BY <2>1
    <3>2. [pair |-> r.pair, at |-> r.to].pair = r.pair OBVIOUS
    <3> QED BY <3>1, <3>2
  <2>3. \A r, s \in Unlogged' \ Unlogged : r = s BY <1>2, <2>2
  <2>4. CASE Unlogged' \ Unlogged = {} BY <2>4
  <2>5. CASE Unlogged' \ Unlogged # {}
    <3>1. PICK x : x \in Unlogged' \ Unlogged BY <2>5
    <3>2. Unlogged' \in SUBSET (Unlogged \cup {x}) BY <2>3, <3>1
    <3> QED BY <3>2
  <2> QED BY <2>4, <2>5
<1>4. PICK x : Unlogged' \in SUBSET (Unlogged \cup {x}) BY <1>3
<1>5. kills \in Nat BY SymbolAssumption DEF IInv, TypeOK
<1>6. IsFiniteSet(Unlogged') /\ Cardinality(Unlogged') <= kills + 1
  BY <1>4, <1>5, AtMostOneMore DEF KillsExplain
<1> QED BY <1>1, <1>6 DEF KillsExplain

\* Where every seed uses effective_from 0, every kill leaves at most one closed
\* mapping that neither the log nor a call going on accounts for
\* (corrections.py:140-152).
THEOREM KillsExplainUnlogged ==
    ASSUME SeedTimes = {0}
    PROVE  Spec => []UnloggedOnlyByKill
<1>1. Init => KillsExplain
  <2>1. Init => Unlogged = {} /\ kills = 0 BY DEF Init, Unlogged
  <2>2. IsFiniteSet({}) /\ Cardinality({}) = 0 BY FS_EmptySet
  <2> QED BY <2>1, <2>2 DEF KillsExplain
<1>2. ASSUME IInv, IInv', KillsExplain, [Next]_vars PROVE KillsExplain'
  <2>1. kills \in Nat BY <1>2, SymbolAssumption DEF IInv, TypeOK
  <2>2. CASE Close
    <3>1. kills <= kills' BY <2>1, <2>2 DEF Close
    <3> QED BY <1>2, <2>2, <3>1, CloseLogs, FewerUnlogged
  <2>3. CASE Seed \/ SeedKilled
    <3>1. kills <= kills' BY <2>1, <2>3 DEF Seed, SeedKilled
    <3> QED BY <1>2, <2>3, <3>1, SeedLogs, FewerUnlogged
  <2>4. CASE CloseKilled BY <1>2, <2>4, KillLeavesOne
  <2>5. CASE RecordCorrection
    <3>1. Unlogged' \in SUBSET Unlogged BY <2>5 DEF RecordCorrection, Unlogged
    <3>2. kills <= kills' BY <2>1, <2>5 DEF RecordCorrection
    <3> QED BY <1>2, <3>1, <3>2, FewerUnlogged
  <2>6. CASE EditConfig \/ NewProcess \/ UNCHANGED vars
    <3>1. UNCHANGED <<rows, log, retiring, kills>> BY <2>6 DEF EditConfig, NewProcess, vars
    <3>2. Unlogged' \in SUBSET Unlogged BY <3>1 DEF Unlogged
    <3>3. kills <= kills' BY <2>1, <3>1
    <3> QED BY <1>2, <3>2, <3>3, FewerUnlogged
  <2> QED BY <1>2, <2>2, <2>3, <2>4, <2>5, <2>6 DEF Next
<1>3. KillsExplain => UnloggedOnlyByKill BY DEF KillsExplain, UnloggedOnlyByKill, Unlogged
<1> QED BY <1>1, <1>2, <1>3, InitIInv, NextKeepsIInv, PTL DEF Spec
=============================================================================
