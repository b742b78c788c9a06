------------------------ MODULE TradeReconcileProofs ------------------------
(***************************************************************************)
(* Theorems about TradeReconcile, for any length of run, window, gap and   *)
(* flush age, and any number of outages, kills, failing queries and        *)
(* partial answers.                                                        *)
(***************************************************************************)
EXTENDS TradeReconcile, WellFoundedInduction, TLAPS

\* What a pass is going to ask for starts in the past, and the reconciler has
\* stored none of it, unless a query raised.
FilledOncePerQuery ==
    /\ \A t \in Times : filled[t] <= 1 + errors
    /\ rpc = "fetching" =>
        \A t \in Times : from <= t /\ t <= passNow => filled[t] <= errors

\* What a query saw and is asked for again is the newest that it saw.
SeenOnceMore ==
    /\ rpc # "fetching" => had = {}
    /\ rpc = "fetching" => \A t \in had : from <= t => rounds /\ t = Max(had)

\* What a pass leaves out lies before a stored trade.
SkippedIsInside ==
    rpc = "fetching" =>
        /\ from <= passNow
        /\ \A t \in traded \ Stored :
            passNow - Lookback < t /\ t < from => \E s \in Stored : s > t

-----------------------------------------------------------------------------
(* Facts about Max, Min and Add                                            *)

LEMMA LeastExists ==
    ASSUME NEW T \in SUBSET Nat, T # {}
    PROVE  \E m \in T : \A n \in T : m <= n
<1>1. PICK m \in T : \A n \in T : <<n, m>> \notin OpToRel(<, Nat)
  BY NatLessThanWellFounded, WFMin, Zenon
<1>2. \A n \in T : ~(n < m)
  BY <1>1, Zenon DEF OpToRel
<1> QED BY <1>2

LEMMA MinFacts ==
    ASSUME NEW T \in SUBSET Nat, T # {}
    PROVE  Min(T) \in T /\ \A n \in T : Min(T) <= n
BY LeastExists DEF Min

LEMMA MaxFacts ==
    ASSUME NEW N \in Nat, NEW T \in SUBSET (0 .. N), T # {}
    PROVE  Max(T) \in T /\ \A n \in T : Max(T) >= n
<1> DEFINE U == {N - t : t \in T}
<1>1. U \in SUBSET Nat /\ U # {}
  <2> PICK t \in T : TRUE OBVIOUS
  <2>1. N - t \in U OBVIOUS
  <2>2. \A s \in T : N - s \in Nat OBVIOUS
  <2> QED BY <2>1, <2>2
<1>2. PICK m \in U : \A n \in U : m <= n
  BY <1>1, LeastExists
<1>3. PICK t \in T : m = N - t
  OBVIOUS
<1>4. \A s \in T : t >= s
  BY <1>2, <1>3
<1> QED BY <1>4 DEF Max

LEMMA AddFacts ==
    ASSUME NEW m \in [Times -> 0 .. MaxCopies], NEW S \in SUBSET Times
    PROVE  /\ Add(m, S) \in [Times -> 0 .. MaxCopies]
           /\ \A t \in S : Add(m, S)[t] <= m[t] + 1 /\ Add(m, S)[t] > 0
           /\ \A t \in Times \ S : Add(m, S)[t] = m[t]
<1>1. MaxCopies \in Nat /\ MaxCopies > 0 BY ReconcileAssumption
<1>2. \A t \in Times : m[t] \in 0 .. MaxCopies OBVIOUS
<1>3. \A t \in Times : Add(m, S)[t] = IF t \in S /\ m[t] < MaxCopies THEN m[t] + 1 ELSE m[t]
  BY DEF Add
<1>4. \A t \in Times : Add(m, S)[t] \in 0 .. MaxCopies BY <1>1, <1>2, <1>3
<1>5. Add(m, S) \in [Times -> 0 .. MaxCopies]
  <2>1. DOMAIN Add(m, S) = Times /\ Add(m, S) = [t \in DOMAIN Add(m, S) |-> Add(m, S)[t]]
    BY DEF Add
  <2> QED BY <1>4, <2>1, Zenon
<1>6. ASSUME NEW t \in S PROVE Add(m, S)[t] <= m[t] + 1 /\ Add(m, S)[t] > 0
  BY <1>1, <1>2, <1>3
<1>7. ASSUME NEW t \in Times \ S PROVE Add(m, S)[t] = m[t]
  BY <1>3
<1> QED BY <1>5, <1>6, <1>7

LEMMA TypedSets ==
    ASSUME TypeOK
    PROVE  /\ Times \subseteq Nat /\ traded \subseteq Times
           /\ now \in Nat /\ passNow \in Nat /\ lastPass \in Nat /\ passNow <= now
           /\ errors \in Nat /\ live \subseteq Times /\ Stored \subseteq Times
           /\ \A t \in Times : filled[t] \in Nat
<1>1. Times \subseteq Nat /\ traded \subseteq Times BY ReconcileAssumption DEF TypeOK, Times
<1>2. /\ now \in Nat /\ passNow \in Nat /\ lastPass \in Nat /\ passNow <= now
      /\ errors \in Nat /\ \A t \in Times : filled[t] \in Nat
  BY ReconcileAssumption DEF TypeOK
<1>3. live \subseteq Times /\ Stored \subseteq Times BY <1>1 DEF TypeOK, Stored
<1> QED BY <1>1, <1>2, <1>3

\* MAX(ts_ns) over the window, or the window's start.
LEMMA LastSeenFacts ==
    ASSUME TypeOK
    PROVE  /\ LastSeen \in Int /\ Window \in Int
           /\ LastSeen >= Window
           /\ \A t \in Stored : t <= LastSeen
           /\ LastSeen \in Stored \/ LastSeen = Window
<1>0. Window \in Int
  BY ReconcileAssumption DEF TypeOK, Window
<1>1. Stored \subseteq Times /\ Times \subseteq 0 .. MaxTime /\ Times \subseteq Nat
  BY ReconcileAssumption, TypedSets DEF Times
<1>2. Recent \in SUBSET (0 .. MaxTime)
  BY <1>1 DEF Recent
<1>3. CASE Recent = {}
  BY <1>0, <1>1, <1>3 DEF Recent, LastSeen
<1>4. CASE Recent # {}
  <2>1. Max(Recent) \in Recent /\ \A n \in Recent : Max(Recent) >= n
    BY <1>2, <1>4, ReconcileAssumption, MaxFacts
  <2>2. LastSeen = Max(Recent)
    BY <1>4 DEF LastSeen
  <2>3. LastSeen \in Recent /\ \A n \in Recent : LastSeen >= n
    BY <2>1, <2>2
  <2>4. LastSeen \in Stored /\ LastSeen >= Window /\ LastSeen \in Nat
    BY <1>1, <2>3 DEF Recent
  <2>5. ASSUME NEW t \in Stored PROVE t <= LastSeen
    <3>1. t \in Nat BY <1>1
    <3>2. CASE t >= Window BY <2>3, <2>4, <3>1, <3>2 DEF Recent
    <3>3. CASE ~(t >= Window) BY <1>0, <2>4, <3>1, <3>3
    <3> QED BY <3>2, <3>3
  <2> QED BY <1>0, <2>4, <2>5
<1> QED BY <1>3, <1>4

\* What is stored stays stored.
LEMMA StoredGrows ==
    ASSUME TypeOK, NEW S \in SUBSET Times
    PROVE  /\ live' = live \cup S /\ filled' = filled => Stored' = Stored \cup S
           /\ filled' = Add(filled, S) /\ live' = live => Stored' = Stored \cup S
<1>1. filled \in [Times -> 0 .. MaxCopies] BY DEF TypeOK
<1>2. ASSUME filled' = Add(filled, S), live' = live PROVE Stored' = Stored \cup S
  BY <1>1, <1>2, AddFacts DEF Stored
<1> QED BY <1>2 DEF Stored

-----------------------------------------------------------------------------
(* Type correctness                                                        *)

\* A step keeps the types, and storing stays within what was traded.
\* A process keeps its adapter.
LEMMA SameAdapter == [Next]_vars => rounds' = rounds
BY DEF Next, FeedStep, PassStep, Tick, Receive, Flush, Disconnect, Reconnect, Crash,
       BeginPass, Check, CheckRaises, Fill, FillPart, PassRaises, vars

LEMMA TypeStep == TypeOK /\ [Next]_vars => TypeOK'
<1> SUFFICES ASSUME TypeOK, [Next]_vars PROVE TypeOK'
  OBVIOUS
<1> USE ReconcileAssumption, TypedSets
<1>0. rounds' \in BOOLEAN BY SameAdapter DEF TypeOK
<1>1. CASE Tick
  <2> PICK new \in {{}, {now + 1}} :
        /\ traded' = traded \cup new
        /\ wire' = IF connected THEN wire \cup new ELSE wire
    BY <1>1 DEF Tick
  <2>1. /\ now < MaxTime /\ now' = now + 1 /\ (buffered # {} => age < FlushAge)
        /\ age' = IF buffered = {} THEN 0 ELSE age + 1
        /\ UNCHANGED <<connected, buffered, live, filled, rpc, passNow, from, had, lastPass,
                       errors, crashes, torn>>
    BY <1>1 DEF Tick, pass, accidents
  <2>2. Stored' = Stored BY <2>1 DEF Stored
  <2>3. /\ now' \in 0 .. MaxTime /\ traded' \subseteq 1 .. now'
        /\ age' \in 0 .. FlushAge
    <3>1. now' \in 0 .. MaxTime BY <2>1
    <3>2. traded' \subseteq 1 .. now'
      <4>1. traded \subseteq 1 .. now BY DEF TypeOK
      <4>2. \A t \in traded' : t \in traded \/ t = now + 1 BY <2>1
      <4>3. now \in Nat /\ now' = now + 1 BY <2>1
      <4>4. ASSUME NEW t \in traded' PROVE t \in 1 .. now'
        <5>1. CASE t \in traded
          <6>1. t \in 1 .. now BY <4>1, <5>1
          <6> HIDE ReconcileAssumption, TypedSets
          <6> QED BY <4>3, <6>1
        <5>2. CASE t = now + 1
          <6> HIDE ReconcileAssumption, TypedSets
          <6> QED BY <4>3, <5>2
        <5> QED BY <4>2, <4>4, <5>1, <5>2
      <4> QED BY <4>4
    <3>3. age \in 0 .. FlushAge BY DEF TypeOK
    <3>4. age' \in 0 .. FlushAge
      <4>1. CASE buffered = {} BY <2>1, <4>1
      <4>2. CASE buffered # {} BY <2>1, <3>3, <4>2
      <4> QED BY <4>1, <4>2
    <3> QED BY <3>1, <3>2, <3>4
  <2>4. passNow' \in 0 .. now' /\ lastPass' \in 0 .. now'
    BY <2>1 DEF TypeOK
  <2>5. /\ wire' \subseteq traded' /\ buffered' \subseteq traded' /\ Stored' \subseteq traded'
        /\ had' \subseteq Stored' /\ filled' \in [Times -> 0 .. MaxCopies]
    BY <2>1, <2>2 DEF TypeOK
  <2> QED BY <1>0, <2>1, <2>3, <2>4, <2>5 DEF TypeOK
<1>2. CASE Receive
  <2>1. wire \in SUBSET Nat /\ wire # {} BY <1>2 DEF Receive, TypeOK
  <2>2. Min(wire) \in wire BY <2>1, MinFacts
  <2>3. Stored' = Stored BY <1>2 DEF Receive, Stored
  <2>4. wire' \subseteq traded' /\ buffered' \subseteq traded'
    BY <1>2, <2>2 DEF Receive, TypeOK
  <2>5. age' \in 0 .. FlushAge
    BY <1>2 DEF Receive, TypeOK
  <2>6. UNCHANGED <<now, traded, connected, live, filled, rpc, passNow, from, had, lastPass,
                    errors, crashes, torn>>
    BY <1>2 DEF Receive, pass, accidents
  <2> QED BY <1>0, <2>3, <2>4, <2>5, <2>6 DEF TypeOK
<1>3. CASE Flush
  <2>1. buffered \in SUBSET Times BY DEF TypeOK
  <2>2. live' = live \cup buffered /\ filled' = filled BY <1>3 DEF Flush
  <2>3. Stored' = Stored \cup buffered BY <2>1, <2>2, StoredGrows
  <2>4. Stored' \subseteq traded' /\ had' \subseteq Stored'
    BY <1>3, <2>3 DEF Flush, TypeOK, pass
  <2> QED BY <1>3, <2>4 DEF Flush, TypeOK, pass, accidents
<1>4. CASE Disconnect \/ Reconnect \/ Crash
  <2>1. Stored' = Stored BY <1>4 DEF Disconnect, Reconnect, Crash, Stored
  <2>2. CASE Disconnect \/ Reconnect
    <3>1. wire' \subseteq traded BY <2>2 DEF Disconnect, Reconnect
    <3>2. connected' \in BOOLEAN BY <2>2 DEF Disconnect, Reconnect
    <3>3. UNCHANGED <<now, traded, buffered, age, live, filled, rpc, passNow, from, had, lastPass,
                      errors, crashes, torn>>
      BY <2>2 DEF Disconnect, Reconnect, pass, accidents
    <3> QED BY <1>0, <2>1, <3>1, <3>2, <3>3 DEF TypeOK
  <2>3. CASE Crash
    <3>1. crashes' \in 0 .. MaxCrashes BY <2>3 DEF Crash, TypeOK
    <3>2. UNCHANGED <<now, traded, live, filled, lastPass, errors>> BY <2>3 DEF Crash
    <3>3. /\ connected' = FALSE /\ wire' = {} /\ buffered' = {} /\ age' = 0
          /\ rpc' = "idle" /\ passNow' = 0 /\ from' = 0 /\ had' = {}
          /\ torn' \in BOOLEAN
      BY <2>3 DEF Crash, Forget, TypeOK
    <3>4. 0 \in 0 .. FlushAge /\ 0 \in 0 .. now /\ 0 \in Int OBVIOUS
    <3> QED BY <1>0, <2>1, <3>1, <3>2, <3>3, <3>4 DEF TypeOK
  <2> QED BY <1>4, <2>2, <2>3
<1>5. CASE BeginPass \/ Check \/ CheckRaises \/ PassRaises
  <2>1. Stored' = Stored
    BY <1>5 DEF BeginPass, Check, CheckRaises, PassRaises, feed, Stored
  <2>2. LastSeen \in Int /\ Window \in Int /\ Start(LastSeen) \in Int /\ Start(Window) \in Int
    BY LastSeenFacts DEF Start
  <2>3. from' \in Int /\ passNow' \in 0 .. now' /\ lastPass' \in 0 .. now'
        /\ rpc' \in {"idle", "checking", "fetching"} /\ had' \subseteq Stored
    <3>1. CASE BeginPass
      <4>1. passNow' = now /\ rpc' = "checking" /\ UNCHANGED <<now, from, had, lastPass>>
        BY <3>1 DEF BeginPass
      <4> QED BY <4>1 DEF TypeOK
    <3>4. CASE PassRaises
      <4>1. Forget /\ UNCHANGED <<now, lastPass>> BY <3>4 DEF PassRaises
      <4> QED BY <4>1 DEF Forget, TypeOK
    <3>2. CASE Check
      BY <2>2, <3>2 DEF Check, Forget, TypeOK, feed
    <3>3. CASE CheckRaises
      BY <2>2, <3>3 DEF CheckRaises, TypeOK, feed
    <3> QED BY <1>5, <3>1, <3>2, <3>3, <3>4
  <2>4. errors' \in 0 .. MaxErrors /\ crashes' = crashes /\ torn' = torn
    BY <1>5 DEF BeginPass, Check, CheckRaises, PassRaises, TypeOK, accidents
  <2>5. UNCHANGED <<now, traded, connected, wire, buffered, age, live, filled>>
    BY <1>5 DEF BeginPass, Check, CheckRaises, PassRaises, feed
  <2> QED BY <1>0, <2>1, <2>3, <2>4, <2>5 DEF TypeOK
<1>6. CASE Fill \/ FillPart
  <2>1. Asked \subseteq traded BY DEF Asked
  <2>2. PICK S \in SUBSET Asked : filled' = Add(filled, S)
    BY <1>6 DEF Fill, FillPart
  <2>3. /\ UNCHANGED <<now, traded, connected, wire, buffered, age, live, errors, crashes, torn>>
        /\ Forget /\ lastPass' \in 0 .. now
    BY <1>6 DEF Fill, FillPart, feed, accidents, TypeOK
  <2>4. Stored' = Stored \cup S BY <2>1, <2>2, <2>3, StoredGrows
  <2>5. filled' \in [Times -> 0 .. MaxCopies] BY <2>1, <2>2, AddFacts DEF TypeOK
  <2> QED BY <1>0, <2>1, <2>3, <2>4, <2>5 DEF TypeOK, Forget
<1>7. CASE UNCHANGED vars
  <2>1. Stored' = Stored BY <1>7 DEF vars, feed, Stored
  <2> QED BY <1>7, <2>1 DEF vars, feed, pass, accidents, TypeOK
<1> QED
  BY <1>1, <1>2, <1>3, <1>4, <1>5, <1>6, <1>7 DEF Next, FeedStep, PassStep

LEMMA InitTypeOK == Init => TypeOK
<1> SUFFICES ASSUME Init PROVE TypeOK
  OBVIOUS
<1>1. Stored = {}
  BY DEF Init, Stored
<1>2. /\ filled \in [Times -> 0 .. MaxCopies]
      /\ now \in 0 .. MaxTime /\ age \in 0 .. FlushAge
      /\ errors \in 0 .. MaxErrors /\ crashes \in 0 .. MaxCrashes
  BY ReconcileAssumption DEF Init
<1>3. passNow \in 0 .. now /\ lastPass \in 0 .. now /\ from \in Int /\ traded \subseteq 1 .. now
  BY DEF Init
<1>4. /\ connected \in BOOLEAN /\ wire \subseteq traded /\ buffered \subseteq traded
      /\ Stored \subseteq traded /\ rpc \in {"idle", "checking", "fetching"}
      /\ had \subseteq Stored /\ torn \in BOOLEAN /\ rounds \in BOOLEAN
  BY <1>1 DEF Init
<1> QED BY <1>2, <1>3, <1>4 DEF TypeOK

\* The types of one trade, its feed and the passes.
THEOREM TypeCorrect == Spec => []TypeOK
BY InitTypeOK, TypeStep, PTL DEF Spec

-----------------------------------------------------------------------------
(* The reconciler stores a trade once for every query                      *)

LEMMA FilledStep ==
    ASSUME ~rounds, TypeOK, FilledOncePerQuery, [Next]_vars
    PROVE  FilledOncePerQuery'
<1> USE TypedSets
<1>1. CASE Tick \/ FeedStep
  BY <1>1 DEF Tick, FeedStep, Receive, Flush, Disconnect, Reconnect, pass, accidents,
              FilledOncePerQuery
<1>2. CASE Crash
  BY <1>2 DEF Crash, Forget, FilledOncePerQuery
<1>3. CASE BeginPass \/ PassRaises
  BY <1>3 DEF BeginPass, PassRaises, Forget, FilledOncePerQuery, accidents
<1>4. CASE Check
  <2>1. filled' = filled /\ errors' = errors BY <1>4 DEF Check, accidents
  <2>2. CASE passNow - LastSeen < MinGap
    BY <1>4, <2>1, <2>2 DEF Check, Forget, FilledOncePerQuery
  <2>3. CASE ~(passNow - LastSeen < MinGap)
    <3>1. from' = LastSeen + 1 BY <1>4, <2>3 DEF Check, Start
    <3>2. ASSUME NEW t \in Times, from' <= t PROVE filled[t] <= errors
      <4>1. t \notin Stored BY <3>1, <3>2, LastSeenFacts
      <4> QED BY <4>1 DEF Stored
    <3> QED BY <2>1, <3>2 DEF FilledOncePerQuery
  <2> QED BY <2>2, <2>3
<1>5. CASE CheckRaises
  <2>1. filled' = filled /\ errors' = errors + 1 BY <1>5 DEF CheckRaises
  <2> QED BY <2>1 DEF FilledOncePerQuery
<1>6. CASE Fill \/ FillPart
  <2>1. rpc = "fetching" /\ rpc' = "idle" /\ errors' = errors
    BY <1>6 DEF Fill, FillPart, Forget, accidents
  <2>2. PICK S \in SUBSET Asked : filled' = Add(filled, S)
    BY <1>6 DEF Fill, FillPart
  <2>3. filled \in [Times -> 0 .. MaxCopies] /\ S \in SUBSET Times
    BY DEF Asked, TypeOK
  <2>4. ASSUME NEW t \in Times PROVE filled'[t] <= 1 + errors
    <3>1. CASE t \in S
      <4>1. filled'[t] <= filled[t] + 1 /\ filled'[t] \in Nat
        BY <2>2, <2>3, <3>1, ReconcileAssumption, AddFacts
      <4>2. filled[t] <= errors BY <2>1, <3>1 DEF Asked, FilledOncePerQuery
      <4> QED BY <4>1, <4>2
    <3>2. CASE t \notin S
      BY <2>2, <2>3, <3>2, AddFacts DEF FilledOncePerQuery
    <3> QED BY <3>1, <3>2
  <2> QED BY <2>1, <2>4 DEF FilledOncePerQuery
<1>7. CASE UNCHANGED vars
  BY <1>7 DEF vars, pass, accidents, FilledOncePerQuery
<1> QED BY <1>1, <1>2, <1>3, <1>4, <1>5, <1>6, <1>7 DEF Next, PassStep

\* Where the adapter rounds nothing, the reconciler stores a trade once, and once
\* more for every query that raised, whatever overlaps, is cut short, fetched
\* again or killed (reconciler.py:32-61).
THEOREM StoredOncePerQuery == Spec => []OncePerQuery
<1> DEFINE I == TypeOK /\ (~rounds => FilledOncePerQuery)
<1>1. Init => I
  <2> SUFFICES ASSUME Init PROVE I OBVIOUS
  <2>1. FilledOncePerQuery BY DEF Init, FilledOncePerQuery
  <2> QED BY <2>1, InitTypeOK
<1>2. I /\ [Next]_vars => I'
  BY TypeStep, FilledStep, SameAdapter
<1>3. I => OncePerQuery
  BY DEF FilledOncePerQuery, OncePerQuery
<1> QED BY <1>1, <1>2, <1>3, PTL DEF Spec

-----------------------------------------------------------------------------
(* What a query saw is stored again only when it is the newest             *)

LEMMA SeenStep == ASSUME TypeOK, SeenOnceMore, [Next]_vars PROVE SeenOnceMore'
<1> USE TypedSets
<1>0. rounds' = rounds BY SameAdapter
<1>1. CASE Tick \/ FeedStep \/ UNCHANGED vars
  <2>1. UNCHANGED <<rpc, from, had>>
    BY <1>1 DEF Tick, FeedStep, Receive, Flush, Disconnect, Reconnect, vars, pass
  <2> QED BY <1>0, <2>1 DEF SeenOnceMore
<1>2. CASE Crash \/ PassRaises \/ Fill \/ FillPart
  <2>1. rpc' = "idle" /\ had' = {} BY <1>2 DEF Crash, PassRaises, Fill, FillPart, Forget
  <2> QED BY <2>1 DEF SeenOnceMore
<1>3. CASE BeginPass
  <2>1. rpc' = "checking" /\ had' = had /\ rpc = "idle" BY <1>3 DEF BeginPass
  <2> QED BY <2>1 DEF SeenOnceMore
<1>4. CASE Check
  <2>1. CASE passNow - LastSeen < MinGap
    BY <1>4, <2>1 DEF Check, Forget, SeenOnceMore
  <2>2. CASE ~(passNow - LastSeen < MinGap)
    <3>1. had' = Stored /\ rpc' = "fetching" /\ from' = Start(LastSeen)
      BY <1>4, <2>2 DEF Check
    <3>2. ASSUME NEW t \in Stored, from' <= t PROVE rounds /\ t = Max(Stored)
      <4>1. t <= LastSeen /\ t \in Nat /\ LastSeen \in Int BY LastSeenFacts
      <4>2. rounds /\ t = LastSeen BY <3>1, <3>2, <4>1 DEF Start
      <4>3. Stored \in SUBSET (0 .. MaxTime) /\ MaxTime \in Nat
        BY ReconcileAssumption DEF Times
      <4>4. Max(Stored) \in Stored /\ \A n \in Stored : Max(Stored) >= n
        BY <4>3, MaxFacts
      <4>5. Max(Stored) <= LastSeen BY <4>4, LastSeenFacts
      <4>6. Max(Stored) \in Nat /\ Max(Stored) >= t BY <4>3, <4>4
      <4>7. t = Max(Stored) BY <4>1, <4>2, <4>5, <4>6
      <4> QED BY <4>2, <4>7
    <3> QED BY <1>0, <3>1, <3>2 DEF SeenOnceMore
  <2> QED BY <2>1, <2>2
<1>5. CASE CheckRaises
  <2>1. had' = had /\ rpc = "checking" /\ rpc' = "fetching" BY <1>5 DEF CheckRaises
  <2> QED BY <2>1 DEF SeenOnceMore
<1> QED BY <1>1, <1>2, <1>3, <1>4, <1>5 DEF Next, PassStep

\* Of what its query saw a pass stores nothing again but, where the adapter rounds
\* its start down, the newest (reconciler.py:36-48).
THEOREM OnlyNewestRepeats == Spec => RepeatsOnlyNewest
<1> DEFINE I == TypeOK /\ SeenOnceMore
<1>1. Init => I
  <2> SUFFICES ASSUME Init PROVE I OBVIOUS
  <2>1. SeenOnceMore BY DEF Init, SeenOnceMore
  <2> QED BY <2>1, InitTypeOK
<1>2. I /\ [Next]_vars => I'
  BY TypeStep, SeenStep
<1> DEFINE Repeats == \A t \in had : filled'[t] # filled[t] => rounds /\ t = Max(had)
<1>3. ASSUME I, [Next]_vars PROVE [Repeats]_vars
  <2>1. CASE Fill \/ FillPart
    <3>1. rpc = "fetching" BY <2>1 DEF Fill, FillPart
    <3>2. PICK S \in SUBSET Asked : filled' = Add(filled, S) BY <2>1 DEF Fill, FillPart
    <3>3. S \in SUBSET Times /\ filled \in [Times -> 0 .. MaxCopies] /\ had \subseteq Times
      BY <1>3, TypedSets DEF Asked, TypeOK
    <3>4. ASSUME NEW t \in had, filled'[t] # filled[t] PROVE from <= t
      <4>1. t \in S BY <3>2, <3>3, <3>4, AddFacts
      <4> QED BY <4>1 DEF Asked
    <3> QED BY <1>3, <3>1, <3>4 DEF SeenOnceMore
  <2>2. CASE ~(Fill \/ FillPart)
    <3>1. filled' = filled
      BY <1>3, <2>2 DEF Next, FeedStep, PassStep, Tick, Receive, Flush, Disconnect, Reconnect,
                        Crash, BeginPass, Check, CheckRaises, PassRaises, vars
    <3> QED BY <3>1
  <2> QED BY <2>1, <2>2
<1> QED BY <1>1, <1>2, <1>3, PTL DEF Spec, RepeatsOnlyNewest

-----------------------------------------------------------------------------
(* The tail is filled                                                      *)

LEMMA TailStep ==
    ASSUME TypeOK, SkippedIsInside, TailIsFilled, [Next]_vars
    PROVE  SkippedIsInside' /\ TailIsFilled'
<1> USE TypedSets
<1>1. CASE Tick
  <2> PICK new \in {{}, {now + 1}} : traded' = traded \cup new
    BY <1>1 DEF Tick
  <2>1. UNCHANGED <<live, filled, rpc, passNow, from, lastPass>>
    BY <1>1 DEF Tick, pass
  <2>2. Stored' = Stored BY <2>1 DEF Stored
  <2>3. \A t \in traded' : t \in traded \/ t = now + 1
    OBVIOUS
  <2>4. SkippedIsInside'
    <3>1. rpc = "fetching" => from <= passNow /\ from \in Int BY DEF SkippedIsInside, TypeOK
    <3> QED BY <2>1, <2>2, <2>3, <3>1 DEF SkippedIsInside
  <2>5. TailIsFilled'
    <3>1. lastPass <= now /\ MinGap \in Nat BY ReconcileAssumption DEF TypeOK
    <3> QED BY <2>1, <2>2, <2>3, <3>1 DEF TailIsFilled
  <2> QED BY <2>4, <2>5
<1>2. CASE Receive \/ Disconnect \/ Reconnect \/ Crash
  <2>1. UNCHANGED <<traded, live, filled, lastPass>>
        /\ (rpc' = "idle" \/ UNCHANGED <<rpc, passNow, from>>)
    BY <1>2 DEF Receive, Disconnect, Reconnect, Crash, Forget, pass
  <2>2. Stored' = Stored BY <2>1 DEF Stored
  <2> QED BY <2>1, <2>2 DEF SkippedIsInside, TailIsFilled
<1>3. CASE Flush
  <2>1. live' = live \cup buffered /\ filled' = filled /\ buffered \in SUBSET Times
        /\ UNCHANGED <<traded, rpc, passNow, from, lastPass>>
    BY <1>3 DEF Flush, pass, TypeOK
  <2>2. Stored' = Stored \cup buffered BY <2>1, StoredGrows
  <2> QED BY <2>1, <2>2 DEF SkippedIsInside, TailIsFilled
<1>4. CASE BeginPass \/ PassRaises
  <2>1. UNCHANGED <<traded, live, filled, lastPass>> /\ rpc' \in {"idle", "checking"}
    BY <1>4 DEF BeginPass, PassRaises, Forget, feed
  <2>2. Stored' = Stored BY <2>1 DEF Stored
  <2> QED BY <2>1, <2>2 DEF SkippedIsInside, TailIsFilled
<1>5. CASE Check
  <2>1. UNCHANGED <<traded, live, filled>> BY <1>5 DEF Check, feed
  <2>2. Stored' = Stored BY <2>1 DEF Stored
  <2>3. MinGap \in Nat \ {0} /\ Lookback \in Nat /\ MinGap <= Lookback
        /\ Window = passNow - Lookback
    BY ReconcileAssumption DEF Window
  <2>4. CASE passNow - LastSeen < MinGap
    <3>1. rpc' = "idle" /\ lastPass' = passNow BY <1>5, <2>4 DEF Check, Forget
    <3>2. LastSeen \in Stored /\ LastSeen > passNow - MinGap
      BY <2>3, <2>4, LastSeenFacts
    <3>3. SkippedIsInside' BY <3>1 DEF SkippedIsInside
    <3>4. ASSUME NEW t \in traded' \ Stored', t <= lastPass' - MinGap
          PROVE  \E s \in Stored' : s > t
      <4>1. t \in Nat /\ LastSeen \in Nat BY <2>1, <3>2, <3>4 DEF Stored
      <4>2. LastSeen > t BY <2>3, <3>1, <3>2, <3>4, <4>1
      <4> QED BY <2>2, <3>2, <4>2
    <3>5. TailIsFilled' BY <3>4 DEF TailIsFilled
    <3> QED BY <3>3, <3>5
  <2>5. CASE ~(passNow - LastSeen < MinGap)
    <3>1. /\ rpc' = "fetching" /\ UNCHANGED <<passNow, lastPass>>
          /\ from' = LastSeen \/ from' = LastSeen + 1
      BY <1>5, <2>5 DEF Check, Start
    <3>2. from' <= passNow BY <2>3, <2>5, <3>1, LastSeenFacts
    <3>3. ASSUME NEW t \in traded \ Stored, passNow - Lookback < t, t < from'
          PROVE  \E s \in Stored : s > t
      <4>1. t <= LastSeen BY <3>1, <3>3, LastSeenFacts
      <4>2. LastSeen \in Stored BY <2>3, <3>3, <4>1, LastSeenFacts
      <4>3. LastSeen > t BY <3>3, <4>1, <4>2, LastSeenFacts
      <4> QED BY <4>2, <4>3
    <3> QED BY <2>1, <2>2, <3>1, <3>2, <3>3 DEF SkippedIsInside, TailIsFilled
  <2> QED BY <2>4, <2>5
<1>6. CASE CheckRaises
  <2>1. UNCHANGED <<traded, live, filled, passNow, lastPass>>
        /\ (from' = passNow - Lookback \/ from' = passNow - Lookback + 1)
    BY <1>6 DEF CheckRaises, Start, feed, Window
  <2>2. Stored' = Stored BY <2>1 DEF Stored
  <2>3. from' <= passNow BY <2>1, ReconcileAssumption
  <2>4. \A t \in traded : ~(passNow - Lookback < t /\ t < from')
    BY <2>1, ReconcileAssumption
  <2> QED BY <2>1, <2>2, <2>3, <2>4 DEF SkippedIsInside, TailIsFilled
<1>7. CASE Fill \/ FillPart
  <2>1. rpc = "fetching" /\ rpc' = "idle" /\ UNCHANGED <<traded, live>>
    BY <1>7 DEF Fill, FillPart, Forget, feed
  <2>2. Asked \in SUBSET Times BY DEF Asked
  <2>3. CASE Fill
    <3>1. Stored' = Stored \cup Asked /\ lastPass' = passNow
      BY <2>1, <2>2, <2>3, StoredGrows DEF Fill
    <3>2. ASSUME NEW t \in traded' \ Stored', lastPass' - Lookback < t, t <= lastPass' - MinGap
          PROVE  \E s \in Stored' : s > t
      <4>1. t \in traded \ Stored /\ t \notin Asked /\ t <= passNow
        BY <2>1, <3>1, <3>2, ReconcileAssumption
      <4>2. t < from /\ from \in Int BY <4>1 DEF Asked, TypeOK
      <4> QED BY <2>1, <3>1, <3>2, <4>1, <4>2 DEF SkippedIsInside
    <3> QED BY <2>1, <3>2 DEF SkippedIsInside, TailIsFilled
  <2>4. CASE FillPart
    <3>1. PICK S \in SUBSET Asked : filled' = Add(filled, S)
      BY <2>4 DEF FillPart
    <3>2. Stored' = Stored \cup S /\ lastPass' = lastPass
      BY <2>1, <2>2, <2>4, <3>1, StoredGrows DEF FillPart
    <3> QED BY <2>1, <3>2 DEF SkippedIsInside, TailIsFilled
  <2> QED BY <1>7, <2>3, <2>4
<1>8. CASE UNCHANGED vars
  <2>1. Stored' = Stored BY <1>8 DEF vars, feed, Stored
  <2> QED BY <1>8, <2>1 DEF vars, pass, SkippedIsInside, TailIsFilled
<1> QED
  BY <1>1, <1>2, <1>3, <1>4, <1>5, <1>6, <1>7, <1>8 DEF Next, FeedStep, PassStep

\* A pass that wrote a complete answer, or had nothing to ask for, leaves nothing
\* older than MinGap missing behind the last stored trade of its window, whatever
\* earlier passes were given only in part (reconciler.py:32-61).
THEOREM PassesFillTheTail == Spec => []TailIsFilled
<1> DEFINE I == TypeOK /\ SkippedIsInside /\ TailIsFilled
<1>1. Init => I
  <2> SUFFICES ASSUME Init PROVE I OBVIOUS
  <2>1. SkippedIsInside /\ TailIsFilled BY DEF Init, SkippedIsInside, TailIsFilled
  <2> QED BY <2>1, InitTypeOK
<1>2. I /\ [Next]_vars => I'
  BY TypeStep, TailStep
<1> QED BY <1>1, <1>2, PTL DEF Spec

=============================================================================
