----------------------------- MODULE SymbolMap -----------------------------
(***************************************************************************)
(* The point-in-time reference data: the table symbol_map, seeded from     *)
(* config/symbols.toml and closed by retire_mapping, and the corrections   *)
(* it logs (cryptodata/core/corrections.py).                               *)
(*                                                                         *)
(* A pair stands for a (canonical, venue).  Every call opens a connection  *)
(* of its own, and retire_mapping opens two: other calls come in between,  *)
(* and the process may be killed there.                                    *)
(***************************************************************************)
EXTENDS Naturals, FiniteSets

CONSTANTS
    Pairs,      \* (canonical, venue)
    Natives,    \* tickers of the venues
    MaxTime,    \* bound of the model: effective times are 0 .. MaxTime
    SeedTimes,  \* the effective_from_ns that seed_symbol_map is called with
    MaxKills,   \* bound of the model: how often a process is killed in a call
    Unlisted,   \* no ticker
    Unread,     \* no configuration
    NoCall      \* no call of retire_mapping

Times == 0 .. MaxTime
Open  == MaxTime + 1    \* effective_to_ns IS NULL: later than every time

Config == [Pairs -> Natives \cup {Unlisted}]
Row == [pair : Pairs, native : Natives, from : Times, to : Times \cup {Open}]
Retirement == [pair : Pairs, at : Times]

ASSUME SymbolAssumption ==
    /\ MaxTime \in Nat
    /\ SeedTimes \subseteq Times
    /\ MaxKills \in Nat
    /\ Unlisted \notin Natives
    /\ Unread \notin Config
    /\ NoCall \notin Retirement

VARIABLES
    config,    \* pair -> its ticker in config/symbols.toml, or Unlisted
    index,     \* the configuration as the running process has cached it
    rows,      \* the table symbol_map
    log,       \* the retirements in the table corrections
    retiring,  \* the call of retire_mapping between its two statements
    kills

vars == <<config, index, rows, log, retiring, kills>>

TypeOK ==
    /\ config \in Config
    /\ index \in Config \cup {Unread}
    /\ rows \subseteq Row
    /\ log \subseteq Retirement
    /\ retiring \in Retirement \cup {NoCall}
    /\ kills \in 0 .. MaxKills

Init ==
    /\ config \in Config
    /\ index = Unread
    /\ rows = {}
    /\ log = {}
    /\ retiring = NoCall
    /\ kills = 0

-----------------------------------------------------------------------------
(* The configuration and the processes that read it                        *)

EditConfig ==
    /\ \E p \in Pairs, n \in Natives \cup {Unlisted} : config' = [config EXCEPT ![p] = n]
    /\ UNCHANGED <<index, rows, log, retiring, kills>>

\* The index of the configuration is cached for the life of a process.
NewProcess ==
    /\ index' = Unread
    /\ UNCHANGED <<config, rows, log, retiring, kills>>

Loaded == IF index = Unread THEN config ELSE index

-----------------------------------------------------------------------------
(* seed_symbol_map                                                         *)

\* Fault: the native ticker is part of the key.
HasKeyAndNative(r) == \E s \in rows : s.pair = r.pair /\ s.from = r.from /\ s.native = r.native

\* PRIMARY KEY (canonical, venue, effective_from_ns)
HasKey(r) == \E s \in rows : s.pair = r.pair /\ s.from = r.from

Seeded(eff) ==
    {[pair |-> p, native |-> Loaded[p], from |-> eff, to |-> Open] :
        p \in {q \in Pairs : Loaded[q] # Unlisted}}

New(eff) == {r \in Seeded(eff) : ~HasKey(r)}

\* Fault: a conflict re-opens the mapping.
SeedReopens ==
    /\ index' = Loaded
    /\ \E eff \in SeedTimes :
        rows' = New(eff) \cup
                  {IF \E s \in Seeded(eff) : s.pair = r.pair /\ s.from = r.from
                   THEN [r EXCEPT !.to = Open] ELSE r : r \in rows}
    /\ UNCHANGED <<config, log, retiring, kills>>

\* INSERT ... ON CONFLICT DO NOTHING, for every mapping in the configuration.
Seed ==
    /\ index' = Loaded
    /\ \E eff \in SeedTimes : rows' = rows \cup New(eff)
    /\ UNCHANGED <<config, log, retiring, kills>>

\* The process is killed between two of the inserts.
SeedKilled ==
    /\ kills < MaxKills
    /\ kills' = kills + 1
    /\ \E eff \in SeedTimes : \E done \in SUBSET New(eff) : rows' = rows \cup done
    /\ index' = Unread
    /\ UNCHANGED <<config, log, retiring>>

-----------------------------------------------------------------------------
(* retire_mapping                                                          *)

Close ==
    /\ retiring = NoCall
    /\ \E p \in Pairs, at \in Times :
        /\ rows' = {IF r.pair = p /\ r.to = Open THEN [r EXCEPT !.to = at] ELSE r : r \in rows}
        /\ retiring' = [pair |-> p, at |-> at]
    /\ UNCHANGED <<config, index, log, kills>>

\* Fault: a pair is logged once only.
RecordOnce ==
    /\ retiring # NoCall
    /\ log' = IF \E l \in log : l.pair = retiring.pair THEN log ELSE log \cup {retiring}
    /\ retiring' = NoCall
    /\ UNCHANGED <<config, index, rows, kills>>

RecordCorrection ==
    /\ retiring # NoCall
    /\ log' = log \cup {retiring}
    /\ retiring' = NoCall
    /\ UNCHANGED <<config, index, rows, kills>>

\* The process is killed, or record_correction raises, between the two.
CloseKilled ==
    /\ retiring # NoCall
    /\ kills < MaxKills
    /\ kills' = kills + 1
    /\ retiring' = NoCall
    /\ index' = Unread
    /\ UNCHANGED <<config, rows, log>>

Next ==
    \/ EditConfig \/ NewProcess
    \/ Seed \/ SeedKilled
    \/ Close \/ RecordCorrection \/ CloseKilled

Spec == Init /\ [][Next]_vars

-----------------------------------------------------------------------------
(* Properties                                                              *)

\* What symbol_map_asof(t) returns for a pair.
Asof(p, t) == {r \in rows : r.pair = p /\ r.from <= t /\ t < r.to}
NativesAsof(p, t) == {r.native : r \in Asof(p, t)}

\* At any time a pair has at most one mapping, whatever edits, restarts, seeds,
\* retirements and kills came before (corrections.py:155-162).
OneMapping == \A p \in Pairs, t \in Times : \A r, s \in Asof(p, t) : r = s

\* A ticker that was retired does not come back: no answer about a time from
\* its retirement on gains it again, although every start of the ingest process
\* seeds the table with a configuration that may still list it
\* (corrections.py:115, ingest.py:39).
RetiredStaysRetired ==
    [][\A r \in rows, t \in Times :
          r.to # Open /\ r.to <= t /\ r.native \notin NativesAsof(r.pair, t)
              => r.native \notin NativesAsof(r.pair, t)']_vars

\* What corrections.py:117-118 says: a rename is recorded by retire_mapping and a
\* re-seed.  A seed whose configuration lists a new ticker for a pair that was
\* retired makes that ticker the answer; but the key holds no ticker, and a seed
\* that starts at the same time meets the row of the old one.
RenameIsRecorded ==
    [][Seed => \A p \in Pairs :
          (/\ Loaded[p] # Unlisted
           /\ \E r \in rows : r.pair = p
           /\ \A r \in rows : r.pair = p => r.to # Open /\ r.native # Loaded[p])
              => Loaded[p] \in NativesAsof(p, MaxTime)']_vars

\* Every kill leaves at most one closed mapping that neither the corrections log
\* nor a call of retire_mapping that is still going on accounts for: the two
\* transactions of a retirement come apart in no other way (corrections.py:140-152).
UnloggedOnlyByKill ==
    Cardinality({r \in rows : r.to # Open /\ [pair |-> r.pair, at |-> r.to] \notin log \cup {retiring}})
        <= kills

=============================================================================
