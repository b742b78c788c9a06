------------------------------ MODULE RowSink ------------------------------
(***************************************************************************)
(* What the storage layer promises the code that hands it rows, with       *)
(* buffers, batches, files and threads left out: a row that was accepted   *)
(* becomes durable once, or is given up once; nothing else happens to it,  *)
(* and a durable row stays durable.                                        *)
(***************************************************************************)

CONSTANT Rows   \* the rows callers may hand over, each at most once

VARIABLES
    accepted,   \* rows handed over so far
    durable,    \* rows a reader will find on disk
    lost        \* rows given up by a failed write or by a crash

sinkVars == <<accepted, durable, lost>>

Pending == accepted \ (durable \cup lost)

SinkInit ==
    /\ accepted = {}
    /\ durable = {}
    /\ lost = {}

Accept(r) ==
    /\ r \notin accepted
    /\ accepted' = accepted \cup {r}
    /\ UNCHANGED <<durable, lost>>

Persist(S) ==
    /\ S \subseteq Pending
    /\ durable' = durable \cup S
    /\ UNCHANGED <<accepted, lost>>

GiveUp(S) ==
    /\ S \subseteq Pending
    /\ lost' = lost \cup S
    /\ UNCHANGED <<accepted, durable>>

SinkNext ==
    \/ \E r \in Rows : Accept(r)
    \/ \E S \in SUBSET Rows : Persist(S) \/ GiveUp(S)

SinkSpec == SinkInit /\ [][SinkNext]_sinkVars

=============================================================================
