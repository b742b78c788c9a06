----------------------------- MODULE CopyStore -----------------------------
(***************************************************************************)
(* A partition as its readers should see it: how many copies of each row   *)
(* it holds.  Processes ask for batches to be stored, and a batch is later *)
(* stored or forgotten.  No copy appears that was not asked for, and none  *)
(* goes away.  How the copies are spread over files, and how files are     *)
(* merged, is left out.                                                    *)
(***************************************************************************)
EXTENDS Naturals

CONSTANT Rows

VARIABLES
    asked,    \* row -> how often some process asked to store it
    copies    \* row -> copies of it in the partition

StoreInit ==
    /\ asked = [r \in Rows |-> 0]
    /\ copies = [r \in Rows |-> 0]

AddTo(m, S) == [r \in Rows |-> IF r \in S THEN m[r] + 1 ELSE m[r]]

Ask(S) ==
    /\ asked' = AddTo(asked, S)
    /\ UNCHANGED copies

Store(S) ==
    /\ \A r \in S : copies[r] < asked[r]
    /\ copies' = AddTo(copies, S)
    /\ UNCHANGED asked

StoreNext == \E S \in SUBSET Rows : Ask(S) \/ Store(S)

StoreSpec == StoreInit /\ [][StoreNext]_<<asked, copies>>

=============================================================================
