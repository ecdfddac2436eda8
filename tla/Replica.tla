------------------------------- MODULE Replica -------------------------------
(***************************************************************************)
(* What a page that mirrors a server's state over a stream of events owes  *)
(* its reader: each thing it shows is something the server really said,    *)
(* and never an older version of it than it showed before.                 *)
(***************************************************************************)
EXTENDS Naturals

CONSTANT Items

VARIABLES
    truth,     \* the version of each item at the server; 0 before there is one
    withdrawn, \* items that were withdrawn
    view       \* the version of each item the page shows; 0 where it shows none

ReplicaInit ==
    /\ truth \in [Items -> Nat]
    /\ withdrawn \subseteq Items
    /\ view = [i \in Items |-> 0]

\* The server moves on; items may be withdrawn.
Advance ==
    /\ truth' \in [Items -> Nat]
    /\ \A i \in Items : truth'[i] >= truth[i]
    /\ withdrawn \subseteq withdrawn' /\ withdrawn' \subseteq Items
    /\ UNCHANGED view

\* The page learns versions at least as new as its own, and may lose what has
\* been withdrawn.
Learn ==
    /\ \A i \in Items : \/ view[i] <= view'[i] /\ view'[i] <= truth[i]
                        \/ view'[i] = 0 /\ i \in withdrawn
    /\ UNCHANGED <<truth, withdrawn>>

\* The page is emptied: its user logs out.
Reset ==
    /\ view' = [i \in Items |-> 0]
    /\ UNCHANGED <<truth, withdrawn>>

ReplicaSpec == ReplicaInit /\ [][Advance \/ Learn \/ Reset]_<<truth, withdrawn, view>>
=============================================================================
