------------------------------- MODULE MCFleet -------------------------------
(* Fleet and UpdateAgent on two machines, the control plane's own and a    *)
(* remote one.  A behaviour is either one of the registry alone, with      *)
(* restarts, removals and writes, or one of updates over it.               *)
EXTENDS UpdateAgent, TLC

CONSTANTS
  UpdateConns   \* the connections that take part in updates

VARIABLE part

MCInit == UpdateInit /\ part \in {"registry", "updates"}

MCNext ==
  \/ part = "registry" /\ Next /\ UNCHANGED <<taskVars, part>>
  \/ part = "updates" /\ UpdateNext /\ UNCHANGED part
     /\ \A c \in Conns \ UpdateConns : sock'[c] = "closed"

MCSpec == MCInit /\ [][MCNext]_<<allVars, part>>

\* Connections that do the same are interchangeable.
Symmetry == Permutations(UpdateConns)
=============================================================================
