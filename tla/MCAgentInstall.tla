--------------------------- MODULE MCAgentInstall ---------------------------
(* AgentInstall on small instances.                                        *)
EXTENDS AgentInstall, TLC

CONSTANTS m1, m2, t1, t2, t3, o1

\* Tokens are random UUIDs.
Symmetry == Permutations(Tokens)
=============================================================================
