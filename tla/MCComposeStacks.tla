--------------------------- MODULE MCComposeStacks ---------------------------
(* ComposeStacks with one directory, on its own.                           *)
EXTENDS ComposeStacks, TLC

CONSTANTS d1, p1, i1, i2, c1, c2

MCPredicted == (d1 :> p1)

\* Ids are random, and calls of one kind do the same.
Symmetry == Permutations(StackIds) \cup Permutations(StackCalls)

Spec == StackInit /\ [][StackNext]_stackVars
=============================================================================
