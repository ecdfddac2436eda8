----------------------------- MODULE MCAccounts -----------------------------
(* Two parts that share nothing, each on a small instance and one to a     *)
(* behaviour: Accounts, and ComposeStacks with one directory.  Users, ids  *)
(* and calls are interchangeable: ids are random.  The same ids serve as   *)
(* sessions and as stacks, and the same calls in both parts, so that one   *)
(* symmetry serves both.                                                   *)
EXTENDS Accounts, ComposeStacks, TLC

CONSTANTS u1, u2, s1, s2, c1, c2, d1, p1

MCPredicted == (d1 :> p1)

VARIABLE part

MCInit ==
  /\ part \in {"accounts", "stacks"}
  /\ AccountsInit
  /\ StackInit
  /\ part = "accounts" => folder = (d1 :> "none")

MCNext ==
  \/ part = "accounts" /\ AccountsNext /\ UNCHANGED <<part, stackVars>>
  \/ part = "stacks" /\ StackNext /\ UNCHANGED <<part, accountVars>>

MCSpec == MCInit /\ [][MCNext]_<<part, accountVars, stackVars>>

Symmetry == Permutations(Users) \cup Permutations(Sessions) \cup Permutations(Calls)
=============================================================================
