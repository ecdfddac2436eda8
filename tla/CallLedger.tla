----------------------------- MODULE CallLedger -----------------------------
(***************************************************************************)
(* What the holder of a HostAgent is promised of its calls: each is settled*)
(* once, output reaches a caller only while it waits, and the end of the   *)
(* connection settles everybody at once.                                   *)
(***************************************************************************)
EXTENDS Naturals

CONSTANT Requests

VARIABLES
  closed,  \* the connection is known to be gone
  cell,    \* each call: "idle", "waiting", "resolved" or "failed"
  heard    \* chunks of output each caller was given

LedgerInit ==
  /\ closed = FALSE
  /\ cell = [r \in Requests |-> "idle"]
  /\ heard = [r \in Requests |-> 0]

Begin(r) ==
  /\ cell[r] = "idle"
  /\ cell' = [cell EXCEPT ![r] = "waiting"]
  /\ UNCHANGED <<closed, heard>>

Hear(r) ==
  /\ cell[r] = "waiting"
  /\ heard' = [heard EXCEPT ![r] = @ + 1]
  /\ UNCHANGED <<closed, cell>>

Settle(r, outcome) ==
  /\ cell[r] = "waiting"
  /\ cell' = [cell EXCEPT ![r] = outcome]
  /\ UNCHANGED <<closed, heard>>

CloseAll ==
  /\ closed = FALSE
  /\ closed' = TRUE
  /\ cell' = [r \in Requests |-> IF cell[r] = "waiting" THEN "failed" ELSE cell[r]]
  /\ UNCHANGED heard

LedgerNext ==
  \/ \E r \in Requests : Begin(r) \/ Hear(r) \/ Settle(r, "resolved") \/ Settle(r, "failed")
  \/ CloseAll

LedgerSpec == LedgerInit /\ [][LedgerNext]_<<closed, cell, heard>>
=============================================================================
