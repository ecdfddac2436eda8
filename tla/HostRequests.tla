---------------------------- MODULE HostRequests ----------------------------
(***************************************************************************)
(* The requests the control plane makes of a host over one connection      *)
(* (host-agent.ts: request, streamExec, receive, disconnect) and the agent *)
(* that carries them out (agent/agent.ts: onMessage, runExecStream).       *)
(*                                                                         *)
(* The two ends are event loops joined by a WebSocket, which keeps the     *)
(* order of messages but may die, with what it carries, before either end  *)
(* learns of it.  The agent does not await its handlers, so replies come   *)
(* back in any order.  A timer may fire at any time while it is armed: what*)
(* is checked holds however slow the host is.                              *)
(*                                                                         *)
(* Abstractions.  A request is used once (its id is a UUID).  What a       *)
(* request asks for and what the reply says is left out, but for its being *)
(* an answer or an error; a chunk of output is a number.                   *)
(***************************************************************************)
EXTENDS Naturals, Sequences

CONSTANTS
  Requests,   \* the calls made during the life of the handle
  Streams,    \* those that stream their output: runStream, execStream
  MaxChunks   \* bound: chunks of output of one command

ASSUME RequestsAssumption ==
  /\ Streams \subseteq Requests
  /\ MaxChunks \in Nat

VARIABLES
  link,       \* the connection: "up", "half" (dead, unnoticed) or "down"
  call,       \* what became of each call
  pending,    \* HostAgent.pending
  timers,     \* the calls whose timeout is armed
  sinks,      \* HostAgent.execStreams
  got,        \* chunks of output delivered to the caller
  toAgent,    \* requests on the wire
  running,    \* the agent's handlers that have not replied
  sent,       \* chunks of output the agent has sent
  toControl   \* messages on the wire back

caller == <<call, pending, timers, sinks, got>>
agent == <<running, sent>>
vars == <<link, call, pending, timers, sinks, got, toAgent, running, sent, toControl>>

-----------------------------------------------------------------------------

Settled == {"resolved", "failed"}

Message == [req : Requests, kind : {"chunk", "answer", "error"}]

Init ==
  /\ link = "up"
  /\ call = [r \in Requests |-> "idle"]
  /\ pending = {}
  /\ timers = {}
  /\ sinks = {}
  /\ got = [r \in Requests |-> 0]
  /\ toAgent = <<>>
  /\ running = {}
  /\ sent = [r \in Requests |-> 0]
  /\ toControl = <<>>

\* sendControl: a socket that is closed, or dead, takes the message silently.
SendControl(r) == toAgent' = IF link = "up" THEN Append(toAgent, r) ELSE toAgent

\* Agent transport: only an open socket carries the message.
SendNode(msg) == toControl' = IF link = "up" THEN Append(toControl, msg) ELSE toControl

\* HostAgent.request: one reply, a fixed timeout.
Request(r) ==
  /\ r \notin Streams
  /\ call[r] = "idle"
  /\ call' = [call EXCEPT ![r] = "waiting"]
  /\ timers' = timers \cup {r}
  /\ pending' = pending \cup {r}
  /\ SendControl(r)
  /\ UNCHANGED <<link, sinks, got, agent, toControl>>

\* HostAgent.streamExec: a sink for the chunks, a timeout on silence.
StreamExec(r) ==
  /\ r \in Streams
  /\ call[r] = "idle"
  /\ call' = [call EXCEPT ![r] = "waiting"]
  /\ sinks' = sinks \cup {r}
  /\ pending' = pending \cup {r}
  /\ timers' = timers \cup {r}
  /\ SendControl(r)
  /\ UNCHANGED <<link, got, agent, toControl>>

\* Variant: a chunk puts the whole call, timer and all, back to its start.
ReceiveChunk_Revives(r) ==
  /\ timers' = timers \cup {r}
  /\ got' = [got EXCEPT ![r] = @ + 1]
  /\ UNCHANGED <<call, pending, sinks>>

\* HostAgent.receive of a chunk: output re-arms the timer; without a sink
\* the chunk is late and is dropped.
ReceiveChunk(r) ==
  /\ timers' = IF r \in sinks THEN timers \cup {r} ELSE timers
  /\ got' = IF r \in sinks THEN [got EXCEPT ![r] = @ + 1] ELSE got
  /\ UNCHANGED <<call, pending, sinks>>

\* Variant: a late reply settles the call again.
ReceiveReply_Late(r, outcome) ==
  /\ pending' = pending \ {r}
  /\ timers' = timers \ {r}
  /\ sinks' = sinks \ {r}
  /\ call' = [call EXCEPT ![r] = outcome]
  /\ UNCHANGED got

\* HostAgent.receive of a reply: a call that is no longer pending ignores it.
ReceiveReply(r, outcome) ==
  /\ pending' = pending \ {r}
  /\ timers' = timers \ {r}
  /\ sinks' = sinks \ {r}
  /\ call' = [call EXCEPT ![r] = IF r \in pending THEN outcome ELSE @]
  /\ UNCHANGED got

Receive ==
  /\ link # "down"
  /\ toControl # <<>>
  /\ toControl' = Tail(toControl)
  /\ LET msg == Head(toControl) IN
       \/ msg.kind = "chunk" /\ ReceiveChunk(msg.req)
       \/ msg.kind = "answer" /\ ReceiveReply(msg.req, "resolved")
       \/ msg.kind = "error" /\ ReceiveReply(msg.req, "failed")
  /\ UNCHANGED <<link, toAgent, agent>>

\* A request's timer, or a stream's: the call is forgotten and rejected.
Timeout(r) ==
  /\ r \in timers
  /\ timers' = timers \ {r}
  /\ pending' = pending \ {r}
  /\ sinks' = sinks \ {r}
  /\ call' = [call EXCEPT ![r] = "failed"]
  /\ UNCHANGED <<link, got, toAgent, agent, toControl>>

\* Variant: disconnect clears its tables without rejecting anybody.
Disconnect_Silent ==
  /\ link # "down"
  /\ link' = "down"
  /\ timers' = timers \ pending
  /\ pending' = {}
  /\ sinks' = {}
  /\ toAgent' = <<>>
  /\ toControl' = <<>>
  /\ UNCHANGED <<call, got, agent>>

(* HostAgent.disconnect, from the socket's close event: every pending call *)
(* is rejected, which clears its timer.                                    *)
Disconnect ==
  /\ link # "down"
  /\ link' = "down"
  /\ call' = [r \in Requests |-> IF r \in pending THEN "failed" ELSE call[r]]
  /\ timers' = timers \ pending
  /\ pending' = {}
  /\ sinks' = {}
  /\ toAgent' = <<>>
  /\ toControl' = <<>>
  /\ UNCHANGED <<got, agent>>

-----------------------------------------------------------------------------

\* The connection dies unnoticed; what is still on the wire may be lost.
Fade ==
  /\ link = "up"
  /\ link' = "half"
  /\ toAgent' = <<>>
  /\ \E n \in 0..Len(toControl) : toControl' = SubSeq(toControl, 1, n)
  /\ UNCHANGED <<caller, agent>>

\* Agent.onMessage starts a handler and does not wait for it.
OnMessage ==
  /\ toAgent # <<>>
  /\ running' = running \cup {Head(toAgent)}
  /\ toAgent' = Tail(toAgent)
  /\ UNCHANGED <<link, caller, sent, toControl>>

\* Variant: the end is reported without waiting for the output.
Output_Trails(r) ==
  /\ r \in Streams
  /\ sent[r] < MaxChunks
  /\ call[r] # "idle"
  /\ sent' = [sent EXCEPT ![r] = @ + 1]
  /\ SendNode([req |-> r, kind |-> "chunk"])
  /\ UNCHANGED <<link, caller, toAgent, running>>

\* runExecStream's pumps: a chunk of the command's output.
Output(r) ==
  /\ r \in running \cap Streams
  /\ sent[r] < MaxChunks
  /\ sent' = [sent EXCEPT ![r] = @ + 1]
  /\ SendNode([req |-> r, kind |-> "chunk"])
  /\ UNCHANGED <<link, caller, toAgent, running>>

\* The handler is done, the pumps of a stream with it, or it has failed.
Reply(r, kind) ==
  /\ r \in running
  /\ running' = running \ {r}
  /\ SendNode([req |-> r, kind |-> kind])
  /\ UNCHANGED <<link, caller, toAgent, sent>>

Next ==
  \/ \E r \in Requests :
       \/ Request(r) \/ StreamExec(r) \/ Timeout(r) \/ Output(r)
       \/ Reply(r, "answer") \/ Reply(r, "error")
  \/ Receive
  \/ Disconnect
  \/ Fade
  \/ OnMessage

Spec == Init /\ [][Next]_vars

\* A timer that stays armed fires; neither the host nor the link owe anything.
Fairness == \A r \in Requests : WF_vars(Timeout(r))

FairSpec == Spec /\ Fairness
-----------------------------------------------------------------------------

TypeOK ==
  /\ link \in {"up", "half", "down"}
  /\ call \in [Requests -> {"idle", "waiting"} \cup Settled]
  /\ pending \subseteq Requests
  /\ timers \subseteq Requests
  /\ sinks \subseteq Requests
  /\ got \in [Requests -> 0..MaxChunks]
  /\ toAgent \in Seq(Requests)
  /\ running \subseteq Requests
  /\ sent \in [Requests -> 0..MaxChunks]
  /\ toControl \in Seq(Message)

(* Every call that waits has its entry, its timer and, if it streams, its  *)
(* sink, and no entry, timer or sink outlives its call: whatever settles a *)
(* call (reply, error, timeout, disconnect) clears all three.              *)
NothingLeaks ==
  /\ pending = {r \in Requests : call[r] = "waiting"}
  /\ timers = pending
  /\ sinks = pending \cap Streams

(* A call is settled once: a reply that crosses its timeout or a           *)
(* disconnect changes nothing for the caller any more.                     *)
SettledOnce ==
  [][\A r \in Requests : call[r] \in Settled => call'[r] = call[r]]_vars

(* A command that is reported as finished was heard to its end: all of its *)
(* output, and not a chunk more, was delivered before the exit code.       *)
OutputComplete ==
  \A r \in Streams : call[r] = "resolved" => got[r] = sent[r]

(* When the connection is seen to be down nobody goes on waiting on it for *)
(* the rest of a timeout.                                                  *)
DisconnectSettlesAll ==
  [][link # "down" /\ link' = "down" => \A r \in Requests : call'[r] # "waiting"]_vars

Ledger == INSTANCE CallLedger WITH closed <- (link = "down"), cell <- call, heard <- got

(* Seen from its callers the handle is the abstract ledger: a call is      *)
(* settled once and for good, no output reaches one that does not wait, a  *)
(* disconnect settles all of them together - whatever crosses whatever on  *)
(* the wire (host-agent.ts, request, streamExec, receive, disconnect).     *)
ImplementsLedger == Ledger!LedgerSpec

(* Every call comes to an end, whether the host answers, hangs or is gone, *)
(* and though the handle it was made on may have been disconnected before. *)
EveryCallSettles ==
  \A r \in Requests : call[r] = "waiting" ~> call[r] \in Settled
=============================================================================
