--------------------------- MODULE TerminalBridge ---------------------------
(***************************************************************************)
(* Interactive terminals: a browser's WebSocket (http/ws.ts), the session  *)
(* table of the HostAgent it was opened on (host-agent.ts, openShell), the *)
(* agent's own table and the shells themselves (agent/agent.ts).           *)
(*                                                                         *)
(* A session lives in four places that learn of its end one after another: *)
(* the shell exits, the browser leaves, the agent's connection dies, or    *)
(* the agent does.  A new connection brings a new HostAgent and a new      *)
(* Agent object, whose tables are empty; shells are children of the agent's*)
(* process and outlive the connection they were opened over.               *)
(*                                                                         *)
(* Abstractions.  What is typed and printed is left out.  A session id is  *)
(* a UUID, used once.  A terminal opened on a host that is offline, or by  *)
(* a user without an account there, is closed at once and never counts.    *)
(***************************************************************************)
EXTENDS Naturals, Sequences, SequencesExt

CONSTANTS Sessions

VARIABLES
  link,         \* the agent's connection: "up", "half" (dead, unnoticed), "down"
  term,         \* the browser's WebSocket of each session
  stale,        \* sessions whose own connection to the agent is over
  shells,       \* HostAgent.shells of the present connection
  agentShells,  \* Agent.shells of the present connection
  proc,         \* the shell process of each session
  toAgent,      \* messages on the wire
  toControl

vars == <<link, term, stale, shells, agentShells, proc, toAgent, toControl>>

-----------------------------------------------------------------------------

\* "closing": the server closed the socket, its close event is still to come.
Term == {"none", "open", "closing", "closed"}

Proc == {"none", "alive", "killed", "dead", "failed"}

Message == [session : Sessions, type : {"openShell", "closeShell", "shellExit", "error"}]

Msg(s, t) == [session |-> s, type |-> t]

Init ==
  /\ link = "up"
  /\ term = [s \in Sessions |-> "none"]
  /\ stale = {}
  /\ shells = {}
  /\ agentShells = {}
  /\ proc = [s \in Sessions |-> "none"]
  /\ toAgent = <<>>
  /\ toControl = <<>>

\* sendControl of the connection session `s` was opened on.
SendControl(s, t) ==
  toAgent' = IF link = "up" /\ s \notin stale THEN Append(toAgent, Msg(s, t)) ELSE toAgent

\* The transport of the Agent session `s` was opened by.
SendNode(s, t) ==
  toControl' = IF link = "up" /\ s \notin stale THEN Append(toControl, Msg(s, t)) ELSE toControl

-----------------------------------------------------------------------------
(* The control plane.                                                      *)

\* openTerminal: the fleet still lists an agent whose link is half open.
OpenTerminal(s) ==
  /\ link # "down"
  /\ term[s] = "none"
  /\ term' = [term EXCEPT ![s] = "open"]
  /\ shells' = shells \cup {s}
  /\ SendControl(s, "openShell")
  /\ UNCHANGED <<link, stale, agentShells, proc, toControl>>

\* Variant: the session is forgotten, the agent is not told.
CloseTerminal_Quiet(s) ==
  /\ term[s] \in {"open", "closing"}
  /\ term' = [term EXCEPT ![s] = "closed"]
  /\ shells' = shells \ {s}
  /\ UNCHANGED <<link, stale, agentShells, proc, toAgent, toControl>>

\* The socket's close event, whoever closed it: shell.close().
CloseTerminal(s) ==
  /\ term[s] \in {"open", "closing"}
  /\ term' = [term EXCEPT ![s] = "closed"]
  /\ shells' = shells \ {s}
  /\ SendControl(s, "closeShell")
  /\ UNCHANGED <<link, stale, agentShells, proc, toControl>>

\* onExit: the browser is told and its socket closed.
Hangup(ss) == [s \in Sessions |-> IF s \in ss /\ term[s] = "open" THEN "closing" ELSE term[s]]

\* Variant: an exit only clears the table.
ReceiveExit_Untold(s) ==
  /\ shells' = shells \ {s}
  /\ UNCHANGED term

ReceiveExit(s) ==
  /\ shells' = shells \ {s}
  /\ term' = Hangup({s} \cap shells)

(* HostAgent.receive: an exit ends its session; an error that answers no   *)
(* request is nobody's.                                                    *)
Receive ==
  /\ link # "down"
  /\ toControl # <<>>
  /\ toControl' = Tail(toControl)
  /\ \/ Head(toControl).type = "shellExit" /\ ReceiveExit(Head(toControl).session)
     \/ Head(toControl).type = "error" /\ UNCHANGED <<shells, term>>
  /\ UNCHANGED <<link, stale, agentShells, proc, toAgent>>

\* HostAgent.disconnect: every session of the connection is told it is over.
Disconnect ==
  /\ link # "down"
  /\ link' = "down"
  /\ term' = Hangup(shells)
  /\ shells' = {}
  /\ stale' = {s \in Sessions : term[s] # "none"}
  /\ agentShells' = {}
  /\ toAgent' = <<>>
  /\ toControl' = <<>>
  /\ UNCHANGED proc

\* The agent connects again: a new HostAgent here, a new Agent there.
Reconnect ==
  /\ link = "down"
  /\ link' = "up"
  /\ UNCHANGED <<term, stale, shells, agentShells, proc, toAgent, toControl>>

-----------------------------------------------------------------------------
(* The host.                                                               *)

\* The connection dies unnoticed, and what is on the wire with it.
Fade ==
  /\ link = "up"
  /\ link' = "half"
  /\ toAgent' = <<>>
  /\ toControl' = <<>>
  /\ UNCHANGED <<term, stale, shells, agentShells, proc>>

\* The agent's process ends, and its shells lose their terminals.
AgentDies ==
  /\ link' = IF link = "down" THEN "down" ELSE "half"
  /\ proc' = [s \in Sessions |-> IF proc[s] \in {"alive", "killed"} THEN "dead" ELSE proc[s]]
  /\ agentShells' = {}
  /\ toAgent' = <<>>
  /\ toControl' = <<>>
  /\ UNCHANGED <<term, stale, shells>>

\* runOpenShell: a shell is spawned, or cannot be.
OpenShell(s) ==
  \/ /\ proc' = [proc EXCEPT ![s] = "alive"]
     /\ agentShells' = agentShells \cup {s}
     /\ UNCHANGED toControl
  \/ /\ proc' = [proc EXCEPT ![s] = "failed"]
     /\ SendNode(s, "error")
     /\ UNCHANGED agentShells

\* closeShell: a session the agent's table has is killed and dropped from it.
CloseShell(s) ==
  /\ proc' = [proc EXCEPT ![s] = IF s \in agentShells THEN "killed" ELSE @]
  /\ agentShells' = agentShells \ {s}
  /\ UNCHANGED toControl

OnMessage ==
  /\ toAgent # <<>>
  /\ toAgent' = Tail(toAgent)
  /\ \/ Head(toAgent).type = "openShell" /\ OpenShell(Head(toAgent).session)
     \/ Head(toAgent).type = "closeShell" /\ CloseShell(Head(toAgent).session)
  /\ UNCHANGED <<link, term, stale, shells>>

\* proc.exited: by itself, or because it was killed.
Exited(s) ==
  /\ proc[s] \in {"alive", "killed"}
  /\ proc' = [proc EXCEPT ![s] = "dead"]
  /\ agentShells' = agentShells \ {s}
  /\ SendNode(s, "shellExit")
  /\ UNCHANGED <<link, term, stale, shells, toAgent>>

Next ==
  \/ \E s \in Sessions : OpenTerminal(s) \/ CloseTerminal(s) \/ Exited(s)
  \/ Receive
  \/ Disconnect
  \/ Reconnect
  \/ Fade
  \/ AgentDies
  \/ OnMessage

Spec == Init /\ [][Next]_vars

(* Messages are delivered while the link lives, a socket that was closed   *)
(* gets its close event, and a dead link is noticed (Bun's idle timer      *)
(* closes a socket that stayed silent).  No shell has to exit.             *)
Fairness ==
  /\ WF_vars(Receive)
  /\ WF_vars(OnMessage)
  /\ WF_vars(link = "half" /\ Disconnect)
  /\ \A s \in Sessions : WF_vars(term[s] = "closing" /\ CloseTerminal(s))

FairSpec == Spec /\ Fairness
-----------------------------------------------------------------------------

TypeOK ==
  /\ link \in {"up", "half", "down"}
  /\ term \in [Sessions -> Term]
  /\ stale \subseteq Sessions /\ shells \subseteq Sessions /\ agentShells \subseteq Sessions
  /\ proc \in [Sessions -> Proc]
  /\ toAgent \in Seq(Message) /\ toControl \in Seq(Message)

(* The session table holds exactly the terminals that are open on the      *)
(* present connection: an entry goes with its browser, with its shell and  *)
(* with its connection, whichever goes first.                              *)
ShellsAreOpenTerminals ==
  shells = {s \in Sessions : term[s] = "open" /\ s \notin stale}

(* While the connection lives, a shell whose terminal is gone is about to  *)
(* be told: its closeShell is on the wire, behind its openShell.           *)
NoOrphanOnLiveLink ==
  link = "up" =>
    \A s \in Sessions \ stale :
      proc[s] = "alive" /\ term[s] = "closed" => Contains(toAgent, Msg(s, "closeShell"))

(* While the connection lives, the terminal of a shell that has exited is  *)
(* about to be told.                                                       *)
ExitIsOnItsWay ==
  link = "up" =>
    \A s \in Sessions \ stale :
      proc[s] = "dead" /\ term[s] = "open" => Contains(toControl, Msg(s, "shellExit"))

(* A terminal whose shell is gone does not stay open, whether the exit is  *)
(* reported or the connection died with it.                                *)
TerminalEnds ==
  \A s \in Sessions : proc[s] = "dead" ~> term[s] # "open"

(* next.md: the PTY is "ephemeral and tied 1:1 to the WebSocket connection *)
(* - navigating away or losing the tab kills it instantly".                *)
ShellDiesWithTerminal ==
  \A s \in Sessions : term[s] = "closed" ~> proc[s] # "alive"
=============================================================================
