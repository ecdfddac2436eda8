------------------------------- MODULE Fleet -------------------------------
(***************************************************************************)
(* The control plane's registry of host agents (fleet.ts) together with    *)
(* the node WebSocket endpoint that feeds it (node-server.ts).             *)
(*                                                                         *)
(* Every handler of the control plane runs to completion on one JavaScript *)
(* event loop, so each is one action here.  What interleaves is the order  *)
(* in which sockets open, identify, go silent and close, the removal of    *)
(* machines by an operator, the writes of agents.json, which nobody awaits *)
(* (`void this.persistState()`), and a restart of the control plane.       *)
(*                                                                         *)
(* Abstractions.  A connection id is a random UUID: an id may be used      *)
(* again here once nothing refers to it.  An AgentRecord is the mode it    *)
(* records.  Whether a token is accepted is left open (module AgentInstall *)
(* says which ones are).                                                   *)
(***************************************************************************)
EXTENDS Naturals, Sequences, SequencesExt

CONSTANTS
  Machines,   \* stable machine ids
  Local,      \* the machine the control plane runs on
  Conns,      \* connections of remote agents
  Embedded,   \* the in-process agent of the control plane's own host
  None        \* no record

ASSUME FleetAssumption ==
  /\ Local \in Machines
  /\ Embedded \notin Conns
  /\ None \notin {"live", "installed", "embedded"}

VARIABLES
  sock,         \* the WebSocket of each connection, as the server sees it
  peer,         \* the machine and the mode of the agent behind each handle
  gone,         \* connections whose peer is gone, the socket still half open
  agents,       \* NodeServer.agents: the connections messages are routed to
  connections,  \* Fleet.connections: the handles of a machine, oldest first
  active,       \* HostAgent.active of each handle
  knownAgents,  \* Fleet.knownAgents
  disk,         \* agents.json
  writes        \* snapshots of knownAgents on their way to agents.json

vars == <<sock, peer, gone, agents, connections, active, knownAgents, disk, writes>>

-----------------------------------------------------------------------------

AgentMode == {"live", "installed", "embedded"}

MODE_RANK == [live |-> 1, installed |-> 2, embedded |-> 3]

Handles == Conns \cup {Embedded}

Rank(who, h) == MODE_RANK[who[h].mode]

\* The handle at place i of a list is preferred to the one at place j.
Beats(who, list, i, j) ==
  \/ Rank(who, list[i]) > Rank(who, list[j])
  \/ Rank(who, list[i]) = Rank(who, list[j]) /\ i >= j

\* Variant: the newest connection wins, whatever its rank.
ActiveOf_Newest(who, list) == list[Len(list)]

\* The highest-ranking handle of a non-empty list, the newest of equals.
ActiveOf(who, list) ==
  list[CHOOSE i \in DOMAIN list : \A j \in DOMAIN list : Beats(who, list, i, j)]

\* Fleet.reconcile: activate the active handle, deactivate the others.
Reconciled(list) ==
  [h \in Handles |-> IF Contains(list, h) THEN h = ActiveOf(peer, list) ELSE active[h]]

\* Fleet.recordAgent, of the active handle of `list`.
Recorded(m, list) ==
  [knownAgents EXCEPT ![m] = peer[ActiveOf(peer, list)].mode]

\* Fleet.get: the handle operations on a machine are sent to.
Get(m) == ActiveOf(peer, connections[m])

Connected(m) == connections[m] # <<>>

\* Fleet.persistState: a snapshot of the records sets off for the disk.
PersistState == writes' = writes \cup {knownAgents'}

-----------------------------------------------------------------------------

(* A fresh process: only the embedded agent is connected, and `stored` is  *)
(* what agents.json held.                                                  *)
Boot(stored) == [stored EXCEPT ![Local] = "embedded"]

Init ==
  /\ sock = [c \in Conns |-> "closed"]
  /\ peer = [h \in Handles |-> [machine |-> Local,
                                mode |-> IF h = Embedded THEN "embedded" ELSE "live"]]
  /\ gone = {}
  /\ agents = {}
  /\ connections = [m \in Machines |-> IF m = Local THEN <<Embedded>> ELSE <<>>]
  /\ active = [h \in Handles |-> TRUE]
  /\ disk = [m \in Machines |-> None]
  /\ knownAgents = Boot(disk)
  /\ writes = {knownAgents}

\* A remote agent of machine `m`, running in mode `md`, opens a WebSocket.
Open(c, m, md) ==
  /\ sock[c] = "closed"
  /\ sock' = [sock EXCEPT ![c] = "open"]
  /\ peer' = [peer EXCEPT ![c] = [machine |-> m, mode |-> md]]
  /\ UNCHANGED <<gone, agents, connections, active, knownAgents, disk, writes>>

(* Fleet.register of a new handle of `m`: it joins the list, which is      *)
(* reconciled, and the active handle is put on record.                     *)
Register(c, m) ==
  LET list == Append(connections[m], c)
  IN  /\ connections' = [connections EXCEPT ![m] = list]
      /\ active' = Reconciled(list)
      /\ knownAgents' = Recorded(m, list)
      /\ PersistState

\* The first message: an identify with a token the server accepts.
Identify(c) ==
  /\ sock[c] = "open"
  /\ sock' = [sock EXCEPT ![c] = "identified"]
  /\ agents' = agents \cup {c}
  /\ Register(c, peer[c].machine)
  /\ UNCHANGED <<peer, gone, disk>>

\* The agent's host or its network dies without a close frame.
Vanish(c) ==
  /\ sock[c] # "closed"
  /\ c \notin gone
  /\ gone' = gone \cup {c}
  /\ UNCHANGED <<sock, peer, agents, connections, active, knownAgents, disk, writes>>

\* Variant: a departure forgets the standbys of the machine too.
Deregister_All(c, m) ==
  /\ connections' = [connections EXCEPT ![m] = <<>>]
  /\ UNCHANGED <<active, knownAgents>>
  /\ PersistState

(* Fleet.deregister of a handle of `m`: the last one to leave takes the    *)
(* machine offline and keeps its record, otherwise a standby may be        *)
(* promoted and is the one on record.                                      *)
Deregister(c, m) ==
  LET list == RemoveAt(connections[m], CHOOSE i \in DOMAIN connections[m] : connections[m][i] = c)
  IN  /\ connections' = [connections EXCEPT ![m] = list]
      /\ \/ /\ list = <<>>
            /\ UNCHANGED <<active, knownAgents>>
         \/ /\ list # <<>>
            /\ active' = Reconciled(list)
            /\ knownAgents' = Recorded(m, list)
      /\ PersistState

(* The close event of a socket, whatever closed it: the peer, the idle    *)
(* timer, a rebound listener, or the refusal of its first message (not     *)
(* JSON, no identify, a bad token), after which nothing was registered.    *)
Close(c) ==
  /\ sock[c] # "closed"
  /\ sock' = [sock EXCEPT ![c] = "closed"]
  /\ gone' = gone \ {c}
  /\ agents' = agents \ {c}
  /\ IF c \in agents
     THEN Deregister(c, peer[c].machine)
     ELSE UNCHANGED <<connections, active, knownAgents, writes>>
  /\ UNCHANGED <<peer, disk>>

\* Variant: a connected machine can be removed too.
RemoveServer_Online(m) ==
  /\ knownAgents[m] # None
  /\ knownAgents' = [knownAgents EXCEPT ![m] = None]
  /\ PersistState
  /\ UNCHANGED <<sock, peer, gone, agents, connections, active, disk>>

\* Fleet.remove: an operator forgets a machine that is offline.
RemoveServer(m) ==
  /\ ~Connected(m)
  /\ knownAgents[m] # None
  /\ knownAgents' = [knownAgents EXCEPT ![m] = None]
  /\ PersistState
  /\ UNCHANGED <<sock, peer, gone, agents, connections, active, disk>>

\* writeFileAtomic renames one of the snapshots in flight into place.
WriteLands(w) ==
  /\ writes' = writes \ {w}
  /\ disk' = w
  /\ UNCHANGED <<sock, peer, gone, agents, connections, active, knownAgents>>

\* The control plane dies and a new process boots from agents.json.
Restart ==
  /\ sock' = [c \in Conns |-> "closed"]
  /\ gone' = {}
  /\ agents' = {}
  /\ connections' = [m \in Machines |-> IF m = Local THEN <<Embedded>> ELSE <<>>]
  /\ active' = [active EXCEPT ![Embedded] = TRUE]
  /\ knownAgents' = Boot(disk)
  /\ writes' = {knownAgents'}
  /\ UNCHANGED <<peer, disk>>

Next ==
  \/ \E c \in Conns :
       \/ \E m \in Machines, md \in {"live", "installed"} : Open(c, m, md)
       \/ Identify(c)
       \/ Vanish(c)
       \/ Close(c)
  \/ \E m \in Machines : RemoveServer(m)
  \/ \E w \in writes : WriteLands(w)
  \/ Restart

Spec == Init /\ [][Next]_vars

-----------------------------------------------------------------------------

\* The values of the variables.
TypeOK ==
  /\ sock \in [Conns -> {"closed", "open", "identified"}]
  /\ peer \in [Handles -> [machine : Machines, mode : AgentMode]]
  /\ \A h \in Handles : peer[h].mode = "embedded" <=> h = Embedded
  /\ gone \in SUBSET Conns
  /\ agents \in SUBSET Conns
  /\ connections \in [Machines -> Seq(Handles)]
  /\ active \in [Handles -> BOOLEAN]
  /\ knownAgents \in [Machines -> AgentMode \cup {None}]
  /\ disk \in [Machines -> AgentMode \cup {None}]
  /\ writes \in SUBSET [Machines -> AgentMode \cup {None}]

(* The two tables agree: a connection is routed to a HostAgent exactly     *)
(* while its socket is identified, and the fleet then lists that HostAgent *)
(* once, under the machine it identified as, and under no other; no entry  *)
(* outlives its socket and no open socket is missing from the fleet.       *)
RoutesAgree ==
  /\ agents = {c \in Conns : sock[c] = "identified"}
  /\ \A m \in Machines, h \in Handles :
       Contains(connections[m], h) <=>
         /\ h \in agents \cup {Embedded}
         /\ peer[h].machine = m
  /\ \A m \in Machines : \A i, j \in DOMAIN connections[m] :
       connections[m][i] = connections[m][j] => i = j

(* Of the connected agents of one machine, exactly the one that operations *)
(* are sent to has its metrics forwarded; the others are demoted.          *)
OneActive ==
  \A m \in Machines : \A i \in DOMAIN connections[m] :
    active[connections[m][i]] <=> connections[m][i] = Get(m)

(* A connected machine is on record with the mode of its active agent, so  *)
(* that it stays listed, as what it last was, when it goes offline.        *)
KnownCoversConnected ==
  \A m \in Machines : Connected(m) => knownAgents[m] = peer[Get(m)].mode

(* No agent, remote or installed on the control plane's own machine, ever  *)
(* takes that machine away from the embedded agent, and it is never        *)
(* offline (embedded-agent.ts: "so it always stays the active connection").*)
LocalIsEmbedded == Connected(Local) /\ Get(Local) = Embedded

(* An agent that stays connected loses the active role only to one that    *)
(* registers in this very step with a rank at least as high.               *)
NoUsurper ==
  [][\A m \in Machines :
       (Connected(m) /\ Contains(connections'[m], Get(m)) /\ Get(m)' # Get(m)) =>
          /\ ~Contains(connections[m], Get(m)')
          /\ Rank(peer', Get(m)') >= Rank(peer, Get(m))]_vars
=============================================================================
