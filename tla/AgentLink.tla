------------------------------ MODULE AgentLink ------------------------------
(***************************************************************************)
(* How an agent stays connected (agent/agent-cli.ts): the loop over the    *)
(* control plane's addresses, the deadline of an attempt, the watchdog of  *)
(* a connection, the address remembered in state.json, and the control     *)
(* plane's heartbeat (node-server.ts).                                     *)
(*                                                                         *)
(* The network is free: an address answers, refuses or swallows what it is *)
(* sent, and changes its mind at any time; a connection is cut, which the  *)
(* agent is told, or goes silent, which nobody is.                         *)
(*                                                                         *)
(* Left out: what travels over a connection (HostRequests), which agent of *)
(* a machine is active (Fleet), and delays so long that the heartbeat of a *)
(* live link misses the 45 s of the watchdog.                              *)
(***************************************************************************)
EXTENDS Naturals, Sequences

CONSTANTS
    Urls,          \* addresses of the control plane
    Configs,       \* the configurations an agent may be started with: sequences of addresses
    ReprobeEvery,  \* PRIMARY_REPROBE_EVERY, at least 1
    MaxRestarts,   \* bound on restarts of the agent
    None

VARIABLES
    urls,       \* control and altControl
    net,        \* how each address answers
    at,         \* where the loop is
    todo,       \* the addresses left in this cycle; the first is being used
    link,       \* the socket
    armed,      \* the watchdog runs
    preferred,  \* the address that worked last
    stored,     \* lastControl in state.json
    cycle,      \* the number of the cycle, modulo ReprobeEvery
    restarts

linkVars == <<urls, net, at, todo, link, armed, preferred, stored, cycle, restarts>>
envVars == <<urls, net, restarts>>

LinkTypeOK ==
    /\ urls \in Configs
    /\ net \in [Urls -> {"answers", "refuses", "swallows"}]
    /\ at \in {"dialing", "connected", "asleep"}
    /\ todo \in Seq(Urls)
    /\ link \in {"none", "opened", "identified", "silent", "cut"}
    /\ armed \in BOOLEAN
    /\ {preferred, stored} \subseteq Urls \cup {None}
    /\ cycle \in 0 .. ReprobeEvery
    /\ restarts \in 0 .. MaxRestarts

Configured(u) == \E i \in DOMAIN urls : urls[i] = u

\* orderUrls: the remembered address first, if it is still configured.
OrderUrls(remembered) ==
    IF Configured(remembered)
    THEN <<remembered>> \o SelectSeq(urls, LAMBDA u : u # remembered)
    ELSE urls

LinkInit ==
    /\ urls \in Configs
    /\ net \in [Urls -> {"answers", "refuses", "swallows"}]
    /\ at = "dialing"
    /\ todo = urls
    /\ link = "none"
    /\ armed = FALSE
    /\ preferred = None
    /\ stored = None
    /\ cycle = 0
    /\ restarts = 0

(***************************************************************************)
(* An attempt (connect).                                                   *)
(***************************************************************************)
Dialing == at = "dialing" /\ todo # <<>>

\* The attempt has failed: the socket is hung up, the next address is due.
NextUrl ==
    /\ todo' = Tail(todo)
    /\ link' = "none"
    /\ UNCHANGED <<envVars, at, armed, preferred, stored, cycle>>

Opened ==
    /\ Dialing /\ link = "none" /\ net[Head(todo)] = "answers"
    /\ link' = "opened"
    /\ UNCHANGED <<envVars, at, todo, armed, preferred, stored, cycle>>

Refused ==
    /\ Dialing
    /\ \/ link = "none" /\ net[Head(todo)] = "refuses"
       \/ link = "cut"
    /\ NextUrl

\* CONNECT_TIMEOUT_MS covers the socket's opening and the acknowledgement.
ConnectTimeout ==
    /\ Dialing
    /\ \/ link = "none" /\ net[Head(todo)] = "swallows"
       \/ link \in {"opened", "identified", "silent"}
    /\ NextUrl

\* The control plane reads identify, and acknowledges.
Identified(u) ==
    /\ Dialing /\ Head(todo) = u /\ link = "opened"
    /\ link' = "identified"
    /\ UNCHANGED <<envVars, at, todo, armed, preferred, stored, cycle>>

(* The acknowledgement settles the attempt; runWithUrl takes the socket    *)
(* over and onConnected remembers the address.  The watchdog is not armed. *)
Acknowledged(u) ==
    /\ Dialing /\ Head(todo) = u /\ link = "identified"
    /\ at' = "connected"
    /\ armed' = FALSE
    /\ preferred' = u
    /\ UNCHANGED <<envVars, todo, link, stored, cycle>>

(***************************************************************************)
(* A connection (runWithUrl).                                              *)
(***************************************************************************)
\* A ping has arrived.
Beat ==
    /\ at = "connected" /\ link = "identified" /\ ~armed
    /\ armed' = TRUE
    /\ UNCHANGED <<envVars, at, todo, link, preferred, stored, cycle>>

Finish ==
    /\ at' = "asleep"
    /\ link' = "none"
    /\ armed' = FALSE
    /\ UNCHANGED <<envVars, todo, preferred, stored, cycle>>

Disconnected == at = "connected" /\ link = "cut" /\ Finish

\* Variant: the watchdog hangs up and waits for onclose.
X_Watchdog ==
    /\ at = "connected" /\ link = "silent" /\ armed
    /\ UNCHANGED linkVars

\* Nothing was heard for HEARTBEAT_TIMEOUT_MS since the last message.
Watchdog == at = "connected" /\ link = "silent" /\ armed /\ Finish

(***************************************************************************)
(* The loop (runAgentCli).                                                 *)
(***************************************************************************)
AllFailed ==
    /\ at = "dialing" /\ todo = <<>>
    /\ at' = "asleep"
    /\ UNCHANGED <<envVars, todo, link, armed, preferred, stored, cycle>>

\* Variant: the remembered address is never passed over.
X_Wake ==
    /\ at = "asleep"
    /\ cycle' = IF cycle = ReprobeEvery THEN 1 ELSE cycle + 1
    /\ at' = "dialing"
    /\ todo' = OrderUrls(preferred)
    /\ UNCHANGED <<envVars, link, armed, preferred, stored>>

(* RECONNECT_DELAY_MS later.  Cycle 0 is the only one with a number that   *)
(* ReprobeEvery divides which does not pass the remembered address over.   *)
Wake ==
    /\ at = "asleep"
    /\ cycle' = IF cycle = ReprobeEvery THEN 1 ELSE cycle + 1
    /\ at' = "dialing"
    /\ todo' = OrderUrls(IF cycle' = ReprobeEvery THEN None ELSE preferred)
    /\ UNCHANGED <<envVars, link, armed, preferred, stored>>

\* writeRuntimeState, started by onConnected and not awaited, has succeeded.
Remember ==
    /\ stored # preferred
    /\ stored' = preferred
    /\ UNCHANGED <<envVars, at, todo, link, armed, preferred, cycle>>

\* The process ends and is started again, perhaps with other addresses.
Restart ==
    /\ restarts < MaxRestarts
    /\ restarts' = restarts + 1
    /\ urls' \in Configs
    /\ preferred' = stored
    /\ todo' = IF stored \in {urls'[i] : i \in DOMAIN urls'}
               THEN <<stored>> \o SelectSeq(urls', LAMBDA u : u # stored)
               ELSE urls'
    /\ at' = "dialing"
    /\ link' = "none"
    /\ armed' = FALSE
    /\ cycle' = 0
    /\ UNCHANGED <<net, stored>>

(***************************************************************************)
(* The network.                                                            *)
(***************************************************************************)
NetChanges ==
    /\ \E u \in Urls, how \in {"answers", "refuses", "swallows"} :
           net' = [net EXCEPT ![u] = how]
    /\ UNCHANGED <<urls, at, todo, link, armed, preferred, stored, cycle, restarts>>

Cut ==
    /\ link \in {"opened", "identified"}
    /\ link' = "cut"
    /\ UNCHANGED <<envVars, at, todo, armed, preferred, stored, cycle>>

Silence ==
    /\ link \in {"opened", "identified"}
    /\ link' = "silent"
    /\ UNCHANGED <<envVars, at, todo, armed, preferred, stored, cycle>>

-----------------------------------------------------------------------------

\* What the agent does by itself, timers included.
AgentStep ==
    \/ Opened \/ Refused \/ ConnectTimeout
    \/ Disconnected \/ Watchdog
    \/ AllFailed \/ Wake

LinkNext ==
    \/ AgentStep
    \/ \E u \in Urls : Identified(u) \/ Acknowledged(u)
    \/ Beat \/ Remember \/ Restart
    \/ NetChanges \/ Cut \/ Silence

(* The agent's event loop and timers run on; a control plane that answers  *)
(* at an address does not miss the deadline every time; it beats.          *)
LinkFairness ==
    /\ WF_linkVars(AgentStep)
    /\ WF_linkVars(Beat)
    /\ \A u \in Urls : SF_linkVars(Identified(u)) /\ SF_linkVars(Acknowledged(u))

LinkSpec == LinkInit /\ [][LinkNext]_linkVars /\ LinkFairness

-----------------------------------------------------------------------------

Online == at = "connected" /\ link = "identified"

\* A connection that went silent before its first heartbeat.
Deaf == at = "connected" /\ link = "silent" /\ ~armed

(* Whatever other addresses do, however often connections are cut or go    *)
(* silent: as long as one configured address answers, the agent is online  *)
(* again and again.  Excepted is a connection that goes silent before the  *)
(* first ping has armed the watchdog.                                      *)
ComesBack ==
    \A u \in Urls :
        /\ <>[](Configured(u) /\ net[u] = "answers")
        /\ []<>~Deaf
        => []<>Online

(* An agent that fell back to the alternative address, and loses its       *)
(* connection now and again, finds its way back to the primary one as long *)
(* as that answers (PRIMARY_REPROBE_EVERY).                                *)
FindsPrimary ==
    \A u \in Urls :
        /\ <>[](urls[1] = u /\ net[u] = "answers")
        /\ []<>(at = "asleep")
        => []<>(Online /\ Head(todo) = u)
=============================================================================
