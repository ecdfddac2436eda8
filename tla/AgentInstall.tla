---------------------------- MODULE AgentInstall ----------------------------
(***************************************************************************)
(* Promotion of a live agent to an installed service: the control plane's  *)
(* enrollment and durable tokens (node-server.ts, config.ts), the          *)
(* installService operation (features/servers/feature.ts) and installSelf  *)
(* on the host (agent/agent-cli.ts, agent/self-install.ts).                *)
(*                                                                         *)
(* An operation is several steps of two event loops: the token is minted   *)
(* in memory, agent-tokens.json is written, the request crosses the wire,  *)
(* and the agent checks, writes its config, writes the unit, enables it,   *)
(* restarts the service and sets its exit timer, with an await between any *)
(* two of these.  Other operations on the same machine, a lost connection, *)
(* a failing step, a restart of either side can fall in each gap.          *)
(*                                                                         *)
(* Abstractions.  A token is a random UUID: one nothing refers to any more *)
(* may be drawn again.  A machine has one install command at a time, so    *)
(* its enrollment token is named by the machine.  The mechanism is systemd *)
(* (installManual starts the same process, without a supervisor).          *)
(***************************************************************************)
EXTENDS Naturals, FiniteSets

CONSTANTS
  Machines,
  Tokens,        \* durable tokens
  Ops,           \* installService calls that can be under way at once
  NoToken

VARIABLES
  tokens,     \* NodeServer.tokens: machines whose install command is valid
  durable,    \* NodeServer.durableTokens
  tokenFile,       \* agent-tokens.json
  ops,        \* installService calls on the control plane
  live,       \* the live agent of each machine
  leaving,    \* machines whose live agent has set its exit timer
  jobs,       \* installSelf calls on the hosts
  installed,  \* machines with a unit file (or a manifest)
  config,     \* the token in the installed agent's config.json
  service,    \* the installed agent's process
  held,       \* the token that process read when it started
  overwritten,  \* history: machines whose current token was in the file and
                \*   went from it when an older table was renamed over it
  overlapped    \* history: machines whose live agent took on an install while
                \*   it was at work on another, or about to leave

control == <<tokens, durable, tokenFile, ops, overwritten>>
host == <<live, leaving, jobs, installed, config, service, held, overlapped>>
installVars ==
  <<tokens, durable, tokenFile, ops, overwritten,
    live, leaving, jobs, installed, config, service, held, overlapped>>

-----------------------------------------------------------------------------

Process == {"off", "running", "connected"}

Registry == [Machines -> Tokens \cup {NoToken}]

Jobs == [m : Machines, tok : Tokens, force : BOOLEAN, again : BOOLEAN,
         st : {"asked", "approved", "configured", "unit", "enabled", "restarted"}]

\* `link` is false once the connection the operation started on is gone.
Op == [st : {"idle", "minting", "writing"}, m : Machines, tok : Tokens \cup {NoToken},
       snap : Registry, force : BOOLEAN, link : BOOLEAN]

NoTokens == [m \in Machines |-> NoToken]

Idle == [st |-> "idle", m |-> CHOOSE m \in Machines : TRUE, tok |-> NoToken,
         snap |-> NoTokens, force |-> FALSE, link |-> FALSE]

\* A token nobody has seen: crypto.randomUUID().
Fresh(t) ==
  /\ \A m \in Machines : t \notin {durable[m], tokenFile[m], config[m], held[m]}
  /\ \A o \in Ops : t # ops[o].tok /\ \A m \in Machines : t # ops[o].snap[m]
  /\ \A j \in jobs : t # j.tok

\* validateToken of a durable token: it is any machine's current one.
Accepted(t) == \E m \in Machines : t # NoToken /\ durable[m] = t

\* The connections of the live agents of `ms` are gone, for good.
HungUp(ms) ==
  [o \in Ops |-> [ops[o] EXCEPT !.link = @ /\ ops[o].m \notin ms]]

InstallInit ==
  /\ tokens = {}
  /\ durable = NoTokens
  /\ tokenFile = NoTokens
  /\ ops = [o \in Ops |-> Idle]
  /\ live = [m \in Machines |-> "off"]
  /\ leaving = {}
  /\ jobs = {}
  /\ installed = {}
  /\ config = NoTokens
  /\ service = [m \in Machines |-> "off"]
  /\ held = NoTokens
  /\ overwritten = {}
  /\ overlapped = {}

-----------------------------------------------------------------------------
(* The control plane.                                                      *)

\* mintToken, for an install command the operator asked for.
MintToken(m) ==
  /\ live[m] = "off"
  /\ tokens' = tokens \cup {m}
  /\ UNCHANGED <<durable, tokenFile, ops, overwritten, host>>

\* Thirty minutes later: the sweep, or validateToken, drops it.
ExpireToken(m) ==
  /\ tokens' = tokens \ {m}
  /\ UNCHANGED <<durable, tokenFile, ops, overwritten, host>>

(* installService: the agent that serves the machine must be a live one;   *)
(* the machine's durable token is replaced in memory before anything else. *)
InstallService(o, m, t, force) ==
  /\ ops[o].st = "idle"
  /\ live[m] = "connected"
  /\ service[m] # "connected"
  /\ Fresh(t)
  /\ durable' = [durable EXCEPT ![m] = t]
  /\ ops' = [ops EXCEPT ![o] = [st |-> "minting", m |-> m, tok |-> t,
                                snap |-> NoTokens, force |-> force, link |-> TRUE]]
  /\ overwritten' = overwritten \ {m}
  /\ UNCHANGED <<tokens, tokenFile, host>>

\* writeAgentTokens, after ensureDir: the whole table is serialised.
SerialiseTokens(o) ==
  /\ ops[o].st = "minting"
  /\ ops' = [ops EXCEPT ![o].st = "writing", ![o].snap = durable]
  /\ UNCHANGED <<tokens, durable, tokenFile, overwritten, host>>

\* The write throws, and with it installService: the agent is not asked, and
\* the table in memory keeps the token.
MintFails(o) ==
  /\ ops[o].st # "idle"
  /\ ops' = [ops EXCEPT ![o] = Idle]
  /\ UNCHANGED <<tokens, durable, tokenFile, overwritten, host>>

\* Variant: the request goes out without the file being written.
TokenWritten_Unsaved(o) ==
  /\ ops[o].st = "writing"
  /\ ops' = [ops EXCEPT ![o] = Idle]
  /\ jobs' = IF ops[o].link
             THEN jobs \cup {[m |-> ops[o].m, tok |-> ops[o].tok, force |-> ops[o].force,
                              again |-> FALSE, st |-> "asked"]}
             ELSE jobs
  /\ UNCHANGED <<tokens, durable, tokenFile, overwritten,
                 live, leaving, installed, config, service, held, overlapped>>

(* The snapshot is renamed into place and the request goes out, to the     *)
(* connection the operation began on: if that is gone, into the void.      *)
(* What the host answers, or that it does not within REQUEST_TIMEOUT_MS,   *)
(* is only reported to the operator.                                       *)
TokenWritten(o) ==
  /\ ops[o].st = "writing"
  /\ tokenFile' = ops[o].snap
  /\ overwritten' = {m \in Machines : /\ m \in overwritten \/ tokenFile[m] = durable[m]
                                      /\ ops[o].snap[m] # durable[m]}
  /\ ops' = [ops EXCEPT ![o] = Idle]
  /\ jobs' = IF ops[o].link
             THEN jobs \cup {[m |-> ops[o].m, tok |-> ops[o].tok, force |-> ops[o].force,
                              again |-> FALSE, st |-> "asked"]}
             ELSE jobs
  /\ UNCHANGED <<tokens, durable, live, leaving, installed, config, service, held, overlapped>>

\* Variant: the boot does not load the durable tokens.
RestartControl_NoInit ==
  /\ tokens' = {}
  /\ durable' = NoTokens
  /\ overwritten' = {}
  /\ ops' = [o \in Ops |-> Idle]
  /\ live' = [m \in Machines |-> IF live[m] = "off" THEN "off" ELSE "running"]
  /\ service' = [m \in Machines |-> IF service[m] = "off" THEN "off" ELSE "running"]
  /\ UNCHANGED <<tokenFile, leaving, jobs, installed, config, held, overlapped>>

(* The control plane restarts: init reads the durable tokens back, the     *)
(* enrollment tokens and everything under way are gone.                    *)
RestartControl ==
  /\ tokens' = {}
  /\ durable' = tokenFile
  /\ overwritten' = {}
  /\ ops' = [o \in Ops |-> Idle]
  /\ live' = [m \in Machines |-> IF live[m] = "off" THEN "off" ELSE "running"]
  /\ service' = [m \in Machines |-> IF service[m] = "off" THEN "off" ELSE "running"]
  /\ UNCHANGED <<tokenFile, leaving, jobs, installed, config, held, overlapped>>

-----------------------------------------------------------------------------
(* The hosts.                                                              *)

\* The operator runs the install command: /node-install, /node-bootstrap.
StartLive(m) ==
  /\ live[m] = "off"
  /\ m \in tokens
  /\ live' = [live EXCEPT ![m] = "running"]
  /\ UNCHANGED <<control, leaving, jobs, installed, config, service, held, overlapped>>

\* The live agent identifies with its enrollment token.
ConnectLive(m) ==
  /\ live[m] = "running"
  /\ m \in tokens
  /\ live' = [live EXCEPT ![m] = "connected"]
  /\ UNCHANGED <<control, leaving, jobs, installed, config, service, held, overlapped>>

\* Its connection breaks; the process keeps trying to reconnect.
DropLive(m) ==
  /\ live[m] = "connected"
  /\ live' = [live EXCEPT ![m] = "running"]
  /\ ops' = HungUp({m})
  /\ UNCHANGED <<tokens, durable, tokenFile, overwritten,
                 leaving, jobs, installed, config, service, held, overlapped>>

\* The live agent's process ends, by its own exit timer or the operator.
StopLive(m) ==
  /\ live[m] # "off"
  /\ live' = [live EXCEPT ![m] = "off"]
  /\ leaving' = leaving \ {m}
  /\ overlapped' = overlapped \ {m}
  /\ jobs' = {j \in jobs : j.m # m}
  /\ ops' = HungUp({m})
  /\ UNCHANGED <<tokens, durable, tokenFile, overwritten, installed, config, service, held>>

\* A job of installSelf goes on.
JobGoes(j, st) == jobs' = (jobs \ {j}) \cup {[j EXCEPT !.st = st]}

(* installSelf: refuse if a service is there already, unless forced.       *)
(* Whether one was there is remembered until the service is started.       *)
CheckInstalled(j) ==
  /\ j.st = "asked"
  /\ \/ /\ j.m \in installed /\ ~j.force
        /\ jobs' = jobs \ {j}
        /\ UNCHANGED overlapped
     \/ /\ j.m \in installed => j.force
        /\ jobs' = (jobs \ {j}) \cup {[j EXCEPT !.st = "approved", !.again = j.m \in installed]}
        /\ overlapped' = IF j.m \in leaving \/ \E i \in jobs : i.m = j.m /\ i.st # "asked"
                         THEN overlapped \cup {j.m} ELSE overlapped
  /\ UNCHANGED <<control, live, leaving, installed, config, service, held>>

\* The versioned binary, the symlink, the certificate and config.json.
WriteConfig(j) ==
  /\ j.st = "approved"
  /\ config' = [config EXCEPT ![j.m] = j.tok]
  /\ JobGoes(j, "configured")
  /\ UNCHANGED <<control, live, leaving, installed, service, held, overlapped>>

\* installSystemd: the unit file, and daemon-reload.
WriteUnit(j) ==
  /\ j.st = "configured"
  /\ installed' = installed \cup {j.m}
  /\ JobGoes(j, "unit")
  /\ UNCHANGED <<control, live, leaving, config, service, held, overlapped>>

\* installSystemd: enable --now, which leaves a running service as it is.
EnableNow(j) ==
  /\ j.st = "unit"
  /\ \/ /\ service[j.m] = "off"
        /\ service' = [service EXCEPT ![j.m] = "running"]
        /\ held' = [held EXCEPT ![j.m] = config[j.m]]
     \/ /\ service[j.m] # "off"
        /\ UNCHANGED <<service, held>>
  /\ JobGoes(j, "enabled")
  /\ UNCHANGED <<control, live, leaving, installed, config, overlapped>>

\* Variant: enable --now is all that is done.
RestartAgain_Skipped(j) ==
  /\ j.st = "enabled" /\ j.again
  /\ JobGoes(j, "restarted")
  /\ UNCHANGED <<control, live, leaving, installed, config, service, held, overlapped>>

\* What was installed before is restarted, to load what was written.
RestartAgain(j) ==
  /\ j.st = "enabled" /\ j.again
  /\ service' = [service EXCEPT ![j.m] = "running"]
  /\ held' = [held EXCEPT ![j.m] = config[j.m]]
  /\ JobGoes(j, "restarted")
  /\ UNCHANGED <<control, live, leaving, installed, config, overlapped>>

\* The manifest; then the live agent reports success and sets its exit timer.
StepAside(j) ==
  /\ j.st = (IF j.again THEN "restarted" ELSE "enabled")
  /\ leaving' = leaving \cup {j.m}
  /\ jobs' = jobs \ {j}
  /\ UNCHANGED <<control, live, installed, config, service, held, overlapped>>

\* A step of installSelf throws; what was done before it stays done, up to a
\* unit that is written, enabled and running.
InstallFails(j) ==
  /\ j.st # "asked"
  /\ jobs' = jobs \ {j}
  /\ UNCHANGED <<control, live, leaving, installed, config, service, held, overlapped>>

\* The installed agent identifies; refused tokens are tried for ever.
ConnectService(m) ==
  /\ service[m] = "running"
  /\ Accepted(held[m])
  /\ service' = [service EXCEPT ![m] = "connected"]
  /\ UNCHANGED <<control, live, leaving, jobs, installed, config, held, overlapped>>

\* The connection breaks.
DropService(m) ==
  /\ service[m] = "connected"
  /\ service' = [service EXCEPT ![m] = "running"]
  /\ UNCHANGED <<control, live, leaving, jobs, installed, config, held, overlapped>>

\* A crash or a reboot: systemd starts the service, which reads its config.
RestartService(m) ==
  /\ m \in installed
  /\ service' = [service EXCEPT ![m] = "running"]
  /\ held' = [held EXCEPT ![m] = config[m]]
  /\ UNCHANGED <<control, live, leaving, jobs, installed, config, overlapped>>

InstallNext ==
  \/ \E m \in Machines :
       \/ MintToken(m) \/ ExpireToken(m) \/ StartLive(m) \/ ConnectLive(m)
       \/ DropLive(m) \/ StopLive(m)
       \/ ConnectService(m) \/ DropService(m) \/ RestartService(m)
       \/ \E o \in Ops, t \in Tokens, force \in BOOLEAN : InstallService(o, m, t, force)
  \/ \E o \in Ops : SerialiseTokens(o) \/ MintFails(o) \/ TokenWritten(o)
  \/ \E j \in jobs : \/ CheckInstalled(j) \/ WriteConfig(j) \/ WriteUnit(j) \/ EnableNow(j)
                     \/ RestartAgain(j) \/ StepAside(j) \/ InstallFails(j)
  \/ RestartControl

InstallSpec == InstallInit /\ [][InstallNext]_installVars

-----------------------------------------------------------------------------

InstallTypeOK ==
  /\ tokens \subseteq Machines
  /\ durable \in Registry /\ tokenFile \in Registry /\ config \in Registry /\ held \in Registry
  /\ ops \in [Ops -> Op]
  /\ live \in [Machines -> Process] /\ service \in [Machines -> Process]
  /\ leaving \subseteq Machines /\ installed \subseteq Machines
  /\ overwritten \subseteq Machines /\ overlapped \subseteq Machines
  /\ jobs \subseteq Jobs

(* mintAgentToken, "Persisted so it survives restarts": a token that an    *)
(* agent was configured with and that is its machine's current one is the  *)
(* one in agent-tokens.json, whatever other installs, failed writes and    *)
(* restarts fall between its steps; unless an older table, serialised by   *)
(* another install, was renamed over it, which the code does not prevent.  *)
ConfiguredIsDurable ==
  \A m \in Machines \ overwritten :
    config[m] # NoToken /\ config[m] = durable[m] => tokenFile[m] = config[m]

(* A configured agent whose token is accepted stays accepted, through      *)
(* restarts and failures of either side, until somebody asks to install on *)
(* that machine again, the host itself rewrites its config, or a restart   *)
(* loads an older table that was renamed over the token.                   *)
OnlyReinstallRevokes ==
  [][\A m \in Machines \ overwritten :
       config[m] # NoToken /\ config[m] = durable[m] /\ config'[m] = config[m]
         /\ durable'[m] # durable[m]
       => \E o \in Ops : ops[o].st = "idle" /\ ops'[o].st = "minting" /\ ops'[o].m = m]_installVars

(* "Otherwise the overwritten binary/config never load" (installSelf): as  *)
(* long as a live agent is about to exit in favour of the service, that    *)
(* service runs, with what is in config.json: whichever steps of earlier   *)
(* installs failed, and whenever the service or either side restarted.  It *)
(* is not so of an agent that took on an install before another was done:  *)
(* the second may then have found no service and have started none.        *)
HandedOver ==
  \A m \in leaving \ overlapped : service[m] # "off" /\ held[m] = config[m]

(* validateToken, "Durable tokens (installed agents) never expire", and    *)
(* mintAgentToken, "to reconnect indefinitely": the token an installed     *)
(* agent was configured with is accepted.                                  *)
InstalledIsAccepted ==
  \A m \in installed :
    (\A j \in jobs : j.m # m) /\ (\A o \in Ops : ops[o].st = "idle") => Accepted(config[m])
=============================================================================
