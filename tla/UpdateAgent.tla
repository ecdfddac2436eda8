---------------------------- MODULE UpdateAgent ----------------------------
(***************************************************************************)
(* The update_agent task (features/servers/feature.ts) and updateSelf on   *)
(* the host (agent/agent-cli.ts), over the fleet registry of module Fleet. *)
(*                                                                         *)
(* The task asks the installed agent of one machine to replace its binary, *)
(* waits for the reply and then polls the fleet until another connection   *)
(* serves the machine.  Meanwhile connections come and go, live agents of  *)
(* the same machine stand by or are promoted, and the agent's process      *)
(* downloads, exits and is started again by its supervisor.                *)
(*                                                                         *)
(* Abstractions.  A build is "old" or "new"; under force the two carry the *)
(* same version string, so that only the connection can tell them apart.   *)
(* Only agents of the target machine connect.  The process exits 1.5 s     *)
(* after its reply and waits 5 s before it connects again, so a process    *)
(* about to exit makes no further connection.  An identify that is still   *)
(* on its way when the agent gives a connection up is lost with it.        *)
(* agents.json and the removal of machines stay in Fleet.                  *)
(***************************************************************************)
EXTENDS Fleet

CONSTANT Target   \* the machine whose agent is updated

ASSUME UpdateAssumption == Target \in Machines \ {Local}

VARIABLES
  build,     \* the build that runs behind each connection
  symlink,   \* the build the installed agent's symlink points at
  service,   \* the build of the installed agent's process, or "none"
  exiting,   \* that process has set its exit timer
  jobs,      \* its updateSelf calls: the connections they were asked over
  run        \* the task

hostVars == <<symlink, service, exiting, jobs>>
taskVars == <<build, symlink, service, exiting, jobs, run>>
allVars == <<vars, build, symlink, service, exiting, jobs, run>>

-----------------------------------------------------------------------------

Builds == {"old", "new"}

Finished == {"succeeded", "mismatch", "failed"}

UpdateInit ==
  /\ Init
  /\ build = [h \in Handles |-> "old"]
  /\ symlink = "old"
  /\ service = "old"
  /\ exiting = FALSE
  /\ jobs = {}
  /\ run = [st |-> "idle", before |-> Embedded, force |-> FALSE]

(* An agent of the machine connects: its one installed process, which has  *)
(* given up its last connection and is not about to exit, or an operator's *)
(* live agent of either build.                                             *)
Connect(c, md, b) ==
  /\ Open(c, Target, md)
  /\ \/ /\ md = "installed" /\ b = service /\ ~exiting
        /\ \A d \in Conns : sock[d] # "closed" /\ peer[d].mode = "installed" => d \in gone
     \/ md = "live"
  /\ build' = [build EXCEPT ![c] = b]
  /\ UNCHANGED <<hostVars, run>>

\* What happens to connections whatever the task does.
Traffic ==
  /\ \E c \in Conns : (c \notin gone /\ Identify(c)) \/ Vanish(c)
  /\ UNCHANGED taskVars

(* A connection closes; a request that was pending on it is rejected.      *)
Drop(c) ==
  /\ Close(c)
  /\ run' = IF run.st = "asked" /\ run.before = c THEN [run EXCEPT !.st = "failed"] ELSE run
  /\ UNCHANGED <<build, hostVars>>

-----------------------------------------------------------------------------
(* The task.                                                               *)

(* update_agent: the agent that serves the machine must be an installed    *)
(* one, and be of another version unless forced.                           *)
StartUpdate(force) ==
  /\ run.st = "idle"
  /\ Connected(Target)
  /\ peer[Get(Target)].mode = "installed"
  /\ force \/ build[Get(Target)] = "old"
  /\ run' = [st |-> "asked", before |-> Get(Target), force |-> force]
  /\ jobs' = IF Get(Target) \in gone THEN jobs ELSE jobs \cup {Get(Target)}
  /\ UNCHANGED <<vars, build, symlink, service, exiting>>

\* The request's 30 s timeout; the download may still be under way.
RequestTimeout ==
  /\ run.st = "asked"
  /\ run' = [run EXCEPT !.st = "failed"]
  /\ UNCHANGED <<vars, build, hostVars>>

\* Variant: the poll takes any agent that is online.
Poll_AnyConnection ==
  /\ run.st = "polling"
  /\ Connected(Target)
  /\ run' = [run EXCEPT !.st = IF run.force \/ build[Get(Target)] = "new"
                               THEN "succeeded" ELSE "mismatch"]
  /\ UNCHANGED <<vars, build, hostVars>>

(* waitForAgentReconnect: another connection serves the machine; its       *)
(* version is the final answer, unless forced.                             *)
Poll ==
  /\ run.st = "polling"
  /\ Connected(Target)
  /\ Get(Target) # run.before
  /\ run' = [run EXCEPT !.st = IF run.force \/ build[Get(Target)] = "new"
                               THEN "succeeded" ELSE "mismatch"]
  /\ UNCHANGED <<vars, build, hostVars>>

\* RECONNECT_TIMEOUT_MS.
GiveUp ==
  /\ run.st = "polling"
  /\ run' = [run EXCEPT !.st = "failed"]
  /\ UNCHANGED <<vars, build, hostVars>>

\* The next run of the task.
Again ==
  /\ run.st \in Finished
  /\ run' = [run EXCEPT !.st = "idle"]
  /\ UNCHANGED <<vars, build, hostVars>>

-----------------------------------------------------------------------------
(* The host.                                                               *)

\* The reply to a request, which only its own connection can carry.
Answer(c, st) ==
  run' = IF run.st = "asked" /\ run.before = c /\ c \notin gone /\ sock[c] = "identified"
         THEN [run EXCEPT !.st = st] ELSE run

\* updateSelf refuses, or its download fails.
UpdateFails(c) ==
  /\ c \in jobs
  /\ jobs' = jobs \ {c}
  /\ Answer(c, "failed")
  /\ UNCHANGED <<vars, build, symlink, service, exiting>>

\* Variant: the symlink is left to the next start.
Update_Unswapped(c) ==
  /\ c \in jobs
  /\ exiting' = TRUE
  /\ jobs' = jobs \ {c}
  /\ Answer(c, "polling")
  /\ UNCHANGED <<vars, build, symlink, service>>

(* updateSelf: the binary is downloaded, the symlink repointed and the     *)
(* exit timer set; then the reply is sent.                                 *)
Update(c) ==
  /\ c \in jobs
  /\ symlink' = "new"
  /\ exiting' = TRUE
  /\ jobs' = jobs \ {c}
  /\ Answer(c, "polling")
  /\ UNCHANGED <<vars, build, service>>

(* The process exits, by its timer or because it crashed, and its          *)
(* connections lose their peer.                                            *)
Exit ==
  /\ service # "none"
  /\ service' = "none"
  /\ exiting' = FALSE
  /\ jobs' = {}
  /\ gone' = gone \cup {c \in Conns : sock[c] # "closed" /\ peer[c].mode = "installed"}
  /\ UNCHANGED <<sock, peer, agents, connections, active, knownAgents, disk, writes>>
  /\ UNCHANGED <<build, symlink, run>>

\* The supervisor executes what the symlink points at.
Reexec ==
  /\ service = "none"
  /\ service' = symlink
  /\ UNCHANGED <<vars, build, symlink, exiting, jobs, run>>

UpdateNext ==
  \/ \E c \in Conns, md \in {"live", "installed"}, b \in Builds : Connect(c, md, b)
  \/ \E c \in Conns : Drop(c) \/ UpdateFails(c) \/ Update(c)
  \/ Traffic
  \/ \E force \in BOOLEAN : StartUpdate(force)
  \/ RequestTimeout
  \/ Poll
  \/ GiveUp
  \/ Again
  \/ Exit
  \/ Reexec

UpdateSpec == UpdateInit /\ [][UpdateNext]_allVars
-----------------------------------------------------------------------------

UpdateTypeOK ==
  /\ build \in [Handles -> Builds]
  /\ symlink \in Builds
  /\ service \in Builds \cup {"none"}
  /\ exiting \in BOOLEAN
  /\ jobs \subseteq Conns
  /\ run \in [st : {"idle", "asked", "polling"} \cup Finished, before : Handles, force : BOOLEAN]

(* A verdict reached on a live connection of the installed agent is right: *)
(* that connection is the restarted process, and it runs the new build.    *)
RightAboutLivePeers ==
  [][run.st = "polling" /\ run'.st \in {"succeeded", "mismatch"}
       /\ Get(Target) \notin gone /\ peer[Get(Target)].mode = "installed"
     => run'.st = "succeeded" /\ service = "new"]_allVars

(* The task only waits for a reconnect that is going to happen: whenever   *)
(* it polls, the host has swapped its binary and exits or has exited.      *)
PollingMeansSwapped == run.st = "polling" => symlink = "new" /\ (service = "old" => exiting)

(* "It's not going to spontaneously change version from here, so a         *)
(* mismatch is the final answer": after it the installed agent is not seen *)
(* on the build that was asked for until somebody updates it again.        *)
MismatchIsFinal ==
  run.st = "mismatch" /\ Connected(Target) /\ peer[Get(Target)].mode = "installed"
    => build[Get(Target)] = "old"
=============================================================================
