------------------------------ MODULE MCHostWork ------------------------------
(* What the control plane has going on with one host, on small instances:  *)
(* terminals, task runs, an upload and the agent's link itself.  None of   *)
(* them shares state with another, so a behaviour is one of a single part, *)
(* the others stand still, and their states add up instead of multiplying. *)
EXTENDS TerminalBridge, Tasks, ChunkedUpload

CONSTANTS s1, s2, s3, r1, u, lan, wan, none

VARIABLES part, urls, net, at, todo, socket, armed, preferred, stored, cycle, restarts

L == INSTANCE AgentLink WITH link <- socket, Urls <- {lan, wan},
                             Configs <- {<<lan, wan>>, <<wan>>}, ReprobeEvery <- 3,
                             MaxRestarts <- 1, None <- none

linkVars == <<urls, net, at, todo, socket, armed, preferred, stored, cycle, restarts>>

workVars == <<part, vars, tasksVars, uploadVars, linkVars>>

WorkInit ==
  /\ part \in {"terminals", "tasks", "upload", "link"}
  /\ Init
  /\ TasksInit
  /\ UploadInit
  /\ L!LinkInit
  /\ part # "link" => urls = <<wan>> /\ net = [a \in {lan, wan} |-> "answers"]

WorkNext ==
  \/ part = "terminals" /\ Next /\ UNCHANGED <<part, tasksVars, uploadVars, linkVars>>
  \/ part = "tasks" /\ TasksNext /\ UNCHANGED <<part, vars, uploadVars, linkVars>>
  \/ part = "upload" /\ UploadNext /\ UNCHANGED <<part, vars, tasksVars, linkVars>>
  \/ part = "link" /\ L!LinkNext /\ UNCHANGED <<part, vars, tasksVars, uploadVars>>

WorkFairness ==
  \/ part = "terminals" /\ Fairness
  \/ part = "tasks" /\ TasksFairness
  \/ part = "upload" /\ UploadFairness
  \/ part = "link" /\ L!LinkFairness

WorkSpec == WorkInit /\ [][WorkNext]_workVars /\ WorkFairness

-----------------------------------------------------------------------------

(* AgentLink!ComesBack: an agent with an address that answers is online    *)
(* again and again (runAgentCli, runWithUrl).                              *)
ComesBack == part = "link" => L!ComesBack

(* AgentLink!FindsPrimary: an agent on its alternative address finds its   *)
(* way back to the primary one (orderUrls, PRIMARY_REPROBE_EVERY).         *)
FindsPrimary == part = "link" => L!FindsPrimary
=============================================================================
