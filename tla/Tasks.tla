------------------------------- MODULE Tasks -------------------------------
(***************************************************************************)
(* Task runs (tasks/runner.ts), their store (tasks/store.ts) and the       *)
(* control plane's own update (server-install.ts), which is a task that    *)
(* ends the process it runs in and is settled by the next one.             *)
(*                                                                         *)
(* A run is a mutable object that the store's map and the runner's flow    *)
(* share.  Each change is saved: the map's members are listed at once,     *)
(* their contents serialised after ensureDir, the file renamed into place  *)
(* later still, and only then is the change announced.  Saves of different *)
(* runs overlap, and the process may end between any two steps.            *)
(*                                                                         *)
(* Abstractions.  What a task does is one step with either outcome.  Logs, *)
(* results and times are left out.  There are two builds of the control    *)
(* plane.  The code that follows an awaited rename runs with it.           *)
(***************************************************************************)
EXTENDS Naturals, Sequences, SequencesExt

CONSTANTS
  Runs,        \* runs that are ever started
  Updates,     \* those of kind update_control_plane
  MAX_RUNS,    \* runs kept, at least one
  MaxFaults,  \* bound: crashes and failed writes
  NoRun

ASSUME TasksAssumption ==
  /\ Updates \subseteq Runs /\ NoRun \notin Updates
  /\ MAX_RUNS \in Nat \ {0}

VARIABLES
  up,        \* the process: "down", "booting" or "up"
  version,   \* its build
  symlink,   \* the build the supervisor starts
  marker,    \* pending-update.json: the run that is updating
  taken,     \* the marker this process took when it booted
  runs,      \* TaskStore.runs, in insertion order
  status,    \* the run objects
  pc,        \* where the runner is with each run
  saving,    \* the save each run has under way
  file,      \* tasks.json
  faults

disk == <<symlink, marker, file>>
tasksVars == <<up, version, symlink, marker, taken, runs, status, pc, saving, file, faults>>

-----------------------------------------------------------------------------

Unsettled == {"pending", "running"}

Settled == {"succeeded", "failed"}

\* "leaving": the symlink is swapped and the exit timer set; "lost": the
\* process ended first; "stuck": a save threw, and nobody catches it.
Step == {"unborn", "creating", "starting", "executing", "marked", "leaving",
         "finishing", "done", "lost", "stuck"}

Entry == [id : Runs, status : Unsettled \cup Settled]

NotSaving == [st |-> "no", members |-> <<>>, snap |-> <<>>]

TasksInit ==
  /\ up = "up"
  /\ version = "old"
  /\ symlink = "old"
  /\ marker = NoRun
  /\ taken = NoRun
  /\ runs = <<>>
  /\ status = [r \in Runs |-> "pending"]
  /\ pc = [r \in Runs |-> "unborn"]
  /\ saving = [r \in Runs |-> NotSaving]
  /\ file = <<>>
  /\ faults = 0

\* Variant: only a run the map did not have can push another one out.
Pruned_Insert(list, r) ==
  IF Len(list) > MAX_RUNS /\ pc[r] = "unborn" THEN SubSeq(list, 2, Len(list)) ELSE list

\* TaskStore.prune: the oldest entry of the map is dropped.
Pruned(list, r) == IF Len(list) > MAX_RUNS THEN SubSeq(list, 2, Len(list)) ELSE list

\* TaskStore.put: a run the map has keeps its place in it; one that was
\* pruned comes back as the newest.
Put(r) ==
  runs' = Pruned(IF Contains(runs, r) THEN runs ELSE Append(runs, r), r)

\* TaskRunner.save: put, and a write of what the map then holds.
Save(r) ==
  /\ Put(r)
  /\ saving' = [saving EXCEPT ![r] = [st |-> "called", members |-> runs', snap |-> <<>>]]

-----------------------------------------------------------------------------
(* A run's life.                                                           *)

\* TaskRunner.start.
Start(r) ==
  /\ up = "up"
  /\ pc[r] = "unborn"
  /\ pc' = [pc EXCEPT ![r] = "creating"]
  /\ Save(r)
  /\ UNCHANGED <<up, version, taken, status, disk, faults>>

\* writeTaskState, once ensureDir is done: the objects as they are now.
Serialise(r) ==
  /\ saving[r].st = "called"
  /\ saving' = [saving EXCEPT ![r] =
       [@ EXCEPT !.st = "writing",
                 !.snap = [i \in DOMAIN saving[r].members |->
                             [id |-> saving[r].members[i], status |-> status[saving[r].members[i]]]]]]
  /\ UNCHANGED <<up, version, taken, runs, status, pc, disk, faults>>

\* The rename.  A new run is announced and begins to execute, which is
\* saved in turn; one that executes goes on; one that is over is announced.
SaveLands(r) ==
  /\ saving[r].st = "writing"
  /\ file' = saving[r].snap
  /\ \/ /\ pc[r] = "creating"
        /\ status' = [status EXCEPT ![r] = "running"]
        /\ pc' = [pc EXCEPT ![r] = "starting"]
        /\ Save(r)
     \/ /\ pc[r] = "starting"
        /\ pc' = [pc EXCEPT ![r] = "executing"]
        /\ saving' = [saving EXCEPT ![r] = NotSaving]
        /\ UNCHANGED <<runs, status>>
     \/ /\ pc[r] = "finishing"
        /\ pc' = [pc EXCEPT ![r] = "done"]
        /\ saving' = [saving EXCEPT ![r] = NotSaving]
        /\ UNCHANGED <<runs, status>>
  /\ UNCHANGED <<up, version, symlink, marker, taken, faults>>

\* The write fails: start or execute rejects, and the run goes no further.
SaveFails(r) ==
  /\ saving[r].st = "writing"
  /\ faults < MaxFaults
  /\ faults' = faults + 1
  /\ pc' = [pc EXCEPT ![r] = "stuck"]
  /\ saving' = [saving EXCEPT ![r] = NotSaving]
  /\ UNCHANGED <<up, version, taken, runs, status, disk>>

\* Variant: a handler that throws takes the runner's flow with it.
Finish_Uncaught(r, outcome) ==
  /\ pc[r] \in {"executing", "marked"}
  /\ outcome = "succeeded" => r \notin Updates
  /\ \/ /\ outcome = "succeeded"
        /\ status' = [status EXCEPT ![r] = outcome]
        /\ pc' = [pc EXCEPT ![r] = "finishing"]
        /\ Save(r)
     \/ /\ outcome = "failed"
        /\ pc' = [pc EXCEPT ![r] = "lost"]
        /\ UNCHANGED <<status, runs, saving>>
  /\ UNCHANGED <<up, version, taken, disk, faults>>

\* TaskRunner.execute: the handler returns or throws, and the run is saved.
\* Updating the control plane never returns.
Finish(r, outcome) ==
  /\ pc[r] \in {"executing", "marked"}
  /\ outcome = "succeeded" => r \notin Updates
  /\ status' = [status EXCEPT ![r] = outcome]
  /\ pc' = [pc EXCEPT ![r] = "finishing"]
  /\ Save(r)
  /\ UNCHANGED <<up, version, taken, disk, faults>>

-----------------------------------------------------------------------------
(* update_control_plane.                                                   *)

\* updateControlPlane: there is a newer build, it is downloaded, and the
\* marker goes down before the symlink moves.
WritePendingUpdate(r) ==
  /\ r \in Updates
  /\ pc[r] = "executing"
  /\ version = "old"
  /\ marker' = r
  /\ pc' = [pc EXCEPT ![r] = "marked"]
  /\ UNCHANGED <<up, version, symlink, taken, runs, status, saving, file, faults>>

\* Variant: the symlink moves without waiting for the marker.
PointSymlink_First(r) ==
  /\ r \in Updates
  /\ pc[r] \in {"executing", "marked"}
  /\ version = "old"
  /\ symlink' = "new"
  /\ pc' = [pc EXCEPT ![r] = "leaving"]
  /\ UNCHANGED <<up, version, marker, taken, runs, status, saving, file, faults>>

\* The symlink is repointed and the exit timer set.
PointSymlink(r) ==
  /\ pc[r] = "marked"
  /\ symlink' = "new"
  /\ pc' = [pc EXCEPT ![r] = "leaving"]
  /\ UNCHANGED <<up, version, marker, taken, runs, status, saving, file, faults>>

\* The symlink is repointed, but what follows it throws.
PointSymlinkThenThrow(r) ==
  /\ pc[r] = "marked"
  /\ symlink' = "new"
  /\ status' = [status EXCEPT ![r] = "failed"]
  /\ pc' = [pc EXCEPT ![r] = "finishing"]
  /\ Save(r)
  /\ UNCHANGED <<up, version, marker, taken, file, faults>>

-----------------------------------------------------------------------------
(* The process.                                                            *)

Dies ==
  /\ up' = "down"
  /\ taken' = NoRun
  /\ runs' = <<>>
  /\ pc' = [r \in Runs |-> IF pc[r] \in {"unborn", "done"} THEN pc[r] ELSE "lost"]
  /\ status' = [r \in Runs |-> IF pc[r] = "done" THEN status[r] ELSE "pending"]
  /\ saving' = [r \in Runs |-> NotSaving]
  /\ UNCHANGED <<version, disk>>

\* The exit timer of an update.
Exit ==
  /\ \E r \in Runs : pc[r] = "leaving"
  /\ Dies
  /\ UNCHANGED faults

Crash ==
  /\ up # "down"
  /\ faults < MaxFaults
  /\ faults' = faults + 1
  /\ Dies

\* interruptedUpdateResolver: the marker is read and removed.
TakePendingUpdate ==
  /\ up = "down"
  /\ up' = "booting"
  /\ version' = symlink
  /\ taken' = marker
  /\ marker' = NoRun
  /\ UNCHANGED <<symlink, runs, status, pc, saving, file, faults>>

\* Variant: a marker is proof enough, whatever build came up.
Verdict_Trusting(r) == IF r \in Updates /\ taken = r THEN "succeeded" ELSE "failed"

\* The resolver's verdict on an update, or the generic one.
Verdict(r) == IF r \in Updates /\ taken = r /\ version = "new" THEN "succeeded" ELSE "failed"

\* TaskStore.reapOrphans, of one entry of the file.
Resolved(e) == IF e.status \in Unsettled THEN Verdict(e.id) ELSE e.status

\* TaskStore.init: the file is loaded, its orphans settled and saved.
Boot ==
  /\ up = "booting"
  /\ up' = "up"
  /\ file' = [i \in DOMAIN file |-> [file[i] EXCEPT !.status = Resolved(file[i])]]
  /\ runs' = [i \in DOMAIN file |-> file[i].id]
  /\ status' = [r \in Runs |->
       IF \E i \in DOMAIN file : file[i].id = r
       THEN Resolved(file[CHOOSE i \in DOMAIN file : file[i].id = r])
       ELSE status[r]]
  /\ pc' = [r \in Runs |-> IF \E i \in DOMAIN file : file[i].id = r THEN "done" ELSE pc[r]]
  /\ taken' = NoRun
  /\ UNCHANGED <<version, symlink, marker, saving, faults>>

RunNext(r) ==
  \/ Start(r)
  \/ Serialise(r)
  \/ SaveLands(r)
  \/ SaveFails(r)
  \/ Finish(r, "succeeded")
  \/ Finish(r, "failed")
  \/ WritePendingUpdate(r)
  \/ PointSymlink(r)
  \/ PointSymlinkThenThrow(r)

TasksNext ==
  \/ \E r \in Runs : RunNext(r)
  \/ Exit
  \/ Crash
  \/ TakePendingUpdate
  \/ Boot

TasksSpec == TasksInit /\ [][TasksNext]_tasksVars

(* A handler ends (every request it makes of a host does, see module       *)
(* HostRequests), a write returns, a timer fires, the supervisor restarts  *)
(* the process (Restart=always) and the process boots.                     *)
TasksFairness ==
  /\ \A r \in Runs : WF_tasksVars(pc[r] # "unborn" /\ RunNext(r))
  /\ WF_tasksVars(Exit) /\ WF_tasksVars(TakePendingUpdate) /\ WF_tasksVars(Boot)

TasksFairSpec == TasksSpec /\ TasksFairness
-----------------------------------------------------------------------------

TasksTypeOK ==
  /\ up \in {"down", "booting", "up"}
  /\ version \in {"old", "new"} /\ symlink \in {"old", "new"}
  /\ marker \in Updates \cup {NoRun} /\ taken \in Updates \cup {NoRun}
  /\ runs \in Seq(Runs)
  /\ status \in [Runs -> Unsettled \cup Settled]
  /\ pc \in [Runs -> Step]
  /\ saving \in [Runs -> [st : {"no", "called", "writing"}, members : Seq(Runs), snap : Seq(Entry)]]
  /\ file \in Seq(Entry)
  /\ faults \in 0..MaxFaults

(* The history stays bounded and without duplicates, in memory and on disk,*)
(* though a run that was pruned while it ran is put back when it ends.     *)
HistoryIsBounded ==
  /\ Len(runs) <= MAX_RUNS /\ Len(file) <= MAX_RUNS
  /\ \A i, j \in DOMAIN runs : runs[i] = runs[j] => i = j

(* server-install.ts: "succeeded only once that version is actually up".   *)
SucceededMeansUp ==
  \A r \in Updates : status[r] = "succeeded" => version = "new"

(* "A symlink already repointed with no marker would restart into a run    *)
(* nobody can settle": until the new build is up, the marker is there.     *)
SwapIsMarked == symlink = "new" /\ version = "old" => marker # NoRun

(* Every run that is listed is settled or pruned in the end, whatever its  *)
(* handler does and however the process dies, unless a save fails          *)
(* (changelog.md: runs left "Running" forever after a restart).            *)
EveryRunSettles ==
  \A r \in Runs :
    Contains(runs, r) /\ status[r] \in Unsettled
      ~> ~Contains(runs, r) \/ status[r] \in Settled \/ pc[r] = "stuck"

(* reapOrphans: "A run persisted as pending/running was mid-flight when    *)
(* the control plane last stopped": no run that had ended is failed again. *)
ReapedWasMidFlight ==
  [][\A r \in Runs : pc[r] = "done" => status'[r] = status[r]]_tasksVars
=============================================================================
