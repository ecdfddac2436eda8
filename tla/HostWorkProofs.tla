--------------------------- MODULE HostWorkProofs ---------------------------
(***************************************************************************)
(* Proofs about work on a host and on the control plane itself: task runs, *)
(* their store and the control plane's update (Tasks), the upload of a     *)
(* file (ChunkedUpload), and shells (TerminalBridge).                      *)
(***************************************************************************)
EXTENDS Tasks, ChunkedUpload, TerminalBridge, SequenceTheorems, TLAPS

(***************************************************************************)
(* Task runs and the control plane's update.                               *)
(***************************************************************************)

SaveRecord == [st : {"no", "called", "writing"}, members : Seq(Runs), snap : Seq(Entry)]

TaskTypes ==
  /\ version \in {"old", "new"} /\ symlink \in {"old", "new"}
  /\ runs \in Seq(Runs)
  /\ status \in [Runs -> Unsettled \cup Settled]
  /\ pc \in [Runs -> Step]
  /\ saving \in [Runs -> SaveRecord]
  /\ file \in Seq(Entry)

\* Wherever it is recorded that an update succeeded, its build is up.
Truthful(list) ==
  \A i \in DOMAIN list :
    list[i].id \in Updates /\ list[i].status = "succeeded" => version = "new"

VersionInv ==
  /\ version = "new" => symlink = "new"
  /\ SucceededMeansUp
  /\ Truthful(file) /\ \A r \in Runs : Truthful(saving[r].snap)

\* A process that is not up runs nothing, and whoever is about to move the
\* symlink has put the marker down.
MarkInv ==
  /\ SwapIsMarked
  /\ up # "up" => \A r \in Runs : pc[r] \in {"unborn", "done", "lost"} /\ saving[r].st = "no"
  /\ \A r \in Runs : pc[r] = "marked" => marker # NoRun

TaskInv == TaskTypes /\ VersionInv /\ MarkInv

LEMMA NotSavingRecord ==
  NotSaving \in SaveRecord /\ NotSaving.st = "no" /\ NotSaving.snap = <<>>
BY DEF NotSaving, SaveRecord

LEMMA TasksStart == TasksInit => TaskInv
<1> SUFFICES ASSUME TasksInit PROVE TaskInv
  OBVIOUS
<1>1. TaskTypes
  BY NotSavingRecord DEF TasksInit, TaskTypes, Unsettled, Step
<1>2. \A r \in Runs : saving[r].snap = <<>> /\ saving[r].st = "no"
  BY NotSavingRecord DEF TasksInit
<1>3. VersionInv /\ MarkInv
  BY <1>2, TasksAssumption
     DEF TasksInit, VersionInv, MarkInv, SucceededMeansUp, SwapIsMarked, Truthful
<1> QED
  BY <1>1, <1>3 DEF TaskInv

\* Putting a run in the map keeps its members runs.
LEMMA Putting ==
  ASSUME TaskTypes, NEW r \in Runs, Put(r)
  PROVE  runs' \in Seq(Runs)
<1> DEFINE list == IF Contains(runs, r) THEN runs ELSE Append(runs, r)
<1>1. list \in Seq(Runs)
  BY DEF TaskTypes
<1> HIDE DEF list
<1>2. SubSeq(list, 2, Len(list)) \in Seq(Runs)
  BY <1>1, SubSeqProperties
<1>3. runs' = list \/ runs' = SubSeq(list, 2, Len(list))
  BY DEF Put, Pruned, list
<1> QED
  BY <1>1, <1>2, <1>3

\* TaskRunner.save begins a write, which says nothing yet.
LEMMA Saving ==
  ASSUME TaskTypes, NEW r \in Runs, Save(r)
  PROVE  /\ runs' \in Seq(Runs) /\ saving' \in [Runs -> SaveRecord]
         /\ saving'[r].snap = <<>>
         /\ \A q \in Runs \ {r} : saving'[q] = saving[q]
<1> DEFINE new == [st |-> "called", members |-> runs', snap |-> <<>>]
<1>1. runs' \in Seq(Runs)
  BY Putting DEF Save
<1>2. new \in SaveRecord /\ new.snap = <<>>
  BY <1>1 DEF SaveRecord
<1>3. saving' = [saving EXCEPT ![r] = new]
  BY DEF Save
<1> HIDE DEF new
<1> QED
  BY <1>1, <1>2, <1>3 DEF TaskTypes

\* The end of a write, and of what it was about.
LEMMA SavingEnds ==
  ASSUME TaskTypes, NEW r \in Runs, saving' = [saving EXCEPT ![r] = NotSaving]
  PROVE  /\ saving' \in [Runs -> SaveRecord] /\ saving'[r].snap = <<>>
         /\ \A q \in Runs \ {r} : saving'[q] = saving[q]
BY NotSavingRecord DEF TaskTypes

\* A step of one run in a process that is up, which may set its status to one
\* an update does not succeed by, may put a marker down, and may start or end
\* a write that says nothing.
LEMMA RunGoesOn ==
  ASSUME TaskInv, NEW r \in Runs, NEW st \in Unsettled \cup Settled, NEW at \in Step,
         pc' = [pc EXCEPT ![r] = at], status' = [status EXCEPT ![r] = st],
         pc[r] \notin {"unborn", "done", "lost"} \/ saving[r].st # "no" \/ up = "up",
         st = "succeeded" => r \notin Updates \/ st = status[r],
         at = "marked" => marker' # NoRun,
         marker' = marker \/ marker' # NoRun,
         runs' \in Seq(Runs), saving' \in [Runs -> SaveRecord],
         \A q \in Runs : saving'[q].snap = <<>> \/ saving'[q] = saving[q],
         UNCHANGED <<up, version>>,
         symlink' = symlink \/ (symlink' = "new" /\ marker # NoRun /\ marker' = marker),
         file' \in Seq(Entry), Truthful(file')
  PROVE  TaskInv'
<1>1. up = "up"
  BY DEF TaskInv, MarkInv
<1>2. /\ pc' \in [Runs -> Step] /\ pc'[r] = at /\ \A q \in Runs \ {r} : pc'[q] = pc[q]
      /\ status' \in [Runs -> Unsettled \cup Settled] /\ status'[r] = st
      /\ \A q \in Runs \ {r} : status'[q] = status[q]
  BY DEF TaskInv, TaskTypes
<1>3. TaskTypes'
  BY <1>2 DEF TaskInv, TaskTypes
<1>4. VersionInv'
  <2>1. version' = "new" => symlink' = "new"
    BY DEF TaskInv, VersionInv
  <2>2. SucceededMeansUp'
    BY <1>2, TasksAssumption DEF TaskInv, VersionInv, SucceededMeansUp
  <2>3. Truthful(file)'
    BY DEF Truthful
  <2>4. \A q \in Runs : Truthful(saving[q].snap)'
    BY DEF TaskInv, VersionInv, Truthful
  <2> QED
    BY <2>1, <2>2, <2>3, <2>4 DEF VersionInv
<1>5. MarkInv'
  BY <1>1, <1>2 DEF TaskInv, MarkInv, SwapIsMarked
<1> QED
  BY <1>3, <1>4, <1>5 DEF TaskInv

\* A function with one value replaced by itself is unchanged.
LEMMA Unreplaced ==
  ASSUME TaskTypes, NEW r \in Runs
  PROVE  status = [status EXCEPT ![r] = status[r]] /\ pc = [pc EXCEPT ![r] = pc[r]]
BY DEF TaskTypes

(* The steps of a run (TaskRunner) and of an update (updateControlPlane).  *)
LEMMA RunSteps ==
  ASSUME TaskInv, NEW r \in Runs, RunNext(r), ~Serialise(r)
  PROVE  TaskInv'
<1>1. /\ TaskTypes /\ file \in Seq(Entry) /\ Truthful(file) /\ runs \in Seq(Runs)
      /\ saving \in [Runs -> SaveRecord] /\ pc[r] \in Step
      /\ status[r] \in Unsettled \cup Settled
  BY DEF TaskInv, TaskTypes, VersionInv
<1>2. CASE Start(r)
  <2>1. /\ up = "up" /\ Save(r) /\ pc' = [pc EXCEPT ![r] = "creating"]
        /\ UNCHANGED <<up, version, status, symlink, marker, file>>
    BY <1>2 DEF Start, disk
  <2>2. status' = [status EXCEPT ![r] = status[r]]
    BY <1>1, <2>1, Unreplaced
  <2> QED
    BY <1>1, <2>1, <2>2, Saving, RunGoesOn DEF Step
<1>3. CASE SaveLands(r)
  <2>1. saving[r].snap \in Seq(Entry) /\ Truthful(saving[r].snap)
    BY <1>1 DEF TaskInv, VersionInv, SaveRecord
  <2>2. file' = saving[r].snap /\ saving[r].st # "no" /\ UNCHANGED <<up, version, symlink, marker>>
    BY <1>3 DEF SaveLands
  <2>3. CASE Save(r) /\ status' = [status EXCEPT ![r] = "running"]
             /\ pc' = [pc EXCEPT ![r] = "starting"]
    BY <1>1, <2>1, <2>2, <2>3, Saving, RunGoesOn DEF Step, Unsettled
  <2>4. ASSUME NEW at \in {"executing", "done"}, pc' = [pc EXCEPT ![r] = at],
               saving' = [saving EXCEPT ![r] = NotSaving], UNCHANGED <<runs, status>>
        PROVE  TaskInv'
    BY <1>1, <2>1, <2>2, <2>4, SavingEnds, Unreplaced, RunGoesOn DEF Step
  <2> QED
    BY <1>3, <2>3, <2>4 DEF SaveLands
<1>4. CASE SaveFails(r)
  BY <1>1, <1>4, SavingEnds, Unreplaced, RunGoesOn DEF SaveFails, disk, Step
<1>5. ASSUME NEW outcome \in Settled, Finish(r, outcome)
      PROVE  TaskInv'
  <2>1. outcome = "succeeded" => r \notin Updates
    BY <1>5 DEF Finish
  <2> QED
    BY <1>1, <1>5, <2>1, Saving, RunGoesOn DEF Finish, disk, Step
<1>6. CASE WritePendingUpdate(r)
  <2>1. marker' = r /\ r # NoRun
    BY <1>6, TasksAssumption DEF WritePendingUpdate
  <2> QED
    BY <1>1, <1>6, <2>1, Unreplaced, RunGoesOn DEF WritePendingUpdate, Step
<1>7. CASE PointSymlink(r)
  <2>1. marker # NoRun
    BY <1>7 DEF PointSymlink, TaskInv, MarkInv
  <2> QED
    BY <1>1, <1>7, <2>1, Unreplaced, RunGoesOn DEF PointSymlink, Step
<1>8. CASE PointSymlinkThenThrow(r)
  <2>1. marker # NoRun
    BY <1>8 DEF PointSymlinkThenThrow, TaskInv, MarkInv
  <2> QED
    BY <1>1, <1>8, <2>1, Saving, RunGoesOn DEF PointSymlinkThenThrow, Step, Settled
<1> QED
  BY <1>2, <1>3, <1>4, <1>5, <1>6, <1>7, <1>8 DEF RunNext, Settled

\* What is about to be written is what the run objects say.
LEMMA Serialising ==
  ASSUME TaskInv, NEW r \in Runs, Serialise(r)
  PROVE  TaskInv'
<1> DEFINE list == saving[r].members
           snap == [i \in DOMAIN list |-> [id |-> list[i], status |-> status[list[i]]]]
           new == [saving[r] EXCEPT !.st = "writing", !.snap = snap]
<1>1. saving \in [Runs -> SaveRecord] /\ status \in [Runs -> Unsettled \cup Settled]
  BY DEF TaskInv, TaskTypes
<1>2. list \in Seq(Runs)
  BY <1>1 DEF SaveRecord
<1>3. DOMAIN list = 1 .. Len(list) /\ Len(list) \in Nat /\ \A i \in DOMAIN list : list[i] \in Runs
  BY <1>2
<1>4. \A i \in DOMAIN list : snap[i] \in Entry /\ snap[i].id = list[i]
                              /\ snap[i].status = status[list[i]]
  BY <1>1, <1>3 DEF Entry
<1>5. snap \in Seq(Entry)
  <2>1. snap \in [1 .. Len(list) -> Entry]
    BY <1>3, <1>4
  <2> HIDE DEF snap
  <2> QED
    BY <1>3, <2>1
<1>6. DOMAIN snap = DOMAIN list
  OBVIOUS
<1>7. Truthful(snap)
  BY <1>4, <1>6 DEF Truthful, TaskInv, VersionInv, SucceededMeansUp
<1>8. saving' = [saving EXCEPT ![r] = new]
  BY DEF Serialise
<1> HIDE DEF snap
<1>9. new \in SaveRecord /\ new.snap = snap
  BY <1>1, <1>5 DEF SaveRecord
<1> HIDE DEF new
<1>10. /\ saving' \in [Runs -> SaveRecord] /\ saving'[r].snap = snap
       /\ \A q \in Runs \ {r} : saving'[q] = saving[q]
  BY <1>1, <1>8, <1>9
<1>11. UNCHANGED <<up, version, runs, status, pc, symlink, marker, file>> /\ saving[r].st # "no"
  BY DEF Serialise, disk
<1>12. TaskTypes'
  BY <1>10, <1>11 DEF TaskInv, TaskTypes
<1>13. VersionInv'
  BY <1>7, <1>10, <1>11 DEF TaskInv, VersionInv, SucceededMeansUp, Truthful
<1>14. MarkInv'
  BY <1>10, <1>11 DEF TaskInv, MarkInv, SwapIsMarked
<1> QED
  BY <1>12, <1>13, <1>14 DEF TaskInv

(* The process ends: what is on the disk stays, and nothing runs.          *)
LEMMA Dying ==
  ASSUME TaskInv, Dies
  PROVE  TaskInv'
<1>1. /\ UNCHANGED <<version, symlink, marker, file>> /\ runs' = <<>>
      /\ saving' = [r \in Runs |-> NotSaving]
      /\ pc' = [r \in Runs |-> IF pc[r] \in {"unborn", "done"} THEN pc[r] ELSE "lost"]
      /\ status' = [r \in Runs |-> IF pc[r] = "done" THEN status[r] ELSE "pending"]
  BY DEF Dies, disk
<1>2. TaskTypes'
  BY <1>1, NotSavingRecord DEF TaskInv, TaskTypes, Step, Unsettled
<1>3. VersionInv'
  BY <1>1, NotSavingRecord, TasksAssumption
     DEF TaskInv, VersionInv, SucceededMeansUp, Truthful
<1>4. MarkInv'
  BY <1>1, NotSavingRecord DEF TaskInv, MarkInv, SwapIsMarked
<1> QED
  BY <1>2, <1>3, <1>4 DEF TaskInv

(* The next process: it runs what the symlink names, takes the marker away *)
(* and settles what the file says was under way.                           *)
LEMMA ComingUp ==
  ASSUME TaskInv, TakePendingUpdate \/ Boot
  PROVE  TaskInv'
<1>1. CASE TakePendingUpdate
  <2>1. /\ up = "down" /\ version' = symlink /\ marker' = NoRun
        /\ UNCHANGED <<symlink, runs, status, pc, saving, file>>
    BY <1>1 DEF TakePendingUpdate
  <2>2. version = "new" => version' = "new"
    BY <2>1 DEF TaskInv, VersionInv
  <2>3. TaskTypes'
    BY <2>1 DEF TaskInv, TaskTypes
  <2>4. VersionInv'
    BY <2>1, <2>2 DEF TaskInv, VersionInv, SucceededMeansUp, Truthful
  <2>5. MarkInv'
    BY <2>1, <2>3 DEF TaskInv, MarkInv, SwapIsMarked, TaskTypes
  <2> QED
    BY <2>3, <2>4, <2>5 DEF TaskInv
<1>2. CASE Boot
  <2>1. /\ up' = "up" /\ UNCHANGED <<version, symlink, marker, saving>>
        /\ file' = [i \in DOMAIN file |-> [file[i] EXCEPT !.status = Resolved(file[i])]]
        /\ runs' = [i \in DOMAIN file |-> file[i].id]
    BY <1>2 DEF Boot
  <2>2. /\ file \in Seq(Entry) /\ DOMAIN file = 1 .. Len(file) /\ Len(file) \in Nat
        /\ \A i \in DOMAIN file : file[i] \in Entry
    BY DEF TaskInv, TaskTypes
  <2>3. ASSUME NEW i \in DOMAIN file
        PROVE  /\ Resolved(file[i]) \in Unsettled \cup Settled
               /\ Resolved(file[i]) = "succeeded" /\ file[i].id \in Updates => version = "new"
    <3>1. file[i].status \in Unsettled \cup Settled
      BY <2>2 DEF Entry
    <3>2. file[i].status = "succeeded" /\ file[i].id \in Updates => version = "new"
      BY DEF TaskInv, VersionInv, Truthful
    <3> QED
      BY <3>1, <3>2 DEF Resolved, Verdict, Settled
  <2>4. ASSUME NEW i \in DOMAIN file
        PROVE  /\ file'[i] \in Entry /\ file'[i].id = file[i].id
               /\ file'[i].status = Resolved(file[i])
    BY <2>1, <2>2, <2>3 DEF Entry
  <2>5. DOMAIN file' = DOMAIN file /\ DOMAIN runs' = DOMAIN file /\ file' = [i \in DOMAIN file |-> file'[i]]
    BY <2>1
  <2>6. file' \in Seq(Entry)
    BY <2>2, <2>4, <2>5
  <2>7. runs' \in Seq(Runs)
    BY <2>1, <2>2 DEF Entry
  <2>8. status' \in [Runs -> Unsettled \cup Settled] /\ SucceededMeansUp'
    <3>1. \A r \in Runs :
            LET j == CHOOSE i \in DOMAIN file : file[i].id = r
            IN  IF \E i \in DOMAIN file : file[i].id = r
                THEN j \in DOMAIN file /\ file[j].id = r /\ status'[r] = Resolved(file[j])
                ELSE status'[r] = status[r]
      BY <1>2 DEF Boot
    <3>2. \A r \in Runs :
            /\ status'[r] \in Unsettled \cup Settled
            /\ r \in Updates /\ status'[r] = "succeeded" => version = "new"
      <4> SUFFICES ASSUME NEW r \in Runs
                   PROVE  /\ status'[r] \in Unsettled \cup Settled
                          /\ r \in Updates /\ status'[r] = "succeeded" => version = "new"
        OBVIOUS
      <4>1. CASE \E i \in DOMAIN file : file[i].id = r
        <5>1. PICK j \in DOMAIN file : file[j].id = r /\ status'[r] = Resolved(file[j])
          BY <3>1, <4>1
        <5> QED
          BY <2>3, <5>1
      <4>2. CASE ~\E i \in DOMAIN file : file[i].id = r
        BY <3>1, <4>2 DEF TaskInv, TaskTypes, VersionInv, SucceededMeansUp
      <4> QED
        BY <4>1, <4>2
    <3>3. status' = [r \in Runs |-> status'[r]]
      BY <1>2 DEF Boot
    <3> QED
      BY <2>1, <3>2, <3>3, TasksAssumption DEF SucceededMeansUp
  <2>9. pc' \in [Runs -> Step] /\ \A r \in Runs : pc'[r] \in {"done", pc[r]}
    BY <1>2 DEF Boot, TaskInv, TaskTypes, Step
  <2>10. TaskTypes'
    BY <2>1, <2>6, <2>7, <2>8, <2>9 DEF TaskInv, TaskTypes
  <2>11. Truthful(file)'
    BY <2>1, <2>3, <2>4, <2>5 DEF Truthful
  <2>12. VersionInv'
    BY <2>1, <2>8, <2>11 DEF TaskInv, VersionInv, Truthful
  <2>13. MarkInv'
    BY <2>1, <2>9 DEF TaskInv, MarkInv, SwapIsMarked
  <2> QED
    BY <2>10, <2>12, <2>13 DEF TaskInv
<1> QED
  BY <1>1, <1>2

LEMMA TasksStep ==
  ASSUME TaskInv, [TasksNext]_tasksVars
  PROVE  TaskInv'
<1>1. CASE UNCHANGED tasksVars
  BY <1>1 DEF tasksVars, TaskInv, TaskTypes, VersionInv, MarkInv, SucceededMeansUp, SwapIsMarked,
              Truthful
<1> QED
  BY <1>1, RunSteps, Serialising, Dying, ComingUp DEF TasksNext, Exit, Crash

(* server-install.ts, "succeeded only once that version is actually up":   *)
(* for any runs, updates, faults and size of the history, no update is     *)
(* reported as succeeded, in memory or by a file that is loaded later,     *)
(* while the build that runs is the old one.                               *)
THEOREM UpdateIsUp == TasksSpec => []SucceededMeansUp
<1>1. TaskInv /\ [TasksNext]_tasksVars => TaskInv'
  BY TasksStep
<1>2. TaskInv => SucceededMeansUp
  BY DEF TaskInv, VersionInv
<1> QED
  BY <1>1, <1>2, TasksStart, PTL DEF TasksSpec

(* However processes die between the marker, the symlink, the exit and the *)
(* next boot: until the new build is up, the marker that settles its run   *)
(* is there (updateControlPlane, interruptedUpdateResolver).               *)
THEOREM SwapsAreMarked == TasksSpec => []SwapIsMarked
<1>1. TaskInv /\ [TasksNext]_tasksVars => TaskInv'
  BY TasksStep
<1>2. TaskInv => SwapIsMarked
  BY DEF TaskInv, MarkInv
<1> QED
  BY <1>1, <1>2, TasksStart, PTL DEF TasksSpec

(***************************************************************************)
(* The history of runs.                                                    *)
(***************************************************************************)

\* A list of runs, and one of entries, as the store may keep them.
Kept(list) == Len(list) <= MAX_RUNS /\ \A i, j \in DOMAIN list : list[i] = list[j] => i = j
KeptEntries(list) ==
  Len(list) <= MAX_RUNS /\ \A i, j \in DOMAIN list : list[i].id = list[j].id => i = j

HistoryInv ==
  /\ TaskInv
  /\ Kept(runs) /\ KeptEntries(file)
  /\ \A r \in Runs : Kept(saving[r].members) /\ KeptEntries(saving[r].snap)

LEMMA EmptyIsKept == Kept(<<>>) /\ KeptEntries(<<>>)
BY TasksAssumption DEF Kept, KeptEntries

\* TaskStore.put, with its prune: what comes in pushes at most one run out.
LEMMA PuttingKeeps ==
  ASSUME TaskTypes, Kept(runs), NEW r \in Runs, Put(r)
  PROVE  Kept(runs')
<1> DEFINE list == IF Contains(runs, r) THEN runs ELSE Append(runs, r)
<1>1. runs \in Seq(Runs) /\ MAX_RUNS \in Nat
  BY TasksAssumption DEF TaskTypes
<1>2. /\ list \in Seq(Runs) /\ Len(list) <= MAX_RUNS + 1
      /\ \A i, j \in DOMAIN list : list[i] = list[j] => i = j
  <2>1. CASE Contains(runs, r)
    BY <1>1, <2>1 DEF Kept
  <2>2. CASE ~Contains(runs, r)
    <3>1. \A i \in DOMAIN runs : runs[i] # r
      BY <1>1, <2>2 DEF Contains
    <3>2. list = Append(runs, r)
      BY <2>2
    <3>3. /\ Len(list) = Len(runs) + 1 /\ DOMAIN list = 1 .. Len(runs) + 1
          /\ list[Len(runs) + 1] = r /\ \A i \in 1 .. Len(runs) : list[i] = runs[i]
      BY <1>1, <3>2
    <3> QED
      BY <1>1, <3>1, <3>2, <3>3 DEF Kept
  <2> QED
    BY <2>1, <2>2
<1>3. runs' = IF Len(list) > MAX_RUNS THEN SubSeq(list, 2, Len(list)) ELSE list
  BY DEF Put, Pruned
<1> HIDE DEF list
<1>4. CASE Len(list) > MAX_RUNS
  <2>1. runs' = SubSeq(list, 2, Len(list))
    BY <1>3, <1>4
  <2>2. Len(list) \in Nat /\ Len(list) = MAX_RUNS + 1
    BY <1>1, <1>2, <1>4
  <2>3. /\ Len(runs') = MAX_RUNS /\ DOMAIN runs' = 1 .. MAX_RUNS
        /\ \A i \in 1 .. MAX_RUNS : runs'[i] = list[i + 1]
    BY <1>1, <1>2, <2>1, <2>2, SubSeqProperties
  <2>4. DOMAIN list = 1 .. MAX_RUNS + 1
    BY <1>2, <2>2
  <2>5. ASSUME NEW i \in 1 .. MAX_RUNS, NEW j \in 1 .. MAX_RUNS, runs'[i] = runs'[j]
        PROVE  i = j
    <3>1. i + 1 \in DOMAIN list /\ j + 1 \in DOMAIN list /\ list[i + 1] = list[j + 1]
      BY <1>1, <2>3, <2>4, <2>5
    <3>2. i + 1 = j + 1
      BY <1>2, <3>1
    <3> QED
      BY <1>1, <3>2
  <2> QED
    BY <1>1, <2>3, <2>5 DEF Kept
<1>5. CASE ~(Len(list) > MAX_RUNS)
  <2>1. runs' = list /\ Len(list) <= MAX_RUNS
    BY <1>1, <1>2, <1>3, <1>5
  <2> QED
    BY <1>2, <2>1 DEF Kept
<1> QED
  BY <1>4, <1>5

LEMMA SavingKeeps ==
  ASSUME HistoryInv, NEW r \in Runs, Save(r)
  PROVE  Kept(runs') /\ \A q \in Runs : Kept(saving'[q].members) /\ KeptEntries(saving'[q].snap)
<1>1. Kept(runs')
  BY PuttingKeeps DEF HistoryInv, TaskInv, Save
<1>2. saving'[r] = [st |-> "called", members |-> runs', snap |-> <<>>]
  BY DEF HistoryInv, TaskInv, TaskTypes, Save
<1>3. Kept(saving'[r].members) /\ KeptEntries(saving'[r].snap)
  BY <1>1, <1>2, EmptyIsKept
<1>4. \A q \in Runs \ {r} : saving'[q] = saving[q]
  BY Saving DEF HistoryInv, TaskInv
<1> QED
  BY <1>1, <1>3, <1>4 DEF HistoryInv

LEMMA NotSavingKeeps ==
  ASSUME HistoryInv, NEW r \in Runs, saving' = [saving EXCEPT ![r] = NotSaving]
  PROVE  \A q \in Runs : Kept(saving'[q].members) /\ KeptEntries(saving'[q].snap)
<1>1. NotSaving.members = <<>> /\ NotSaving.snap = <<>>
  BY DEF NotSaving
<1>2. saving'[r] = NotSaving /\ \A q \in Runs \ {r} : saving'[q] = saving[q]
  BY DEF HistoryInv, TaskInv, TaskTypes
<1> QED
  BY <1>1, <1>2, EmptyIsKept DEF HistoryInv

LEMMA HistoryStep ==
  ASSUME HistoryInv, [TasksNext]_tasksVars
  PROVE  HistoryInv'
<1>1. TaskInv'
  BY TasksStep DEF HistoryInv
<1> DEFINE Lists == Kept(runs') /\ KeptEntries(file')
                    /\ \A q \in Runs : Kept(saving'[q].members) /\ KeptEntries(saving'[q].snap)
<1>2. ASSUME NEW r \in Runs, Serialise(r) PROVE Lists
  <2> DEFINE list == saving[r].members
             snap == [i \in DOMAIN list |-> [id |-> list[i], status |-> status[list[i]]]]
  <2>1. saving' = [saving EXCEPT ![r] = [saving[r] EXCEPT !.st = "writing", !.snap = snap]]
    BY <1>2 DEF Serialise
  <2>2. saving[r] \in SaveRecord /\ saving \in [Runs -> SaveRecord]
    BY DEF HistoryInv, TaskInv, TaskTypes
  <2>3. list \in Seq(Runs)
    BY <2>2 DEF SaveRecord
  <2>4. DOMAIN snap = DOMAIN list /\ \A i \in DOMAIN list : snap[i].id = list[i]
    OBVIOUS
  <2>5. DOMAIN list = 1 .. Len(list) /\ Len(list) \in Nat
    BY <2>3
  <2>6. Len(snap) = Len(list)
    BY <2>5
  <2>7. Kept(list)
    BY DEF HistoryInv
  <2>8. KeptEntries(snap)
    BY <2>4, <2>6, <2>7 DEF Kept, KeptEntries
  <2> HIDE DEF snap
  <2>9. saving'[r].members = list /\ saving'[r].snap = snap
        /\ \A q \in Runs \ {r} : saving'[q] = saving[q]
    BY <2>1, <2>2 DEF SaveRecord
  <2>10. UNCHANGED <<runs, file>>
    BY <1>2 DEF Serialise, disk
  <2> QED
    BY <2>7, <2>8, <2>9, <2>10 DEF HistoryInv
<1>3. ASSUME NEW r \in Runs, SaveLands(r) PROVE Lists
  <2>1. KeptEntries(file')
    BY <1>3 DEF SaveLands, HistoryInv
  <2>2. Save(r) \/ (saving' = [saving EXCEPT ![r] = NotSaving] /\ runs' = runs)
    BY <1>3 DEF SaveLands
  <2> QED
    BY <2>1, <2>2, SavingKeeps, NotSavingKeeps DEF HistoryInv
<1>4. ASSUME NEW r \in Runs, SaveFails(r) PROVE Lists
  BY <1>4, NotSavingKeeps DEF SaveFails, disk, HistoryInv
<1>5. ASSUME NEW r \in Runs,
             \/ Start(r) \/ PointSymlinkThenThrow(r)
             \/ Finish(r, "succeeded") \/ Finish(r, "failed")
      PROVE  Lists
  <2>1. Save(r) /\ file' = file
    BY <1>5 DEF Start, PointSymlinkThenThrow, Finish, disk
  <2> QED
    BY <2>1, SavingKeeps DEF HistoryInv
<1>6. ASSUME UNCHANGED <<runs, file, saving>> PROVE Lists
  BY <1>6 DEF HistoryInv
<1>7. ASSUME Dies PROVE Lists
  <2>1. file' = file /\ runs' = <<>> /\ saving' = [r \in Runs |-> NotSaving]
    BY <1>7 DEF Dies, disk
  <2>2. NotSaving.members = <<>> /\ NotSaving.snap = <<>>
    BY DEF NotSaving
  <2> QED
    BY <2>1, <2>2, EmptyIsKept DEF HistoryInv
<1>8. ASSUME Boot PROVE Lists
  <2>1. /\ file' = [i \in DOMAIN file |-> [file[i] EXCEPT !.status = Resolved(file[i])]]
        /\ runs' = [i \in DOMAIN file |-> file[i].id] /\ saving' = saving
    BY <1>8 DEF Boot
  <2>2. /\ file \in Seq(Entry) /\ DOMAIN file = 1 .. Len(file) /\ Len(file) \in Nat
        /\ \A i \in DOMAIN file : file[i] \in Entry
    BY DEF HistoryInv, TaskInv, TaskTypes
  <2>3. \A i \in DOMAIN file : file'[i].id = file[i].id /\ runs'[i] = file[i].id
    BY <2>1, <2>2 DEF Entry
  <2>4. DOMAIN file' = DOMAIN file /\ DOMAIN runs' = DOMAIN file
    BY <2>1
  <2>5. Len(file') = Len(file) /\ Len(runs') = Len(file)
    BY <2>1, <2>2, <2>4
  <2>6. KeptEntries(file)
    BY DEF HistoryInv
  <2>7. Kept(runs') /\ KeptEntries(file')
    BY <2>3, <2>4, <2>5, <2>6 DEF Kept, KeptEntries
  <2> QED
    BY <2>1, <2>7 DEF HistoryInv
<1>9. Lists
  <2>1. ASSUME NEW r \in Runs, WritePendingUpdate(r) \/ PointSymlink(r) PROVE Lists
    BY <1>6, <2>1 DEF WritePendingUpdate, PointSymlink
  <2>2. TakePendingUpdate => Lists
    BY <1>6 DEF TakePendingUpdate
  <2>3. UNCHANGED tasksVars => Lists
    BY <1>6 DEF tasksVars, disk
  <2> HIDE DEF Lists
  <2> QED
    BY <1>2, <1>3, <1>4, <1>5, <1>7, <1>8, <2>1, <2>2, <2>3
       DEF TasksNext, RunNext, Exit, Crash
<1> QED
  BY <1>1, <1>9 DEF HistoryInv

(* TaskStore is "capped at MAX_RUNS so the file stays bounded": however    *)
(* often runs that were pruned while they executed are put back, and       *)
(* whichever snapshot of the map lands last, memory and tasks.json hold at *)
(* most MAX_RUNS runs, memory each of them once.                           *)
THEOREM BoundedHistory == TasksSpec => []HistoryIsBounded
<1>1. TasksInit => HistoryInv
  <2> SUFFICES ASSUME TasksInit PROVE HistoryInv
    OBVIOUS
  <2>1. NotSaving.members = <<>> /\ NotSaving.snap = <<>>
    BY DEF NotSaving
  <2>2. runs = <<>> /\ file = <<>> /\ \A r \in Runs : saving[r] = NotSaving
    BY DEF TasksInit
  <2> QED
    BY <2>1, <2>2, TasksStart, EmptyIsKept DEF HistoryInv
<1>2. HistoryInv /\ [TasksNext]_tasksVars => HistoryInv'
  BY HistoryStep
<1>3. HistoryInv => HistoryIsBounded
  BY DEF HistoryInv, HistoryIsBounded, Kept, KeptEntries
<1> QED
  BY <1>1, <1>2, <1>3, PTL DEF TasksSpec

(***************************************************************************)
(* Uploads.                                                                *)
(***************************************************************************)

UploadTypes ==
  /\ route \in {"up", "down"}
  /\ call \in [Calls -> {"idle", "sending", "ok", "failed"}]
  /\ next \in [Calls -> Nat]
  /\ job \in [Calls -> {"none", "opening", "writing", "publishing", "failing"}]
  /\ using \in [Calls -> Temps \cup {NoFile}]
  /\ upload \in Temps \cup {NoFile}
  /\ temps \subseteq Temps
  /\ offset \in [Temps -> Nat]
  /\ data \in [Temps -> Seq(Nat)]
  /\ target \in Temps \cup {NoFile}

\* A request whose first chunk has not reached its temp file.
Fresh(c) ==
  \/ call[c] = "idle" \/ job[c] = "opening"
  \/ call[c] = "sending" /\ job[c] = "none" /\ next[c] = 0

\* A file that is complete, as far as the agent can tell.
Closing(t) == t = target \/ \E c \in Calls : job[c] = "publishing" /\ using[c] = t

CallFits(c) ==
  /\ next[c] >= c.first
  /\ route = "down" => call[c] # "sending"
  /\ job[c] # "none" => call[c] # "idle"
  /\ job[c] = "opening" => next[c] = 0
  /\ job[c] \in {"writing", "publishing"} => using[c] \in Temps
  /\ IsFinal(c) /\ call[c] = "ok" => target # NoFile

Untouched(t) ==
  /\ data[t] = <<>> /\ offset[t] = 0
  /\ upload # t /\ t \notin doomed /\ ~Closing(t)
  /\ \A d \in Calls : using[d] # t

\* Every chunk is in its place.
InPlace(t) == Len(data[t]) = offset[t] /\ \A i \in 1 .. offset[t] : data[t][i] = i - 1

OneWriter(t) ==
  /\ \A c \in Calls : IsWriting(c, t) => next[c] = offset[t]
  /\ \A c, d \in Calls : IsWriting(c, t) /\ IsWriting(d, t) => c = d

TempFits(t) ==
  /\ Fresh(t) => Untouched(t)
  /\ t \notin torn => InPlace(t) /\ OneWriter(t)
  /\ Closing(t) =>
       upload # t /\ (t \notin torn => offset[t] = Size /\ \A c \in Calls : ~IsWriting(c, t))

UploadInv ==
  /\ UploadTypes
  /\ \A c \in Calls : CallFits(c)
  /\ \A t \in Temps : TempFits(t)

LEMMA CallFacts ==
  ASSUME NEW c \in Calls
  PROVE  /\ c.first \in Nat /\ c.first < Size /\ (c.first = 0 <=> c \in Temps)
         /\ Ends(c) \in Nat /\ Ends(c) > c.first /\ Ends(c) <= Size
         /\ c # NoFile
<1>1. c.first \in 0 .. (Size - 1)
  BY UploadAssumption DEF Calls, Starts
<1> QED
  BY <1>1, UploadAssumption DEF Temps, Ends

LEMMA TempFacts == Temps \subseteq Calls /\ NoFile \notin Temps
BY UploadAssumption DEF Temps

LEMMA UploadStart == UploadInit => UploadInv
<1> SUFFICES ASSUME UploadInit PROVE UploadInv
  OBVIOUS
<1>1. UploadTypes
  <2>1. next = [c \in Calls |-> c.first] /\ \A c \in Calls : c.first \in Nat
    BY CallFacts DEF UploadInit
  <2>2. next \in [Calls -> Nat]
    BY <2>1
  <2> QED
    BY <2>2 DEF UploadInit, UploadTypes
<1>2. \A c \in Calls : CallFits(c)
  BY CallFacts DEF UploadInit, CallFits
<1>3. ASSUME NEW t \in Temps PROVE TempFits(t)
  <2>1. ~Closing(t) /\ \A c \in Calls : ~IsWriting(c, t)
    BY TempFacts DEF UploadInit, Closing, IsWriting
  <2>2. Untouched(t)
    BY <2>1, TempFacts DEF UploadInit, Untouched
  <2>3. InPlace(t) /\ OneWriter(t)
    BY <2>1 DEF UploadInit, InPlace, OneWriter
  <2> QED
    BY <2>1, <2>2, <2>3 DEF TempFits
<1> QED
  BY <1>1, <1>2, <1>3 DEF UploadInv

\* A file of the right length whose chunks are in their places is the file.
LEMMA WholeFile ==
  ASSUME UploadInv, NEW t \in Temps, InPlace(t), offset[t] = Size
  PROVE  data[t] = Whole
<1>1. data[t] \in Seq(Nat) /\ Len(data[t]) = Size /\ \A i \in 1 .. Size : data[t][i] = i - 1
  BY DEF UploadInv, UploadTypes, InPlace
<1>2. data[t] \in [1 .. Size -> Nat]
  BY <1>1, LenProperties
<1> QED
  BY <1>1, <1>2 DEF Whole

\* The reply to a chunk that was handled: while its request waits it is
\* heard, so it is no fresh one afterwards.
LEMMA AcknowledgedSteps ==
  ASSUME UploadInv, NEW c \in Calls, job[c] # "none", Acknowledged(c)
  PROVE  /\ call' \in [Calls -> {"idle", "sending", "ok", "failed"}] /\ next' \in [Calls -> Nat]
         /\ job' \in [Calls -> {"none", "opening", "writing", "publishing", "failing"}]
         /\ using' \in [Calls -> Temps \cup {NoFile}]
         /\ call'[c] # "idle" /\ (call'[c] = "sending" => call[c] = "sending")
         /\ call'[c] = "ok" => call[c] = "ok" \/ next[c] + 1 = Ends(c)
         /\ job'[c] = "none" /\ using'[c] = NoFile /\ next'[c] >= next[c]
         /\ ~Fresh(c)'
         /\ \A d \in Calls \ {c} :
              call'[d] = call[d] /\ next'[d] = next[d] /\ job'[d] = job[d] /\ using'[d] = using[d]
<1>1. call[c] # "idle" /\ (call[c] = "sending" => Heard(c))
  BY DEF UploadInv, UploadTypes, CallFits, Heard
<1>2. /\ call' \in [Calls -> {"idle", "sending", "ok", "failed"}] /\ next' \in [Calls -> Nat]
      /\ job' \in [Calls -> {"none", "opening", "writing", "publishing", "failing"}]
      /\ using' \in [Calls -> Temps \cup {NoFile}]
  BY DEF UploadInv, UploadTypes, Acknowledged
<1>3. /\ call'[c] = IF Heard(c) /\ next[c] + 1 = Ends(c) THEN "ok" ELSE call[c]
      /\ next'[c] = IF Heard(c) THEN next[c] + 1 ELSE next[c]
      /\ job'[c] = "none" /\ using'[c] = NoFile
      /\ \A d \in Calls \ {c} :
           call'[d] = call[d] /\ next'[d] = next[d] /\ job'[d] = job[d] /\ using'[d] = using[d]
  BY DEF UploadInv, UploadTypes, Acknowledged
<1>4. next[c] \in Nat
  BY DEF UploadInv, UploadTypes
<1>5. ~Fresh(c)'
  BY <1>1, <1>3, <1>4 DEF Fresh, Heard
<1> QED
  BY <1>1, <1>2, <1>3, <1>4, <1>5

\* The request whose first chunk opens a file.
LEMMA OpensItsOwn ==
  ASSUME UploadInv, NEW c \in Calls, job[c] = "opening"
  PROVE  c \in Temps /\ next[c] = 0
<1>1. next[c] = 0 /\ next[c] >= c.first
  BY DEF UploadInv, CallFits
<1>2. c.first \in Nat /\ (c.first = 0 <=> c \in Temps)
  BY CallFacts
<1> QED
  BY <1>1, <1>2

LEMMA UploadTyped ==
  ASSUME UploadInv, UploadNext
  PROVE  UploadTypes'
<1> USE DEF UploadInv, UploadTypes
<1>1. ASSUME NEW c \in Calls, Begin(c) \/ HangUp(c) \/ ChunkTimeout(c) PROVE UploadTypes'
  BY <1>1 DEF Begin, HangUp, ChunkTimeout, Fails, Discard, history
<1>2. ASSUME NEW c \in Calls, SendChunk(c) PROVE UploadTypes'
  BY <1>2 DEF SendChunk, Discard, caller
<1>3. ASSUME NEW c \in Calls, Opened(c) PROVE UploadTypes'
  <2>1. c \in Temps
    BY <1>3, OpensItsOwn DEF Opened
  <2> QED
    BY <1>3, <2>1 DEF Opened, caller
<1>4. ASSUME NEW c \in Calls, OpenFails(c) \/ WriteFails(c) \/ PublishFails(c) PROVE UploadTypes'
  BY <1>4 DEF OpenFails, WriteFails, PublishFails, Discard, caller, history
<1>5. ASSUME NEW c \in Calls, Written(c) PROVE UploadTypes'
  <2>1. using[c] \in Temps /\ next[c] \in Nat /\ Piece \in Nat /\ job[c] # "none"
    <3>1. job[c] = "writing" /\ CallFits(c)
      BY <1>5 DEF Written
    <3>2. Piece \in Nat
      BY UploadAssumption DEF Piece
    <3> QED
      BY <3>1, <3>2 DEF CallFits
  <2>2. data' \in [Temps -> Seq(Nat)] /\ offset' \in [Temps -> Nat]
    <3>1. ASSUME NEW n \in Nat, data' = [data EXCEPT ![using[c]] = Append(@, n)]
          PROVE  data' \in [Temps -> Seq(Nat)]
      <4>1. Append(data[using[c]], n) \in Seq(Nat)
        BY <2>1, <3>1
      <4> QED
        BY <3>1, <4>1
    <3>2. offset' \in [Temps -> Nat]
      BY <1>5, <2>1 DEF Written
    <3> QED
      BY <1>5, <2>1, <3>1, <3>2 DEF Written
  <2>3. CASE Acknowledged(c) /\ upload' = upload
    <3>1. /\ call' \in [Calls -> {"idle", "sending", "ok", "failed"}] /\ next' \in [Calls -> Nat]
          /\ job' \in [Calls -> {"none", "opening", "writing", "publishing", "failing"}]
          /\ using' \in [Calls -> Temps \cup {NoFile}]
      BY <2>1, <2>3, AcknowledgedSteps
    <3> QED
      BY <1>5, <2>2, <2>3, <3>1 DEF Written
  <2>4. CASE /\ upload' = NoFile /\ job' = [job EXCEPT ![c] = "publishing"]
             /\ UNCHANGED <<call, next, using>>
    BY <1>5, <2>2, <2>4 DEF Written
  <2> QED
    BY <1>5, <2>3, <2>4 DEF Written
<1>6. ASSUME NEW c \in Calls, Publish(c) PROVE UploadTypes'
  <2>1. /\ call' \in [Calls -> {"idle", "sending", "ok", "failed"}] /\ next' \in [Calls -> Nat]
        /\ job' \in [Calls -> {"none", "opening", "writing", "publishing", "failing"}]
        /\ using' \in [Calls -> Temps \cup {NoFile}]
    BY <1>6, AcknowledgedSteps DEF Publish
  <2>2. target' \in Temps \cup {NoFile} /\ temps' \subseteq temps
    BY <1>6 DEF Publish
  <2> QED
    BY <1>6, <2>1, <2>2 DEF Publish, history
<1>7. ASSUME NEW c \in Calls, ReplyError(c) PROVE UploadTypes'
  BY <1>7 DEF ReplyError, Fails, Discard, history
<1>8. ASSUME LinkDrops PROVE UploadTypes'
  BY <1>8 DEF LinkDrops, history
<1>9. ASSUME NEW t \in Temps, IdleTimeout(t) \/ Removed(t) PROVE UploadTypes'
  BY <1>9 DEF IdleTimeout, Removed, caller, history
<1> QED
  BY <1>1, <1>2, <1>3, <1>4, <1>5, <1>6, <1>7, <1>8, <1>9 DEF UploadNext, AgentNext

\* No step makes a request fresh that was not.
LEMMA NoNewFresh ==
  ASSUME UploadInv, UploadNext
  PROVE  \A t \in Calls : Fresh(t)' => Fresh(t)
<1> USE DEF UploadInv, UploadTypes
<1>1. ASSUME NEW c \in Calls, Begin(c) PROVE \A t \in Calls : Fresh(t)' => Fresh(t)
  BY <1>1 DEF Begin, Fresh
<1>2. ASSUME NEW c \in Calls, HangUp(c) \/ ChunkTimeout(c)
      PROVE  \A t \in Calls : Fresh(t)' => Fresh(t)
  BY <1>2 DEF HangUp, ChunkTimeout, Fails, Fresh
<1>3. ASSUME LinkDrops PROVE \A t \in Calls : Fresh(t)' => Fresh(t)
  BY <1>3 DEF LinkDrops, Fresh
<1>4. ASSUME NEW c \in Calls, SendChunk(c) PROVE \A t \in Calls : Fresh(t)' => Fresh(t)
  BY <1>4 DEF SendChunk, caller, Fresh
<1>5. ASSUME NEW c \in Calls,
             Opened(c) \/ OpenFails(c) \/ WriteFails(c) \/ PublishFails(c)
      PROVE  \A t \in Calls : Fresh(t)' => Fresh(t)
  BY <1>5 DEF Opened, OpenFails, WriteFails, PublishFails, caller, Fresh
<1>6. ASSUME NEW c \in Calls, job[c] # "none", Acknowledged(c)
      PROVE  \A t \in Calls : Fresh(t)' => Fresh(t)
  <2>1. ~Fresh(c)' /\ \A d \in Calls \ {c} :
                        call'[d] = call[d] /\ next'[d] = next[d] /\ job'[d] = job[d]
    BY <1>6, AcknowledgedSteps
  <2> QED
    BY <2>1 DEF Fresh
<1>7. ASSUME NEW c \in Calls, Written(c) PROVE \A t \in Calls : Fresh(t)' => Fresh(t)
  <2>1. job[c] # "none"
    BY <1>7 DEF Written
  <2>2. CASE job' = [job EXCEPT ![c] = "publishing"] /\ UNCHANGED <<call, next>>
    BY <2>2 DEF Fresh
  <2> QED
    BY <1>6, <1>7, <2>1, <2>2 DEF Written
<1>8. ASSUME NEW c \in Calls, Publish(c) PROVE \A t \in Calls : Fresh(t)' => Fresh(t)
  BY <1>6, <1>8 DEF Publish
<1>9. ASSUME NEW c \in Calls, ReplyError(c) PROVE \A t \in Calls : Fresh(t)' => Fresh(t)
  <2>1. CallFits(c) /\ job[c] = "failing"
    BY <1>9 DEF ReplyError
  <2>2. call[c] # "idle" /\ (call[c] = "sending" => Heard(c))
    BY <2>1 DEF CallFits, Heard
  <2>3. call'[c] \notin {"idle", "sending"} /\ \A d \in Calls \ {c} : call'[d] = call[d]
    BY <1>9, <2>2 DEF ReplyError, Fails
  <2>4. next' = next /\ job'[c] = "none" /\ \A d \in Calls \ {c} : job'[d] = job[d]
    BY <1>9 DEF ReplyError
  <2> QED
    BY <2>3, <2>4 DEF Fresh
<1>10. ASSUME NEW t \in Temps, IdleTimeout(t) \/ Removed(t)
       PROVE  \A s \in Calls : Fresh(s)' => Fresh(s)
  BY <1>10 DEF IdleTimeout, Removed, caller, Fresh
<1> QED
  BY <1>1, <1>2, <1>3, <1>4, <1>5, <1>7, <1>8, <1>9, <1>10 DEF UploadNext, AgentNext

\* A request, its handler, and what it is told.
LEMMA CallsStep ==
  ASSUME UploadInv, UploadNext, NEW c \in Calls
  PROVE  CallFits(c)'
<1> USE DEF UploadInv, UploadTypes
<1>1. ASSUME NEW d \in Calls, Begin(d) \/ HangUp(d) \/ ChunkTimeout(d) PROVE CallFits(c)'
  BY <1>1 DEF Begin, HangUp, ChunkTimeout, Fails, Discard, history, CallFits
<1>2. ASSUME NEW d \in Calls, SendChunk(d) PROVE CallFits(c)'
  <2>1. UNCHANGED <<route, call, next, target>> /\ call[d] = "sending"
    BY <1>2 DEF SendChunk, caller
  <2>2. \/ c # d /\ job'[c] = job[c] /\ using'[c] = using[c]
        \/ c = d /\ job'[c] = "opening" /\ next[c] = 0
        \/ c = d /\ job'[c] = "writing" /\ using'[c] \in Temps
        \/ c = d /\ job'[c] = "failing"
    BY <1>2 DEF SendChunk, Accepts, Discard
  <2> QED
    BY <2>1, <2>2 DEF CallFits
<1>3. ASSUME NEW d \in Calls, Opened(d) PROVE CallFits(c)'
  <2>1. d \in Temps
    BY <1>3, OpensItsOwn DEF Opened
  <2> QED
    BY <1>3, <2>1 DEF Opened, caller, CallFits
<1>4. ASSUME NEW d \in Calls, OpenFails(d) \/ WriteFails(d) \/ PublishFails(d) PROVE CallFits(c)'
  BY <1>4 DEF OpenFails, WriteFails, PublishFails, Discard, caller, history, CallFits
<1>5. ASSUME NEW d \in Calls, job[d] # "none", Acknowledged(d), route' = route,
             target' # NoFile \/ (target' = target /\ ~LastChunk(d))
      PROVE  CallFits(c)'
  <2>1. CASE c # d
    <3>1. call'[c] = call[c] /\ next'[c] = next[c] /\ job'[c] = job[c] /\ using'[c] = using[c]
      BY <1>5, <2>1 DEF Acknowledged
    <3> QED
      BY <1>5, <3>1 DEF CallFits
  <2>2. CASE c = d
    <3>1. /\ call'[c] # "idle" /\ (call'[c] = "sending" => call[c] = "sending")
          /\ call'[c] = "ok" => call[c] = "ok" \/ next[c] + 1 = Ends(c)
          /\ job'[c] = "none" /\ next'[c] >= next[c] /\ next'[c] \in Nat
      BY <1>5, <2>2, AcknowledgedSteps
    <3>2. next[c] \in Nat /\ c.first \in Nat /\ next[c] >= c.first
      BY CallFacts DEF CallFits
    <3>3. next'[c] >= c.first
      BY <3>1, <3>2
    <3>4. IsFinal(c) /\ call'[c] = "ok" => target' # NoFile
      BY <1>5, <2>2, <3>1 DEF CallFits, LastChunk
    <3> QED
      BY <1>5, <3>1, <3>3, <3>4 DEF CallFits, IsFinal, Ends
  <2> QED
    BY <2>1, <2>2
<1>6. ASSUME NEW d \in Calls, Written(d) PROVE CallFits(c)'
  <2>1. job[d] = "writing" /\ route' = route /\ target' = target
    BY <1>6 DEF Written
  <2>2. CASE ~LastChunk(d) /\ Acknowledged(d)
    BY <1>5, <2>1, <2>2
  <2>3. CASE job' = [job EXCEPT ![d] = "publishing"] /\ UNCHANGED <<call, next, using>>
    BY <2>1, <2>3 DEF CallFits
  <2> QED
    BY <1>6, <2>2, <2>3 DEF Written
<1>7. ASSUME NEW d \in Calls, Publish(d) PROVE CallFits(c)'
  <2>1. job[d] = "publishing" /\ Acknowledged(d) /\ route' = route /\ target' = using[d]
    BY <1>7 DEF Publish
  <2>2. target' # NoFile
    BY <2>1, TempFacts DEF CallFits
  <2> QED
    BY <1>5, <2>1, <2>2
<1>8. ASSUME NEW d \in Calls, ReplyError(d) PROVE CallFits(c)'
  BY <1>8 DEF ReplyError, Fails, Discard, history, CallFits
<1>9. ASSUME LinkDrops PROVE CallFits(c)'
  BY <1>9 DEF LinkDrops, history, CallFits
<1>10. ASSUME NEW t \in Temps, IdleTimeout(t) \/ Removed(t) PROVE CallFits(c)'
  BY <1>10 DEF IdleTimeout, Removed, caller, history, CallFits
<1> QED
  BY <1>1, <1>2, <1>3, <1>4, <1>6, <1>7, <1>8, <1>9, <1>10 DEF UploadNext, AgentNext

\* A step that writes to no file and lets no chunk in.
Quiet ==
  /\ UNCHANGED <<offset, data, torn>>
  /\ upload' \in {upload, NoFile} /\ doomed' \subseteq doomed \cup {upload}
  /\ \A d \in Calls :
       /\ using'[d] \in {using[d], upload, NoFile}
       /\ job'[d] = "writing" => job[d] = "writing" /\ using'[d] = using[d] /\ next'[d] = next[d]
       /\ job'[d] = "publishing" => job[d] = "publishing" /\ using'[d] = using[d]
  /\ target' = target \/ \E d \in Calls : job[d] = "publishing" /\ using[d] = target'

LEMMA QuietKeeps ==
  ASSUME UploadInv, UploadNext, Quiet, NEW t \in Temps
  PROVE  TempFits(t)'
<1>1. TempFits(t) /\ t # NoFile /\ (Fresh(t)' => Fresh(t))
  BY NoNewFresh, TempFacts DEF UploadInv
<1>2. Closing(t)' => Closing(t)
  BY DEF Quiet, Closing
<1>3. \A c \in Calls : IsWriting(c, t)' => IsWriting(c, t) /\ next'[c] = next[c]
  BY DEF Quiet, IsWriting
<1>4. Fresh(t)' => Untouched(t)'
  BY <1>1, <1>2 DEF TempFits, Untouched, Quiet
<1>5. InPlace(t) => InPlace(t)'
  BY DEF InPlace, Quiet
<1>6. OneWriter(t) => OneWriter(t)'
  BY <1>3 DEF OneWriter, Quiet
<1>7. Closing(t)' => /\ upload' # t
                     /\ t \notin torn' => offset'[t] = Size /\ \A c \in Calls : ~IsWriting(c, t)'
  BY <1>1, <1>2, <1>3 DEF TempFits, Quiet
<1> QED
  BY <1>1, <1>4, <1>5, <1>6, <1>7 DEF TempFits, Quiet

\* What fails or ends, on either side, and what publishes a file.
LEMMA OthersAreQuiet ==
  ASSUME UploadInv,
         \/ \E c \in Calls : \/ Begin(c) \/ HangUp(c) \/ ChunkTimeout(c) \/ OpenFails(c)
                             \/ WriteFails(c) \/ PublishFails(c) \/ ReplyError(c) \/ Publish(c)
         \/ LinkDrops
         \/ \E t \in Temps : IdleTimeout(t) \/ Removed(t)
  PROVE  Quiet
<1> USE DEF UploadInv, UploadTypes, Quiet
<1>1. ASSUME NEW c \in Calls, Begin(c) \/ HangUp(c) \/ ChunkTimeout(c) PROVE Quiet
  BY <1>1 DEF Begin, HangUp, ChunkTimeout, Fails, Discard, history
<1>2. ASSUME NEW c \in Calls, OpenFails(c) \/ WriteFails(c) \/ PublishFails(c) PROVE Quiet
  BY <1>2 DEF OpenFails, WriteFails, PublishFails, Discard, caller, history
<1>3. ASSUME NEW c \in Calls, ReplyError(c) PROVE Quiet
  BY <1>3 DEF ReplyError, Fails, Discard, history
<1>4. ASSUME NEW c \in Calls, Publish(c) PROVE Quiet
  BY <1>4 DEF Publish, Acknowledged, history
<1>5. ASSUME LinkDrops PROVE Quiet
  BY <1>5 DEF LinkDrops, history
<1>6. ASSUME NEW t \in Temps, IdleTimeout(t) \/ Removed(t) PROVE Quiet
  BY <1>6 DEF IdleTimeout, Removed, caller, history
<1> QED
  BY <1>1, <1>2, <1>3, <1>4, <1>5, <1>6

\* A chunk that is let in beside another one tears the file.
LEMMA ChunkArrives ==
  ASSUME UploadInv, UploadNext, NEW c \in Calls, SendChunk(c), NEW t \in Temps
  PROVE  TempFits(t)'
<1> USE DEF UploadInv, UploadTypes
<1>1. /\ job[c] = "none"
      /\ UNCHANGED <<route, call, next, temps, offset, data, target>>
  BY DEF SendChunk, caller
<1>2. CASE /\ job' = [job EXCEPT ![c] = "opening"]
           /\ UNCHANGED <<using, upload, timers, doomed, torn>>
  <2>1. Quiet
    BY <1>1, <1>2 DEF Quiet
  <2> QED
    BY <2>1, QuietKeeps
<1>3. CASE /\ job' = [job EXCEPT ![c] = "failing"] /\ using' = [using EXCEPT ![c] = upload]
           /\ Discard /\ torn' = torn
  <2>1. Quiet
    BY <1>1, <1>3 DEF Quiet, Discard
  <2> QED
    BY <2>1, QuietKeeps
<1>4. CASE /\ Accepts(c, upload)
           /\ job' = [job EXCEPT ![c] = "writing"] /\ using' = [using EXCEPT ![c] = upload]
           /\ torn' = torn \cup {s \in {upload} : \E d \in Calls : IsWriting(d, s)}
           /\ UNCHANGED <<upload, timers, doomed>>
  <2>1. upload \in Temps /\ offset[upload] = next[c]
    BY <1>4 DEF Accepts
  <2>2. TempFits(t) /\ (Fresh(t)' => Fresh(t))
    BY NoNewFresh, TempFacts
  <2>3. Closing(t)' => Closing(t)
    BY <1>1, <1>4 DEF Closing
  <2>4. \A d \in Calls : IsWriting(d, t)' => IsWriting(d, t) \/ (d = c /\ t = upload)
    BY <1>4 DEF IsWriting
  <2>5. Fresh(t)' => Untouched(t)'
    BY <1>1, <1>4, <2>2, <2>3 DEF TempFits, Untouched
  <2>6. InPlace(t) => InPlace(t)'
    BY <1>1 DEF InPlace
  <2>7. t \notin torn' => OneWriter(t)'
    <3> SUFFICES ASSUME t \notin torn' PROVE OneWriter(t)'
      OBVIOUS
    <3>1. OneWriter(t) /\ (t = upload => \A d \in Calls : ~IsWriting(d, t))
      BY <1>4, <2>2 DEF TempFits
    <3> QED
      BY <1>1, <2>1, <2>4, <3>1 DEF OneWriter
  <2>8. Closing(t)' => /\ upload' # t
                       /\ t \notin torn' => offset'[t] = Size /\ \A d \in Calls : ~IsWriting(d, t)'
    BY <1>1, <1>4, <2>2, <2>3, <2>4 DEF TempFits
  <2> QED
    BY <1>4, <2>2, <2>5, <2>6, <2>7, <2>8 DEF TempFits
<1> QED
  BY <1>2, <1>3, <1>4 DEF SendChunk

LEMMA UploadOpens ==
  ASSUME UploadInv, UploadNext, NEW c \in Calls, Opened(c), NEW t \in Temps
  PROVE  TempFits(t)'
<1> USE DEF UploadInv, UploadTypes
<1>1. /\ job[c] = "opening" /\ upload' = c
      /\ job' = [job EXCEPT ![c] = "writing"] /\ using' = [using EXCEPT ![c] = c]
      /\ UNCHANGED <<route, call, next, doomed, offset, data, target, torn>>
  BY DEF Opened, caller
<1>2. next[c] = 0 /\ c \in Temps /\ Untouched(c)
  <2>1. next[c] = 0 /\ c \in Temps
    BY <1>1, OpensItsOwn
  <2> QED
    BY <1>1, <2>1 DEF TempFits, Fresh
<1>3. TempFits(t) /\ (Fresh(t)' => Fresh(t))
  BY NoNewFresh, TempFacts
<1>4. Closing(t)' => Closing(t)
  BY <1>1 DEF Closing
<1>5. InPlace(t) => InPlace(t)'
  BY <1>1 DEF InPlace
<1>6. CASE t = c
  <2>1. ~Closing(t)' /\ ~Fresh(t)'
    BY <1>1, <1>2, <1>4, <1>6 DEF Untouched, Fresh, CallFits
  <2>2. \A d \in Calls : IsWriting(d, t)' => d = c
    BY <1>1, <1>2, <1>6 DEF IsWriting, Untouched
  <2>3. InPlace(t)'
    BY <1>1, <1>2, <1>6 DEF InPlace, Untouched
  <2>4. OneWriter(t)'
    BY <1>1, <1>2, <1>6, <2>2 DEF OneWriter, Untouched
  <2> QED
    BY <2>1, <2>3, <2>4 DEF TempFits
<1>7. CASE t # c
  <2>1. \A d \in Calls : IsWriting(d, t)' => IsWriting(d, t)
    BY <1>1, <1>7 DEF IsWriting
  <2>2. Fresh(t)' => Untouched(t)'
    BY <1>1, <1>3, <1>4, <1>7 DEF TempFits, Untouched
  <2>3. OneWriter(t) => OneWriter(t)'
    BY <1>1, <2>1 DEF OneWriter
  <2> QED
    BY <1>1, <1>3, <1>4, <1>5, <1>7, <2>1, <2>2, <2>3 DEF TempFits
<1> QED
  BY <1>6, <1>7

\* The chunk that is written belongs at the end of its file, and the last
\* one completes it.
LEMMA ChunkIsWritten ==
  ASSUME UploadInv, UploadNext, NEW c \in Calls, Written(c), NEW t \in Temps
  PROVE  TempFits(t)'
<1> USE DEF UploadInv, UploadTypes
<1>1. /\ job[c] = "writing" /\ target' = target /\ doomed' = doomed
      /\ offset' = [offset EXCEPT ![using[c]] = @ + 1]
      /\ upload' \in {upload, NoFile}
  BY DEF Written
<1>2. /\ using[c] \in Temps /\ next[c] \in Nat /\ c.first \in Nat /\ IsWriting(c, using[c])
  BY <1>1, CallFacts DEF CallFits, IsWriting
<1>3. /\ job'[c] \in {"none", "publishing"}
      /\ \A d \in Calls \ {c} : next'[d] = next[d] /\ job'[d] = job[d] /\ using'[d] = using[d]
      /\ job'[c] = "publishing" =>
           LastChunk(c) /\ upload' = NoFile /\ using'[c] = using[c]
      /\ using'[c] \in {using[c], NoFile}
  BY <1>1 DEF Written, Acknowledged
<1>4. \A d \in Calls : IsWriting(d, t)' => IsWriting(d, t) /\ d # c /\ next'[d] = next[d]
  BY <1>3 DEF IsWriting
<1>5. TempFits(t) /\ (Fresh(t)' => Fresh(t)) /\ t # NoFile
  BY NoNewFresh, TempFacts
<1>6. CASE t # using[c]
  <2>1. /\ offset'[t] = offset[t] /\ data'[t] = data[t] /\ (t \in torn' <=> t \in torn)
    BY <1>1, <1>2, <1>6 DEF Written
  <2>2. Closing(t)' => Closing(t)
    BY <1>1, <1>3, <1>5, <1>6 DEF Closing
  <2>3. Fresh(t)' => Untouched(t)'
    BY <1>1, <1>3, <1>5, <2>1, <2>2 DEF TempFits, Untouched
  <2>4. InPlace(t) => InPlace(t)'
    BY <2>1 DEF InPlace
  <2>5. OneWriter(t) => OneWriter(t)'
    BY <1>4, <2>1 DEF OneWriter
  <2>6. Closing(t)' => /\ upload' # t
                       /\ t \notin torn' => offset'[t] = Size /\ \A d \in Calls : ~IsWriting(d, t)'
    BY <1>1, <1>4, <1>5, <2>1, <2>2 DEF TempFits
  <2> QED
    BY <1>5, <2>1, <2>3, <2>4, <2>5, <2>6 DEF TempFits
<1>7. CASE t = using[c]
  <2>1. ~Fresh(t)'
    BY <1>5, <1>7 DEF TempFits, Untouched
  <2>2. upload' # t \/ ~Closing(t)'
    BY <1>1, <1>3, <1>5 DEF TempFits, Closing
  <2>3. ASSUME t \notin torn'
        PROVE  /\ InPlace(t)' /\ OneWriter(t)' /\ (\A d \in Calls : ~IsWriting(d, t)')
               /\ Closing(t)' => offset'[t] = Size
    <3>1. t \notin torn /\ data' = [data EXCEPT ![t] = Append(@, next[c])]
      BY <1>7, <2>3 DEF Written
    <3>2. InPlace(t) /\ OneWriter(t) /\ ~Closing(t) /\ IsWriting(c, t)
      BY <1>2, <1>5, <1>7, <3>1 DEF TempFits
    <3>3. next[c] = offset[t] /\ \A d \in Calls : IsWriting(d, t) => d = c
      BY <3>2 DEF OneWriter
    <3>4. \A d \in Calls : ~IsWriting(d, t)'
      BY <1>4, <3>3
    <3>5. OneWriter(t)'
      BY <3>4 DEF OneWriter
    <3>6. offset'[t] = next[c] + 1 /\ data'[t] = Append(data[t], next[c]) /\ data[t] \in Seq(Nat)
      BY <1>1, <1>7, <3>1, <3>3
    <3>7. InPlace(t)'
      <4> DEFINE old == data[t]
                 new == data'[t]
                 n == next[c]
      <4>1. /\ old \in Seq(Nat) /\ Len(old) = n /\ n \in Nat /\ new = Append(old, n)
            /\ \A i \in 1 .. n : old[i] = i - 1
        BY <1>2, <3>2, <3>3, <3>6 DEF InPlace
      <4> HIDE DEF old, new, n
      <4>2. Len(new) = n + 1 /\ \A i \in 1 .. (n + 1) : new[i] = i - 1
        BY <4>1
      <4> QED
        BY <3>6, <4>2 DEF InPlace, new, n
    <3>8. Closing(t)' => offset'[t] = Size
      <4>1. Closing(t)' => LastChunk(c)
        BY <1>1, <1>3, <3>2 DEF Closing
      <4>2. LastChunk(c) => next[c] + 1 = Size
        BY DEF LastChunk, IsFinal
      <4> QED
        BY <3>6, <4>1, <4>2
    <3> QED
      BY <3>4, <3>5, <3>7, <3>8
  <2> QED
    BY <2>1, <2>2, <2>3 DEF TempFits
<1> QED
  BY <1>6, <1>7

LEMMA UploadStep ==
  ASSUME UploadInv, [UploadNext]_uploadVars
  PROVE  UploadInv'
<1>1. CASE UploadNext
  <2>1. ASSUME NEW t \in Temps PROVE TempFits(t)'
    <3>1. ASSUME NEW c \in Calls, SendChunk(c) PROVE TempFits(t)'
      BY <1>1, <3>1, ChunkArrives
    <3>2. ASSUME NEW c \in Calls, Opened(c) PROVE TempFits(t)'
      BY <1>1, <3>2, UploadOpens
    <3>3. ASSUME NEW c \in Calls, Written(c) PROVE TempFits(t)'
      BY <1>1, <3>3, ChunkIsWritten
    <3>4. \/ \E c \in Calls : SendChunk(c) \/ Opened(c) \/ Written(c)
          \/ Quiet
      BY <1>1, OthersAreQuiet DEF UploadNext, AgentNext
    <3> QED
      BY <1>1, <3>1, <3>2, <3>3, <3>4, QuietKeeps
  <2> QED
    BY <1>1, <2>1, UploadTyped, CallsStep DEF UploadInv
<1>2. CASE UNCHANGED uploadVars
  BY <1>2 DEF uploadVars, UploadInv, UploadTypes, CallFits, TempFits, Fresh, Closing, Untouched,
              InPlace, OneWriter, IsWriting
<1> QED
  BY <1>1, <1>2

(* UploadSession: "a dropped or repeated request fails rather than         *)
(* corrupting the file".  Whatever is lost, aborted, timed out or repeated *)
(* meanwhile, what runUploadChunk renames onto the target is the whole new *)
(* file, and it has been once the browser is told of success, unless the   *)
(* disk cut a write to it short or a chunk was let in while another was    *)
(* being written: for every size of file, of slice, and any repeats.       *)
THEOREM UploadPublishesTheWhole == UploadSpec => []UploadIsAtomic
<1>1. UploadInit => UploadInv
  BY UploadStart
<1>2. UploadInv /\ [UploadNext]_uploadVars => UploadInv'
  BY UploadStep
<1>3. UploadInv => UploadIsAtomic
  <2> SUFFICES ASSUME UploadInv PROVE UploadIsAtomic
    OBVIOUS
  <2>1. ASSUME target \notin torn \cup {NoFile} PROVE data[target] = Whole
    <3>1. target \in Temps /\ Closing(target)
      BY <2>1 DEF UploadInv, UploadTypes, Closing
    <3>2. InPlace(target) /\ offset[target] = Size
      BY <2>1, <3>1 DEF UploadInv, TempFits
    <3> QED
      BY <3>1, <3>2, WholeFile
  <2> QED
    BY <2>1 DEF UploadInv, CallFits, UploadIsAtomic
<1> QED
  BY <1>1, <1>2, <1>3, PTL DEF UploadSpec

(***************************************************************************)
(* What an upload leaves on the host.                                      *)
(***************************************************************************)

FilesInv == UploadInv /\ EntryIsLive /\ FilesHaveOwners

\* What discards the entry, or leaves it alone, and moves no file.
LEMMA EntryIsLetGo ==
  ASSUME FilesInv, UNCHANGED temps, stray \subseteq stray', handles' = handles,
         \/ UNCHANGED <<upload, timers, doomed>>
         \/ /\ upload' = NoFile
            /\ doomed' = IF upload = NoFile THEN doomed ELSE doomed \cup {upload},
         \A c \in Calls :
           job[c] = "publishing" => job'[c] = "publishing" /\ using'[c] = using[c]
  PROVE  EntryIsLive' /\ FilesHaveOwners'
<1>1. EntryIsLive'
  BY DEF FilesInv, EntryIsLive
<1>2. FilesHaveOwners'
  <2> SUFFICES ASSUME NEW t \in temps', t # upload', t \notin doomed', t \notin stray'
               PROVE  \E c \in Calls : job'[c] = "publishing" /\ using'[c] = t
    BY DEF FilesHaveOwners
  <2>1. t \in temps /\ t # upload /\ t \notin doomed /\ t \notin stray
    BY TempFacts DEF FilesInv, UploadInv, UploadTypes
  <2>2. PICK c \in Calls : job[c] = "publishing" /\ using[c] = t
    BY <2>1 DEF FilesInv, FilesHaveOwners
  <2> QED
    BY <2>1, <2>2
<1> QED
  BY <1>1, <1>2

LEMMA FilesStep ==
  ASSUME FilesInv, [UploadNext]_uploadVars
  PROVE  FilesInv'
<1> DEFINE Stays == EntryIsLive' /\ FilesHaveOwners'
<1>1. /\ job \in [Calls -> {"none", "opening", "writing", "publishing", "failing"}]
      /\ using \in [Calls -> Temps \cup {NoFile}] /\ upload \in Temps \cup {NoFile}
      /\ NoFile \notin Temps /\ temps \subseteq Temps
  BY TempFacts DEF FilesInv, UploadInv, UploadTypes
<1>2. ASSUME NEW c \in Calls, Begin(c) \/ HangUp(c) \/ ChunkTimeout(c) PROVE Stays
  BY <1>2, EntryIsLetGo DEF Begin, HangUp, ChunkTimeout, Fails, Discard, history
<1>3. ASSUME NEW c \in Calls, SendChunk(c) PROVE Stays
  <2>1. UNCHANGED temps /\ stray \subseteq stray' /\ handles' = handles
    BY <1>3 DEF SendChunk
  <2>2. \/ UNCHANGED <<upload, timers, doomed>>
        \/ /\ upload' = NoFile
           /\ doomed' = IF upload = NoFile THEN doomed ELSE doomed \cup {upload}
    BY <1>3 DEF SendChunk, Discard
  <2>3. \A d \in Calls : job[d] = "publishing" => job'[d] = "publishing" /\ using'[d] = using[d]
    BY <1>1, <1>3 DEF SendChunk
  <2> QED
    BY <2>1, <2>2, <2>3, EntryIsLetGo
<1>4. ASSUME NEW c \in Calls, Opened(c) PROVE Stays
  <2>1. /\ job[c] = "opening" /\ upload' = c /\ temps' = temps \cup {c} /\ handles' = handles \cup {c}
        /\ timers' = timers \cup {c} /\ doomed' = doomed /\ stray' = stray \cup ({upload} \ {NoFile})
        /\ job' = [job EXCEPT ![c] = "writing"] /\ using' = [using EXCEPT ![c] = c]
    BY <1>4 DEF Opened
  <2>2. c \notin doomed
    <3>1. c \in Temps
      BY <2>1, OpensItsOwn DEF FilesInv
    <3> QED
      BY <2>1, <3>1 DEF FilesInv, UploadInv, TempFits, Fresh, Untouched
  <2>3. EntryIsLive'
    BY <2>1, <2>2 DEF EntryIsLive
  <2>4. FilesHaveOwners'
    <3> SUFFICES ASSUME NEW t \in temps, t # c, t \notin doomed', t \notin stray'
                 PROVE  \E d \in Calls : job'[d] = "publishing" /\ using'[d] = t
      BY <2>1 DEF FilesHaveOwners
    <3>1. PICK d \in Calls : job[d] = "publishing" /\ using[d] = t
      BY <1>1, <2>1 DEF FilesInv, FilesHaveOwners
    <3> QED
      BY <1>1, <2>1, <3>1
  <2> QED
    BY <2>3, <2>4
<1>5. ASSUME NEW c \in Calls, OpenFails(c) \/ WriteFails(c) PROVE Stays
  <2>1. job[c] # "publishing" /\ job' = [job EXCEPT ![c] = "failing"]
        /\ using' = [using EXCEPT ![c] = upload] /\ Discard /\ UNCHANGED <<temps, handles, stray>>
    BY <1>5 DEF OpenFails, WriteFails, history
  <2>2. \A d \in Calls : job[d] = "publishing" => job'[d] = "publishing" /\ using'[d] = using[d]
    BY <1>1, <2>1
  <2> QED
    BY <2>1, <2>2, EntryIsLetGo DEF Discard
<1>6. ASSUME NEW c \in Calls, Written(c) PROVE Stays
  <2>1. job[c] = "writing" /\ UNCHANGED <<temps, handles, doomed>>
    BY <1>6 DEF Written
  <2>2. CASE Acknowledged(c) /\ UNCHANGED <<upload, timers, stray>>
    <3>1. \A d \in Calls : job[d] = "publishing" => job'[d] = "publishing" /\ using'[d] = using[d]
      BY <1>1, <2>1, <2>2 DEF Acknowledged
    <3> QED
      BY <2>1, <2>2, <3>1, EntryIsLetGo
  <2>3. CASE /\ upload' = NoFile /\ job' = [job EXCEPT ![c] = "publishing"] /\ using' = using
             /\ stray' = stray \cup ({upload} \ {using[c], NoFile})
    <3>1. EntryIsLive'
      BY <2>3 DEF EntryIsLive
    <3>2. FilesHaveOwners'
      <4> SUFFICES ASSUME NEW t \in temps, t \notin doomed, t \notin stray'
                   PROVE  \E d \in Calls : job'[d] = "publishing" /\ using'[d] = t
        BY <2>1, <2>3 DEF FilesHaveOwners
      <4>1. job'[c] = "publishing" /\ using'[c] = using[c]
        BY <1>1, <2>3
      <4>2. CASE t = using[c]
        BY <4>1, <4>2
      <4>3. CASE t # using[c]
        <5>1. t # upload
          BY <1>1, <2>3, <4>3
        <5>2. PICK d \in Calls : job[d] = "publishing" /\ using[d] = t
          BY <2>3, <5>1 DEF FilesInv, FilesHaveOwners
        <5> QED
          BY <1>1, <2>1, <2>3, <5>2
      <4> QED
        BY <4>2, <4>3
    <3> QED
      BY <3>1, <3>2
  <2> QED
    BY <1>6, <2>2, <2>3 DEF Written
<1>7. ASSUME NEW c \in Calls, job[c] = "publishing"
      PROVE  upload # using[c]
  <2>1. using[c] \in Temps /\ Closing(using[c])
    BY <1>7 DEF FilesInv, UploadInv, CallFits, Closing
  <2> QED
    BY <2>1 DEF FilesInv, UploadInv, TempFits
<1>8. ASSUME NEW c \in Calls, Publish(c) PROVE Stays
  <2>1. /\ job[c] = "publishing" /\ temps' = temps \ {using[c]} /\ handles' = handles \ {using[c]}
        /\ UNCHANGED <<upload, timers, doomed, stray>>
        /\ job' = [job EXCEPT ![c] = "none"] /\ using' = [using EXCEPT ![c] = NoFile]
    BY <1>8 DEF Publish, Acknowledged, history
  <2>2. EntryIsLive'
    BY <1>7, <2>1 DEF FilesInv, EntryIsLive
  <2>3. FilesHaveOwners'
    BY <1>1, <2>1 DEF FilesInv, FilesHaveOwners
  <2> QED
    BY <2>2, <2>3
<1>9. ASSUME NEW c \in Calls, PublishFails(c) PROVE Stays
  <2>1. /\ job[c] = "publishing" /\ temps' = temps /\ handles' = handles \ {using[c]}
        /\ stray' = stray \cup (({using[c]} \cap temps) \ doomed)
        /\ job' = [job EXCEPT ![c] = "failing"] /\ using' = [using EXCEPT ![c] = upload]
        /\ upload' = NoFile
        /\ doomed' = IF upload = NoFile THEN doomed ELSE doomed \cup {upload}
    BY <1>9 DEF PublishFails, Discard
  <2>2. EntryIsLive'
    BY <2>1 DEF EntryIsLive
  <2>3. FilesHaveOwners'
    <3> SUFFICES ASSUME NEW t \in temps, t \notin doomed', t \notin stray'
                 PROVE  \E d \in Calls : job'[d] = "publishing" /\ using'[d] = t
      BY <2>1 DEF FilesHaveOwners
    <3>1. t # upload /\ t \notin doomed /\ t \notin stray /\ t # using[c]
      BY <1>1, <2>1
    <3>2. PICK d \in Calls : job[d] = "publishing" /\ using[d] = t
      BY <3>1 DEF FilesInv, FilesHaveOwners
    <3> QED
      BY <1>1, <2>1, <3>1, <3>2
  <2> QED
    BY <2>2, <2>3
<1>10. ASSUME NEW c \in Calls, ReplyError(c) PROVE Stays
  <2>1. /\ job[c] = "failing" /\ job' = [job EXCEPT ![c] = "none"]
        /\ using' = [using EXCEPT ![c] = NoFile] /\ UNCHANGED <<temps, handles, stray>>
    BY <1>10 DEF ReplyError, history
  <2>2. \A d \in Calls : job[d] = "publishing" => job'[d] = "publishing" /\ using'[d] = using[d]
    BY <1>1, <2>1
  <2>3. \/ UNCHANGED <<upload, timers, doomed>>
        \/ /\ upload' = NoFile
           /\ doomed' = IF upload = NoFile THEN doomed ELSE doomed \cup {upload}
    BY <1>10 DEF ReplyError, Fails, Discard
  <2> QED
    BY <2>1, <2>2, <2>3, EntryIsLetGo
<1>11. ASSUME LinkDrops PROVE Stays
  BY <1>11, EntryIsLetGo DEF LinkDrops, history
<1>12. ASSUME NEW t \in Temps, IdleTimeout(t) PROVE Stays
  BY <1>12, EntryIsLetGo DEF IdleTimeout, history
<1>13. ASSUME NEW t \in Temps, Removed(t) PROVE Stays
  <2>1. /\ t \in doomed /\ doomed' = doomed \ {t} /\ temps' = temps \ {t} /\ handles' = handles \ {t}
        /\ UNCHANGED <<job, using, upload, timers, stray>>
    BY <1>13 DEF Removed, history
  <2> QED
    BY <2>1 DEF FilesInv, EntryIsLive, FilesHaveOwners
<1>14. ASSUME UNCHANGED uploadVars PROVE Stays
  BY <1>14 DEF uploadVars, FilesInv, EntryIsLive, FilesHaveOwners
<1>15. Stays
  BY <1>2, <1>3, <1>4, <1>5, <1>6, <1>8, <1>9, <1>10, <1>11, <1>12, <1>13, <1>14
     DEF UploadNext, AgentNext
<1> QED
  BY <1>15, UploadStep DEF FilesInv

LEMMA FilesStart == UploadInit => FilesInv
<1> SUFFICES ASSUME UploadInit PROVE FilesInv
  OBVIOUS
<1>1. UploadInv
  BY UploadStart
<1>2. temps = {} /\ upload = NoFile
  BY DEF UploadInit
<1> QED
  BY <1>1, <1>2 DEF FilesInv, EntryIsLive, FilesHaveOwners

(* While an entry is in Agent.uploads its file is there and open, its idle *)
(* timer is armed, and nobody is removing it (runUploadChunk against       *)
(* discardUpload): whatever repeats come while others are handled, for     *)
(* every size of file and of slice.                                        *)
THEOREM EntriesAreLive == UploadSpec => []EntryIsLive
<1>1. FilesInv /\ [UploadNext]_uploadVars => FilesInv'
  BY FilesStep
<1>2. FilesInv => EntryIsLive
  BY DEF FilesInv
<1> QED
  BY <1>1, <1>2, FilesStart, PTL DEF UploadSpec

(* "Never left behind": whatever fails, times out, is aborted or repeated, *)
(* a temp file that is on the disk has somebody who takes it away - the    *)
(* entry with its idle timer, the final chunk that publishes it, or        *)
(* discardUpload - unless it is one of the three kinds of stray that the   *)
(* code makes: its entry was displaced by that of a repeat (agent.ts:794)  *)
(* or deleted by the final chunk of another file (agent.ts:820), or its    *)
(* own close or rename failed (agent.ts:821-822).                          *)
THEOREM FilesAreOwned == UploadSpec => []FilesHaveOwners
<1>1. FilesInv /\ [UploadNext]_uploadVars => FilesInv'
  BY FilesStep
<1>2. FilesInv => FilesHaveOwners
  BY DEF FilesInv
<1> QED
  BY <1>1, <1>2, FilesStart, PTL DEF UploadSpec

(***************************************************************************)
(* Terminals.  Their two ends never lose sight of each other while the     *)
(* agent's connection lives, for any number of sessions.  What makes the   *)
(* safety invariants of TerminalBridge inductive is the wire's order: a    *)
(* shell is closed by a message that follows the one that opens it.        *)
(***************************************************************************)


\* The wire belongs to the present connection, and so do its sessions.
WireIsCurrent ==
  /\ toAgent # <<>> => link = "up"
  /\ \A i \in DOMAIN toAgent :
       toAgent[i].session \notin stale /\ term[toAgent[i].session] # "none"

\* Nothing has happened to a session that was never opened.
UnopenedIsUntouched ==
  \A s \in Sessions : term[s] = "none" => proc[s] = "none" /\ s \notin stale

\* Without a connection every session there was is over.
DownIsStale ==
  link = "down" => \A s \in Sessions : term[s] # "none" => s \in stale

\* The agent can kill every shell of the present connection.
AliveIsKnown ==
  link = "up" => \A s \in Sessions \ stale : proc[s] = "alive" => s \in agentShells

\* A shell that is to be opened for a terminal that has closed meanwhile is
\* to be closed right after.
OpenIsClosed ==
  \A i \in DOMAIN toAgent :
    toAgent[i].type = "openShell" /\ term[toAgent[i].session] = "closed" =>
      \E j \in DOMAIN toAgent : i < j /\ toAgent[j] = Msg(toAgent[i].session, "closeShell")

IInv ==
  /\ TypeOK
  /\ ShellsAreOpenTerminals
  /\ NoOrphanOnLiveLink
  /\ ExitIsOnItsWay
  /\ WireIsCurrent
  /\ UnopenedIsUntouched
  /\ DownIsStale
  /\ AliveIsKnown
  /\ OpenIsClosed

-----------------------------------------------------------------------------
(* The wire                                                                *)

Types == {"openShell", "closeShell", "shellExit", "error"}

LEMMA MsgIsMessage ==
  ASSUME NEW s \in Sessions, NEW t \in Types
  PROVE  Msg(s, t) \in Message /\ Msg(s, t).session = s /\ Msg(s, t).type = t
BY DEF Msg, Message, Types

LEMMA WireTyped ==
  ASSUME NEW q \in Seq(Message)
  PROVE  \A i \in DOMAIN q : q[i] \in Message /\ q[i].session \in Sessions
<1>1. \A i \in DOMAIN q : q[i] \in Message
  OBVIOUS
<1> QED
  BY <1>1 DEF Message

(* What is sent comes last, and what was on the wire stays where it was.   *)
LEMMA AppendFacts ==
  ASSUME NEW q \in Seq(Message), NEW e \in Message
  PROVE  /\ Append(q, e) \in Seq(Message)
         /\ DOMAIN q \subseteq DOMAIN Append(q, e)
         /\ \A i \in DOMAIN q : i < Len(q) + 1 /\ Append(q, e)[i] = q[i]
         /\ Len(q) + 1 \in DOMAIN Append(q, e) /\ Append(q, e)[Len(q) + 1] = e
         /\ \A i \in DOMAIN Append(q, e) : i \in DOMAIN q \/ i = Len(q) + 1
         /\ Contains(Append(q, e), e)
         /\ \A m : Contains(q, m) => Contains(Append(q, e), m)
BY DEF Contains

(* What is received was first, and the rest moves up.                      *)
LEMMA TailFacts ==
  ASSUME NEW q \in Seq(Message), q # <<>>
  PROVE  /\ Head(q) \in Message /\ 1 \in DOMAIN q /\ q[1] = Head(q)
         /\ Tail(q) \in Seq(Message)
         /\ \A i \in DOMAIN Tail(q) : i \in Nat /\ i + 1 \in DOMAIN q /\ Tail(q)[i] = q[i + 1]
         /\ \A j \in DOMAIN q : j # 1 => j - 1 \in DOMAIN Tail(q) /\ Tail(q)[j - 1] = q[j]
         /\ \A m : Contains(q, m) /\ m # Head(q) => Contains(Tail(q), m)
<1>1. /\ Head(q) \in Message /\ 1 \in DOMAIN q /\ q[1] = Head(q)
      /\ Tail(q) \in Seq(Message)
  OBVIOUS
<1>2. \A i \in DOMAIN Tail(q) : i \in Nat /\ i + 1 \in DOMAIN q /\ Tail(q)[i] = q[i + 1]
  OBVIOUS
<1>3. \A j \in DOMAIN q : j # 1 => j - 1 \in DOMAIN Tail(q) /\ Tail(q)[j - 1] = q[j]
  OBVIOUS
<1>4. ASSUME NEW m, Contains(q, m), m # Head(q) PROVE Contains(Tail(q), m)
  <2>1. PICK j \in 1..Len(q) : q[j] = m
    BY <1>4 DEF Contains
  <2>2. j # 1
    BY <1>1, <1>4, <2>1
  <2>3. j \in DOMAIN q
    BY <2>1
  <2>4. j - 1 \in DOMAIN Tail(q) /\ Tail(q)[j - 1] = m
    BY <1>3, <2>1, <2>2, <2>3
  <2>5. j - 1 \in 1..Len(Tail(q))
    BY <1>1, <2>4
  <2> QED
    BY <2>4, <2>5 DEF Contains
<1> QED
  BY <1>1, <1>2, <1>3, <1>4

-----------------------------------------------------------------------------
(* The control plane's steps                                               *)

LEMMA InitIInv == Init => IInv
BY DEF Init, IInv, TypeOK, ShellsAreOpenTerminals, NoOrphanOnLiveLink, ExitIsOnItsWay,
       WireIsCurrent, UnopenedIsUntouched, DownIsStale, AliveIsKnown, OpenIsClosed, Term, Proc

(* A browser opens a terminal that was never opened before.                *)
LEMMA OpenTerminalIInv ==
  ASSUME IInv, NEW s \in Sessions, OpenTerminal(s)
  PROVE  IInv'
<1>1. /\ link # "down" /\ term[s] = "none"
      /\ term' = [term EXCEPT ![s] = "open"]
      /\ shells' = shells \cup {s}
      /\ toAgent' = IF link = "up" /\ s \notin stale THEN Append(toAgent, Msg(s, "openShell")) ELSE toAgent
      /\ UNCHANGED <<link, stale, agentShells, proc, toControl>>
  BY DEF OpenTerminal, SendControl
<1>2. TypeOK /\ s \notin stale /\ proc[s] = "none"
  BY <1>1 DEF IInv, UnopenedIsUntouched
<1>3. Msg(s, "openShell") \in Message /\ Msg(s, "openShell").session = s
  BY MsgIsMessage DEF Types
<1>4. TypeOK'
  BY <1>1, <1>2, <1>3, AppendFacts DEF TypeOK, Term
<1>5. ShellsAreOpenTerminals'
  BY <1>1, <1>2 DEF IInv, ShellsAreOpenTerminals, TypeOK, Term
<1>6. NoOrphanOnLiveLink'
  BY <1>1, <1>2, <1>3, AppendFacts DEF IInv, NoOrphanOnLiveLink, TypeOK
<1>7. ExitIsOnItsWay'
  BY <1>1, <1>2 DEF IInv, ExitIsOnItsWay, TypeOK
<1>8. WireIsCurrent'
  BY <1>1, <1>2, <1>3, AppendFacts DEF IInv, WireIsCurrent, TypeOK, Message
<1>9. UnopenedIsUntouched' /\ DownIsStale' /\ AliveIsKnown'
  BY <1>1, <1>2 DEF IInv, UnopenedIsUntouched, DownIsStale, AliveIsKnown, TypeOK
<1>10. ASSUME NEW i \in DOMAIN toAgent', toAgent'[i].type = "openShell",
               term'[toAgent'[i].session] = "closed"
       PROVE  \E j \in DOMAIN toAgent' : i < j /\ toAgent'[j] = Msg(toAgent'[i].session, "closeShell")
  <2>1. i \in DOMAIN toAgent /\ toAgent'[i] = toAgent[i]
    <3>1. CASE i \in DOMAIN toAgent
      BY <1>1, <1>2, <1>3, <3>1, AppendFacts DEF TypeOK
    <3>2. CASE i \notin DOMAIN toAgent
      BY <1>1, <1>2, <1>3, <1>10, <3>2, AppendFacts DEF TypeOK
    <3> QED
      BY <3>1, <3>2
  <2>2. toAgent[i].session \in Sessions /\ toAgent[i].session # s
    BY <1>1, <1>2, <2>1, WireTyped DEF IInv, WireIsCurrent, TypeOK
  <2>3. PICK j \in DOMAIN toAgent : i < j /\ toAgent[j] = Msg(toAgent[i].session, "closeShell")
    BY <1>1, <1>2, <1>10, <2>1, <2>2 DEF IInv, OpenIsClosed, TypeOK
  <2>4. j \in DOMAIN toAgent' /\ toAgent'[j] = toAgent[j]
    BY <1>1, <1>2, <1>3, AppendFacts DEF TypeOK
  <2> QED
    BY <2>1, <2>3, <2>4
<1> QED
  BY <1>4, <1>5, <1>6, <1>7, <1>8, <1>9, <1>10 DEF IInv, OpenIsClosed

(* A browser is gone: the agent is told on the connection the terminal was *)
(* opened on, behind whatever it was told before.                          *)
LEMMA CloseTerminalIInv ==
  ASSUME IInv, NEW s \in Sessions, CloseTerminal(s)
  PROVE  IInv'
<1>1. /\ term[s] \in {"open", "closing"}
      /\ term' = [term EXCEPT ![s] = "closed"]
      /\ shells' = shells \ {s}
      /\ toAgent' = IF link = "up" /\ s \notin stale THEN Append(toAgent, Msg(s, "closeShell")) ELSE toAgent
      /\ UNCHANGED <<link, stale, agentShells, proc, toControl>>
  BY DEF CloseTerminal, SendControl
<1>2. TypeOK
  BY DEF IInv
<1>3. /\ Msg(s, "closeShell") \in Message /\ Msg(s, "closeShell").session = s
      /\ Msg(s, "closeShell").type = "closeShell"
  BY MsgIsMessage DEF Types
<1>4. TypeOK'
  BY <1>1, <1>2, <1>3, AppendFacts DEF TypeOK, Term
<1>5. ShellsAreOpenTerminals'
  BY <1>1, <1>2 DEF IInv, ShellsAreOpenTerminals, TypeOK, Term
<1>6. NoOrphanOnLiveLink'
  BY <1>1, <1>2, <1>3, AppendFacts DEF IInv, NoOrphanOnLiveLink, TypeOK
<1>7. ExitIsOnItsWay'
  BY <1>1, <1>2 DEF IInv, ExitIsOnItsWay, TypeOK
<1>8. WireIsCurrent'
  BY <1>1, <1>2, <1>3, AppendFacts DEF IInv, WireIsCurrent, TypeOK, Message
<1>9. UnopenedIsUntouched' /\ DownIsStale' /\ AliveIsKnown'
  BY <1>1, <1>2 DEF IInv, UnopenedIsUntouched, DownIsStale, AliveIsKnown, TypeOK
<1>10. ASSUME NEW i \in DOMAIN toAgent', toAgent'[i].type = "openShell",
               term'[toAgent'[i].session] = "closed"
       PROVE  \E j \in DOMAIN toAgent' : i < j /\ toAgent'[j] = Msg(toAgent'[i].session, "closeShell")
  <2>1. i \in DOMAIN toAgent /\ toAgent'[i] = toAgent[i]
    <3>1. CASE i \in DOMAIN toAgent
      BY <1>1, <1>2, <1>3, <3>1, AppendFacts DEF TypeOK
    <3>2. CASE i \notin DOMAIN toAgent
      BY <1>1, <1>2, <1>3, <1>10, <3>2, AppendFacts DEF TypeOK
    <3> QED
      BY <3>1, <3>2
  <2>2. CASE toAgent[i].session = s
    <3>1. link = "up" /\ s \notin stale
      BY <2>1, <2>2 DEF IInv, WireIsCurrent
    <3>2. toAgent' = Append(toAgent, Msg(s, "closeShell"))
      BY <1>1, <3>1
    <3>3. Len(toAgent) + 1 \in DOMAIN toAgent' /\ i < Len(toAgent) + 1
          /\ toAgent'[Len(toAgent) + 1] = Msg(s, "closeShell")
      BY <1>2, <1>3, <2>1, <3>2, AppendFacts DEF TypeOK
    <3> QED
      BY <2>1, <2>2, <3>3
  <2>3. CASE toAgent[i].session # s
    <3>1. toAgent[i].session \in Sessions
      BY <1>2, <2>1, WireTyped DEF TypeOK
    <3>2. PICK j \in DOMAIN toAgent : i < j /\ toAgent[j] = Msg(toAgent[i].session, "closeShell")
      BY <1>1, <1>2, <1>10, <2>1, <2>3, <3>1 DEF IInv, OpenIsClosed, TypeOK
    <3>3. j \in DOMAIN toAgent' /\ toAgent'[j] = toAgent[j]
      BY <1>1, <1>2, <1>3, AppendFacts DEF TypeOK
    <3> QED
      BY <2>1, <3>2, <3>3
  <2> QED
    BY <2>2, <2>3
<1> QED
  BY <1>4, <1>5, <1>6, <1>7, <1>8, <1>9, <1>10 DEF IInv, OpenIsClosed

(* An exit, or an error, arrives.                                          *)
LEMMA ReceiveIInv ==
  ASSUME IInv, Receive
  PROVE  IInv'
<1>1. /\ link # "down" /\ toControl # <<>> /\ toControl' = Tail(toControl)
      /\ UNCHANGED <<link, stale, agentShells, proc, toAgent>>
  BY DEF Receive
<1>2. TypeOK /\ ShellsAreOpenTerminals
  BY DEF IInv
<1> DEFINE msg == Head(toControl)
<1>3. msg \in Message /\ toControl' \in Seq(Message)
      /\ \A m : Contains(toControl, m) /\ m # msg => Contains(toControl', m)
  BY <1>1, <1>2, TailFacts DEF TypeOK
<1>4. \/ msg.type = "shellExit" /\ ReceiveExit(msg.session)
      \/ msg.type = "error" /\ UNCHANGED <<shells, term>>
  BY DEF Receive
<1> HIDE DEF msg
<1>5. /\ term' \in [Sessions -> Term]
      /\ \A s \in Sessions :
           \/ term'[s] = term[s]
           \/ s \in shells /\ s = msg.session /\ term[s] = "open" /\ term'[s] = "closing"
  BY <1>2, <1>4 DEF TypeOK, ReceiveExit, Hangup, Term
<1>6. TypeOK'
  BY <1>1, <1>2, <1>3, <1>4, <1>5 DEF TypeOK, ReceiveExit
<1>7. ShellsAreOpenTerminals'
  BY <1>1, <1>2, <1>4 DEF ShellsAreOpenTerminals, ReceiveExit, Hangup, TypeOK, Term
<1>8. NoOrphanOnLiveLink'
  BY <1>1, <1>2, <1>5 DEF IInv, NoOrphanOnLiveLink, TypeOK
<1>9. ExitIsOnItsWay'
  <2> SUFFICES ASSUME link' = "up", NEW s \in Sessions \ stale', proc'[s] = "dead", term'[s] = "open"
               PROVE  Contains(toControl', Msg(s, "shellExit"))
    BY DEF ExitIsOnItsWay
  <2>1. term[s] = "open"
    BY <1>5
  <2>2. Contains(toControl, Msg(s, "shellExit"))
    BY <1>1, <2>1 DEF IInv, ExitIsOnItsWay
  <2>3. msg # Msg(s, "shellExit")
    <3> SUFFICES ASSUME msg = Msg(s, "shellExit") PROVE FALSE
      OBVIOUS
    <3>1. msg.type = "shellExit" /\ msg.session = s
      BY MsgIsMessage DEF Types
    <3>2. s \in shells
      BY <1>1, <1>2, <2>1 DEF ShellsAreOpenTerminals
    <3>3. term'[s] = "closing"
      BY <1>4, <2>1, <3>1, <3>2 DEF ReceiveExit, Hangup
    <3> QED
      BY <3>3
  <2> QED
    BY <1>3, <2>2, <2>3
<1>10. WireIsCurrent' /\ OpenIsClosed'
  <2>1. \A i \in DOMAIN toAgent : toAgent[i].session \in Sessions
    BY <1>2, WireTyped DEF TypeOK
  <2>2. \A s \in Sessions :
          /\ term'[s] = "none" => term[s] = "none"
          /\ term'[s] = "closed" => term[s] = "closed"
    BY <1>5
  <2>3. toAgent' = toAgent /\ stale' = stale /\ link' = link
    BY <1>1
  <2>4. WireIsCurrent /\ OpenIsClosed
    BY DEF IInv
  <2>5. WireIsCurrent'
    <3>1. \A i \in DOMAIN toAgent : term'[toAgent[i].session] # "none"
      <4> TAKE i \in DOMAIN toAgent
      <4>1. toAgent[i].session \in Sessions /\ term[toAgent[i].session] # "none"
        BY <2>1, <2>4 DEF WireIsCurrent
      <4> QED
        BY <2>2, <4>1
    <3> QED
      BY <2>3, <2>4, <3>1 DEF WireIsCurrent
  <2>6. OpenIsClosed'
    BY <2>1, <2>2, <2>3, <2>4 DEF OpenIsClosed
  <2> QED
    BY <2>5, <2>6
<1>11. UnopenedIsUntouched' /\ DownIsStale' /\ AliveIsKnown'
  BY <1>1, <1>5 DEF IInv, UnopenedIsUntouched, DownIsStale, AliveIsKnown
<1> QED
  BY <1>6, <1>7, <1>8, <1>9, <1>10, <1>11 DEF IInv

(* The connection is seen to be down: every session it carried is told.    *)
LEMMA DisconnectIInv ==
  ASSUME IInv, Disconnect
  PROVE  IInv'
<1>1. /\ link' = "down" /\ shells' = {} /\ term' = Hangup(shells)
      /\ stale' = {s \in Sessions : term[s] # "none"}
      /\ agentShells' = {} /\ toAgent' = <<>> /\ toControl' = <<>> /\ proc' = proc
  BY DEF Disconnect
<1>2. TypeOK /\ ShellsAreOpenTerminals /\ UnopenedIsUntouched
  BY DEF IInv
<1>3. /\ term' \in [Sessions -> Term]
      /\ \A s \in Sessions : term'[s] = "none" <=> term[s] = "none"
      /\ \A s \in Sessions : term'[s] = "open" => term[s] = "open"
  BY <1>1, <1>2 DEF TypeOK, Hangup, Term
<1>4. TypeOK'
  BY <1>1, <1>2, <1>3 DEF TypeOK
<1>5. ShellsAreOpenTerminals'
  BY <1>1, <1>3 DEF ShellsAreOpenTerminals
<1>6. UnopenedIsUntouched' /\ DownIsStale'
  BY <1>1, <1>2, <1>3 DEF UnopenedIsUntouched, DownIsStale
<1>7. NoOrphanOnLiveLink' /\ ExitIsOnItsWay' /\ WireIsCurrent' /\ AliveIsKnown' /\ OpenIsClosed'
  BY <1>1 DEF NoOrphanOnLiveLink, ExitIsOnItsWay, WireIsCurrent, AliveIsKnown, OpenIsClosed
<1> QED
  BY <1>4, <1>5, <1>6, <1>7 DEF IInv

(* A new connection starts with nothing to say about earlier sessions.     *)
LEMMA ReconnectIInv ==
  ASSUME IInv, Reconnect
  PROVE  IInv'
<1>1. /\ link = "down" /\ link' = "up"
      /\ UNCHANGED <<term, stale, shells, agentShells, proc, toAgent, toControl>>
  BY DEF Reconnect
<1>2. \A s \in Sessions \ stale : term[s] = "none" /\ proc[s] = "none"
  BY <1>1 DEF IInv, DownIsStale, UnopenedIsUntouched
<1>3. NoOrphanOnLiveLink' /\ ExitIsOnItsWay' /\ AliveIsKnown' /\ DownIsStale'
  BY <1>1, <1>2 DEF NoOrphanOnLiveLink, ExitIsOnItsWay, AliveIsKnown, DownIsStale
<1>4. TypeOK' /\ ShellsAreOpenTerminals' /\ WireIsCurrent' /\ UnopenedIsUntouched' /\ OpenIsClosed'
  BY <1>1 DEF IInv, TypeOK, ShellsAreOpenTerminals, WireIsCurrent, UnopenedIsUntouched, OpenIsClosed
<1> QED
  BY <1>3, <1>4 DEF IInv

-----------------------------------------------------------------------------
(* The host's steps                                                        *)

(* A link that is lost, or whose agent is, has nothing on the wire.        *)
LEMMA LostIInv ==
  ASSUME IInv, Fade \/ AgentDies
  PROVE  IInv'
<1>1. /\ link' \in {"half", "down"} /\ (link' = "down" => link = "down")
      /\ toAgent' = <<>> /\ toControl' = <<>>
      /\ agentShells' \in {agentShells, {}}
      /\ UNCHANGED <<term, stale, shells>>
  BY DEF Fade, AgentDies, IInv, TypeOK
<1>2. TypeOK
  BY DEF IInv
<1>3. /\ proc' \in [Sessions -> Proc]
      /\ \A s \in Sessions : proc[s] = "none" => proc'[s] = "none"
  BY <1>2 DEF Fade, AgentDies, TypeOK, Proc
<1>4. TypeOK'
  BY <1>1, <1>2, <1>3 DEF TypeOK
<1>5. ShellsAreOpenTerminals' /\ UnopenedIsUntouched' /\ DownIsStale'
  BY <1>1, <1>3 DEF IInv, ShellsAreOpenTerminals, UnopenedIsUntouched, DownIsStale
<1>6. NoOrphanOnLiveLink' /\ ExitIsOnItsWay' /\ WireIsCurrent' /\ AliveIsKnown' /\ OpenIsClosed'
  BY <1>1 DEF NoOrphanOnLiveLink, ExitIsOnItsWay, WireIsCurrent, AliveIsKnown, OpenIsClosed
<1> QED
  BY <1>4, <1>5, <1>6 DEF IInv

(* What the agent makes of a message: it opens a shell, or kills one.      *)
LEMMA OnMessageIInv ==
  ASSUME IInv, OnMessage
  PROVE  IInv'
<1> DEFINE msg == Head(toAgent)
<1> DEFINE o == msg.session
<1>1. /\ toAgent # <<>> /\ toAgent' = Tail(toAgent)
      /\ \/ msg.type = "openShell" /\ OpenShell(o)
         \/ msg.type = "closeShell" /\ CloseShell(o)
      /\ UNCHANGED <<link, term, stale, shells>>
  BY DEF OnMessage
<1>2. TypeOK
  BY DEF IInv
<1>3. /\ msg \in Message /\ 1 \in DOMAIN toAgent /\ toAgent[1] = msg
      /\ toAgent' \in Seq(Message)
      /\ \A i \in DOMAIN toAgent' : i \in Nat /\ i + 1 \in DOMAIN toAgent /\ toAgent'[i] = toAgent[i + 1]
      /\ \A j \in DOMAIN toAgent : j # 1 => j - 1 \in DOMAIN toAgent' /\ toAgent'[j - 1] = toAgent[j]
      /\ \A m : Contains(toAgent, m) /\ m # msg => Contains(toAgent', m)
  BY <1>1, <1>2, TailFacts DEF TypeOK
<1>4. o \in Sessions /\ o \notin stale /\ term[o] # "none" /\ link = "up"
  BY <1>1, <1>3 DEF IInv, WireIsCurrent, Message
<1> HIDE DEF msg, o
<1>5. /\ proc' \in [Sessions -> Proc] /\ agentShells' \subseteq Sessions
      /\ \A s \in Sessions : s # o => proc'[s] = proc[s] /\ (s \in agentShells' <=> s \in agentShells)
  BY <1>1, <1>2, <1>4 DEF OpenShell, CloseShell, TypeOK, Proc
<1>6. ASSUME msg.type = "openShell"
      PROVE  TypeOK' /\ NoOrphanOnLiveLink' /\ ExitIsOnItsWay' /\ AliveIsKnown'
  <2>1. OpenShell(o)
    BY <1>1, <1>6
  <2>2. /\ proc'[o] \in {"alive", "failed"} /\ (proc'[o] = "alive" => o \in agentShells')
        /\ \A m : Contains(toControl, m) => Contains(toControl', m)
        /\ toControl' \in Seq(Message)
    <3>1. Msg(o, "error") \in Message
      BY <1>4, MsgIsMessage DEF Types
    <3>2. toControl' \in {toControl, Append(toControl, Msg(o, "error"))}
      BY <2>1 DEF OpenShell, SendNode
    <3>3. proc'[o] \in {"alive", "failed"} /\ (proc'[o] = "alive" => o \in agentShells')
      BY <1>2, <1>4, <2>1 DEF OpenShell, TypeOK
    <3>4. /\ \A m : Contains(toControl, m) => Contains(toControl', m)
          /\ toControl' \in Seq(Message)
      <4>1. CASE toControl' = toControl
        BY <1>2, <4>1 DEF TypeOK
      <4>2. CASE toControl' = Append(toControl, Msg(o, "error"))
        BY <1>2, <3>1, <4>2, AppendFacts DEF TypeOK
      <4> QED
        BY <3>2, <4>1, <4>2
    <3> QED
      BY <3>3, <3>4
  <2>3. TypeOK'
    BY <1>1, <1>2, <1>3, <1>5, <2>2 DEF TypeOK
  <2>4. NoOrphanOnLiveLink'
    <3> SUFFICES ASSUME NEW s \in Sessions \ stale, proc'[s] = "alive", term[s] = "closed"
                 PROVE  Contains(toAgent', Msg(s, "closeShell"))
      BY <1>1 DEF NoOrphanOnLiveLink
    <3>1. CASE s = o
      <4>1. PICK j \in DOMAIN toAgent : 1 < j /\ toAgent[j] = Msg(o, "closeShell")
        BY <1>3, <1>6, <3>1 DEF IInv, OpenIsClosed, o
      <4>2. j - 1 \in DOMAIN toAgent' /\ toAgent'[j - 1] = Msg(o, "closeShell")
        BY <1>3, <4>1
      <4>3. j - 1 \in 1..Len(toAgent')
        BY <1>3, <4>2
      <4> QED
        BY <3>1, <4>2, <4>3 DEF Contains
    <3>2. CASE s # o
      <4>1. Contains(toAgent, Msg(s, "closeShell"))
        BY <1>4, <1>5, <3>2 DEF IInv, NoOrphanOnLiveLink
      <4>2. msg # Msg(s, "closeShell")
        BY <3>2, MsgIsMessage DEF Types, o
      <4> QED
        BY <1>3, <4>1, <4>2
    <3> QED
      BY <3>1, <3>2
  <2>5. ExitIsOnItsWay'
    BY <1>1, <1>4, <1>5, <2>2 DEF IInv, ExitIsOnItsWay
  <2>6. AliveIsKnown'
    BY <1>1, <1>4, <1>5, <2>2 DEF IInv, AliveIsKnown
  <2> QED
    BY <2>3, <2>4, <2>5, <2>6
<1>7. ASSUME msg.type = "closeShell"
      PROVE  TypeOK' /\ NoOrphanOnLiveLink' /\ ExitIsOnItsWay' /\ AliveIsKnown'
  <2>1. CloseShell(o)
    BY <1>1, <1>7
  <2>2. /\ toControl' = toControl /\ proc'[o] # "alive"
        /\ proc'[o] = "dead" => proc[o] = "dead"
    BY <1>2, <1>4, <2>1 DEF CloseShell, IInv, AliveIsKnown, TypeOK
  <2>3. TypeOK'
    BY <1>1, <1>2, <1>3, <1>5, <2>2 DEF TypeOK
  <2>4. NoOrphanOnLiveLink'
    <3> SUFFICES ASSUME NEW s \in Sessions \ stale, proc'[s] = "alive", term[s] = "closed"
                 PROVE  Contains(toAgent', Msg(s, "closeShell"))
      BY <1>1 DEF NoOrphanOnLiveLink
    <3>1. s # o
      BY <2>2
    <3>2. Contains(toAgent, Msg(s, "closeShell"))
      BY <1>4, <1>5, <3>1 DEF IInv, NoOrphanOnLiveLink
    <3>3. msg # Msg(s, "closeShell")
      BY <3>1, MsgIsMessage DEF Types, o
    <3> QED
      BY <1>3, <3>2, <3>3
  <2>5. ExitIsOnItsWay'
    BY <1>1, <1>4, <1>5, <2>2 DEF IInv, ExitIsOnItsWay
  <2>6. AliveIsKnown'
    BY <1>1, <1>4, <1>5, <2>2 DEF IInv, AliveIsKnown
  <2> QED
    BY <2>3, <2>4, <2>5, <2>6
<1>8. TypeOK' /\ NoOrphanOnLiveLink' /\ ExitIsOnItsWay' /\ AliveIsKnown'
  BY <1>1, <1>6, <1>7
<1>9. ShellsAreOpenTerminals' /\ DownIsStale'
  BY <1>1 DEF IInv, ShellsAreOpenTerminals, DownIsStale
<1>10. UnopenedIsUntouched'
  BY <1>1, <1>4, <1>5 DEF IInv, UnopenedIsUntouched
<1>11. WireIsCurrent'
  BY <1>1, <1>3, <1>4 DEF IInv, WireIsCurrent
<1>12. OpenIsClosed'
  <2> SUFFICES ASSUME NEW i \in DOMAIN toAgent', toAgent'[i].type = "openShell",
                      term[toAgent'[i].session] = "closed"
               PROVE  \E j \in DOMAIN toAgent' : i < j /\ toAgent'[j] = Msg(toAgent'[i].session, "closeShell")
    BY <1>1 DEF OpenIsClosed
  <2>1. i \in Nat /\ i + 1 \in DOMAIN toAgent /\ toAgent'[i] = toAgent[i + 1]
    BY <1>3
  <2>2. PICK j \in DOMAIN toAgent : i + 1 < j /\ toAgent[j] = Msg(toAgent[i + 1].session, "closeShell")
    BY <2>1 DEF IInv, OpenIsClosed
  <2>3. j \in Nat
    BY <1>2 DEF TypeOK
  <2>4. j - 1 \in DOMAIN toAgent' /\ toAgent'[j - 1] = toAgent[j] /\ i < j - 1
    BY <1>3, <2>1, <2>2, <2>3
  <2> QED
    BY <2>1, <2>2, <2>4
<1> QED
  BY <1>8, <1>9, <1>10, <1>11, <1>12 DEF IInv

(* A shell is gone, and its agent says so.                                 *)
LEMMA ExitedIInv ==
  ASSUME IInv, NEW s \in Sessions, Exited(s)
  PROVE  IInv'
<1>1. /\ proc[s] \in {"alive", "killed"}
      /\ proc' = [proc EXCEPT ![s] = "dead"]
      /\ agentShells' = agentShells \ {s}
      /\ toControl' = IF link = "up" /\ s \notin stale THEN Append(toControl, Msg(s, "shellExit")) ELSE toControl
      /\ UNCHANGED <<link, term, stale, shells, toAgent>>
  BY DEF Exited, SendNode
<1>2. TypeOK
  BY DEF IInv
<1>3. Msg(s, "shellExit") \in Message
  BY MsgIsMessage DEF Types
<1>4. TypeOK'
  BY <1>1, <1>2, <1>3, AppendFacts DEF TypeOK, Proc
<1>5. ExitIsOnItsWay'
  BY <1>1, <1>2, <1>3, AppendFacts DEF IInv, ExitIsOnItsWay, TypeOK
<1>6. NoOrphanOnLiveLink' /\ AliveIsKnown' /\ UnopenedIsUntouched'
  BY <1>1, <1>2 DEF IInv, NoOrphanOnLiveLink, AliveIsKnown, UnopenedIsUntouched, TypeOK
<1>7. ShellsAreOpenTerminals' /\ WireIsCurrent' /\ DownIsStale' /\ OpenIsClosed'
  BY <1>1 DEF IInv, ShellsAreOpenTerminals, WireIsCurrent, DownIsStale, OpenIsClosed
<1> QED
  BY <1>4, <1>5, <1>6, <1>7 DEF IInv

-----------------------------------------------------------------------------

LEMMA NextIInv == IInv /\ [Next]_vars => IInv'
<1> SUFFICES ASSUME IInv, [Next]_vars PROVE IInv'
  OBVIOUS
<1>1. ASSUME NEW s \in Sessions, OpenTerminal(s) PROVE IInv'
  BY <1>1, OpenTerminalIInv
<1>2. ASSUME NEW s \in Sessions, CloseTerminal(s) PROVE IInv'
  BY <1>2, CloseTerminalIInv
<1>3. ASSUME NEW s \in Sessions, Exited(s) PROVE IInv'
  BY <1>3, ExitedIInv
<1>4. CASE Receive
  BY <1>4, ReceiveIInv
<1>5. CASE Disconnect
  BY <1>5, DisconnectIInv
<1>6. CASE Reconnect
  BY <1>6, ReconnectIInv
<1>7. CASE Fade \/ AgentDies
  BY <1>7, LostIInv
<1>8. CASE OnMessage
  BY <1>8, OnMessageIInv
<1>9. CASE UNCHANGED vars
  BY <1>9 DEF vars, IInv, TypeOK, ShellsAreOpenTerminals, NoOrphanOnLiveLink, ExitIsOnItsWay,
              WireIsCurrent, UnopenedIsUntouched, DownIsStale, AliveIsKnown, OpenIsClosed
<1> QED
  BY <1>1, <1>2, <1>3, <1>4, <1>5, <1>6, <1>7, <1>8, <1>9 DEF Next

(* HostAgent's session table has exactly the terminals that are open on    *)
(* the present connection, whichever of browser, shell, link and agent     *)
(* ends first.                                                             *)
THEOREM SessionTable == Spec => [](TypeOK /\ ShellsAreOpenTerminals)
<1>1. IInv => TypeOK /\ ShellsAreOpenTerminals
  BY DEF IInv
<1> QED
  BY InitIInv, NextIInv, <1>1, PTL DEF Spec

(* While the connection lives, a shell whose browser has gone is about to  *)
(* be killed: closeShell follows openShell on the wire.                    *)
THEOREM NoOrphan == Spec => []NoOrphanOnLiveLink
<1>1. IInv => NoOrphanOnLiveLink
  BY DEF IInv
<1> QED
  BY InitIInv, NextIInv, <1>1, PTL DEF Spec

(* While the connection lives, a browser whose shell has exited is about   *)
(* to be told: shellExit is on the wire.                                   *)
THEOREM ExitReported == Spec => []ExitIsOnItsWay
<1>1. IInv => ExitIsOnItsWay
  BY DEF IInv
<1> QED
  BY InitIInv, NextIInv, <1>1, PTL DEF Spec
=============================================================================
