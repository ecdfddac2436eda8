----------------------------- MODULE EventStream -----------------------------
(***************************************************************************)
(* The events channel: EventHub (http/ws.ts) fans the fleet and the task   *)
(* runs out to sockets, and ConnectionManager (apps/web/src/connection.ts) *)
(* mirrors them in a page that loses its socket, logs out and comes back.  *)
(*                                                                         *)
(* A socket is a FIFO of what its page has not handled yet, "opened" first *)
(* and "closed" last.  A run's status is the number of its stage, the      *)
(* fleet's state the number of its changes, a log line its position.  Left *)
(* out: metrics, the cap on logs, and users who may not read tasks.        *)
(***************************************************************************)
EXTENDS Naturals, Sequences, FiniteSets, SequencesExt

CONSTANTS
    Runs,      \* task runs
    Sockets,   \* sockets of one page that may exist at once
    MaxLines,  \* bound: log lines of a run
    MaxFleet,  \* bound: states of the fleet
    MaxFaults, \* bound: lost connections, restarts, log-outs, failed
               \* saves, prunings
    None

ASSUME EventsAssumption ==
    /\ None \notin Runs \cup Sockets \cup Nat
    /\ MaxLines \in Nat /\ MaxFleet \in Nat \ {0} /\ MaxFaults \in Nat

VARIABLES
    fleet,     \* the fleet's state
    status,    \* the run objects
    listed,    \* the runs TaskStore has
    pruned,    \* those it ever dropped
    announcing,\* runs whose last change is being saved
    stuck,     \* runs whose last save failed
    lines,     \* log lines of each run
    hub,       \* EventHub.sockets
    wire,      \* events on their way to the page
    ws,        \* ConnectionManager.ws
    running, connected,
    timer,     \* reconnectTimer
    servers, tasks, taskLogs, \* the page's state
    fetch,     \* answers to getLogs on their way
    wait,      \* waitForTask
    faults

serverVars == <<fleet, status, listed, pruned, announcing, stuck, lines>>
linkVars == <<hub, wire>>
clientVars == <<ws, running, connected, timer>>
pageVars == <<servers, tasks, taskLogs>>
vars == <<serverVars, linkVars, clientVars, pageVars, fetch, wait, faults>>

Absent == 0
Pending == 1
Running == 2
Ended == 3

\* A run's log as the page has it: the lines it was seeded with, and those that
\* came by the socket.
NoLog == [seed |-> None, live |-> <<>>]

Opened == [kind |-> "opened"]
Closed == [kind |-> "closed"]
TaskUpdate(r) == [kind |-> "taskUpdate", run |-> r, status |-> status[r]]

\* initEvent.
InitEvent == [kind |-> "init", servers |-> fleet,
              tasks |-> [r \in Runs |-> IF r \in listed THEN status[r] ELSE Absent]]

NoTasks == [r \in Runs |-> Absent]

Init ==
    /\ fleet = 1
    /\ status = NoTasks
    /\ listed = {} /\ pruned = {} /\ announcing = {} /\ stuck = {}
    /\ lines = [r \in Runs |-> 0]
    /\ hub = {}
    /\ wire = [k \in Sockets |-> <<>>]
    /\ ws = None
    /\ running = FALSE /\ connected = FALSE /\ timer = FALSE
    /\ servers = 0
    /\ tasks = NoTasks
    /\ taskLogs = [r \in Runs |-> NoLog]
    /\ fetch = [r \in Runs |-> None]
    /\ wait = [r \in Runs |-> "no"]
    /\ faults = 0

Fault == faults < MaxFaults /\ faults' = faults + 1

-----------------------------------------------------------------------------
(* The server.                                                             *)

\* EventHub.broadcast.
Broadcast(event) ==
    /\ wire' = [k \in Sockets |-> IF k \in hub THEN Append(wire[k], event) ELSE wire[k]]
    /\ UNCHANGED hub

\* serversUpdate: the listing as it is now.
FleetChanges ==
    /\ fleet < MaxFleet
    /\ fleet' = fleet + 1
    /\ Broadcast([kind |-> "serversUpdate", servers |-> fleet'])
    /\ UNCHANGED <<status, listed, pruned, announcing, stuck, lines, clientVars, pageVars, fetch, wait, faults>>

\* TaskRunner starts, executes or finishes a run: the object changes, the store
\* lists it, and the change is announced once it is saved.
RunChanges(r) ==
    /\ r \notin announcing \cup stuck
    /\ status[r] < Ended
    /\ status' = [status EXCEPT ![r] = @ + 1]
    /\ listed' = listed \cup {r}
    /\ announcing' = announcing \cup {r}
    /\ UNCHANGED <<fleet, pruned, stuck, lines, linkVars, clientVars, pageVars, fetch, wait, faults>>

Announce(r) ==
    /\ r \in announcing
    /\ announcing' = announcing \ {r}
    /\ Broadcast(TaskUpdate(r))
    /\ UNCHANGED <<fleet, status, listed, pruned, stuck, lines, clientVars, pageVars, fetch, wait, faults>>

\* The save throws, and nothing is announced.
SaveFails(r) ==
    /\ r \in announcing
    /\ Fault
    /\ announcing' = announcing \ {r}
    /\ stuck' = stuck \cup {r}
    /\ UNCHANGED <<fleet, status, listed, pruned, lines, linkVars, clientVars, pageVars, fetch, wait>>

\* TaskStore.prune, when enough other runs have started.
Prune(r) ==
    /\ r \in listed
    /\ Fault
    /\ listed' = listed \ {r}
    /\ pruned' = pruned \cup {r}
    /\ UNCHANGED <<fleet, status, announcing, stuck, lines, linkVars, clientVars, pageVars, fetch, wait>>

\* ctx.log.
Log(r) ==
    /\ status[r] = Running /\ r \notin announcing \cup stuck
    /\ lines[r] < MaxLines
    /\ lines' = [lines EXCEPT ![r] = @ + 1]
    /\ Broadcast([kind |-> "taskLog", run |-> r, line |-> lines'[r]])
    /\ UNCHANGED <<fleet, status, listed, pruned, announcing, stuck, clientVars, pageVars, fetch, wait, faults>>

\* The connection is lost: what the page has not handled may be lost with it.
Drop(k) ==
    /\ k \in hub
    /\ k = ws => Fault
    /\ k # ws => UNCHANGED faults
    /\ hub' = hub \ {k}
    /\ \E n \in 0 .. Len(wire[k]) :
         wire' = [wire EXCEPT ![k] = Append(SubSeq(@, 1, n), Closed)]
    /\ UNCHANGED <<serverVars, clientVars, pageVars, fetch, wait>>

\* The control plane restarts: every socket is lost, and the next process reaps
\* what had not ended; a run whose first save had not landed is unknown to it.
Restart ==
    /\ Fault
    /\ hub' = {}
    /\ \E kept \in BOOLEAN :
         wire' = [k \in Sockets |-> IF k \notin hub THEN wire[k]
                                   ELSE IF kept THEN Append(wire[k], Closed) ELSE <<Closed>>]
    /\ status' = [r \in Runs |-> IF status[r] = Absent THEN Absent ELSE Ended]
    /\ \E unknown \in SUBSET {r \in announcing \cup stuck : status[r] = Pending} :
         listed' = listed \ unknown /\ pruned' = pruned \cup unknown
    /\ announcing' = {} /\ stuck' = {}
    /\ lines' = [r \in Runs |-> 0]
    /\ fetch' = [r \in Runs |-> None]
    /\ UNCHANGED <<fleet, clientVars, pageVars, wait>>

-----------------------------------------------------------------------------
(* The page.                                                               *)

\* A new socket; which of the names that are free it gets does not matter.
Free == {k \in Sockets : k \notin hub /\ wire[k] = <<>>}
New(k) == Free # {} /\ k = CHOOSE s \in Free : TRUE

\* Variant: a socket gets the events, and no snapshot first.
X_OpenSocket(k) ==
    /\ New(k)
    /\ ws' = k
    /\ hub' = hub \cup {k}
    /\ wire' = [wire EXCEPT ![k] = <<Opened>>]

\* connect, and EventHub's open: the socket joins the hub and gets its snapshot.
OpenSocket(k) ==
    /\ New(k)
    /\ ws' = k
    /\ hub' = hub \cup {k}
    /\ wire' = [wire EXCEPT ![k] = <<Opened, InitEvent>>]

\* The server cannot be reached.
FailSocket(k) ==
    /\ New(k)
    /\ ws' = k
    /\ wire' = [wire EXCEPT ![k] = <<Closed>>]
    /\ UNCHANGED hub

Connect(k) == OpenSocket(k) \/ FailSocket(k)

Start(k) ==
    /\ ~running
    /\ running' = TRUE
    /\ Connect(k)
    /\ UNCHANGED <<serverVars, connected, timer, pageVars, fetch, wait, faults>>

Reconnect(k) ==
    /\ timer
    /\ timer' = FALSE
    /\ Connect(k)
    /\ UNCHANGED <<serverVars, running, connected, pageVars, fetch, wait, faults>>

\* stop: the socket is stripped of its handlers and closed, which takes a while.
Stop ==
    /\ running
    /\ Fault
    /\ running' = FALSE /\ connected' = FALSE /\ timer' = FALSE
    /\ ws' = None
    /\ servers' = 0
    /\ tasks' = NoTasks
    /\ taskLogs' = [r \in Runs |-> NoLog]
    /\ UNCHANGED <<serverVars, linkVars, fetch, wait>>

\* update, whose listeners waitForTask's check is one of.
ShowTasks(shown) ==
    /\ tasks' = shown
    /\ wait' = [r \in Runs |-> IF wait[r] = "waiting" /\ shown[r] = Ended THEN "done"
                                                                          ELSE wait[r]]

\* handleEvent.
HandleEvent(e) ==
    \/ /\ e.kind = "init"
       /\ servers' = e.servers
       /\ ShowTasks(e.tasks)
       /\ UNCHANGED taskLogs
    \/ /\ e.kind = "serversUpdate"
       /\ servers' = e.servers
       /\ UNCHANGED <<tasks, taskLogs, wait>>
    \/ /\ e.kind = "taskUpdate"
       /\ ShowTasks([tasks EXCEPT ![e.run] = e.status])
       /\ UNCHANGED <<servers, taskLogs>>
    \/ /\ e.kind = "taskLog"
       /\ taskLogs' = [taskLogs EXCEPT ![e.run].live = Append(@, e.line)]
       /\ UNCHANGED <<servers, tasks, wait>>

\* What the current socket's handlers do with an event.
OnCurrent(e) ==
    \/ /\ e.kind = "opened"
       /\ connected' = TRUE
       /\ UNCHANGED <<ws, running, timer, pageVars, wait>>
    \/ /\ e.kind = "closed"
       /\ ws' = None
       /\ connected' = FALSE
       /\ timer' = TRUE
       /\ UNCHANGED <<running, pageVars, wait>>
    \/ HandleEvent(e) /\ UNCHANGED clientVars

Take(k) ==
    /\ wire[k] # <<>>
    /\ wire' = [wire EXCEPT ![k] = Tail(@)]
    /\ UNCHANGED <<serverVars, hub, fetch, faults>>

\* Variant: a socket's handlers keep working when another has replaced it.
X_OnEvent(k) ==
    /\ Take(k)
    /\ IF ws = k THEN OnCurrent(Head(wire[k]))
       ELSE IF running /\ Head(wire[k]).kind \notin {"opened", "closed"}
            THEN HandleEvent(Head(wire[k])) /\ UNCHANGED clientVars
            ELSE UNCHANGED <<clientVars, pageVars, wait>>

\* onopen, onclose and onmessage; those of a socket that was replaced do nothing.
OnEvent(k) ==
    /\ Take(k)
    /\ IF ws = k THEN OnCurrent(Head(wire[k])) ELSE UNCHANGED <<clientVars, pageVars, wait>>

\* A view asks for the log of a run it has no line of.
FetchLogs(r) ==
    /\ running
    /\ taskLogs[r] = NoLog /\ fetch[r] = None
    /\ tasks[r] # Absent
    /\ fetch' = [fetch EXCEPT ![r] = lines[r]]
    /\ UNCHANGED <<serverVars, linkVars, clientVars, pageVars, wait, faults>>

\* seedTaskLogs.
SeedTaskLogs(r) ==
    /\ fetch[r] # None
    /\ fetch' = [fetch EXCEPT ![r] = None]
    /\ taskLogs' = IF taskLogs[r] = NoLog THEN [taskLogs EXCEPT ![r].seed = fetch[r]] ELSE taskLogs
    /\ UNCHANGED <<serverVars, linkVars, clientVars, servers, tasks, wait, faults>>

\* runTaskAndWait: a run that this page has started and knows the id of.
WaitForTask(r) ==
    /\ running
    /\ wait[r] = "no"
    /\ r \in listed
    /\ status[r] = Pending => r \notin announcing \cup stuck
    /\ wait' = [wait EXCEPT ![r] = IF tasks[r] = Ended THEN "done" ELSE "waiting"]
    /\ UNCHANGED <<serverVars, linkVars, clientVars, pageVars, fetch, faults>>

\* Variant: there is no poll.
X_PollWait(r) == FALSE /\ UNCHANGED vars

\* The fallback poll, only while there is no connection.
PollWait(r) ==
    /\ wait[r] = "waiting"
    /\ ~connected /\ running
    /\ r \in listed /\ status[r] = Ended
    /\ wait' = [wait EXCEPT ![r] = "done"]
    /\ UNCHANGED <<serverVars, linkVars, clientVars, pageVars, fetch, faults>>

Next ==
    \/ FleetChanges
    \/ \E r \in Runs : \/ RunChanges(r) \/ Announce(r) \/ SaveFails(r) \/ Prune(r) \/ Log(r)
                       \/ FetchLogs(r) \/ SeedTaskLogs(r) \/ WaitForTask(r) \/ PollWait(r)
    \/ \E k \in Sockets : Drop(k) \/ Start(k) \/ Reconnect(k) \/ OnEvent(k)
    \/ Restart \/ Stop

\* The page's timers fire and its events are handled; saves return and runs go
\* on. A logged-out page may stay logged out.
Fairness ==
    /\ \A r \in Runs : WF_vars(RunChanges(r)) /\ WF_vars(Announce(r)) /\ WF_vars(PollWait(r))
    /\ \A k \in Sockets : WF_vars(OnEvent(k))
    /\ WF_vars(\E k \in Sockets : Reconnect(k))
    /\ WF_vars(\E k \in Sockets : k # ws /\ Drop(k))

EventsSpec == Init /\ [][Next]_vars /\ Fairness

-----------------------------------------------------------------------------
Item == Runs \cup {"fleet"}

Truth == [i \in Item |-> IF i = "fleet" THEN fleet ELSE status[i]]
View == [i \in Item |-> IF i = "fleet" THEN servers ELSE tasks[i]]

Mirror == INSTANCE Replica WITH Items <- Item, truth <- Truth, withdrawn <- pruned, view <- View

\* The page shows only what the server said, and never an older state of a run
\* or of the fleet than before, across lost connections, restarts, log-outs and
\* sockets that linger (ws.ts, initEvent and broadcast; connection.ts, connect).
MirrorsFaithfully == Mirror!ReplicaSpec

\* A page that is connected and has handled what was sent shows the fleet and
\* every run as they are, apart from changes whose save is under way or failed
\* (ws.ts, open: the snapshot and the subscription leave no gap).
MirrorIsCurrent ==
    connected /\ wire[ws] = <<>> =>
        /\ servers = fleet
        /\ \A r \in listed \ (announcing \cup stuck) : tasks[r] = status[r]

Increasing(seq) == \A i, j \in DOMAIN seq : i < j => seq[i] < seq[j]

\* connection.ts:62-66: no broadcast of a log line is applied twice, whichever
\* sockets are still open.  The lines that getLogs brings are not among these.
LiveLinesOnce == \A r \in Runs : Increasing(taskLogs[r].live)

\* connection.ts:20 of taskLogs: "log lines seen so far, oldest first".
LogLinesOnce ==
    \A r \in Runs : LET log == taskLogs[r] IN
        log.seed # None => \A i \in DOMAIN log.live : log.live[i] > log.seed

\* A page that waits for a run learns of its end, connected or not, unless it is
\* logged out, the run is pruned, or the save that would be announced failed
\* (connection.ts, waitForTask: the poll and the reconnect's snapshot).
WaitEnds ==
    \A r \in Runs : wait[r] = "waiting" ~>
        (wait[r] = "done" \/ ~running \/ r \notin listed \/ r \in stuck)
=============================================================================
