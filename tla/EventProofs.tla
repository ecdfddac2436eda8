----------------------------- MODULE EventProofs -----------------------------
(***************************************************************************)
(* Proofs about EventStream.  Both the refinement of Replica and the two   *)
(* invariants rest on one argument about the wires: what is on a wire was  *)
(* true when it was sent (Known), is in the order it became true (Sooner), *)
(* and on the wire of the current socket none of it is older than what the *)
(* page shows already (Ahead) - except that a snapshot may lack a run that *)
(* was pruned.                                                             *)
(***************************************************************************)
EXTENDS EventStream, SequenceTheorems, TLAPS

-----------------------------------------------------------------------------
(* The inductive invariant.                                                *)

Stage == 0 .. 3

Event ==
    {Opened, Closed}
      \cup [kind : {"init"}, servers : Nat, tasks : [Runs -> Stage]]
      \cup [kind : {"serversUpdate"}, servers : Nat]
      \cup [kind : {"taskUpdate"}, run : Runs, status : Stage]
      \cup [kind : {"taskLog"}, run : Runs, line : Nat]

ServerType ==
    /\ fleet \in Nat
    /\ status \in [Runs -> Stage]
    /\ listed \subseteq Runs /\ pruned \subseteq Runs
    /\ lines \in [Runs -> Nat]

SaveType == announcing \subseteq Runs /\ stuck \subseteq Runs

LinkType ==
    /\ hub \subseteq Sockets
    /\ wire \in [Sockets -> Seq(Event)]
    /\ ws \in Sockets \cup {None}
    /\ fetch \in [Runs -> Nat \cup {None}]

PageType ==
    /\ servers \in Nat
    /\ tasks \in [Runs -> Stage]
    /\ taskLogs \in [Runs -> [seed : Nat \cup {None}, live : Seq(Nat)]]

\* What an event says of the fleet, of a run, of a run's log.
TellsFleet(e) == e.kind \in {"init", "serversUpdate"}

TellsRun(e, r) == e.kind = "init" \/ (e.kind = "taskUpdate" /\ e.run = r)

Stated(e, r) == IF e.kind = "init" THEN e.tasks[r] ELSE e.status

IsLine(e, r) == e.kind = "taskLog" /\ e.run = r

\* `d` was said before `e`.
Sooner(d, e) ==
    /\ TellsFleet(d) /\ TellsFleet(e) => d.servers <= e.servers
    /\ \A r \in Runs : TellsRun(d, r) /\ TellsRun(e, r) => Stated(d, r) <= Stated(e, r)
    /\ \A r \in Runs : IsLine(d, r) /\ IsLine(e, r) => d.line < e.line

\* `e` says nothing that has not become true, of the fleet `f`, the runs' stages
\* `st` and the lines `ln` of those that can still log.
Known(e, f, st, ln) ==
    /\ TellsFleet(e) => e.servers <= f
    /\ \A r \in Runs : TellsRun(e, r) => Stated(e, r) <= st[r]
    /\ \A r \in Runs : IsLine(e, r) => e.line > 0 /\ (st[r] # Ended => e.line <= ln[r])

\* `e` takes a page that shows `sv`, `tk` and `tl` back only on a run of `pr`.
Ahead(e, sv, tk, tl, pr) ==
    /\ TellsFleet(e) => sv <= e.servers
    /\ \A r \in Runs : TellsRun(e, r) =>
         tk[r] <= Stated(e, r) \/ (Stated(e, r) = Absent /\ r \in pr)
    /\ \A r \in Runs : IsLine(e, r) => \A i \in 1 .. Len(tl[r].live) : tl[r].live[i] < e.line

\* A run the store forgot was pruned, and one that has not run has no lines.
StoreInv ==
    /\ \A r \in Runs : status[r] # Absent => r \in listed \cup pruned
    /\ \A r \in Runs : status[r] < Running => lines[r] = 0

\* The current socket is in the hub, or its page will hear that it is closed.
LinkInv ==
    /\ ws # None /\ ws \notin hub =>
         wire[ws] # <<>> /\ wire[ws][Len(wire[ws])] = Closed
    /\ connected => ws # None

InOrder(s) == \A p, q \in 1 .. Len(s) : p < q => Sooner(s[p], s[q])

AllKnown(s, f, st, ln) == \A p \in 1 .. Len(s) : Known(s[p], f, st, ln)

AllAhead(s, sv, tk, tl, pr) == \A p \in 1 .. Len(s) : Ahead(s[p], sv, tk, tl, pr)

WireInv ==
    \A k \in Sockets : InOrder(wire[k]) /\ AllKnown(wire[k], fleet, status, lines)

PageInv ==
    /\ servers <= fleet
    /\ \A r \in Runs : tasks[r] <= status[r]

LogInv ==
    \A r \in Runs :
        /\ \A i, j \in 1 .. Len(taskLogs[r].live) :
             i < j => taskLogs[r].live[i] < taskLogs[r].live[j]
        /\ \A i \in 1 .. Len(taskLogs[r].live) :
             /\ taskLogs[r].live[i] > 0
             /\ status[r] # Ended => taskLogs[r].live[i] <= lines[r]

AheadInv == ws # None => AllAhead(wire[ws], servers, tasks, taskLogs, pruned)

EventInv ==
    /\ ServerType /\ LinkType /\ PageType
    /\ StoreInv /\ LinkInv /\ WireInv /\ PageInv /\ LogInv /\ AheadInv

\* What is said last on the current socket, or shown if nothing more is said, is
\* the truth of the fleet, and of each run whose changes have been announced.
FleetArrives ==
    \/ servers = fleet
    \/ \E p \in 1 .. Len(wire[ws]) : TellsFleet(wire[ws][p]) /\ wire[ws][p].servers = fleet

Says(p, r) == TellsRun(wire[ws][p], r) /\ Stated(wire[ws][p], r) = status[r]

RunArrives(r) ==
    \/ /\ tasks[r] = status[r]
       /\ \A p \in 1 .. Len(wire[ws]) : TellsRun(wire[ws][p], r) => Says(p, r)
    \/ \E p \in 1 .. Len(wire[ws]) : Says(p, r)

ArrivalInv ==
    ws \in hub =>
        /\ FleetArrives
        /\ \A r \in listed \ (announcing \cup stuck) : RunArrives(r)

-----------------------------------------------------------------------------
(* Sequences and events.                                                   *)

(* What Append, Tail and a prefix hold at each position: what a wire is    *)
(* after a send, a delivery and a loss.                                    *)
LEMMA AppendAt ==
  ASSUME NEW S, NEW s \in Seq(S), NEW e \in S
  PROVE  /\ Append(s, e) \in Seq(S)
         /\ Len(Append(s, e)) = Len(s) + 1
         /\ Append(s, e) # <<>>
         /\ \A p \in 1 .. Len(s) : Append(s, e)[p] = s[p]
         /\ Append(s, e)[Len(s) + 1] = e
BY AppendProperties

LEMMA TailAt ==
  ASSUME NEW S, NEW s \in Seq(S), s # <<>>
  PROVE  /\ Tail(s) \in Seq(S)
         /\ Head(s) \in S /\ Head(s) = s[1]
         /\ Len(s) \in Nat \ {0} /\ Len(Tail(s)) = Len(s) - 1
         /\ \A p \in 1 .. Len(s) - 1 : Tail(s)[p] = s[p + 1]
BY HeadTailProperties, LenProperties, EmptySeq

LEMMA PrefixAt ==
  ASSUME NEW S, NEW s \in Seq(S), NEW n \in 0 .. Len(s)
  PROVE  /\ SubSeq(s, 1, n) \in Seq(S)
         /\ Len(SubSeq(s, 1, n)) = n
         /\ \A p \in 1 .. n : SubSeq(s, 1, n)[p] = s[p]
BY SubSeqProperties, LenProperties

LEMMA PairAt ==
  ASSUME NEW S, NEW d \in S, NEW e \in S
  PROVE  /\ <<d, e>> \in Seq(S) /\ Len(<<d, e>>) = 2
         /\ <<d, e>>[1] = d /\ <<d, e>>[2] = e /\ <<d, e>> # <<>>
         /\ <<d>> \in Seq(S) /\ Len(<<d>>) = 1 /\ <<d>>[1] = d /\ <<d>> # <<>>
OBVIOUS

(* The fields of the five kinds of events (ServerEvent, initEvent).        *)
LEMMA EventFields ==
  ASSUME NEW e \in Event
  PROVE  /\ e.kind \in {"opened", "closed", "init", "serversUpdate", "taskUpdate", "taskLog"}
         /\ TellsFleet(e) => e.servers \in Nat
         /\ e.kind = "init" => e.tasks \in [Runs -> Stage]
         /\ e.kind = "taskUpdate" => e.run \in Runs /\ e.status \in Stage
         /\ e.kind = "taskLog" => e.run \in Runs /\ e.line \in Nat
         /\ \A r \in Runs : TellsRun(e, r) => Stated(e, r) \in Stage
         /\ \A r \in Runs : IsLine(e, r) => e.line \in Nat
BY DEF Event, Opened, Closed, TellsFleet, TellsRun, Stated, IsLine, Stage

(* "opened" and "closed" say nothing.                                      *)
LEMMA Silent ==
  ASSUME NEW e \in {Opened, Closed}
  PROVE  e \in Event /\ ~TellsFleet(e) /\ \A r \in Runs : ~TellsRun(e, r) /\ ~IsLine(e, r)
BY DEF Event, Opened, Closed, TellsFleet, TellsRun, IsLine

LEMMA SilentFollows ==
  ASSUME NEW d, NEW e \in {Opened, Closed}, NEW f, NEW st, NEW ln,
         NEW sv, NEW tk, NEW tl, NEW pr
  PROVE  Sooner(d, e) /\ Sooner(e, d) /\ Known(e, f, st, ln) /\ Ahead(e, sv, tk, tl, pr)
BY Silent DEF Sooner, Known, Ahead

(* What was true stays said when the fleet and the runs move on.           *)
LEMMA StaysKnown ==
  ASSUME NEW e \in Event,
         NEW f \in Nat, NEW st \in [Runs -> Stage], NEW ln \in [Runs -> Nat],
         NEW f2 \in Nat, NEW st2 \in [Runs -> Stage], NEW ln2 \in [Runs -> Nat],
         Known(e, f, st, ln), f <= f2,
         \A r \in Runs : st[r] <= st2[r] /\ (st2[r] # Ended => ln[r] <= ln2[r])
  PROVE  Known(e, f2, st2, ln2)
BY EventFields DEF Known, Ended, Stage

(* A wire keeps its order, and what is known or ahead on it, when an event *)
(* arrives at its end, when its head is taken, and when it is cut.         *)
LEMMA WireAppend ==
  ASSUME NEW s \in Seq(Event), NEW e \in Event,
         InOrder(s), \A p \in 1 .. Len(s) : Sooner(s[p], e)
  PROVE  InOrder(Append(s, e))
BY AppendAt, LenProperties DEF InOrder

LEMMA KnownAppend ==
  ASSUME NEW s \in Seq(Event), NEW e \in Event, NEW f, NEW st, NEW ln,
         AllKnown(s, f, st, ln), Known(e, f, st, ln)
  PROVE  AllKnown(Append(s, e), f, st, ln)
BY AppendAt, LenProperties DEF AllKnown

LEMMA AheadAppend ==
  ASSUME NEW s \in Seq(Event), NEW e \in Event, NEW sv, NEW tk, NEW tl, NEW pr,
         AllAhead(s, sv, tk, tl, pr), Ahead(e, sv, tk, tl, pr)
  PROVE  AllAhead(Append(s, e), sv, tk, tl, pr)
BY AppendAt, LenProperties DEF AllAhead

LEMMA WireTail ==
  ASSUME NEW s \in Seq(Event), s # <<>>, InOrder(s)
  PROVE  InOrder(Tail(s)) /\ \A p \in 1 .. Len(Tail(s)) : Sooner(Head(s), Tail(s)[p])
BY TailAt, LenProperties DEF InOrder

LEMMA KnownTail ==
  ASSUME NEW s \in Seq(Event), s # <<>>, NEW f, NEW st, NEW ln, AllKnown(s, f, st, ln)
  PROVE  AllKnown(Tail(s), f, st, ln) /\ Known(Head(s), f, st, ln)
BY TailAt, LenProperties DEF AllKnown

LEMMA AheadTail ==
  ASSUME NEW s \in Seq(Event), s # <<>>, NEW sv, NEW tk, NEW tl, NEW pr,
         AllAhead(s, sv, tk, tl, pr)
  PROVE  AllAhead(Tail(s), sv, tk, tl, pr) /\ Ahead(Head(s), sv, tk, tl, pr)
BY TailAt, LenProperties DEF AllAhead

LEMMA WirePrefix ==
  ASSUME NEW s \in Seq(Event), NEW n \in 0 .. Len(s), NEW f, NEW st, NEW ln,
         NEW sv, NEW tk, NEW tl, NEW pr
  PROVE  /\ InOrder(s) => InOrder(SubSeq(s, 1, n))
         /\ AllKnown(s, f, st, ln) => AllKnown(SubSeq(s, 1, n), f, st, ln)
         /\ AllAhead(s, sv, tk, tl, pr) => AllAhead(SubSeq(s, 1, n), sv, tk, tl, pr)
BY PrefixAt, LenProperties DEF InOrder, AllKnown, AllAhead

-----------------------------------------------------------------------------
(* The wires under the server's steps.                                     *)

Moved ==
    /\ fleet' \in Nat /\ fleet <= fleet'
    /\ status' \in [Runs -> Stage]
    /\ lines' \in [Runs -> Nat]
    /\ \A r \in Runs : status[r] <= status'[r] /\ (status'[r] # Ended => lines[r] <= lines'[r])

LEMMA WiresStayKnown ==
  ASSUME ServerType, NEW s \in Seq(Event), AllKnown(s, fleet, status, lines), Moved
  PROVE  AllKnown(s, fleet', status', lines')
<1>1. ASSUME NEW p \in 1 .. Len(s) PROVE Known(s[p], fleet', status', lines')
  <2>1. s[p] \in Event
    BY ElementOfSeq
  <2>2. Known(s[p], fleet, status, lines)
    BY DEF AllKnown
  <2>. QED BY <2>1, <2>2, StaysKnown DEF ServerType, Moved
<1>. QED BY <1>1 DEF AllKnown

(* broadcast appends, on every wire of the hub, what has just become true: *)
(* it is later than all that was said there before.                        *)
LEMMA BroadcastOrder ==
  ASSUME ServerType, LinkType, WireInv, Moved, NEW e \in Event, Broadcast(e),
         Known(e, fleet', status', lines'),
         \A d \in Event : Known(d, fleet, status, lines) => Sooner(d, e)
  PROVE  wire' \in [Sockets -> Seq(Event)] /\ WireInv'
<1>1. ASSUME NEW k \in Sockets
      PROVE  /\ wire'[k] \in Seq(Event)
             /\ InOrder(wire'[k]) /\ AllKnown(wire'[k], fleet', status', lines')
  <2>1. wire[k] \in Seq(Event) /\ InOrder(wire[k]) /\ AllKnown(wire[k], fleet, status, lines)
    BY DEF LinkType, WireInv
  <2>2. AllKnown(wire[k], fleet', status', lines')
    BY <2>1, WiresStayKnown
  <2>3. wire'[k] = Append(wire[k], e) \/ wire'[k] = wire[k]
    BY DEF Broadcast
  <2>4. \A p \in 1 .. Len(wire[k]) : Sooner(wire[k][p], e)
    BY <2>1, ElementOfSeq DEF AllKnown
  <2>5. CASE wire'[k] = Append(wire[k], e)
    <3>1. Append(wire[k], e) \in Seq(Event)
      BY <2>1
    <3>2. InOrder(Append(wire[k], e))
      BY <2>1, <2>4, WireAppend
    <3>3. AllKnown(Append(wire[k], e), fleet', status', lines')
      BY <2>1, <2>2, KnownAppend
    <3>. QED BY <2>5, <3>1, <3>2, <3>3
  <2>6. CASE wire'[k] = wire[k]
    BY <2>1, <2>2, <2>6
  <2>. QED BY <2>3, <2>5, <2>6
<1>2. wire' = [k \in Sockets |-> wire'[k]]
  BY DEF Broadcast
<1>. QED BY <1>1, <1>2 DEF WireInv

LEMMA BroadcastAhead ==
  ASSUME LinkType, LinkInv, AheadInv, NEW e \in Event, Broadcast(e),
         Ahead(e, servers, tasks, taskLogs, pruned),
         UNCHANGED <<ws, connected, servers, tasks, taskLogs, pruned>>
  PROVE  AheadInv' /\ LinkInv'
<1>1. ASSUME ws # None PROVE AllAhead(wire'[ws], servers, tasks, taskLogs, pruned)
  <2>1. wire[ws] \in Seq(Event) /\ AllAhead(wire[ws], servers, tasks, taskLogs, pruned)
    BY <1>1 DEF LinkType, AheadInv
  <2>2. wire'[ws] = Append(wire[ws], e) \/ wire'[ws] = wire[ws]
    BY <1>1 DEF Broadcast, LinkType
  <2>. QED BY <2>1, <2>2, AheadAppend
<1>2. ws # None /\ ws \notin hub => wire'[ws] = wire[ws]
  BY DEF Broadcast, LinkType
<1>. QED BY <1>1, <1>2 DEF AheadInv, LinkInv, Broadcast

-----------------------------------------------------------------------------
(* Each step keeps the invariant.                                          *)

LEMMA EventInit == Init => EventInv /\ ArrivalInv
<1>. SUFFICES ASSUME Init PROVE EventInv /\ ArrivalInv
  OBVIOUS
<1>1. ServerType
  BY DEF Init, ServerType, NoTasks, Absent, Stage
<1>2. LinkType
  BY DEF Init, LinkType
<1>3. PageType
  BY DEF Init, PageType, NoTasks, NoLog, Absent, Stage
<1>4. StoreInv
  BY DEF Init, StoreInv, NoTasks, Absent
<1>5. LinkInv /\ AheadInv
  BY DEF Init, LinkInv, AheadInv
<1>6. WireInv
  <2>1. \A k \in Sockets : wire[k] = <<>>
    BY DEF Init
  <2>2. Len(<<>>) = 0
    OBVIOUS
  <2>. QED BY <2>1, <2>2 DEF WireInv, InOrder, AllKnown
<1>7. PageInv
  BY DEF Init, PageInv, NoTasks, Absent
<1>8. LogInv
  BY DEF Init, LogInv, NoLog
<1>9. ArrivalInv
  BY DEF Init, ArrivalInv
<1>. QED BY <1>1, <1>2, <1>3, <1>4, <1>5, <1>6, <1>7, <1>8, <1>9 DEF EventInv

(* serversUpdate.                                                          *)
LEMMA FleetChangesInv ==
  ASSUME EventInv, FleetChanges PROVE EventInv'
<1>. DEFINE e == [kind |-> "serversUpdate", servers |-> fleet']
<1>0. ServerType /\ LinkType /\ PageType /\ StoreInv /\ LinkInv /\ WireInv /\ PageInv /\ LogInv
        /\ AheadInv
  BY DEF EventInv
<1>1. Moved /\ Broadcast(e)
  BY <1>0 DEF FleetChanges, Moved, ServerType, Stage
<1>2. e \in Event /\ TellsFleet(e) /\ e.servers = fleet'
      /\ \A r \in Runs : ~TellsRun(e, r) /\ ~IsLine(e, r)
  BY <1>1 DEF Moved, Event, TellsFleet, TellsRun, IsLine
<1>. HIDE DEF e
<1>3. Known(e, fleet', status', lines')
  BY <1>1, <1>2 DEF Known, Moved
<1>4. ASSUME NEW d \in Event, Known(d, fleet, status, lines) PROVE Sooner(d, e)
  BY <1>0, <1>1, <1>2, <1>4, EventFields DEF Known, Sooner, Moved, ServerType
<1>5. Ahead(e, servers, tasks, taskLogs, pruned)
  BY <1>0, <1>1, <1>2 DEF Ahead, PageInv, Moved, ServerType, PageType
<1>6. UNCHANGED <<status, listed, pruned, lines, ws, connected, servers, tasks, taskLogs, fetch, hub>>
  BY DEF FleetChanges, clientVars, pageVars, Broadcast
<1>7. wire' \in [Sockets -> Seq(Event)] /\ WireInv'
  BY <1>0, <1>1, <1>2, <1>3, <1>4, BroadcastOrder
<1>8. AheadInv' /\ LinkInv'
  BY <1>0, <1>1, <1>2, <1>5, <1>6, BroadcastAhead
<1>9. ServerType' /\ LinkType' /\ PageType'
  BY <1>0, <1>1, <1>6, <1>7 DEF ServerType, LinkType, PageType, Moved
<1>10. StoreInv' /\ PageInv' /\ LogInv'
  BY <1>0, <1>1, <1>6 DEF StoreInv, PageInv, LogInv, Moved, PageType, ServerType
<1>. QED BY <1>7, <1>8, <1>9, <1>10 DEF EventInv

(* The run's stage moves on; nothing is sent yet.                          *)
LEMMA RunChangesInv ==
  ASSUME EventInv, NEW r \in Runs, RunChanges(r) PROVE EventInv'
<1>0. ServerType /\ LinkType /\ PageType /\ StoreInv /\ LinkInv /\ WireInv /\ PageInv /\ LogInv
        /\ AheadInv
  BY DEF EventInv
<1>1. /\ status' = [status EXCEPT ![r] = @ + 1] /\ status[r] < Ended
      /\ listed' = listed \cup {r}
      /\ UNCHANGED <<fleet, pruned, lines, hub, wire, ws, connected, servers, tasks, taskLogs, fetch>>
  BY DEF RunChanges, linkVars, clientVars, pageVars
<1>2. /\ status' \in [Runs -> Stage]
      /\ \A x \in Runs : status'[x] = IF x = r THEN status[r] + 1 ELSE status[x]
  BY <1>0, <1>1 DEF ServerType, Stage, Ended
<1>3. Moved
  BY <1>0, <1>1, <1>2 DEF Moved, ServerType, Stage
<1>4. WireInv'
  BY <1>0, <1>1, <1>3, WiresStayKnown DEF WireInv, LinkType
<1>5. ServerType' /\ LinkType' /\ PageType' /\ LinkInv' /\ AheadInv'
  BY <1>0, <1>1, <1>2 DEF ServerType, LinkType, PageType, LinkInv, AheadInv
<1>6. StoreInv'
  BY <1>0, <1>1, <1>2 DEF StoreInv, ServerType, Stage, Running, Absent
<1>7. PageInv'
  <2>1. ASSUME NEW x \in Runs PROVE tasks'[x] <= status'[x]
    <3>1. tasks[x] \in Stage /\ status[x] \in Stage /\ tasks[x] <= status[x] /\ tasks' = tasks
      BY <1>0, <1>1 DEF ServerType, PageType, PageInv
    <3>. QED BY <3>1, <1>2 DEF Stage
  <2>. QED BY <2>1, <1>0, <1>1 DEF PageInv
<1>8. LogInv'
  <2>1. \A x \in Runs : status'[x] # Ended => status[x] # Ended
    BY <1>0, <1>1, <1>2 DEF ServerType, Stage, Ended
  <2>. QED BY <1>0, <1>1, <2>1 DEF LogInv
<1>. QED BY <1>4, <1>5, <1>6, <1>7, <1>8 DEF EventInv

(* taskUpdate: the stage as it is once the save has landed.                *)
LEMMA AnnounceInv ==
  ASSUME EventInv, NEW r \in Runs, Announce(r) PROVE EventInv'
<1>. DEFINE e == TaskUpdate(r)
<1>0. ServerType /\ LinkType /\ PageType /\ StoreInv /\ LinkInv /\ WireInv /\ PageInv /\ LogInv
        /\ AheadInv
  BY DEF EventInv
<1>1. /\ UNCHANGED <<fleet, status, listed, pruned, lines, hub, ws, connected, servers, tasks,
                     taskLogs, fetch>>
      /\ Broadcast(e)
  BY DEF Announce, clientVars, pageVars, Broadcast
<1>2. Moved
  BY <1>0, <1>1 DEF Moved, ServerType, Stage
<1>3. /\ e \in Event /\ ~TellsFleet(e)
      /\ \A x \in Runs : (TellsRun(e, x) <=> x = r) /\ ~IsLine(e, x)
      /\ Stated(e, r) = status[r]
  BY <1>0 DEF ServerType, Event, TellsFleet, TellsRun, IsLine, TaskUpdate, Stated
<1>. HIDE DEF e
<1>4. Known(e, fleet', status', lines')
  BY <1>0, <1>1, <1>3 DEF Known, ServerType, Stage
<1>5. ASSUME NEW d \in Event, Known(d, fleet, status, lines) PROVE Sooner(d, e)
  <2>1. \A x \in Runs : TellsRun(d, x) => Stated(d, x) <= status[x]
    BY <1>5 DEF Known
  <2>. QED BY <1>3, <2>1 DEF Sooner
<1>6. Ahead(e, servers, tasks, taskLogs, pruned)
  BY <1>0, <1>3 DEF Ahead, PageInv
<1>7. wire' \in [Sockets -> Seq(Event)] /\ WireInv'
  BY <1>0, <1>1, <1>2, <1>3, <1>4, <1>5, BroadcastOrder
<1>8. AheadInv' /\ LinkInv'
  BY <1>0, <1>1, <1>3, <1>6, BroadcastAhead
<1>9. ServerType' /\ LinkType' /\ PageType' /\ StoreInv' /\ PageInv' /\ LogInv'
  BY <1>0, <1>1, <1>7 DEF ServerType, LinkType, PageType, StoreInv, PageInv, LogInv
<1>. QED BY <1>7, <1>8, <1>9 DEF EventInv

LEMMA SaveFailsInv ==
  ASSUME EventInv, NEW r \in Runs, SaveFails(r) PROVE EventInv'
<1>1. UNCHANGED <<fleet, status, listed, pruned, lines, hub, wire, ws, connected, servers, tasks,
                  taskLogs, fetch>>
  BY DEF SaveFails, linkVars, clientVars, pageVars
<1>. QED BY <1>1 DEF EventInv, ServerType, LinkType, PageType, StoreInv, LinkInv, WireInv, PageInv,
                     LogInv, AheadInv

(* A run that is dropped from the store may be missing from what follows.  *)
LEMMA PruneInv ==
  ASSUME EventInv, NEW r \in Runs, Prune(r) PROVE EventInv'
<1>0. ServerType /\ LinkType /\ PageType /\ StoreInv /\ LinkInv /\ WireInv /\ PageInv /\ LogInv
        /\ AheadInv
  BY DEF EventInv
<1>1. /\ listed' = listed \ {r} /\ pruned' = pruned \cup {r}
      /\ UNCHANGED <<fleet, status, lines, hub, wire, ws, connected, servers, tasks, taskLogs, fetch>>
  BY DEF Prune, linkVars, clientVars, pageVars
<1>2. ServerType' /\ LinkType' /\ PageType' /\ LinkInv' /\ WireInv' /\ PageInv' /\ LogInv' /\ StoreInv'
  BY <1>0, <1>1 DEF ServerType, LinkType, PageType, LinkInv, WireInv, PageInv, LogInv, StoreInv
<1>3. AheadInv'
  BY <1>0, <1>1 DEF AheadInv, AllAhead, Ahead
<1>. QED BY <1>2, <1>3 DEF EventInv

(* taskLog: one line after all that were sent or shown.                    *)
LEMMA LogStepInv ==
  ASSUME EventInv, NEW r \in Runs, Log(r) PROVE EventInv'
<1>. DEFINE e == [kind |-> "taskLog", run |-> r, line |-> lines'[r]]
<1>0. ServerType /\ LinkType /\ PageType /\ StoreInv /\ LinkInv /\ WireInv /\ PageInv /\ LogInv
        /\ AheadInv
  BY DEF EventInv
<1>1. /\ UNCHANGED <<fleet, status, listed, pruned, hub, ws, connected, servers, tasks,
                     taskLogs, fetch>>
      /\ Broadcast(e) /\ status[r] = Running
      /\ lines' = [lines EXCEPT ![r] = @ + 1]
  BY DEF Log, clientVars, pageVars, Broadcast
<1>2. lines' \in [Runs -> Nat] /\ \A x \in Runs : lines'[x] = IF x = r THEN lines[r] + 1 ELSE lines[x]
  BY <1>0, <1>1 DEF ServerType
<1>3. Moved
  BY <1>0, <1>1, <1>2 DEF Moved, ServerType, Stage
<1>4. /\ e \in Event /\ ~TellsFleet(e) /\ e.line = lines[r] + 1
      /\ \A x \in Runs : ~TellsRun(e, x) /\ (IsLine(e, x) <=> x = r)
  BY <1>0, <1>2 DEF ServerType, Event, TellsFleet, TellsRun, IsLine
<1>5. status[r] # Ended
  BY <1>1 DEF Running, Ended
<1>. HIDE DEF e
<1>6. Known(e, fleet', status', lines')
  BY <1>0, <1>2, <1>4 DEF Known, ServerType
<1>7. ASSUME NEW d \in Event, Known(d, fleet, status, lines) PROVE Sooner(d, e)
  BY <1>0, <1>4, <1>5, <1>7, EventFields DEF Known, Sooner, ServerType
<1>8. Ahead(e, servers, tasks, taskLogs, pruned)
  <2>1. ASSUME NEW i \in 1 .. Len(taskLogs[r].live)
        PROVE taskLogs[r].live[i] \in Nat /\ taskLogs[r].live[i] <= lines[r]
    <3>1. taskLogs[r].live \in Seq(Nat)
      BY <1>0 DEF PageType
    <3>. QED BY <3>1, <1>0, <1>5, ElementOfSeq DEF LogInv
  <2>. QED BY <2>1, <1>0, <1>4 DEF Ahead, ServerType
<1>9. wire' \in [Sockets -> Seq(Event)] /\ WireInv'
  BY <1>0, <1>1, <1>3, <1>4, <1>6, <1>7, BroadcastOrder
<1>10. AheadInv' /\ LinkInv'
  BY <1>0, <1>1, <1>4, <1>8, BroadcastAhead
<1>11. ServerType' /\ LinkType' /\ PageType' /\ PageInv'
  BY <1>0, <1>1, <1>2, <1>9 DEF ServerType, LinkType, PageType, PageInv
<1>12. StoreInv'
  BY <1>0, <1>1, <1>2 DEF StoreInv, Running
<1>13. LogInv'
  <2>1. ASSUME NEW x \in Runs, NEW i \in 1 .. Len(taskLogs[x].live), status[x] # Ended
        PROVE taskLogs[x].live[i] <= lines'[x]
    <3>1. taskLogs[x].live \in Seq(Nat)
      BY <1>0 DEF PageType
    <3>2. taskLogs[x].live[i] \in Nat
      BY <3>1, ElementOfSeq
    <3>. QED BY <3>2, <2>1, <1>0, <1>2 DEF LogInv, ServerType
  <2>. QED BY <2>1, <1>0, <1>1 DEF LogInv
<1>. QED BY <1>9, <1>10, <1>11, <1>12, <1>13 DEF EventInv

-----------------------------------------------------------------------------
(* The wires under losses.                                                 *)

(* A wire that is cut, and closed, is in order still.                      *)
LEMMA CutWire ==
  ASSUME NEW s \in Seq(Event), NEW n \in 0 .. Len(s), NEW f, NEW st, NEW ln,
         NEW sv, NEW tk, NEW tl, NEW pr
  PROVE  LET cut == Append(SubSeq(s, 1, n), Closed) IN
         /\ cut \in Seq(Event) /\ cut # <<>> /\ cut[Len(cut)] = Closed
         /\ InOrder(s) => InOrder(cut)
         /\ AllKnown(s, f, st, ln) => AllKnown(cut, f, st, ln)
         /\ AllAhead(s, sv, tk, tl, pr) => AllAhead(cut, sv, tk, tl, pr)
<1>. DEFINE c == SubSeq(s, 1, n)
<1>1. c \in Seq(Event) /\ Closed \in Event
  BY PrefixAt, Silent
<1>2. /\ InOrder(s) => InOrder(c)
      /\ AllKnown(s, f, st, ln) => AllKnown(c, f, st, ln)
      /\ AllAhead(s, sv, tk, tl, pr) => AllAhead(c, sv, tk, tl, pr)
  BY WirePrefix
<1>. HIDE DEF c
<1>3. /\ Append(c, Closed) \in Seq(Event) /\ Append(c, Closed) # <<>>
      /\ Append(c, Closed)[Len(Append(c, Closed))] = Closed
  BY <1>1, AppendAt
<1>4. /\ Known(Closed, f, st, ln) /\ Ahead(Closed, sv, tk, tl, pr)
      /\ \A p \in 1 .. Len(c) : Sooner(c[p], Closed)
  BY SilentFollows
<1>5. /\ InOrder(c) => InOrder(Append(c, Closed))
      /\ AllKnown(c, f, st, ln) => AllKnown(Append(c, Closed), f, st, ln)
      /\ AllAhead(c, sv, tk, tl, pr) => AllAhead(Append(c, Closed), sv, tk, tl, pr)
  BY <1>1, <1>4, WireAppend, KnownAppend, AheadAppend
<1>. QED BY <1>2, <1>3, <1>5 DEF c

LEMMA DropInv ==
  ASSUME EventInv, NEW k \in Sockets, Drop(k) PROVE EventInv'
<1>0. ServerType /\ LinkType /\ PageType /\ StoreInv /\ LinkInv /\ WireInv /\ PageInv /\ LogInv
        /\ AheadInv
  BY DEF EventInv
<1>1. UNCHANGED <<fleet, status, listed, pruned, lines, ws, connected, servers, tasks, taskLogs, fetch>>
      /\ hub' = hub \ {k}
  BY DEF Drop, serverVars, clientVars, pageVars
<1>2. PICK n \in 0 .. Len(wire[k]) : wire' = [wire EXCEPT ![k] = Append(SubSeq(@, 1, n), Closed)]
  BY DEF Drop
<1>3. wire[k] \in Seq(Event)
  BY <1>0 DEF LinkType
<1>. DEFINE cut == Append(SubSeq(wire[k], 1, n), Closed)
<1>4. /\ cut \in Seq(Event) /\ cut # <<>> /\ cut[Len(cut)] = Closed
      /\ InOrder(wire[k]) => InOrder(cut)
      /\ AllKnown(wire[k], fleet, status, lines) => AllKnown(cut, fleet, status, lines)
      /\ AllAhead(wire[k], servers, tasks, taskLogs, pruned)
           => AllAhead(cut, servers, tasks, taskLogs, pruned)
  BY <1>3, CutWire
<1>5. wire' = [wire EXCEPT ![k] = cut]
  BY <1>2
<1>. HIDE DEF cut
<1>6. LinkType'
  BY <1>0, <1>1, <1>4, <1>5 DEF LinkType
<1>7. WireInv'
  BY <1>0, <1>1, <1>4, <1>5 DEF WireInv, LinkType
<1>8. AheadInv'
  BY <1>0, <1>1, <1>4, <1>5 DEF AheadInv, LinkType
<1>9. LinkInv'
  BY <1>0, <1>1, <1>4, <1>5 DEF LinkInv, LinkType
<1>10. ServerType' /\ PageType' /\ StoreInv' /\ PageInv' /\ LogInv'
  BY <1>0, <1>1 DEF ServerType, PageType, StoreInv, PageInv, LogInv
<1>. QED BY <1>6, <1>7, <1>8, <1>9, <1>10 DEF EventInv

(* A restart cuts every wire of the hub, ends what ran, and forgets runs   *)
(* that it counts as pruned.                                               *)
LEMMA RestartInv ==
  ASSUME EventInv, SaveType, Restart PROVE EventInv'
<1>0. ServerType /\ LinkType /\ PageType /\ StoreInv /\ LinkInv /\ WireInv /\ PageInv /\ LogInv
        /\ AheadInv
  BY DEF EventInv
<1>1. UNCHANGED <<fleet, ws, connected, servers, tasks, taskLogs>> /\ hub' = {}
  BY DEF Restart, clientVars, pageVars
<1>2. PICK kept \in BOOLEAN :
        wire' = [k \in Sockets |-> IF k \notin hub THEN wire[k]
                                  ELSE IF kept THEN Append(wire[k], Closed) ELSE <<Closed>>]
  BY DEF Restart
<1>3. /\ status' = [r \in Runs |-> IF status[r] = Absent THEN Absent ELSE Ended]
      /\ lines' = [r \in Runs |-> 0] /\ fetch' = [r \in Runs |-> None]
  BY DEF Restart
<1>4. PICK unknown \in SUBSET {r \in announcing \cup stuck : status[r] = Pending} :
        listed' = listed \ unknown /\ pruned' = pruned \cup unknown
  BY DEF Restart
<1>5. status' \in [Runs -> Stage] /\ lines' \in [Runs -> Nat]
  BY <1>3 DEF Stage, Absent, Ended
<1>6. Moved
  <2>1. ASSUME NEW r \in Runs
        PROVE status[r] <= status'[r] /\ (status'[r] # Ended => lines[r] <= lines'[r])
    <3>1. status[r] \in Stage /\ lines[r] \in Nat /\ (status[r] < Running => lines[r] = 0)
      BY <1>0 DEF ServerType, StoreInv
    <3>2. lines'[r] = 0 /\ status'[r] = IF status[r] = Absent THEN Absent ELSE Ended
      BY <1>3
    <3>. QED BY <3>1, <3>2 DEF Stage, Absent, Running, Ended
  <2>. QED BY <2>1, <1>0, <1>1, <1>5 DEF Moved, ServerType
<1>7. ASSUME NEW k \in Sockets
      PROVE  /\ wire'[k] \in Seq(Event)
             /\ InOrder(wire'[k]) /\ AllKnown(wire'[k], fleet', status', lines')
             /\ AllAhead(wire[k], servers, tasks, taskLogs, pruned)
                  => AllAhead(wire'[k], servers, tasks, taskLogs, pruned)
             /\ k \in hub => wire'[k] # <<>> /\ wire'[k][Len(wire'[k])] = Closed
  <2>1. wire[k] \in Seq(Event) /\ InOrder(wire[k]) /\ AllKnown(wire[k], fleet, status, lines)
    BY <1>0 DEF LinkType, WireInv
  <2>2. AllKnown(wire[k], fleet', status', lines')
    BY <1>0, <1>6, <2>1, WiresStayKnown
  <2>3. CASE k \notin hub
    BY <1>2, <2>1, <2>2, <2>3
  <2>4. CASE k \in hub
    <3>1. PICK n \in 0 .. Len(wire[k]) : wire'[k] = Append(SubSeq(wire[k], 1, n), Closed)
      <4>1. Append(wire[k], Closed) = Append(SubSeq(wire[k], 1, Len(wire[k])), Closed)
        BY <2>1, SubSeqFull
      <4>2. <<Closed>> = Append(SubSeq(wire[k], 1, 0), Closed)
        BY SubSeqEmpty
      <4>3. wire'[k] = Append(wire[k], Closed) \/ wire'[k] = <<Closed>>
        BY <1>2, <2>4
      <4>4. Len(wire[k]) \in 0 .. Len(wire[k]) /\ 0 \in 0 .. Len(wire[k])
        BY <2>1, LenProperties
      <4>. QED BY <4>1, <4>2, <4>3, <4>4
    <3>. DEFINE cut == Append(SubSeq(wire[k], 1, n), Closed)
    <3>2. /\ cut \in Seq(Event) /\ cut # <<>> /\ cut[Len(cut)] = Closed
          /\ InOrder(wire[k]) => InOrder(cut)
          /\ AllKnown(wire[k], fleet', status', lines') => AllKnown(cut, fleet', status', lines')
          /\ AllAhead(wire[k], servers, tasks, taskLogs, pruned)
               => AllAhead(cut, servers, tasks, taskLogs, pruned)
      BY <2>1, CutWire
    <3>3. wire'[k] = cut
      BY <3>1
    <3>. HIDE DEF cut
    <3>. QED BY <2>1, <2>2, <3>2, <3>3
  <2>. QED BY <2>3, <2>4
<1>8. wire' = [k \in Sockets |-> wire'[k]]
  BY <1>2
<1>9. WireInv'
  BY <1>7 DEF WireInv
<1>10. LinkType'
  BY <1>0, <1>1, <1>3, <1>7, <1>8 DEF LinkType
<1>11. LinkInv'
  <2>1. ws # None => ws \in Sockets /\ (ws \notin hub => wire'[ws] = wire[ws])
    BY <1>0, <1>2 DEF LinkType
  <2>. QED BY <2>1, <1>0, <1>1, <1>7 DEF LinkInv
<1>12. AheadInv'
  <2>1. ws # None => AllAhead(wire'[ws], servers, tasks, taskLogs, pruned)
    BY <1>0, <1>7 DEF AheadInv, LinkType
  <2>2. \A s : AllAhead(s, servers, tasks, taskLogs, pruned)
                 => AllAhead(s, servers, tasks, taskLogs, pruned')
    BY <1>4 DEF AllAhead, Ahead
  <2>. QED BY <2>1, <2>2, <1>1 DEF AheadInv
<1>13. ServerType' /\ PageType'
  BY <1>0, <1>1, <1>4, <1>5 DEF ServerType, SaveType, PageType
<1>14. StoreInv'
  BY <1>0, <1>3, <1>4 DEF StoreInv
<1>15. PageInv'
  <2>1. ASSUME NEW r \in Runs PROVE tasks[r] <= status'[r]
    <3>1. tasks[r] \in Stage /\ status[r] \in Stage /\ status'[r] \in Stage
            /\ tasks[r] <= status[r] /\ status[r] <= status'[r]
      BY <1>0, <1>5, <1>6 DEF ServerType, PageType, PageInv, Moved
    <3>. QED BY <3>1 DEF Stage
  <2>. QED BY <2>1, <1>0, <1>1 DEF PageInv
<1>16. LogInv'
  <2>1. ASSUME NEW r \in Runs, NEW i \in 1 .. Len(taskLogs[r].live), status'[r] # Ended
        PROVE  taskLogs[r].live[i] <= lines'[r]
    <3>1. taskLogs[r].live \in Seq(Nat)
      BY <1>0 DEF PageType
    <3>2. taskLogs[r].live[i] \in Nat /\ status[r] = Absent
      BY <3>1, <2>1, <1>3, ElementOfSeq
    <3>3. taskLogs[r].live[i] <= lines[r] /\ lines[r] = 0 /\ lines'[r] = 0
      BY <3>2, <1>0, <1>3 DEF LogInv, StoreInv, Absent, Running, Ended
    <3>. QED BY <3>2, <3>3
  <2>. QED BY <2>1, <1>0, <1>1 DEF LogInv
<1>. QED BY <1>9, <1>10, <1>11, <1>12, <1>13, <1>14, <1>15, <1>16 DEF EventInv

-----------------------------------------------------------------------------
(* The page.                                                               *)

(* The snapshot holds the truth of the moment it is taken, but for runs    *)
(* that were pruned.                                                       *)
LEMMA SnapshotKnown ==
  ASSUME ServerType, StoreInv, PageType, PageInv
  PROVE  /\ InitEvent \in Event
         /\ Known(InitEvent, fleet, status, lines)
         /\ Ahead(InitEvent, servers, tasks, taskLogs, pruned)
         /\ TellsFleet(InitEvent) /\ InitEvent.servers = fleet
         /\ \A r \in listed : TellsRun(InitEvent, r) /\ Stated(InitEvent, r) = status[r]
<1>. DEFINE e == InitEvent
<1>1. /\ e.kind = "init" /\ e.servers = fleet
      /\ e.tasks = [r \in Runs |-> IF r \in listed THEN status[r] ELSE Absent]
  BY DEF InitEvent
<1>2. \A r \in Runs : e.tasks[r] = IF r \in listed THEN status[r] ELSE Absent
  BY <1>1
<1>3. e \in Event
  BY DEF ServerType, InitEvent, Event, Absent, Stage
<1>. HIDE DEF e
<1>4. TellsFleet(e) /\ \A r \in Runs : TellsRun(e, r) /\ ~IsLine(e, r) /\ Stated(e, r) = e.tasks[r]
  BY <1>1 DEF TellsFleet, TellsRun, IsLine, Stated
<1>5. Known(e, fleet, status, lines)
  BY <1>1, <1>2, <1>4 DEF Known, ServerType, Stage, Absent
<1>6. Ahead(e, servers, tasks, taskLogs, pruned)
  <2>1. ASSUME NEW r \in Runs
        PROVE tasks[r] <= Stated(e, r) \/ (Stated(e, r) = Absent /\ r \in pruned)
    <3>1. CASE r \in listed
      BY <3>1, <1>2, <1>4 DEF PageInv
    <3>2. CASE r \notin listed /\ status[r] = Absent
      BY <3>2, <1>2, <1>4 DEF PageInv
    <3>3. CASE r \notin listed /\ status[r] # Absent
      BY <3>3, <1>2, <1>4 DEF StoreInv
    <3>. QED BY <3>1, <3>2, <3>3
  <2>. QED BY <2>1, <1>1, <1>4 DEF Ahead, PageInv
<1>. QED BY <1>1, <1>2, <1>3, <1>4, <1>5, <1>6 DEF e, ServerType

(* A new socket's wire is "opened" and the snapshot, or just "closed".     *)
LEMMA ConnectInv ==
  ASSUME EventInv, NEW k \in Sockets, Connect(k),
         UNCHANGED <<serverVars, connected, pageVars, fetch>>
  PROVE  EventInv'
<1>0. ServerType /\ LinkType /\ PageType /\ StoreInv /\ LinkInv /\ WireInv /\ PageInv /\ LogInv
        /\ AheadInv
  BY DEF EventInv
<1>1. UNCHANGED <<fleet, status, listed, pruned, lines, connected, servers, tasks, taskLogs, fetch>>
  BY DEF serverVars, pageVars
<1>2. k # None
  BY EventsAssumption
<1>3. PICK s : /\ wire' = [wire EXCEPT ![k] = s] /\ ws' = k
               /\ \/ s = <<Opened, InitEvent>> /\ hub' = hub \cup {k}
                  \/ s = <<Closed>> /\ hub' = hub
  BY DEF Connect, OpenSocket, FailSocket
<1>4. /\ s \in Seq(Event) /\ s # <<>>
      /\ InOrder(s) /\ AllKnown(s, fleet, status, lines)
      /\ AllAhead(s, servers, tasks, taskLogs, pruned)
      /\ hub' = hub => s[Len(s)] = Closed \/ k \in hub
  <2>1. /\ InitEvent \in Event /\ Known(InitEvent, fleet, status, lines)
        /\ Ahead(InitEvent, servers, tasks, taskLogs, pruned)
    BY <1>0, SnapshotKnown
  <2>2. ASSUME NEW e \in {Opened, Closed}
        PROVE  /\ e \in Event /\ Known(e, fleet, status, lines) /\ Sooner(e, InitEvent)
               /\ Ahead(e, servers, tasks, taskLogs, pruned)
    BY Silent, SilentFollows
  <2>3. CASE s = <<Opened, InitEvent>> /\ hub' = hub \cup {k}
    <3>1. s \in Seq(Event) /\ Len(s) = 2 /\ s[1] = Opened /\ s[2] = InitEvent /\ s # <<>>
      BY <2>1, <2>2, <2>3, PairAt
    <3>2. /\ Known(Opened, fleet, status, lines) /\ Sooner(Opened, InitEvent)
          /\ Ahead(Opened, servers, tasks, taskLogs, pruned)
      BY <2>2
    <3>3. 1 .. Len(s) = {1, 2}
      BY <3>1
    <3>4. InOrder(s)
      BY <3>1, <3>2, <3>3 DEF InOrder
    <3>5. AllKnown(s, fleet, status, lines) /\ AllAhead(s, servers, tasks, taskLogs, pruned)
      BY <2>1, <3>1, <3>2, <3>3 DEF AllKnown, AllAhead
    <3>. QED BY <2>3, <3>1, <3>4, <3>5
  <2>4. CASE s = <<Closed>>
    <3>1. s \in Seq(Event) /\ Len(s) = 1 /\ s[1] = Closed /\ s # <<>>
      BY <2>2, <2>4, PairAt
    <3>2. Known(Closed, fleet, status, lines) /\ Ahead(Closed, servers, tasks, taskLogs, pruned)
      BY <2>2
    <3>3. 1 .. Len(s) = {1}
      BY <3>1
    <3>4. InOrder(s)
      BY <3>3 DEF InOrder
    <3>5. AllKnown(s, fleet, status, lines) /\ AllAhead(s, servers, tasks, taskLogs, pruned)
      BY <3>1, <3>2, <3>3 DEF AllKnown, AllAhead
    <3>. QED BY <3>1, <3>4, <3>5
  <2>. QED BY <1>3, <2>3, <2>4
<1>5. LinkType'
  BY <1>0, <1>1, <1>3, <1>4 DEF LinkType
<1>6. WireInv'
  BY <1>0, <1>1, <1>3, <1>4 DEF WireInv, LinkType
<1>7. AheadInv'
  BY <1>0, <1>1, <1>3, <1>4 DEF AheadInv, LinkType
<1>8. LinkInv'
  BY <1>0, <1>1, <1>2, <1>3, <1>4 DEF LinkInv, LinkType
<1>9. ServerType' /\ PageType' /\ StoreInv' /\ PageInv' /\ LogInv'
  BY <1>0, <1>1 DEF ServerType, PageType, StoreInv, PageInv, LogInv
<1>. QED BY <1>5, <1>6, <1>7, <1>8, <1>9 DEF EventInv

(* A log-out empties the page and lets go of the socket.                   *)
LEMMA StopInv ==
  ASSUME EventInv, Stop PROVE EventInv'
<1>0. ServerType /\ LinkType /\ PageType /\ StoreInv /\ LinkInv /\ WireInv /\ PageInv /\ LogInv
  BY DEF EventInv
<1>1. UNCHANGED <<fleet, status, listed, pruned, lines, hub, wire, fetch>>
      /\ ws' = None /\ connected' = FALSE /\ servers' = 0 /\ tasks' = NoTasks
      /\ taskLogs' = [r \in Runs |-> NoLog]
  BY DEF Stop, serverVars, linkVars
<1>2. ServerType' /\ LinkType' /\ StoreInv' /\ WireInv' /\ LinkInv' /\ AheadInv'
  BY <1>0, <1>1 DEF ServerType, LinkType, StoreInv, WireInv, LinkInv, AheadInv
<1>3. PageType' /\ LogInv'
  BY <1>1 DEF PageType, LogInv, NoTasks, NoLog, Absent, Stage
<1>4. PageInv'
  BY <1>0, <1>1 DEF PageInv, ServerType, NoTasks, Absent, Stage
<1>. QED BY <1>2, <1>3, <1>4 DEF EventInv

(* handleEvent, by kind of event: what changes on the page.                *)
LEMMA HandleCases ==
  ASSUME PageType, NEW e \in Event, HandleEvent(e)
  PROVE  /\ TellsFleet(e) => servers' = e.servers
         /\ ~TellsFleet(e) => servers' = servers
         /\ tasks' \in [Runs -> Stage]
         /\ \A r \in Runs : tasks'[r] = IF TellsRun(e, r) THEN Stated(e, r) ELSE tasks[r]
         /\ taskLogs' \in [Runs -> [seed : Nat \cup {None}, live : Seq(Nat)]]
         /\ \A r \in Runs : taskLogs'[r].live = IF IsLine(e, r) THEN Append(taskLogs[r].live, e.line)
                                                                ELSE taskLogs[r].live
<1>1. CASE e.kind = "init"
  <2>1. servers' = e.servers /\ tasks' = e.tasks /\ taskLogs' = taskLogs
    BY <1>1 DEF HandleEvent, ShowTasks
  <2>2. TellsFleet(e) /\ \A r \in Runs : TellsRun(e, r) /\ ~IsLine(e, r) /\ Stated(e, r) = e.tasks[r]
    BY <1>1 DEF TellsFleet, TellsRun, IsLine, Stated
  <2>. QED BY <1>1, <2>1, <2>2, EventFields DEF PageType
<1>2. CASE e.kind = "serversUpdate"
  <2>1. servers' = e.servers /\ tasks' = tasks /\ taskLogs' = taskLogs
    BY <1>2 DEF HandleEvent
  <2>2. TellsFleet(e) /\ \A r \in Runs : ~TellsRun(e, r) /\ ~IsLine(e, r)
    BY <1>2 DEF TellsFleet, TellsRun, IsLine
  <2>. QED BY <2>1, <2>2 DEF PageType
<1>3. CASE e.kind = "taskUpdate"
  <2>1. servers' = servers /\ tasks' = [tasks EXCEPT ![e.run] = e.status] /\ taskLogs' = taskLogs
    BY <1>3 DEF HandleEvent, ShowTasks
  <2>2. /\ ~TellsFleet(e)
        /\ \A r \in Runs : (TellsRun(e, r) <=> e.run = r) /\ ~IsLine(e, r) /\ Stated(e, r) = e.status
    BY <1>3 DEF TellsFleet, TellsRun, IsLine, Stated
  <2>3. e.run \in Runs /\ e.status \in Stage
    BY <1>3, EventFields
  <2>. QED BY <2>1, <2>2, <2>3 DEF PageType
<1>4. CASE e.kind = "taskLog"
  <2>1. servers' = servers /\ tasks' = tasks
          /\ taskLogs' = [taskLogs EXCEPT ![e.run].live = Append(@, e.line)]
    BY <1>4 DEF HandleEvent
  <2>2. ~TellsFleet(e) /\ \A r \in Runs : ~TellsRun(e, r) /\ (IsLine(e, r) <=> e.run = r)
    BY <1>4 DEF TellsFleet, TellsRun, IsLine
  <2>3. e.run \in Runs /\ e.line \in Nat
    BY <1>4, EventFields
  <2>4. Append(taskLogs[e.run].live, e.line) \in Seq(Nat)
    BY <2>3, AppendAt DEF PageType
  <2>5. \A r \in Runs : taskLogs'[r] = IF e.run = r
                           THEN [taskLogs[r] EXCEPT !.live = Append(taskLogs[r].live, e.line)]
                           ELSE taskLogs[r]
    BY <2>1 DEF PageType
  <2>6. \A r \in Runs : taskLogs[r] \in [seed : Nat \cup {None}, live : Seq(Nat)]
    BY DEF PageType
  <2>7. ASSUME NEW r \in Runs
        PROVE  /\ taskLogs'[r] \in [seed : Nat \cup {None}, live : Seq(Nat)]
               /\ taskLogs'[r].live = IF e.run = r THEN Append(taskLogs[r].live, e.line)
                                                  ELSE taskLogs[r].live
    <3>1. CASE e.run = r
      BY <3>1, <2>4, <2>5, <2>6
    <3>2. CASE e.run # r
      BY <3>2, <2>5, <2>6
    <3>. QED BY <3>1, <3>2
  <2>8. DOMAIN taskLogs' = Runs /\ taskLogs' = [r \in Runs |-> taskLogs'[r]]
    BY <2>1 DEF PageType
  <2>9. taskLogs' \in [Runs -> [seed : Nat \cup {None}, live : Seq(Nat)]]
    BY <2>7, <2>8
  <2>. QED BY <2>1, <2>2, <2>7, <2>9 DEF PageType
<1>. QED BY <1>1, <1>2, <1>3, <1>4 DEF HandleEvent

(* An event that is known and ahead moves the page on, short of the truth, *)
(* and what was said after it is ahead of the page still.                  *)
LEMMA HandleMovesOn ==
  ASSUME ServerType, PageType, PageInv, NEW e \in Event, HandleEvent(e),
         Known(e, fleet, status, lines), Ahead(e, servers, tasks, taskLogs, pruned)
  PROVE  /\ servers' \in Nat /\ servers <= servers' /\ servers' <= fleet
         /\ \A r \in Runs : /\ tasks'[r] <= status[r]
                            /\ tasks[r] <= tasks'[r] \/ (tasks'[r] = Absent /\ r \in pruned)
<1>1. servers' \in Nat /\ servers <= servers' /\ servers' <= fleet
  BY HandleCases, EventFields DEF Known, Ahead, PageInv, PageType
<1>2. ASSUME NEW r \in Runs
      PROVE  /\ tasks'[r] <= status[r]
             /\ tasks[r] <= tasks'[r] \/ (tasks'[r] = Absent /\ r \in pruned)
  <2>1. tasks'[r] = IF TellsRun(e, r) THEN Stated(e, r) ELSE tasks[r]
    BY HandleCases
  <2>2. tasks[r] \in Stage /\ tasks[r] <= status[r]
    BY DEF PageType, PageInv
  <2>. QED BY <2>1, <2>2 DEF Known, Ahead, Stage
<1>. QED BY <1>1, <1>2

LEMMA HandleAhead ==
  ASSUME PageType, NEW e \in Event, HandleEvent(e), NEW d \in Event,
         Sooner(e, d), Ahead(d, servers, tasks, taskLogs, pruned)
  PROVE  Ahead(d, servers', tasks', taskLogs', pruned)
<1>1. TellsFleet(d) => servers' <= d.servers
  BY HandleCases DEF Sooner, Ahead
<1>2. ASSUME NEW r \in Runs, TellsRun(d, r)
      PROVE tasks'[r] <= Stated(d, r) \/ (Stated(d, r) = Absent /\ r \in pruned)
  BY <1>2, HandleCases DEF Sooner, Ahead
<1>3. ASSUME NEW r \in Runs, IsLine(d, r), NEW i \in 1 .. Len(taskLogs'[r].live)
      PROVE taskLogs'[r].live[i] < d.line
  <2>1. CASE ~IsLine(e, r)
    BY <1>3, <2>1, HandleCases DEF Ahead
  <2>2. CASE IsLine(e, r)
    <3>1. taskLogs[r].live \in Seq(Nat) /\ e.line \in Nat
      BY <2>2, EventFields DEF PageType
    <3>2. taskLogs'[r].live = Append(taskLogs[r].live, e.line)
      BY <2>2, HandleCases
    <3>3. e.line < d.line /\ \A j \in 1 .. Len(taskLogs[r].live) : taskLogs[r].live[j] < d.line
      BY <1>3, <2>2 DEF Sooner, Ahead
    <3>. QED BY <1>3, <3>1, <3>2, <3>3, AppendAt, LenProperties
  <2>. QED BY <2>1, <2>2
<1>. QED BY <1>1, <1>2, <1>3 DEF Ahead

LEMMA HandleLog ==
  ASSUME PageType, LogInv, ServerType, NEW e \in Event, HandleEvent(e),
         Known(e, fleet, status, lines), Ahead(e, servers, tasks, taskLogs, pruned),
         UNCHANGED <<status, lines>>
  PROVE  LogInv'
<1>. SUFFICES ASSUME NEW r \in Runs
              PROVE  /\ \A i, j \in 1 .. Len(taskLogs'[r].live) :
                          i < j => taskLogs'[r].live[i] < taskLogs'[r].live[j]
                     /\ \A i \in 1 .. Len(taskLogs'[r].live) :
                          /\ taskLogs'[r].live[i] > 0
                          /\ status[r] # Ended => taskLogs'[r].live[i] <= lines[r]
  BY DEF LogInv
<1>1. CASE ~IsLine(e, r)
  BY <1>1, HandleCases DEF LogInv
<1>2. CASE IsLine(e, r)
  <2>1. taskLogs[r].live \in Seq(Nat) /\ e.line \in Nat
    BY <1>2, EventFields DEF PageType
  <2>2. taskLogs'[r].live = Append(taskLogs[r].live, e.line)
    BY <1>2, HandleCases
  <2>3. /\ e.line > 0 /\ (status[r] # Ended => e.line <= lines[r])
        /\ \A j \in 1 .. Len(taskLogs[r].live) : taskLogs[r].live[j] < e.line
    BY <1>2 DEF Known, Ahead
  <2>. QED BY <2>1, <2>2, <2>3, AppendAt, LenProperties DEF LogInv
<1>. QED BY <1>1, <1>2

(* onopen, onclose, onmessage: the head of a wire is handled if the socket *)
(* is the current one.                                                     *)
LEMMA OnEventInv ==
  ASSUME EventInv, NEW k \in Sockets, OnEvent(k) PROVE EventInv'
<1>. DEFINE e == Head(wire[k])
            rest == Tail(wire[k])
<1>0. ServerType /\ LinkType /\ PageType /\ StoreInv /\ LinkInv /\ WireInv /\ PageInv /\ LogInv
        /\ AheadInv
  BY DEF EventInv
<1>1. /\ UNCHANGED <<fleet, status, listed, pruned, lines, hub, fetch>>
      /\ wire[k] # <<>> /\ wire' = [wire EXCEPT ![k] = rest]
  BY DEF OnEvent, Take, serverVars
<1>2. /\ wire[k] \in Seq(Event) /\ e \in Event /\ rest \in Seq(Event)
      /\ e = wire[k][1] /\ Len(wire[k]) \in Nat \ {0} /\ Len(rest) = Len(wire[k]) - 1
      /\ \A p \in 1 .. Len(wire[k]) - 1 : rest[p] = wire[k][p + 1]
  BY <1>0, <1>1, TailAt DEF LinkType
<1>3. /\ InOrder(rest) /\ \A p \in 1 .. Len(rest) : Sooner(e, rest[p])
      /\ AllKnown(rest, fleet, status, lines) /\ Known(e, fleet, status, lines)
  BY <1>0, <1>1, <1>2, WireTail, KnownTail DEF WireInv
<1>4. ws = k => /\ AllAhead(rest, servers, tasks, taskLogs, pruned)
                /\ Ahead(e, servers, tasks, taskLogs, pruned)
  <2>1. ASSUME ws = k PROVE AllAhead(wire[k], servers, tasks, taskLogs, pruned)
    BY <2>1, <1>0, EventsAssumption DEF AheadInv
  <2>. QED BY <2>1, <1>1, <1>2, AheadTail
<1>5. ws = k => OnCurrent(e)
  BY DEF OnEvent
<1>6. ws # k => UNCHANGED <<ws, connected, servers, tasks, taskLogs>>
  BY DEF OnEvent, clientVars, pageVars
<1>. HIDE DEF e, rest
<1>7. WireInv' /\ ServerType' /\ StoreInv'
  BY <1>0, <1>1, <1>3 DEF WireInv, LinkType, ServerType, StoreInv
<1>8. CASE ws # k
  <2>1. LinkType' /\ PageType' /\ PageInv' /\ LogInv'
    BY <1>0, <1>1, <1>2, <1>6, <1>8 DEF LinkType, PageType, PageInv, LogInv
  <2>2. ws # None => wire'[ws] = wire[ws]
    BY <1>0, <1>1, <1>8 DEF LinkType
  <2>3. LinkInv' /\ AheadInv'
    BY <1>0, <1>1, <1>6, <1>8, <2>2 DEF LinkInv, AheadInv
  <2>. QED BY <1>7, <2>1, <2>3 DEF EventInv
<1>9. CASE ws = k /\ e.kind = "opened"
  <2>1. UNCHANGED <<ws, servers, tasks, taskLogs>>
    BY <1>5, <1>9 DEF OnCurrent, HandleEvent, pageVars
  <2>2. LinkType' /\ PageType' /\ PageInv' /\ LogInv'
    BY <1>0, <1>1, <1>2, <2>1 DEF LinkType, PageType, PageInv, LogInv
  <2>3. wire'[ws] = rest
    BY <1>0, <1>1, <1>9 DEF LinkType
  <2>4. AheadInv'
    BY <1>1, <1>4, <1>9, <2>1, <2>3 DEF AheadInv
  <2>5. ws \notin hub => rest # <<>> /\ rest[Len(rest)] = Closed
    <3>1. Closed.kind = "closed"
      BY DEF Closed
    <3>. QED BY <3>1, <1>0, <1>2, <1>9, EventsAssumption, EmptySeq DEF LinkInv
  <2>6. LinkInv'
    BY <1>1, <1>9, <2>1, <2>3, <2>5, EventsAssumption DEF LinkInv
  <2>. QED BY <1>7, <2>2, <2>4, <2>6 DEF EventInv
<1>10. CASE ws = k /\ e.kind = "closed"
  <2>1. UNCHANGED <<servers, tasks, taskLogs>> /\ ws' = None /\ connected' = FALSE
    BY <1>5, <1>10 DEF OnCurrent, HandleEvent, pageVars
  <2>2. LinkType' /\ PageType' /\ PageInv' /\ LogInv' /\ LinkInv' /\ AheadInv'
    BY <1>0, <1>1, <1>2, <2>1 DEF LinkType, PageType, PageInv, LogInv, LinkInv, AheadInv
  <2>. QED BY <1>7, <2>2 DEF EventInv
<1>11. CASE ws = k /\ e.kind \notin {"opened", "closed"}
  <2>1. HandleEvent(e) /\ UNCHANGED <<ws, connected>>
    BY <1>5, <1>11 DEF OnCurrent, clientVars
  <2>2. wire'[ws] = rest
    BY <1>0, <1>1, <1>11 DEF LinkType
  <2>3. PageType' /\ PageInv'
    <3>1. /\ servers' \in Nat /\ servers' <= fleet
          /\ \A r \in Runs : tasks'[r] <= status[r]
      BY <1>0, <1>2, <1>3, <1>4, <1>11, <2>1, HandleMovesOn
    <3>2. /\ tasks' \in [Runs -> Stage]
          /\ taskLogs' \in [Runs -> [seed : Nat \cup {None}, live : Seq(Nat)]]
      BY <1>0, <1>2, <2>1, HandleCases
    <3>. QED BY <1>1, <3>1, <3>2 DEF PageType, PageInv
  <2>4. LogInv'
    BY <1>0, <1>1, <1>2, <1>3, <1>4, <1>11, <2>1, HandleLog
  <2>5. AheadInv'
    <3>1. ASSUME NEW p \in 1 .. Len(rest)
          PROVE  Ahead(rest[p], servers', tasks', taskLogs', pruned)
      <4>1. rest[p] \in Event
        BY <1>2, ElementOfSeq
      <4>2. Sooner(e, rest[p]) /\ Ahead(rest[p], servers, tasks, taskLogs, pruned)
        BY <1>3, <1>4, <1>11 DEF AllAhead
      <4>. QED BY <4>1, <4>2, <1>0, <1>2, <2>1, HandleAhead
    <3>. QED BY <3>1, <1>1, <2>1, <2>2 DEF AheadInv, AllAhead
  <2>6. LinkType'
    BY <1>0, <1>1, <1>2, <2>1 DEF LinkType
  <2>7. ws \notin hub => rest # <<>> /\ rest[Len(rest)] = Closed
    <3>1. Closed.kind = "closed"
      BY DEF Closed
    <3>. QED BY <3>1, <1>0, <1>2, <1>11, EventsAssumption, EmptySeq DEF LinkInv
  <2>8. LinkInv'
    BY <1>0, <1>1, <1>11, <2>1, <2>2, <2>7 DEF LinkInv
  <2>. QED BY <1>7, <2>3, <2>4, <2>5, <2>6, <2>8 DEF EventInv
<1>. QED BY <1>8, <1>9, <1>10, <1>11

(* getLogs, and the answer that seeds a log that is empty still.           *)
LEMMA FetchLogsInv ==
  ASSUME EventInv, NEW r \in Runs, FetchLogs(r) PROVE EventInv'
<1>0. ServerType /\ LinkType /\ PageType /\ StoreInv /\ LinkInv /\ WireInv /\ PageInv /\ LogInv
        /\ AheadInv
  BY DEF EventInv
<1>1. UNCHANGED <<fleet, status, listed, pruned, lines, hub, wire, ws, connected, servers, tasks,
                  taskLogs>>
      /\ fetch' = [fetch EXCEPT ![r] = lines[r]]
  BY DEF FetchLogs, serverVars, linkVars, clientVars, pageVars
<1>2. LinkType'
  BY <1>0, <1>1 DEF LinkType, ServerType
<1>. QED BY <1>0, <1>1, <1>2 DEF EventInv, ServerType, PageType, StoreInv, LinkInv, WireInv, PageInv,
                                LogInv, AheadInv

LEMMA SeedTaskLogsInv ==
  ASSUME EventInv, NEW r \in Runs, SeedTaskLogs(r) PROVE EventInv'
<1>0. ServerType /\ LinkType /\ PageType /\ StoreInv /\ LinkInv /\ WireInv /\ PageInv /\ LogInv
        /\ AheadInv
  BY DEF EventInv
<1>1. /\ UNCHANGED <<fleet, status, listed, pruned, lines, hub, wire, ws, connected, servers, tasks>>
      /\ fetch[r] # None /\ fetch' = [fetch EXCEPT ![r] = None]
      /\ taskLogs' = IF taskLogs[r] = NoLog THEN [taskLogs EXCEPT ![r].seed = fetch[r]] ELSE taskLogs
  BY DEF SeedTaskLogs, serverVars, linkVars, clientVars
<1>2. \A x \in Runs : taskLogs'[x] \in [seed : Nat \cup {None}, live : Seq(Nat)]
                        /\ taskLogs'[x].live = taskLogs[x].live
  <2>1. \A x \in Runs : taskLogs[x] \in [seed : Nat \cup {None}, live : Seq(Nat)]
    BY <1>0 DEF PageType
  <2>2. fetch[r] \in Nat \cup {None}
    BY <1>0 DEF LinkType
  <2>. QED BY <1>0, <1>1, <2>1, <2>2 DEF PageType
<1>3. taskLogs' = [x \in Runs |-> taskLogs'[x]]
  BY <1>0, <1>1 DEF PageType
<1>4. PageType'
  BY <1>0, <1>1, <1>2, <1>3 DEF PageType
<1>5. LinkType'
  BY <1>0, <1>1 DEF LinkType
<1>6. LogInv'
  BY <1>0, <1>1, <1>2 DEF LogInv
<1>7. AheadInv'
  BY <1>0, <1>1, <1>2 DEF AheadInv, AllAhead, Ahead
<1>8. ServerType' /\ StoreInv' /\ LinkInv' /\ WireInv' /\ PageInv'
  BY <1>0, <1>1 DEF ServerType, StoreInv, LinkInv, WireInv, PageInv
<1>. QED BY <1>4, <1>5, <1>6, <1>7, <1>8 DEF EventInv

\* What the invariant is about.
core == <<fleet, status, listed, pruned, lines, hub, wire, ws, connected, servers, tasks, taskLogs,
          fetch>>

LEMMA CoreInv ==
  ASSUME EventInv, UNCHANGED core PROVE EventInv'
BY DEF core, EventInv, ServerType, LinkType, PageType, StoreInv, LinkInv, WireInv, PageInv, LogInv, AheadInv

LEMMA SaveTypeNext ==
  ASSUME SaveType, [Next]_vars PROVE SaveType'
<1>1. ASSUME UNCHANGED serverVars PROVE SaveType'
  BY <1>1 DEF SaveType, serverVars
<1>2. ASSUME UNCHANGED <<announcing, stuck>> PROVE SaveType'
  BY <1>2 DEF SaveType
<1>3. CASE FleetChanges
  BY <1>2, <1>3 DEF FleetChanges
<1>4. ASSUME NEW r \in Runs, RunChanges(r) \/ Announce(r) \/ SaveFails(r) \/ Prune(r) \/ Log(r)
      PROVE SaveType'
  BY <1>4 DEF SaveType, RunChanges, Announce, SaveFails, Prune, Log
<1>5. ASSUME NEW r \in Runs, FetchLogs(r) \/ SeedTaskLogs(r) \/ WaitForTask(r) \/ PollWait(r)
      PROVE SaveType'
  BY <1>1, <1>5 DEF FetchLogs, SeedTaskLogs, WaitForTask, PollWait
<1>6. ASSUME NEW k \in Sockets, Drop(k) \/ Start(k) \/ Reconnect(k) \/ OnEvent(k) PROVE SaveType'
  BY <1>1, <1>6 DEF Drop, Start, Reconnect, OnEvent, Take
<1>7. CASE Restart
  BY <1>7 DEF Restart, SaveType
<1>8. CASE Stop \/ UNCHANGED vars
  BY <1>1, <1>8 DEF Stop, vars
<1>. QED BY <1>3, <1>4, <1>5, <1>6, <1>7, <1>8 DEF Next

LEMMA EventNext ==
  ASSUME EventInv, SaveType, [Next]_vars PROVE EventInv'
<1>1. ASSUME NEW r \in Runs, RunChanges(r) \/ Announce(r) \/ SaveFails(r) \/ Prune(r) \/ Log(r)
      PROVE EventInv'
  BY <1>1, RunChangesInv, AnnounceInv, SaveFailsInv, PruneInv, LogStepInv
<1>2. ASSUME NEW r \in Runs, FetchLogs(r) \/ SeedTaskLogs(r) PROVE EventInv'
  BY <1>2, FetchLogsInv, SeedTaskLogsInv
<1>3. ASSUME NEW r \in Runs, WaitForTask(r) \/ PollWait(r) PROVE EventInv'
  <2>1. UNCHANGED core
    BY <1>3 DEF WaitForTask, PollWait, core, serverVars, linkVars, clientVars, pageVars
  <2>. QED BY <2>1, CoreInv
<1>4. ASSUME NEW k \in Sockets, Start(k) \/ Reconnect(k) PROVE EventInv'
  <2>1. Connect(k) /\ UNCHANGED <<serverVars, connected, pageVars, fetch>>
    BY <1>4 DEF Start, Reconnect
  <2>. QED BY <2>1, ConnectInv
<1>5. ASSUME NEW k \in Sockets, Drop(k) \/ OnEvent(k) PROVE EventInv'
  BY <1>5, DropInv, OnEventInv
<1>6. CASE UNCHANGED vars
  <2>1. UNCHANGED core
    BY <1>6 DEF vars, core, serverVars, linkVars, clientVars, pageVars
  <2>. QED BY <2>1, CoreInv
<1>. QED BY <1>1, <1>2, <1>3, <1>4, <1>5, <1>6, FleetChangesInv, RestartInv, StopInv DEF Next

-----------------------------------------------------------------------------
(* The theorems.                                                           *)

(* What is sent is true, in order, and never behind the page; the page is  *)
(* never ahead of the server (ws.ts, broadcast and open; connection.ts).   *)
THEOREM InOrderOnTheWire == EventsSpec => [](EventInv /\ SaveType)
<1>1. Init => EventInv /\ SaveType
  BY EventInit DEF Init, SaveType
<1>2. EventInv /\ SaveType /\ [Next]_vars => (EventInv /\ SaveType)'
  BY EventNext, SaveTypeNext
<1>. QED BY <1>1, <1>2, PTL DEF EventsSpec

(* LiveLinesOnce: no log line that the socket delivered is appended twice  *)
(* or out of order, whichever sockets linger and however often the page    *)
(* reconnects (connection.ts, connect and handleEvent).  It is about those *)
(* lines alone: what getLogs puts before them (connection.ts:213) may      *)
(* repeat lines that the socket had delivered meanwhile.                   *)
THEOREM NoLineTwice == EventsSpec => []LiveLinesOnce
<1>1. EventInv => LiveLinesOnce
  <2>. SUFFICES ASSUME EventInv, NEW r \in Runs,
                       NEW i \in DOMAIN taskLogs[r].live, NEW j \in DOMAIN taskLogs[r].live, i < j
                PROVE  taskLogs[r].live[i] < taskLogs[r].live[j]
    BY DEF LiveLinesOnce, Increasing
  <2>1. taskLogs[r].live \in Seq(Nat) /\ LogInv
    BY DEF EventInv, PageType
  <2>2. DOMAIN taskLogs[r].live = 1 .. Len(taskLogs[r].live)
    BY <2>1, LenProperties
  <2>. QED BY <2>1, <2>2 DEF LogInv
<1>. QED BY <1>1, InOrderOnTheWire, PTL

-----------------------------------------------------------------------------
(* The refinement of Replica.                                              *)

\* The variables of Replica are of items; the fleet is one, each run another.
LEMMA ItemsOf ==
  ASSUME ServerType, PageType
  PROVE  /\ Truth \in [Item -> Nat]
         /\ View \in [Item -> Nat]
         /\ pruned \subseteq Item
<1>1. ASSUME NEW r \in Runs PROVE status[r] \in Nat /\ tasks[r] \in Nat
  <2>1. status[r] \in Stage /\ tasks[r] \in Stage
    BY DEF ServerType, PageType
  <2>. QED BY <2>1 DEF Stage
<1>2. fleet \in Nat /\ servers \in Nat /\ pruned \subseteq Runs
  BY DEF ServerType, PageType
<1>3. \A i \in Item : Truth[i] \in Nat /\ View[i] \in Nat
  BY <1>1, <1>2 DEF Truth, View, Item
<1>4. Truth = [i \in Item |-> Truth[i]] /\ View = [i \in Item |-> View[i]]
  BY DEF Truth, View
<1>. QED BY <1>2, <1>3, <1>4 DEF Item

LEMMA SameView ==
  ASSUME UNCHANGED <<servers, tasks>> PROVE View' = View
BY DEF View

LEMMA SameTruth ==
  ASSUME UNCHANGED <<fleet, status>> PROVE Truth' = Truth
BY DEF Truth

(* The server's steps advance the truth and never withdraw less.           *)
LEMMA ServerAdvances ==
  ASSUME ServerType, PageType, ServerType', PageType', fleet <= fleet',
         \A r \in Runs : status[r] <= status'[r],
         pruned \subseteq pruned', UNCHANGED <<servers, tasks>>
  PROVE  Mirror!Advance
<1>1. Truth' \in [Item -> Nat] /\ pruned' \subseteq Item
  <2>1. \A r \in Runs : status'[r] \in Nat
    BY DEF ServerType, Stage
  <2>. QED BY <2>1 DEF Truth, Item, ServerType
<1>2. ASSUME NEW i \in Item PROVE Truth'[i] >= Truth[i]
  <2>1. CASE i = "fleet"
    <3>1. Truth'[i] = fleet' /\ Truth[i] = fleet /\ fleet \in Nat /\ fleet' \in Nat
      BY <2>1 DEF Truth, Item, ServerType
    <3>. QED BY <3>1
  <2>2. CASE i # "fleet"
    <3>1. i \in Runs /\ Truth'[i] = status'[i] /\ Truth[i] = status[i]
      BY <2>2 DEF Truth, Item
    <3>2. status[i] \in Nat /\ status'[i] \in Nat /\ status[i] <= status'[i]
      BY <3>1 DEF ServerType, Stage
    <3>. QED BY <3>1, <3>2
  <2>. QED BY <2>1, <2>2
<1>3. View' = View
  BY SameView
<1>. QED BY <1>1, <1>2, <1>3 DEF Mirror!Advance

(* What is handled moves the view on, short of the truth.                  *)
LEMMA HandlingLearns ==
  ASSUME EventInv, NEW k \in Sockets, OnEvent(k)
  PROVE  Mirror!Learn \/ UNCHANGED <<Truth, pruned, View>>
<1>. DEFINE e == Head(wire[k])
<1>0. ServerType /\ LinkType /\ PageType /\ PageInv /\ WireInv /\ AheadInv
  BY DEF EventInv
<1>1. UNCHANGED <<fleet, status, pruned>>
  BY DEF OnEvent, Take, serverVars
<1>2. Truth' = Truth
  BY <1>1, SameTruth
<1>3. CASE ws = k /\ HandleEvent(e)
  <2>1. wire[k] \in Seq(Event) /\ wire[k] # <<>> /\ e \in Event
    BY <1>0, TailAt DEF LinkType, OnEvent, Take
  <2>2. Known(e, fleet, status, lines)
    BY <1>0, <2>1, KnownTail DEF WireInv
  <2>3. AllAhead(wire[k], servers, tasks, taskLogs, pruned)
    BY <1>0, <1>3, EventsAssumption DEF AheadInv
  <2>4. Ahead(e, servers, tasks, taskLogs, pruned)
    BY <2>1, <2>3, AheadTail
  <2>. HIDE DEF e
  <2>5. /\ servers' \in Nat /\ servers <= servers' /\ servers' <= fleet
        /\ \A r \in Runs : /\ tasks'[r] <= status[r]
                           /\ tasks[r] <= tasks'[r] \/ (tasks'[r] = Absent /\ r \in pruned)
    BY <1>0, <1>3, <2>1, <2>2, <2>4, HandleMovesOn
  <2>6. \A i \in Item : \/ View[i] <= View'[i] /\ View'[i] <= Truth[i]
                        \/ View'[i] = 0 /\ i \in pruned
    BY <2>5 DEF View, Truth, Item, Absent
  <2>. QED BY <1>1, <1>2, <2>6 DEF Mirror!Learn
<1>4. CASE ~(ws = k /\ HandleEvent(e))
  <2>1. UNCHANGED <<servers, tasks>>
    BY <1>4 DEF OnEvent, OnCurrent, pageVars
  <2>. QED BY <1>1, <1>2, <2>1, SameView
<1>. QED BY <1>3, <1>4

LEMMA EveryStepMirrors ==
  ASSUME EventInv, EventInv', SaveType, [Next]_vars
  PROVE  Mirror!Advance \/ Mirror!Learn \/ Mirror!Reset \/ UNCHANGED <<Truth, pruned, View>>
<1>0. ServerType /\ PageType /\ ServerType' /\ PageType'
  BY DEF EventInv
<1>1. ASSUME UNCHANGED <<fleet, status, pruned, servers, tasks>>
      PROVE  UNCHANGED <<Truth, pruned, View>>
  BY <1>1, SameView, SameTruth
<1>2. ASSUME fleet <= fleet', \A r \in Runs : status[r] <= status'[r], pruned \subseteq pruned',
             UNCHANGED <<servers, tasks>>
      PROVE  Mirror!Advance
  BY <1>0, <1>2, ServerAdvances
<1>3. CASE FleetChanges
  BY <1>0, <1>2, <1>3 DEF FleetChanges, pageVars, ServerType, Stage
<1>4. ASSUME NEW r \in Runs, RunChanges(r) PROVE Mirror!Advance
  BY <1>0, <1>2, <1>4 DEF RunChanges, pageVars, ServerType, Stage
<1>5. ASSUME NEW r \in Runs, Prune(r) PROVE Mirror!Advance
  BY <1>0, <1>2, <1>5 DEF Prune, pageVars, ServerType, Stage
<1>6. CASE Restart
  <2>1. pruned \subseteq pruned' /\ UNCHANGED <<fleet, servers, tasks>>
    BY <1>6 DEF Restart, pageVars
  <2>2. ASSUME NEW r \in Runs PROVE status[r] <= status'[r]
    <3>1. status'[r] = IF status[r] = Absent THEN Absent ELSE Ended
      BY <1>6 DEF Restart
    <3>2. status[r] \in Stage
      BY <1>0 DEF ServerType
    <3>. QED BY <3>1, <3>2 DEF Stage, Absent, Ended
  <2>3. fleet <= fleet'
    BY <2>1, <1>0 DEF ServerType
  <2>. QED BY <2>1, <2>2, <2>3, <1>2
<1>7. ASSUME NEW r \in Runs,
             Announce(r) \/ SaveFails(r) \/ Log(r) \/ FetchLogs(r) \/ SeedTaskLogs(r)
               \/ WaitForTask(r) \/ PollWait(r)
      PROVE  UNCHANGED <<Truth, pruned, View>>
  BY <1>1, <1>7 DEF Announce, SaveFails, Log, FetchLogs, SeedTaskLogs, WaitForTask, PollWait,
                    serverVars, pageVars
<1>8. ASSUME NEW k \in Sockets, Drop(k) \/ Start(k) \/ Reconnect(k)
      PROVE  UNCHANGED <<Truth, pruned, View>>
  BY <1>1, <1>8 DEF Drop, Start, Reconnect, serverVars, pageVars
<1>9. CASE Stop
  <2>1. UNCHANGED <<fleet, status, pruned>> /\ servers' = 0 /\ tasks' = NoTasks
    BY <1>9 DEF Stop, serverVars
  <2>2. View' = [i \in Item |-> 0]
    BY <2>1 DEF View, NoTasks, Absent, Item
  <2>. QED BY <2>1, <2>2, SameTruth DEF Mirror!Reset
<1>10. CASE UNCHANGED vars
  BY <1>1, <1>10 DEF vars, serverVars, pageVars
<1>. QED BY <1>3, <1>4, <1>5, <1>6, <1>7, <1>8, <1>9, <1>10, HandlingLearns DEF Next

(* MirrorsFaithfully: the events channel with its page implements Replica. *)
(* The page shows only what the server said, and never an older state than *)
(* before, but for pruned runs and an emptied page (connection.ts, connect *)
(* and handleEvent; ws.ts, initEvent).                                     *)
THEOREM Mirroring == EventsSpec => MirrorsFaithfully
<1>1. Init => Mirror!ReplicaInit
  <2>. SUFFICES ASSUME Init PROVE Mirror!ReplicaInit
    OBVIOUS
  <2>1. ServerType /\ PageType
    BY EventInit DEF EventInv
  <2>2. View = [i \in Item |-> 0]
    BY DEF View, Init, NoTasks, Absent, Item
  <2>. QED BY <2>1, <2>2, ItemsOf DEF Mirror!ReplicaInit
<1>2. EventInv /\ EventInv' /\ SaveType /\ [Next]_vars
        => [Mirror!Advance \/ Mirror!Learn \/ Mirror!Reset]_<<Truth, pruned, View>>
  BY EveryStepMirrors
<1>. QED BY <1>1, <1>2, InOrderOnTheWire, PTL DEF EventsSpec, MirrorsFaithfully, Mirror!ReplicaSpec

-----------------------------------------------------------------------------
(* What is sent arrives.                                                   *)

Announced == listed \ (announcing \cup stuck)

(* Nothing is said, and no announced run has changed.                      *)
LEMMA ArrivalStays ==
  ASSUME ArrivalInv, UNCHANGED <<fleet, ws, servers, tasks>>, ws \in hub' => ws \in hub,
         ws \in hub => wire'[ws] = wire[ws],
         \A r \in Announced' : r \in Announced /\ status'[r] = status[r]
  PROVE  ArrivalInv'
<1>. SUFFICES ASSUME ws \in hub' PROVE FleetArrives' /\ \A r \in Announced' : RunArrives(r)'
  BY DEF ArrivalInv, Announced
<1>1. FleetArrives /\ \A r \in Announced : RunArrives(r)
  BY DEF ArrivalInv, Announced
<1>2. FleetArrives'
  BY <1>1 DEF FleetArrives
<1>3. ASSUME NEW r \in Announced' PROVE RunArrives(r)'
  BY <1>1, <1>3 DEF RunArrives, Says
<1>. QED BY <1>2, <1>3

(* A broadcast says the truth, or nothing, of the fleet and of every run.  *)
LEMMA BroadcastArrives ==
  ASSUME LinkType, ArrivalInv, NEW e \in Event, Broadcast(e), UNCHANGED <<ws, servers, tasks>>,
         IF TellsFleet(e) THEN e.servers = fleet' ELSE fleet' = fleet,
         \A r \in Announced' : IF TellsRun(e, r) THEN Stated(e, r) = status'[r]
                               ELSE r \in Announced /\ status'[r] = status[r]
  PROVE  ArrivalInv'
<1>. SUFFICES ASSUME ws \in hub PROVE FleetArrives' /\ \A r \in Announced' : RunArrives(r)'
  BY DEF ArrivalInv, Announced, Broadcast
<1>. DEFINE s == wire[ws]
            n == Len(s) + 1
<1>1. s \in Seq(Event) /\ Len(s) \in Nat
  BY LenProperties DEF LinkType
<1>2. wire'[ws] = Append(s, e)
  BY DEF Broadcast, LinkType
<1>3. Len(wire'[ws]) = n /\ wire'[ws][n] = e /\ \A p \in 1 .. Len(s) : wire'[ws][p] = s[p]
  BY <1>1, <1>2, AppendAt
<1>4. FleetArrives /\ \A r \in Announced : RunArrives(r)
  BY DEF ArrivalInv, Announced
<1>5. FleetArrives'
  <2>1. CASE TellsFleet(e)
    <3>1. n \in 1 .. n
      BY <1>1
    <3>. QED BY <2>1, <3>1, <1>3 DEF FleetArrives
  <2>2. CASE ~TellsFleet(e)
    BY <2>2, <1>1, <1>3, <1>4 DEF FleetArrives
  <2>. QED BY <2>1, <2>2
<1>6. ASSUME NEW r \in Announced' PROVE RunArrives(r)'
  <2>1. CASE TellsRun(e, r)
    <3>1. n \in 1 .. n
      BY <1>1
    <3>. QED BY <2>1, <3>1, <1>3 DEF RunArrives, Says
  <2>2. CASE ~TellsRun(e, r)
    <3>1. RunArrives(r) /\ status'[r] = status[r]
      BY <1>4, <1>6, <2>2
    <3>2. CASE \E p \in 1 .. Len(s) : Says(p, r)
      <4>1. PICK p \in 1 .. Len(s) : Says(p, r)
        BY <3>2
      <4>2. p \in 1 .. Len(wire'[ws]) /\ wire'[ws][p] = s[p]
        BY <1>1, <1>3
      <4>. QED BY <4>1, <4>2, <3>1 DEF RunArrives, Says
    <3>3. CASE tasks[r] = status[r] /\ \A p \in 1 .. Len(s) : TellsRun(s[p], r) => Says(p, r)
      <4>1. ASSUME NEW p \in 1 .. Len(wire'[ws]), TellsRun(wire'[ws][p], r)
            PROVE  p \in 1 .. Len(s) /\ wire'[ws][p] = s[p]
        BY <4>1, <1>1, <1>3, <2>2
      <4>2. ASSUME NEW p \in 1 .. Len(wire'[ws]), TellsRun(wire'[ws][p], r)
            PROVE  Stated(wire'[ws][p], r) = status'[r]
        <5>1. p \in 1 .. Len(s) /\ wire'[ws][p] = s[p]
          BY <4>1, <4>2
        <5>2. Says(p, r)
          BY <5>1, <4>2, <3>3
        <5>. QED BY <5>1, <5>2, <3>1 DEF Says
      <4>3. tasks'[r] = status'[r]
        BY <3>1, <3>3
      <4>. QED BY <4>2, <4>3 DEF RunArrives, Says
    <3>. QED BY <3>1, <3>2, <3>3 DEF RunArrives
  <2>. QED BY <2>1, <2>2
<1>. QED BY <1>5, <1>6

(* A new socket's snapshot holds the fleet and every run of the store.     *)
LEMMA ConnectArrives ==
  ASSUME EventInv, NEW k \in Sockets, Connect(k), UNCHANGED <<serverVars, connected, pageVars>>
  PROVE  ArrivalInv'
<1>0. ServerType /\ LinkType /\ PageType /\ StoreInv /\ PageInv
  BY DEF EventInv
<1>1. UNCHANGED <<fleet, status, listed, announcing, stuck, servers, tasks>> /\ ws' = k
  BY DEF serverVars, pageVars, Connect, OpenSocket, FailSocket
<1>2. k \notin hub
  BY DEF Connect, OpenSocket, FailSocket, New, Free
<1>3. CASE OpenSocket(k)
  <2>1. wire'[k] = <<Opened, InitEvent>>
    BY <1>0, <1>3 DEF OpenSocket, LinkType
  <2>2. /\ InitEvent \in Event /\ TellsFleet(InitEvent) /\ InitEvent.servers = fleet
        /\ \A r \in listed : TellsRun(InitEvent, r) /\ Stated(InitEvent, r) = status[r]
    BY <1>0, SnapshotKnown
  <2>3. Opened \in Event
    BY Silent
  <2>4. Len(wire'[k]) = 2 /\ wire'[k][2] = InitEvent
    BY <2>1, <2>2, <2>3, PairAt
  <2>5. 2 \in 1 .. Len(wire'[k])
    BY <2>4
  <2>6. FleetArrives'
    BY <1>1, <2>2, <2>4, <2>5 DEF FleetArrives
  <2>7. ASSUME NEW r \in listed PROVE RunArrives(r)'
    BY <1>1, <2>2, <2>4, <2>5, <2>7 DEF RunArrives, Says
  <2>. QED BY <1>1, <2>6, <2>7 DEF ArrivalInv
<1>4. CASE FailSocket(k)
  BY <1>1, <1>2, <1>4 DEF ArrivalInv, FailSocket
<1>. QED BY <1>3, <1>4 DEF Connect

(* The head of the wire is shown, and the rest of the wire is as late.     *)
LEMMA HandledArrives ==
  ASSUME EventInv, EventInv', ArrivalInv, NEW k \in Sockets, OnEvent(k)
  PROVE  ArrivalInv'
<1>. DEFINE e == Head(wire[k])
            rest == Tail(wire[k])
<1>0. ServerType /\ LinkType /\ PageType /\ WireInv /\ PageInv /\ AheadInv
        /\ ServerType' /\ PageType' /\ PageInv'
  BY DEF EventInv
<1>1. /\ UNCHANGED <<fleet, status, listed, announcing, stuck, hub>>
      /\ wire[k] # <<>> /\ wire' = [wire EXCEPT ![k] = rest]
  BY DEF OnEvent, Take, serverVars
<1>2. UNCHANGED Announced
  BY <1>1 DEF Announced
<1>3. CASE ws # k
  <2>1. UNCHANGED <<ws, servers, tasks>>
    BY <1>3 DEF OnEvent, clientVars, pageVars
  <2>2. ws \in hub => wire'[ws] = wire[ws]
    BY <1>0, <1>1, <1>3 DEF LinkType
  <2>. QED BY <1>1, <1>2, <2>1, <2>2, ArrivalStays
<1>4. CASE ws = k /\ ws' = None
  BY <1>0, <1>1, <1>4, EventsAssumption DEF ArrivalInv, LinkType
<1>5. CASE ws = k /\ ws' # None
  <2>1. /\ wire[k] \in Seq(Event) /\ e \in Event /\ rest \in Seq(Event)
        /\ e = wire[k][1] /\ Len(wire[k]) \in Nat \ {0} /\ Len(rest) = Len(wire[k]) - 1
        /\ \A p \in 1 .. Len(wire[k]) - 1 : rest[p] = wire[k][p + 1]
    BY <1>0, <1>1, TailAt DEF LinkType
  <2>2. /\ \A p \in 1 .. Len(rest) : Sooner(e, rest[p])
        /\ AllKnown(rest, fleet, status, lines) /\ Known(e, fleet, status, lines)
    BY <1>0, <1>1, <2>1, WireTail, KnownTail DEF WireInv
  <2>3. AllAhead(wire[k], servers, tasks, taskLogs, pruned)
    BY <1>0, <1>5, EventsAssumption DEF AheadInv
  <2>4. Ahead(e, servers, tasks, taskLogs, pruned)
    BY <1>1, <2>1, <2>3, AheadTail
  <2>5. OnCurrent(e)
    BY <1>5 DEF OnEvent
  <2>6. wire'[k] = rest
    BY <1>0, <1>1 DEF LinkType
  <2>. HIDE DEF e, rest
  <2>7. /\ ws' = k
        /\ IF TellsFleet(e) THEN servers' = e.servers ELSE servers' = servers
        /\ \A r \in Runs : tasks'[r] = IF TellsRun(e, r) THEN Stated(e, r) ELSE tasks[r]
    <3>1. CASE e.kind = "opened"
      BY <3>1, <1>5, <2>5 DEF OnCurrent, HandleEvent, pageVars, TellsFleet, TellsRun
    <3>2. CASE HandleEvent(e) /\ UNCHANGED clientVars
      BY <3>2, <1>0, <1>5, <2>1, HandleCases DEF clientVars
    <3>. QED BY <3>1, <3>2, <1>5, <2>5 DEF OnCurrent
  <2>. SUFFICES ASSUME k \in hub PROVE FleetArrives' /\ \A r \in Announced : RunArrives(r)'
    BY <1>1, <2>7 DEF ArrivalInv, Announced
  <2>8. FleetArrives /\ \A r \in Announced : RunArrives(r)
    BY <1>5 DEF ArrivalInv, Announced
  <2>9. FleetArrives'
    <3>1. CASE servers = fleet
      <4>1. servers' = fleet
        BY <3>1, <2>1, <2>2, <2>4, <2>7, <1>0, EventFields DEF Known, Ahead, ServerType
      <4>. QED BY <4>1, <1>1 DEF FleetArrives
    <3>2. ASSUME NEW p \in 1 .. Len(wire[k]), TellsFleet(wire[k][p]), wire[k][p].servers = fleet
          PROVE  FleetArrives'
      <4>1. CASE p = 1
        BY <4>1, <3>2, <1>1, <2>1, <2>7 DEF FleetArrives
      <4>2. CASE p # 1
        <5>1. p - 1 \in 1 .. Len(rest) /\ rest[p - 1] = wire[k][p]
          BY <4>2, <2>1
        <5>. QED BY <5>1, <3>2, <1>1, <2>6, <2>7 DEF FleetArrives
      <4>. QED BY <4>1, <4>2
    <3>. QED BY <3>1, <3>2, <2>8, <1>5 DEF FleetArrives
  <2>10. ASSUME NEW r \in Announced PROVE RunArrives(r)'
    <3>0. r \in Runs /\ status[r] \in Stage
      BY <1>0 DEF Announced, ServerType
    <3>1. CASE tasks[r] = status[r]
                 /\ \A p \in 1 .. Len(wire[k]) : TellsRun(wire[k][p], r) => Stated(wire[k][p], r) = status[r]
      <4>1. 1 \in 1 .. Len(wire[k])
        BY <2>1
      <4>2. tasks'[r] = status[r]
        BY <3>0, <3>1, <4>1, <2>1, <2>7
      <4>3. ASSUME NEW p \in 1 .. Len(rest), TellsRun(rest[p], r) PROVE Stated(rest[p], r) = status[r]
        <5>1. p + 1 \in 1 .. Len(wire[k]) /\ rest[p] = wire[k][p + 1]
          BY <2>1
        <5>. QED BY <5>1, <4>3, <3>1
      <4>. QED BY <4>2, <4>3, <1>1, <2>6, <2>7 DEF RunArrives, Says
    <3>2. ASSUME NEW p \in 1 .. Len(wire[k]), TellsRun(wire[k][p], r), Stated(wire[k][p], r) = status[r]
          PROVE  RunArrives(r)'
      <4>1. CASE p = 1
        <5>1. TellsRun(e, r) /\ Stated(e, r) = status[r] /\ tasks'[r] = status[r]
          BY <4>1, <3>0, <3>2, <2>1, <2>7
        <5>2. ASSUME NEW q \in 1 .. Len(rest), TellsRun(rest[q], r)
              PROVE  Stated(rest[q], r) = status[r]
          <6>1. rest[q] \in Event
            BY <2>1, ElementOfSeq
          <6>2. Stated(rest[q], r) \in Stage
            BY <6>1, <5>2, <3>0, EventFields
          <6>3. Stated(e, r) <= Stated(rest[q], r)
            BY <5>1, <5>2, <3>0, <2>2 DEF Sooner
          <6>4. Stated(rest[q], r) <= status[r]
            BY <5>2, <3>0, <2>2 DEF AllKnown, Known
          <6>. QED BY <6>2, <6>3, <6>4, <5>1, <3>0 DEF Stage
        <5>. QED BY <5>1, <5>2, <1>1, <2>6, <2>7 DEF RunArrives, Says
      <4>2. CASE p # 1
        <5>1. p - 1 \in 1 .. Len(rest) /\ rest[p - 1] = wire[k][p]
          BY <4>2, <2>1
        <5>. QED BY <5>1, <3>2, <1>1, <2>6, <2>7 DEF RunArrives, Says
      <4>. QED BY <4>1, <4>2
    <3>. QED BY <3>1, <3>2, <2>8, <1>5 DEF RunArrives, Says
  <2>. QED BY <2>9, <2>10
<1>. QED BY <1>3, <1>4, <1>5

LEMMA ArrivalNext ==
  ASSUME EventInv, EventInv', SaveType, ArrivalInv, [Next]_vars PROVE ArrivalInv'
<1>0. ServerType /\ LinkType /\ PageType
  BY DEF EventInv
<1>1. CASE FleetChanges
  <2>. DEFINE e == [kind |-> "serversUpdate", servers |-> fleet']
  <2>1. Broadcast(e) /\ fleet' \in Nat /\ UNCHANGED <<status, listed, announcing, stuck, ws, servers, tasks>>
    BY <1>0, <1>1 DEF FleetChanges, clientVars, pageVars, ServerType
  <2>2. e \in Event /\ TellsFleet(e) /\ e.servers = fleet' /\ \A r \in Runs : ~TellsRun(e, r)
    BY <2>1 DEF Event, TellsFleet, TellsRun
  <2>. HIDE DEF e
  <2>3. Announced' = Announced /\ Announced \subseteq Runs
    BY <1>0, <2>1 DEF Announced, ServerType
  <2>. QED BY <1>0, <2>1, <2>2, <2>3, BroadcastArrives
<1>2. ASSUME NEW r \in Runs, Announce(r) PROVE ArrivalInv'
  <2>. DEFINE e == TaskUpdate(r)
  <2>1. /\ Broadcast(e) /\ UNCHANGED <<fleet, status, listed, stuck, ws, servers, tasks>>
        /\ announcing' = announcing \ {r}
    BY <1>2 DEF Announce, clientVars, pageVars
  <2>2. /\ e \in Event /\ ~TellsFleet(e) /\ Stated(e, r) = status[r]
        /\ \A x \in Runs : TellsRun(e, x) <=> x = r
    BY <1>0 DEF ServerType, Event, TellsFleet, TellsRun, TaskUpdate, Stated
  <2>. HIDE DEF e
  <2>3. \A x \in Announced' : x \in Runs /\ (x = r \/ x \in Announced)
    BY <1>0, <2>1 DEF Announced, ServerType
  <2>. QED BY <1>0, <2>1, <2>2, <2>3, BroadcastArrives
<1>3. ASSUME NEW r \in Runs, Log(r) PROVE ArrivalInv'
  <2>. DEFINE e == [kind |-> "taskLog", run |-> r, line |-> lines'[r]]
  <2>1. /\ Broadcast(e) /\ lines'[r] \in Nat
        /\ UNCHANGED <<fleet, status, listed, announcing, stuck, ws, servers, tasks>>
    BY <1>0, <1>3 DEF Log, clientVars, pageVars, ServerType
  <2>2. e \in Event /\ ~TellsFleet(e) /\ \A x \in Runs : ~TellsRun(e, x)
    BY <2>1 DEF Event, TellsFleet, TellsRun
  <2>. HIDE DEF e
  <2>3. Announced' = Announced /\ Announced \subseteq Runs
    BY <1>0, <2>1 DEF Announced, ServerType
  <2>. QED BY <1>0, <2>1, <2>2, <2>3, BroadcastArrives
<1>4. ASSUME NEW r \in Runs, RunChanges(r) PROVE ArrivalInv'
  <2>1. /\ UNCHANGED <<fleet, hub, wire, ws, servers, tasks, stuck>>
        /\ status' = [status EXCEPT ![r] = @ + 1]
        /\ listed' = listed \cup {r} /\ announcing' = announcing \cup {r}
    BY <1>4 DEF RunChanges, linkVars, clientVars, pageVars
  <2>2. \A x \in Announced' : x \in Announced /\ status'[x] = status[x]
    BY <1>0, <2>1 DEF Announced, ServerType
  <2>. QED BY <2>1, <2>2, ArrivalStays
<1>5. ASSUME UNCHANGED <<fleet, status, hub, wire, ws, servers, tasks>>,
             Announced' \subseteq Announced
      PROVE  ArrivalInv'
  BY <1>5, ArrivalStays
<1>6. ASSUME NEW r \in Runs, SaveFails(r) \/ Prune(r) PROVE ArrivalInv'
  BY <1>5, <1>6 DEF SaveFails, Prune, linkVars, clientVars, pageVars, Announced
<1>7. ASSUME NEW r \in Runs, FetchLogs(r) \/ SeedTaskLogs(r) \/ WaitForTask(r) \/ PollWait(r)
      PROVE  ArrivalInv'
  BY <1>5, <1>7 DEF FetchLogs, SeedTaskLogs, WaitForTask, PollWait, serverVars, linkVars, clientVars,
                    pageVars, Announced
<1>8. ASSUME NEW k \in Sockets, Drop(k) PROVE ArrivalInv'
  <2>1. /\ UNCHANGED <<fleet, status, listed, announcing, stuck, ws, servers, tasks>>
        /\ hub' = hub \ {k}
    BY <1>8 DEF Drop, serverVars, clientVars, pageVars
  <2>2. CASE ws = k
    BY <2>1, <2>2 DEF ArrivalInv
  <2>3. CASE ws # k
    <3>1. ws \in hub => wire'[ws] = wire[ws]
      BY <1>0, <1>8, <2>3 DEF Drop, LinkType
    <3>. QED BY <2>1, <3>1, ArrivalStays DEF Announced
  <2>. QED BY <2>2, <2>3
<1>9. ASSUME NEW k \in Sockets, Start(k) \/ Reconnect(k) PROVE ArrivalInv'
  <2>1. Connect(k) /\ UNCHANGED <<serverVars, connected, pageVars>>
    BY <1>9 DEF Start, Reconnect
  <2>. QED BY <2>1, ConnectArrives
<1>10. ASSUME NEW k \in Sockets, OnEvent(k) PROVE ArrivalInv'
  BY <1>10, HandledArrives
<1>11. CASE Restart
  BY <1>11 DEF Restart, ArrivalInv
<1>12. CASE Stop
  BY <1>0, <1>12, EventsAssumption DEF Stop, linkVars, ArrivalInv, LinkType
<1>13. CASE UNCHANGED vars
  BY <1>5, <1>13 DEF vars, serverVars, linkVars, clientVars, pageVars, Announced
<1>. QED BY <1>1, <1>2, <1>3, <1>4, <1>6, <1>7, <1>8, <1>9, <1>10, <1>11, <1>12, <1>13 DEF Next

(* MirrorIsCurrent: a connected page that has handled what was sent shows  *)
(* the fleet as it is and every run whose changes were announced: the      *)
(* snapshot and the subscription leave no gap (ws.ts, open and broadcast). *)
THEOREM Currency == EventsSpec => []MirrorIsCurrent
<1>1. Init => ArrivalInv
  BY EventInit
<1>2. (EventInv /\ SaveType) /\ (EventInv /\ SaveType)' /\ ArrivalInv /\ [Next]_vars => ArrivalInv'
  BY ArrivalNext
<1>3. EventInv /\ ArrivalInv => MirrorIsCurrent
  <2>. SUFFICES ASSUME EventInv, ArrivalInv, connected, wire[ws] = <<>>
                PROVE  /\ servers = fleet
                       /\ \A r \in Announced : tasks[r] = status[r]
    BY DEF MirrorIsCurrent, Announced
  <2>1. ws \in hub
    BY DEF EventInv, LinkInv
  <2>2. Len(wire[ws]) = 0
    OBVIOUS
  <2>3. \A p : p \notin 1 .. Len(wire[ws])
    BY <2>2
  <2>. QED BY <2>1, <2>3 DEF ArrivalInv, FleetArrives, RunArrives, Announced
<1>. QED BY <1>1, <1>2, <1>3, InOrderOnTheWire, PTL DEF EventsSpec
=============================================================================
