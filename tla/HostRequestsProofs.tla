------------------------- MODULE HostRequestsProofs -------------------------
(***************************************************************************)
(* The bookkeeping of HostAgent's calls, for any number of calls and any   *)
(* amount of output: entries, timers and sinks come and go with their      *)
(* call, a call is settled once, and a command that has ended was heard to *)
(* its last chunk.                                                         *)
(***************************************************************************)
EXTENDS HostRequests, FiniteSetTheorems, TLAPS

\* What the argument needs of the types: who is waiting, and who is spoken of.
Typed ==
  /\ link \in {"up", "half", "down"}
  /\ call \in [Requests -> {"idle", "waiting"} \cup Settled]
  /\ toControl \in Seq(Message)
  /\ toAgent \in Seq(Requests)
  /\ running \subseteq Requests

IInv == Typed /\ NothingLeaks

LEMMA MessageOf ==
  ASSUME NEW r \in Requests, NEW k \in {"chunk", "answer", "error"}
  PROVE  [req |-> r, kind |-> k] \in Message
BY DEF Message

LEMMA InitIInv == Init => IInv
BY RequestsAssumption DEF Init, IInv, Typed, NothingLeaks

(* A call is entered in all its tables at once.                            *)
LEMMA CallIInv ==
  ASSUME IInv, NEW r \in Requests, Request(r) \/ StreamExec(r)
  PROVE  IInv'
<1>1. /\ call[r] = "idle" /\ call' = [call EXCEPT ![r] = "waiting"]
      /\ pending' = pending \cup {r} /\ timers' = timers \cup {r}
      /\ sinks' = IF r \in Streams THEN sinks \cup {r} ELSE sinks
      /\ toAgent' \in {toAgent, Append(toAgent, r)}
      /\ UNCHANGED <<link, running, toControl>>
  BY DEF Request, StreamExec, SendControl, agent
<1>2. Typed'
  BY <1>1 DEF IInv, Typed
<1>3. NothingLeaks'
  BY <1>1 DEF IInv, Typed, NothingLeaks
<1> QED
  BY <1>2, <1>3 DEF IInv

(* A reply ends a call that is pending, and no other.                      *)
LEMMA ReplyEnds ==
  ASSUME IInv, NEW r \in Requests, NEW outcome \in Settled, ReceiveReply(r, outcome)
  PROVE  /\ call' \in [Requests -> {"idle", "waiting"} \cup Settled]
         /\ NothingLeaks'
         /\ \A q \in Requests : call[q] \in Settled => call'[q] = call[q]
<1>1. /\ pending' = pending \ {r} /\ timers' = timers \ {r} /\ sinks' = sinks \ {r}
      /\ call' = [call EXCEPT ![r] = IF r \in pending THEN outcome ELSE @]
  BY DEF ReceiveReply
<1>2. call' \in [Requests -> {"idle", "waiting"} \cup Settled]
  BY <1>1 DEF IInv, Typed
<1>3. pending' = {q \in Requests : call'[q] = "waiting"}
  BY <1>1 DEF IInv, Typed, NothingLeaks, Settled
<1>4. timers' = pending' /\ sinks' = pending' \cap Streams
  BY <1>1 DEF IInv, NothingLeaks
<1>5. \A q \in Requests : call[q] \in Settled => call'[q] = call[q]
  BY <1>1 DEF IInv, Typed, NothingLeaks, Settled
<1> QED
  BY <1>2, <1>3, <1>4, <1>5 DEF NothingLeaks

(* A message from the host: output keeps its call, a reply ends it.        *)
LEMMA ReceiveIInv ==
  ASSUME IInv, Receive
  PROVE  IInv' /\ \A q \in Requests : call[q] \in Settled => call'[q] = call[q]
<1> DEFINE msg == Head(toControl)
<1>1. /\ toControl # <<>> /\ toControl' = Tail(toControl)
      /\ UNCHANGED <<link, toAgent, running>>
      /\ \/ msg.kind = "chunk" /\ ReceiveChunk(msg.req)
         \/ msg.kind = "answer" /\ ReceiveReply(msg.req, "resolved")
         \/ msg.kind = "error" /\ ReceiveReply(msg.req, "failed")
  BY DEF Receive, agent
<1>2. msg \in Message /\ toControl' \in Seq(Message)
  BY <1>1 DEF IInv, Typed
<1>3. msg.req \in Requests
  BY <1>2 DEF Message
<1> HIDE DEF msg
<1>4. CASE ReceiveChunk(msg.req)
  <2>1. UNCHANGED <<call, pending, sinks>> /\ timers' = timers
    BY <1>4 DEF ReceiveChunk, IInv, NothingLeaks
  <2> QED
    BY <1>1, <1>2, <2>1 DEF IInv, Typed, NothingLeaks
<1>5. CASE \E outcome \in Settled : ReceiveReply(msg.req, outcome)
  <2>1. PICK outcome \in Settled : ReceiveReply(msg.req, outcome)
    BY <1>5
  <2> QED
    BY <1>1, <1>2, <1>3, <2>1, ReplyEnds DEF IInv, Typed
<1> QED
  BY <1>1, <1>4, <1>5 DEF Settled

(* A timer that fires is that of a pending call.                           *)
LEMMA TimeoutIInv ==
  ASSUME IInv, NEW r \in Requests, Timeout(r)
  PROVE  IInv' /\ \A q \in Requests : call[q] \in Settled => call'[q] = call[q]
<1>1. /\ r \in timers /\ call' = [call EXCEPT ![r] = "failed"]
      /\ timers' = timers \ {r} /\ pending' = pending \ {r} /\ sinks' = sinks \ {r}
      /\ UNCHANGED <<link, toAgent, running, toControl>>
  BY DEF Timeout, agent
<1>2. call[r] = "waiting"
  BY <1>1 DEF IInv, NothingLeaks
<1>3. Typed'
  BY <1>1 DEF IInv, Typed, Settled
<1>4. NothingLeaks'
  BY <1>1 DEF IInv, Typed, NothingLeaks
<1>5. \A q \in Requests : call[q] \in Settled => call'[q] = call[q]
  BY <1>1, <1>2 DEF IInv, Typed, Settled
<1> QED
  BY <1>3, <1>4, <1>5 DEF IInv

(* A disconnect settles every call that waits, and touches no other.       *)
LEMMA DisconnectIInv ==
  ASSUME IInv, Disconnect
  PROVE  /\ IInv'
         /\ \A q \in Requests : call'[q] # "waiting"
         /\ \A q \in Requests : call[q] \in Settled => call'[q] = call[q]
<1>1. /\ link' = "down" /\ toAgent' = <<>> /\ toControl' = <<>> /\ running' = running
      /\ call' = [r \in Requests |-> IF r \in pending THEN "failed" ELSE call[r]]
      /\ timers' = timers \ pending /\ pending' = {} /\ sinks' = {}
  BY DEF Disconnect, agent
<1>2. \A q \in Requests : call'[q] # "waiting"
  BY <1>1 DEF IInv, NothingLeaks
<1>3. Typed'
  BY <1>1 DEF IInv, Typed, Settled
<1>4. NothingLeaks'
  BY <1>1, <1>2 DEF IInv, NothingLeaks
<1>5. \A q \in Requests : call[q] \in Settled => call'[q] = call[q]
  BY <1>1 DEF IInv, NothingLeaks, Settled
<1> QED
  BY <1>2, <1>3, <1>4, <1>5 DEF IInv

(* The host and the wire leave the calls alone.                            *)
LEMMA HostIInv ==
  ASSUME IInv,
         \/ Fade
         \/ OnMessage
         \/ \E r \in Requests : Output(r) \/ Reply(r, "answer") \/ Reply(r, "error")
  PROVE  IInv' /\ UNCHANGED call
<1>1. UNCHANGED <<call, pending, timers, sinks>>
  BY DEF Fade, OnMessage, Output, Reply, caller
<1>2. Typed'
  <2>1. CASE Fade
    BY <2>1 DEF Fade, IInv, Typed, caller, agent
  <2>2. CASE OnMessage
    BY <2>2 DEF OnMessage, IInv, Typed, caller
  <2>3. ASSUME NEW r \in Requests, Output(r) \/ Reply(r, "answer") \/ Reply(r, "error")
        PROVE  Typed'
    <3>1. PICK k \in {"chunk", "answer", "error"} : SendNode([req |-> r, kind |-> k])
      BY <2>3 DEF Output, Reply
    <3>2. toControl' \in Seq(Message)
      <4>1. [req |-> r, kind |-> k] \in Message
        BY MessageOf
      <4>2. toControl \in Seq(Message)
        BY DEF IInv, Typed
      <4> QED
        BY <3>1, <4>1, <4>2 DEF SendNode
    <3>3. running' \subseteq Requests /\ UNCHANGED <<link, toAgent>>
      BY <2>3 DEF Output, Reply, IInv, Typed, caller
    <3> QED
      BY <1>1, <3>2, <3>3 DEF IInv, Typed
  <2> QED
    BY <2>1, <2>2, <2>3
<1> QED
  BY <1>1, <1>2 DEF IInv, NothingLeaks

\* What a step does to the calls.
Once ==
  \A r \in Requests : call[r] \in Settled => call'[r] = call[r]

Cleared ==
  link # "down" /\ link' = "down" => \A r \in Requests : call'[r] # "waiting"

LEMMA NextIInv == IInv /\ [Next]_vars => IInv' /\ Once /\ Cleared
<1> SUFFICES ASSUME IInv, [Next]_vars PROVE IInv' /\ Once /\ Cleared
  OBVIOUS
<1>1. ASSUME NEW r \in Requests, Request(r) \/ StreamExec(r) PROVE IInv' /\ Once /\ Cleared
  <2>1. call' = [call EXCEPT ![r] = "waiting"] /\ call[r] = "idle" /\ link' = link
    BY <1>1 DEF Request, StreamExec
  <2> QED
    BY <1>1, <2>1, CallIInv DEF Once, Cleared, IInv, Typed, Settled
<1>2. ASSUME NEW r \in Requests, Timeout(r) PROVE IInv' /\ Once /\ Cleared
  <2>1. link' = link
    BY <1>2 DEF Timeout
  <2> QED
    BY <1>2, <2>1, TimeoutIInv DEF Once, Cleared
<1>3. CASE Receive
  <2>1. link' = link
    BY <1>3 DEF Receive
  <2> QED
    BY <1>3, <2>1, ReceiveIInv DEF Once, Cleared
<1>4. CASE Disconnect
  BY <1>4, DisconnectIInv DEF Once, Cleared
<1>5. CASE \/ Fade
           \/ OnMessage
           \/ \E r \in Requests : Output(r) \/ Reply(r, "answer") \/ Reply(r, "error")
  <2>1. link' # "down" \/ link' = link
    BY <1>5 DEF Fade, OnMessage, Output, Reply
  <2> QED
    BY <1>5, <2>1, HostIInv DEF Once, Cleared
<1>6. CASE UNCHANGED vars
  BY <1>6 DEF vars, caller, agent, IInv, Typed, NothingLeaks, Once, Cleared
<1> QED
  BY <1>1, <1>2, <1>3, <1>4, <1>5, <1>6 DEF Next

(* HostAgent keeps an entry, a timer and a sink for exactly the calls that *)
(* wait, whatever settles them: a reply, an error, a timeout, a disconnect.*)
THEOREM Bookkeeping == Spec => []NothingLeaks
<1>1. IInv => NothingLeaks
  BY DEF IInv
<1> QED
  BY InitIInv, NextIInv, <1>1, PTL DEF Spec

(* The promise of request and streamExec is settled once: a late reply     *)
(* changes nothing.                                                        *)
THEOREM Settlement == Spec => SettledOnce
<1>1. SettledOnce <=> [][Once]_vars
  BY PTL DEF SettledOnce, Once
<1> QED
  BY InitIInv, NextIInv, <1>1, PTL DEF Spec

(* disconnect rejects every call that is pending on the connection.        *)
THEOREM DisconnectionIsHeard == Spec => DisconnectSettlesAll
<1>1. DisconnectSettlesAll <=> [][Cleared]_vars
  BY PTL DEF DisconnectSettlesAll, Cleared
<1> QED
  BY InitIInv, NextIInv, <1>1, PTL DEF Spec

-----------------------------------------------------------------------------
(* The refinement: what each action is in the ledger.                      *)

\* What the ledger shows.
ledger == <<link = "down", call, got>>

\* The ledger's actions under the mapping, without its vocabulary.
Begins(r) ==
  call[r] = "idle" /\ call' = [call EXCEPT ![r] = "waiting"] /\ got' = got

Hears(r) ==
  call[r] = "waiting" /\ got' = [got EXCEPT ![r] = @ + 1] /\ call' = call

Settles(r) ==
  /\ call[r] = "waiting"
  /\ \E outcome \in {"resolved", "failed"} : call' = [call EXCEPT ![r] = outcome]
  /\ got' = got

Closes ==
  /\ link # "down" /\ link' = "down"
  /\ call' = [r \in Requests |-> IF call[r] = "waiting" THEN "failed" ELSE call[r]]
  /\ got' = got

LedgerStep ==
  \/ /\ (link' = "down") = (link = "down")
     /\ \/ \E r \in Requests : Begins(r) \/ Hears(r) \/ Settles(r)
        \/ UNCHANGED <<call, got>>
  \/ Closes

LEMMA ReceiveStep ==
  ASSUME IInv, Receive
  PROVE  LedgerStep
<1> DEFINE msg == Head(toControl)
<1>1. /\ toControl # <<>> /\ UNCHANGED link
      /\ \/ msg.kind = "chunk" /\ ReceiveChunk(msg.req)
         \/ msg.kind = "answer" /\ ReceiveReply(msg.req, "resolved")
         \/ msg.kind = "error" /\ ReceiveReply(msg.req, "failed")
  BY DEF Receive
<1>2. msg \in Message
  BY <1>1 DEF IInv, Typed
<1>3. msg.req \in Requests
  BY <1>2 DEF Message
<1> HIDE DEF msg
<1>4. CASE ReceiveChunk(msg.req)
  <2>1. CASE msg.req \in sinks
    <3>1. call[msg.req] = "waiting"
      BY <2>1 DEF IInv, NothingLeaks
    <3>2. Hears(msg.req)
      BY <1>4, <2>1, <3>1 DEF ReceiveChunk, Hears
    <3> QED
      BY <1>1, <1>3, <3>2 DEF LedgerStep
  <2>2. CASE msg.req \notin sinks
    BY <1>1, <1>4, <2>2 DEF ReceiveChunk, LedgerStep
  <2> QED
    BY <2>1, <2>2
<1>5. ASSUME NEW outcome \in {"resolved", "failed"}, ReceiveReply(msg.req, outcome)
      PROVE  LedgerStep
  <2>1. CASE msg.req \in pending
    <3>1. call[msg.req] = "waiting"
      BY <2>1 DEF IInv, NothingLeaks
    <3>2. Settles(msg.req)
      BY <1>5, <2>1, <3>1 DEF ReceiveReply, Settles
    <3> QED
      BY <1>1, <1>3, <3>2 DEF LedgerStep
  <2>2. CASE msg.req \notin pending
    <3>1. call' = call /\ got' = got
      BY <1>5, <2>2 DEF ReceiveReply, IInv, Typed
    <3> QED
      BY <1>1, <3>1 DEF LedgerStep
  <2> QED
    BY <2>1, <2>2
<1> QED
  BY <1>1, <1>4, <1>5

LEMMA NextStep == IInv /\ [Next]_vars => LedgerStep
<1> SUFFICES ASSUME IInv, [Next]_vars PROVE LedgerStep
  OBVIOUS
<1>1. ASSUME NEW r \in Requests, Request(r) \/ StreamExec(r) PROVE LedgerStep
  <2>1. Begins(r) /\ link' = link
    BY <1>1 DEF Request, StreamExec, Begins
  <2> QED
    BY <2>1 DEF LedgerStep
<1>2. ASSUME NEW r \in Requests, Timeout(r) PROVE LedgerStep
  <2>1. Settles(r) /\ link' = link
    BY <1>2 DEF Timeout, Settles, IInv, NothingLeaks
  <2> QED
    BY <2>1 DEF LedgerStep
<1>3. CASE Receive
  BY <1>3, ReceiveStep
<1>4. CASE Disconnect
  <2>1. Closes
    BY <1>4 DEF Disconnect, Closes, IInv, NothingLeaks
  <2> QED
    BY <2>1 DEF LedgerStep
<1>5. CASE \/ Fade
           \/ OnMessage
           \/ \E r \in Requests : Output(r) \/ Reply(r, "answer") \/ Reply(r, "error")
  <2>1. UNCHANGED <<call, got>> /\ (link' = "down") = (link = "down")
    BY <1>5 DEF Fade, OnMessage, Output, Reply, caller
  <2> QED
    BY <2>1 DEF LedgerStep
<1>6. CASE UNCHANGED vars
  BY <1>6 DEF vars, caller, LedgerStep
<1> QED
  BY <1>1, <1>2, <1>3, <1>4, <1>5, <1>6 DEF Next

LEMMA LedgerSteps == LedgerStep => [Ledger!LedgerNext]_ledger
<1> SUFFICES ASSUME LedgerStep PROVE [Ledger!LedgerNext]_ledger
  OBVIOUS
<1>1. ASSUME (link' = "down") = (link = "down"), NEW r \in Requests, Begins(r)
      PROVE  Ledger!LedgerNext
  BY <1>1 DEF Begins, Ledger!LedgerNext, Ledger!Begin
<1>2. ASSUME (link' = "down") = (link = "down"), NEW r \in Requests, Hears(r)
      PROVE  Ledger!LedgerNext
  BY <1>2 DEF Hears, Ledger!LedgerNext, Ledger!Hear
<1>3. ASSUME (link' = "down") = (link = "down"), NEW r \in Requests, Settles(r)
      PROVE  Ledger!LedgerNext
  BY <1>3 DEF Settles, Ledger!LedgerNext, Ledger!Settle
<1>4. ASSUME Closes PROVE Ledger!LedgerNext
  BY <1>4 DEF Closes, Ledger!LedgerNext, Ledger!CloseAll
<1>5. ASSUME (link' = "down") = (link = "down"), UNCHANGED <<call, got>>
      PROVE  UNCHANGED ledger
  BY <1>5 DEF ledger
<1> QED
  BY <1>1, <1>2, <1>3, <1>4, <1>5 DEF LedgerStep

(* HostAgent's requests implement the ledger: for any calls and any amount *)
(* of output, with replies, chunks, timeouts and the close in any order.   *)
THEOREM Refinement == Spec => ImplementsLedger
<1>1. Init => Ledger!LedgerInit
  BY DEF Init, Ledger!LedgerInit
<1>2. IInv /\ [Next]_vars => [Ledger!LedgerNext]_ledger
  BY NextStep, LedgerSteps
<1>3. Spec => []IInv
  BY InitIInv, NextIInv, PTL DEF Spec
<1> QED
  BY <1>1, <1>2, <1>3, PTL DEF Spec, ImplementsLedger, Ledger!LedgerSpec, ledger
-----------------------------------------------------------------------------
(* The output of a stream, counted: what the caller has heard and what is  *)
(* on the wire ahead of the reply is what the agent has sent.              *)

\* The chunks of `r` among the first `n` messages of a wire.
ChunksTo(wire, r, n) == {j \in 1..n : wire[j].kind = "chunk" /\ wire[j].req = r}

Count(wire, r, n) == Cardinality(ChunksTo(wire, r, n))

LEMMA CountType ==
  ASSUME NEW wire, NEW r, NEW n \in Nat
  PROVE  /\ IsFiniteSet(ChunksTo(wire, r, n))
         /\ Count(wire, r, n) \in Nat
<1>1. IsFiniteSet(1..n)
  BY FS_Interval
<1>2. ChunksTo(wire, r, n) \in SUBSET (1..n)
  BY DEF ChunksTo
<1>3. IsFiniteSet(ChunksTo(wire, r, n))
  BY <1>1, <1>2, FS_Subset
<1> QED
  BY <1>3, FS_CardinalityType DEF Count

(* Wires that begin alike hold as many chunks there.                       *)
LEMMA CountSame ==
  ASSUME NEW wire, NEW other, NEW r, NEW n \in Nat, \A j \in 1..n : wire[j] = other[j]
  PROVE  Count(wire, r, n) = Count(other, r, n)
<1>1. ChunksTo(wire, r, n) = ChunksTo(other, r, n)
  BY DEF ChunksTo
<1> QED
  BY <1>1 DEF Count

(* Handling the first message moves every other one up by a place.         *)
LEMMA CountTail ==
  ASSUME NEW wire \in Seq(Message), wire # <<>>, NEW r, NEW n \in Nat, n < Len(wire)
  PROVE  Count(wire, r, n + 1) =
           Count(Tail(wire), r, n)
             + IF Head(wire).kind = "chunk" /\ Head(wire).req = r THEN 1 ELSE 0
<1> DEFINE S == ChunksTo(Tail(wire), r, n)
           T == ChunksTo(wire, r, n + 1)
           f == [j \in S |-> j + 1]
<1>1. \A j \in 1..n : Tail(wire)[j] = wire[j + 1]
  OBVIOUS
<1>2. f \in Bijection(S, T \ {1})
  <2>1. \A j \in S : j \in 1..n /\ j + 1 \in T \ {1}
    BY <1>1 DEF ChunksTo
  <2>2. f \in [S -> T \ {1}]
    BY <2>1
  <2>3. \A i, j \in S : f[i] = f[j] => i = j
    BY <2>1
  <2>4. \A k \in T \ {1} : \E j \in S : f[j] = k
    <3> SUFFICES ASSUME NEW k \in T \ {1} PROVE \E j \in S : f[j] = k
      OBVIOUS
    <3>1. k \in 1..(n + 1) /\ k # 1 /\ wire[k].kind = "chunk" /\ wire[k].req = r
      BY DEF ChunksTo
    <3>2. k - 1 \in 1..n /\ (k - 1) + 1 = k
      BY <3>1
    <3>3. Tail(wire)[k - 1] = wire[k]
      BY <1>1, <3>2
    <3>4. k - 1 \in S
      BY <3>1, <3>2, <3>3 DEF ChunksTo
    <3> QED
      BY <3>2, <3>4
  <2> HIDE DEF f, S, T
  <2> QED
    BY <2>2, <2>3, <2>4 DEF Bijection, Injection, Surjection, IsInjective
<1>3. Cardinality(T \ {1}) = Cardinality(S)
  <2>1. IsFiniteSet(S)
    BY CountType
  <2>2. ExistsBijection(S, T \ {1})
    BY <1>2 DEF ExistsBijection
  <2> QED
    BY <2>1, <2>2, FS_Bijection
<1>4. 1 \in T <=> Head(wire).kind = "chunk" /\ Head(wire).req = r
  BY DEF ChunksTo
<1>5. /\ IsFiniteSet(T) /\ Cardinality(T) \in Nat
      /\ IsFiniteSet(S) /\ Cardinality(S) \in Nat
  <2>1. n + 1 \in Nat
    OBVIOUS
  <2> QED
    BY <2>1, CountType DEF Count
<1>6. Cardinality(T \ {1}) = IF 1 \in T THEN Cardinality(T) - 1 ELSE Cardinality(T)
  <2> HIDE DEF T
  <2> QED
    BY <1>5, FS_RemoveElement
<1> QED
  BY <1>3, <1>4, <1>5, <1>6 DEF Count

(* A message that is sent counts behind all the others.                    *)
LEMMA CountAppend ==
  ASSUME NEW wire \in Seq(Message), NEW msg \in Message, NEW r
  PROVE  /\ \A n \in 0..Len(wire) : Count(Append(wire, msg), r, n) = Count(wire, r, n)
         /\ Count(Append(wire, msg), r, Len(wire) + 1) =
              Count(wire, r, Len(wire)) + IF msg.kind = "chunk" /\ msg.req = r THEN 1 ELSE 0
<1> DEFINE longer == Append(wire, msg)
           k == Len(wire) + 1
<1>1. k \in Nat \ {0} /\ longer[k] = msg /\ \A j \in 1..Len(wire) : longer[j] = wire[j]
  OBVIOUS
<1>2. \A n \in 0..Len(wire) : Count(longer, r, n) = Count(wire, r, n)
  <2> SUFFICES ASSUME NEW n \in 0..Len(wire) PROVE Count(longer, r, n) = Count(wire, r, n)
    OBVIOUS
  <2>1. n \in Nat /\ \A j \in 1..n : longer[j] = wire[j]
    BY <1>1
  <2> HIDE DEF longer
  <2> QED
    BY <2>1, CountSame
<1>3. ChunksTo(longer, r, k) =
        IF msg.kind = "chunk" /\ msg.req = r THEN ChunksTo(longer, r, Len(wire)) \cup {k}
        ELSE ChunksTo(longer, r, Len(wire))
  BY <1>1 DEF ChunksTo
<1>4. k \notin ChunksTo(longer, r, Len(wire))
  BY DEF ChunksTo
<1>5. Count(longer, r, k) =
        Count(longer, r, Len(wire)) + IF msg.kind = "chunk" /\ msg.req = r THEN 1 ELSE 0
  BY <1>3, <1>4, CountType, FS_AddElement DEF Count
<1> QED
  BY <1>2, <1>5

-----------------------------------------------------------------------------
(* The invariant of the output.                                            *)

OutputTypes ==
  /\ got \in [Requests -> Nat]
  /\ sent \in [Requests -> Nat]

\* A call that was not made has left no trace.
Unborn ==
  \A r \in Requests : call[r] = "idle" =>
    /\ got[r] = 0 /\ sent[r] = 0 /\ r \notin running
    /\ \A i \in DOMAIN toAgent : toAgent[i] # r
    /\ \A j \in DOMAIN toControl : toControl[j].req # r

\* A request on the wire is there once, and nothing has come of it.
Unstarted ==
  \A i \in DOMAIN toAgent :
    /\ got[toAgent[i]] = 0 /\ sent[toAgent[i]] = 0
    /\ toAgent[i] \notin running /\ call[toAgent[i]] # "resolved"
    /\ \A k \in DOMAIN toAgent : toAgent[k] = toAgent[i] => k = i
    /\ \A j \in DOMAIN toControl : toControl[j].req # toAgent[i]

\* A reply is the last of its handler's messages.
RepliesEnd ==
  \A j \in DOMAIN toControl : toControl[j].kind # "chunk" =>
    /\ toControl[j].req \notin running
    /\ \A k \in DOMAIN toControl : toControl[k].req = toControl[j].req => k <= j

\* The handler of a call that ended well is gone.
Finished == \A r \in Requests : call[r] = "resolved" => r \notin running

\* What a stream's caller has heard, and the chunks it will hear before the
\* end, are all that was sent: up to now on a live link, or ahead of a reply.
OnTheWay ==
  \A r \in pending \cap Streams :
    /\ link = "up" /\ r \in running =>
         got[r] + Count(toControl, r, Len(toControl)) = sent[r]
    /\ \A j \in DOMAIN toControl : toControl[j].req = r /\ toControl[j].kind # "chunk" =>
         got[r] + Count(toControl, r, j - 1) = sent[r]

OutInv ==
  /\ OutputTypes
  /\ Unborn
  /\ Unstarted
  /\ RepliesEnd
  /\ Finished
  /\ OnTheWay
  /\ OutputComplete

LEMMA InitOutInv == Init => OutInv
BY RequestsAssumption DEF Init, OutInv, OutputTypes, Unborn, Unstarted, RepliesEnd, Finished,
   OnTheWay, OutputComplete

(* A new call appends a request that was nowhere before.                   *)
LEMMA CallOut ==
  ASSUME IInv, OutInv, NEW r \in Requests, Request(r) \/ StreamExec(r)
  PROVE  OutInv'
<1>1. /\ call[r] = "idle" /\ call' = [call EXCEPT ![r] = "waiting"]
      /\ pending' = pending \cup {r}
      /\ toAgent' = IF link = "up" THEN Append(toAgent, r) ELSE toAgent
      /\ UNCHANGED <<link, got, running, sent, toControl>>
  BY DEF Request, StreamExec, SendControl, agent
<1>2. /\ got[r] = 0 /\ sent[r] = 0 /\ r \notin running
      /\ \A i \in DOMAIN toAgent : toAgent[i] # r
      /\ \A j \in DOMAIN toControl : toControl[j].req # r
  BY <1>1 DEF OutInv, Unborn
<1>3. call \in [Requests -> {"idle", "waiting"} \cup Settled] /\ toAgent \in Seq(Requests)
  BY DEF IInv, Typed
<1>4. \A i \in DOMAIN toAgent' :
        \/ i \in DOMAIN toAgent /\ toAgent'[i] = toAgent[i]
        \/ i = Len(toAgent) + 1 /\ toAgent'[i] = r
  BY <1>1, <1>3
<1>5. OutputTypes' /\ Finished' /\ RepliesEnd' /\ OutputComplete'
  BY <1>1, <1>3, RequestsAssumption
     DEF OutInv, OutputTypes, Finished, RepliesEnd, OutputComplete
<1>6. Unborn'
  <2> SUFFICES ASSUME NEW q \in Requests, call'[q] = "idle"
               PROVE  /\ got'[q] = 0 /\ sent'[q] = 0 /\ q \notin running'
                      /\ \A i \in DOMAIN toAgent' : toAgent'[i] # q
                      /\ \A j \in DOMAIN toControl' : toControl'[j].req # q
    BY DEF Unborn
  <2>1. q # r /\ call[q] = "idle"
    BY <1>1, <1>3
  <2>2. \A i \in DOMAIN toAgent' : toAgent'[i] # q
    BY <1>4, <2>1 DEF OutInv, Unborn
  <2> QED
    BY <1>1, <2>1, <2>2 DEF OutInv, Unborn
<1>7. Unstarted'
  <2> SUFFICES ASSUME NEW i \in DOMAIN toAgent'
               PROVE  /\ got[toAgent'[i]] = 0 /\ sent[toAgent'[i]] = 0
                      /\ toAgent'[i] \notin running /\ call'[toAgent'[i]] # "resolved"
                      /\ \A k \in DOMAIN toAgent' : toAgent'[k] = toAgent'[i] => k = i
                      /\ \A j \in DOMAIN toControl : toControl[j].req # toAgent'[i]
    BY <1>1 DEF Unstarted
  <2>1. CASE i \in DOMAIN toAgent /\ toAgent'[i] = toAgent[i]
    BY <1>1, <1>2, <1>3, <1>4, <2>1 DEF OutInv, Unstarted
  <2>2. CASE i = Len(toAgent) + 1 /\ toAgent'[i] = r
    BY <1>1, <1>2, <1>3, <1>4, <2>2
  <2> QED
    BY <1>4, <2>1, <2>2
<1>8. OnTheWay'
  <2> SUFFICES ASSUME NEW q \in pending' \cap Streams
               PROVE  /\ link = "up" /\ q \in running =>
                           got[q] + Count(toControl, q, Len(toControl)) = sent[q]
                      /\ \A j \in DOMAIN toControl :
                           toControl[j].req = q /\ toControl[j].kind # "chunk" =>
                             got[q] + Count(toControl, q, j - 1) = sent[q]
    BY <1>1 DEF OnTheWay
  <2>1. CASE q = r
    BY <1>2, <2>1
  <2>2. CASE q \in pending
    BY <2>2 DEF OutInv, OnTheWay
  <2> QED
    BY <1>1, <2>1, <2>2
<1> QED
  BY <1>5, <1>6, <1>7, <1>8 DEF OutInv

(* What settles calls without a message, by a timer or the close event,    *)
(* ends none of them well.                                                 *)
LEMMA TimeoutOut ==
  ASSUME IInv, OutInv, NEW r \in Requests, Timeout(r)
  PROVE  OutInv'
<1>1. /\ call' = [call EXCEPT ![r] = "failed"] /\ pending' = pending \ {r}
      /\ UNCHANGED <<link, got, toAgent, running, sent, toControl>>
  BY DEF Timeout, agent
<1>2. call \in [Requests -> {"idle", "waiting"} \cup Settled]
  BY DEF IInv, Typed
<1>3. \A q \in Requests : /\ call'[q] = "idle" => call[q] = "idle"
                          /\ call'[q] = "resolved" => call[q] = "resolved"
  BY <1>1, <1>2
<1>4. toAgent \in Seq(Requests)
  BY DEF IInv, Typed
<1>5. OutputTypes' /\ RepliesEnd' /\ OnTheWay'
  BY <1>1 DEF OutInv, OutputTypes, RepliesEnd, OnTheWay
<1>6. Unborn' /\ Finished' /\ OutputComplete'
  BY <1>1, <1>3, RequestsAssumption DEF OutInv, Unborn, Finished, OutputComplete
<1>7. Unstarted'
  <2>1. \A i \in DOMAIN toAgent : call'[toAgent[i]] # "resolved"
    BY <1>3, <1>4 DEF OutInv, Unstarted
  <2> QED
    BY <1>1, <2>1 DEF OutInv, Unstarted
<1> QED
  BY <1>5, <1>6, <1>7 DEF OutInv

LEMMA DisconnectOut ==
  ASSUME IInv, OutInv, Disconnect
  PROVE  OutInv'
<1>1. /\ call' = [r \in Requests |-> IF r \in pending THEN "failed" ELSE call[r]]
      /\ pending' = {} /\ toAgent' = <<>> /\ toControl' = <<>>
      /\ UNCHANGED <<got, running, sent>>
  BY DEF Disconnect, agent
<1>2. \A q \in Requests : /\ call'[q] = "idle" => call[q] = "idle"
                          /\ call'[q] = "resolved" => call[q] = "resolved"
  BY <1>1
<1> QED
  BY <1>1, <1>2, RequestsAssumption
     DEF OutInv, OutputTypes, Unborn, Unstarted, RepliesEnd, Finished, OnTheWay, OutputComplete

(* The link dies: what is left of the wire is its beginning.               *)
LEMMA FadeOut ==
  ASSUME IInv, OutInv, Fade
  PROVE  OutInv'
<1>1. PICK n \in 0..Len(toControl) : toControl' = SubSeq(toControl, 1, n)
  BY DEF Fade
<1>2. /\ link' = "half" /\ toAgent' = <<>>
      /\ UNCHANGED <<call, pending, got, running, sent>>
  BY DEF Fade, caller, agent
<1>3. toControl \in Seq(Message)
  BY DEF IInv, Typed
<1>4. /\ DOMAIN toControl' = 1..n /\ 1..n \subseteq DOMAIN toControl
      /\ \A j \in 1..n : toControl'[j] = toControl[j]
  BY <1>1, <1>3
<1>5. OutputTypes' /\ Unstarted' /\ Finished' /\ OutputComplete'
  BY <1>2 DEF OutInv, OutputTypes, Unstarted, Finished, OutputComplete
<1>6. Unborn' /\ RepliesEnd'
  BY <1>2, <1>4 DEF OutInv, Unborn, RepliesEnd
<1>7. OnTheWay'
  <2> SUFFICES ASSUME NEW r \in pending \cap Streams, NEW j \in 1..n,
                      toControl[j].req = r, toControl[j].kind # "chunk"
               PROVE  got[r] + Count(toControl', r, j - 1) = sent[r]
    BY <1>2, <1>4 DEF OnTheWay
  <2>1. j - 1 \in Nat /\ \A k \in 1..(j - 1) : toControl'[k] = toControl[k]
    BY <1>4
  <2>2. Count(toControl', r, j - 1) = Count(toControl, r, j - 1)
    BY <2>1, CountSame
  <2> QED
    BY <1>4, <2>2 DEF OutInv, OnTheWay
<1> QED
  BY <1>5, <1>6, <1>7 DEF OutInv

(* The first request on the wire gets a handler; it has sent nothing.      *)
LEMMA OnMessageOut ==
  ASSUME IInv, OutInv, OnMessage
  PROVE  OutInv'
<1> DEFINE q == Head(toAgent)
<1>1. /\ toAgent # <<>> /\ toAgent' = Tail(toAgent) /\ running' = running \cup {q}
      /\ UNCHANGED <<link, call, pending, got, sent, toControl>>
  BY DEF OnMessage, caller
<1>2. toAgent \in Seq(Requests) /\ toControl \in Seq(Message)
  BY DEF IInv, Typed
<1>3. /\ 1 \in DOMAIN toAgent /\ q = toAgent[1] /\ q \in Requests
      /\ \A i \in DOMAIN toAgent' : i + 1 \in DOMAIN toAgent /\ toAgent'[i] = toAgent[i + 1]
                                  /\ i \in Nat /\ i + 1 # 1
  BY <1>1, <1>2
<1>4. /\ got[q] = 0 /\ sent[q] = 0 /\ call[q] # "resolved"
      /\ \A k \in DOMAIN toAgent : toAgent[k] = q => k = 1
      /\ \A j \in DOMAIN toControl : toControl[j].req # q
  BY <1>3 DEF OutInv, Unstarted
<1> HIDE DEF q
<1>5. OutputTypes' /\ OutputComplete'
  BY <1>1 DEF OutInv, OutputTypes, OutputComplete
<1>6. Unborn'
  <2> SUFFICES ASSUME NEW r \in Requests, call[r] = "idle"
               PROVE  /\ got[r] = 0 /\ sent[r] = 0 /\ r \notin running'
                      /\ \A i \in DOMAIN toAgent' : toAgent'[i] # r
                      /\ \A j \in DOMAIN toControl : toControl[j].req # r
    BY <1>1 DEF Unborn
  <2>1. /\ got[r] = 0 /\ sent[r] = 0 /\ r \notin running
        /\ \A i \in DOMAIN toAgent : toAgent[i] # r
        /\ \A j \in DOMAIN toControl : toControl[j].req # r
    BY DEF OutInv, Unborn
  <2> QED
    BY <1>1, <1>3, <2>1
<1>7. Unstarted'
  <2> SUFFICES ASSUME NEW i \in DOMAIN toAgent'
               PROVE  /\ got[toAgent'[i]] = 0 /\ sent[toAgent'[i]] = 0
                      /\ toAgent'[i] \notin running' /\ call[toAgent'[i]] # "resolved"
                      /\ \A k \in DOMAIN toAgent' : toAgent'[k] = toAgent'[i] => k = i
                      /\ \A j \in DOMAIN toControl : toControl[j].req # toAgent'[i]
    BY <1>1 DEF Unstarted
  <2>1. i + 1 \in DOMAIN toAgent /\ toAgent'[i] = toAgent[i + 1] /\ i \in Nat /\ i + 1 # 1
    BY <1>3
  <2>2. /\ got[toAgent[i + 1]] = 0 /\ sent[toAgent[i + 1]] = 0
        /\ toAgent[i + 1] \notin running /\ call[toAgent[i + 1]] # "resolved"
        /\ \A k \in DOMAIN toAgent : toAgent[k] = toAgent[i + 1] => k = i + 1
        /\ \A j \in DOMAIN toControl : toControl[j].req # toAgent[i + 1]
    BY <2>1 DEF OutInv, Unstarted
  <2>3. toAgent[i + 1] # q
    BY <1>4, <2>1
  <2>4. \A k \in DOMAIN toAgent' : toAgent'[k] = toAgent'[i] => k = i
    BY <1>3, <2>1, <2>2
  <2> QED
    BY <1>1, <2>1, <2>2, <2>3, <2>4
<1>8. RepliesEnd' /\ Finished'
  BY <1>1, <1>4 DEF OutInv, RepliesEnd, Finished
<1>9. OnTheWay'
  <2> SUFFICES ASSUME NEW r \in pending \cap Streams
               PROVE  /\ link = "up" /\ r \in running' =>
                           got[r] + Count(toControl, r, Len(toControl)) = sent[r]
                      /\ \A j \in DOMAIN toControl :
                           toControl[j].req = r /\ toControl[j].kind # "chunk" =>
                             got[r] + Count(toControl, r, j - 1) = sent[r]
    BY <1>1 DEF OnTheWay
  <2>1. CASE r = q
    <3>1. ChunksTo(toControl, q, Len(toControl)) = {}
      BY <1>2, <1>4 DEF ChunksTo
    <3>2. Count(toControl, q, Len(toControl)) = 0
      BY <3>1, FS_EmptySet DEF Count
    <3> QED
      BY <1>4, <2>1, <3>2
  <2>2. CASE r # q
    BY <1>1, <2>2 DEF OutInv, OnTheWay
  <2> QED
    BY <2>1, <2>2
<1> QED
  BY <1>5, <1>6, <1>7, <1>8, <1>9 DEF OutInv

(* A handler sends a message: output while it runs, its reply at the end.  *)
LEMMA SendOut ==
  ASSUME IInv, OutInv, NEW r \in Requests,
         Output(r) \/ Reply(r, "answer") \/ Reply(r, "error")
  PROVE  OutInv'
<1>1. PICK k \in {"chunk", "answer", "error"} :
        /\ r \in running
        /\ SendNode([req |-> r, kind |-> k])
        /\ k = "chunk" => running' = running /\ sent' = [sent EXCEPT ![r] = @ + 1]
        /\ k # "chunk" => running' = running \ {r} /\ sent' = sent
        /\ UNCHANGED <<link, call, pending, got, toAgent>>
  BY DEF Output, Reply, caller
<1> DEFINE msg == [req |-> r, kind |-> k]
<1>2. /\ msg \in Message /\ msg.req = r /\ msg.kind = k
      /\ toControl \in Seq(Message) /\ toAgent \in Seq(Requests)
      /\ pending \subseteq Requests
  BY MessageOf DEF IInv, Typed, NothingLeaks
<1>3. toControl' = IF link = "up" THEN Append(toControl, msg) ELSE toControl
  BY <1>1 DEF SendNode
<1> HIDE DEF msg
<1>4. \A j \in DOMAIN toControl' :
        \/ j \in DOMAIN toControl /\ toControl'[j] = toControl[j]
        \/ link = "up" /\ j = Len(toControl) + 1 /\ toControl'[j] = msg
  BY <1>2, <1>3
<1>5. /\ call[r] \notin {"idle", "resolved"}
      /\ \A i \in DOMAIN toAgent : toAgent[i] # r
      /\ \A j \in DOMAIN toControl : toControl[j].req = r => toControl[j].kind = "chunk"
  BY <1>1 DEF OutInv, Unborn, Unstarted, RepliesEnd, Finished
<1>6. /\ sent' \in [Requests -> Nat] /\ running' \subseteq running
      /\ \A q \in Requests : q # r => sent'[q] = sent[q] /\ (q \in running' <=> q \in running)
  BY <1>1 DEF OutInv, OutputTypes
<1>7. OutputTypes' /\ Finished'
  BY <1>1, <1>6 DEF OutInv, OutputTypes, Finished
<1>8. OutputComplete'
  <2>1. \A q \in Streams : call[q] = "resolved" => q # r
    BY <1>5
  <2> QED
    BY <1>1, <1>6, <2>1, RequestsAssumption DEF OutInv, OutputComplete
<1>9. Unborn'
  <2> SUFFICES ASSUME NEW q \in Requests, call[q] = "idle"
               PROVE  /\ got[q] = 0 /\ sent'[q] = 0 /\ q \notin running'
                      /\ \A i \in DOMAIN toAgent : toAgent[i] # q
                      /\ \A j \in DOMAIN toControl' : toControl'[j].req # q
    BY <1>1 DEF Unborn
  <2>1. /\ got[q] = 0 /\ sent[q] = 0 /\ q \notin running
        /\ \A i \in DOMAIN toAgent : toAgent[i] # q
        /\ \A j \in DOMAIN toControl : toControl[j].req # q
    BY DEF OutInv, Unborn
  <2>2. q # r
    BY <1>5
  <2> QED
    BY <1>2, <1>4, <1>6, <2>1, <2>2
<1>10. Unstarted'
  <2> SUFFICES ASSUME NEW i \in DOMAIN toAgent
               PROVE  /\ got[toAgent[i]] = 0 /\ sent'[toAgent[i]] = 0
                      /\ toAgent[i] \notin running' /\ call[toAgent[i]] # "resolved"
                      /\ \A l \in DOMAIN toAgent : toAgent[l] = toAgent[i] => l = i
                      /\ \A j \in DOMAIN toControl' : toControl'[j].req # toAgent[i]
    BY <1>1 DEF Unstarted
  <2>1. /\ got[toAgent[i]] = 0 /\ sent[toAgent[i]] = 0
        /\ toAgent[i] \notin running /\ call[toAgent[i]] # "resolved"
        /\ \A l \in DOMAIN toAgent : toAgent[l] = toAgent[i] => l = i
        /\ \A j \in DOMAIN toControl : toControl[j].req # toAgent[i]
    BY DEF OutInv, Unstarted
  <2>2. toAgent[i] # r /\ toAgent[i] \in Requests
    BY <1>2, <1>5
  <2> QED
    BY <1>2, <1>4, <1>6, <2>1, <2>2
<1>11. RepliesEnd'
  <2> SUFFICES ASSUME NEW j \in DOMAIN toControl', toControl'[j].kind # "chunk"
               PROVE  /\ toControl'[j].req \notin running'
                      /\ \A l \in DOMAIN toControl' :
                           toControl'[l].req = toControl'[j].req => l <= j
    BY DEF RepliesEnd
  <2>1. CASE j \in DOMAIN toControl /\ toControl'[j] = toControl[j]
    <3>1. /\ toControl[j].req \notin running /\ toControl[j].req # r
          /\ \A l \in DOMAIN toControl : toControl[l].req = toControl[j].req => l <= j
      BY <1>5, <2>1 DEF OutInv, RepliesEnd
    <3> QED
      BY <1>2, <1>4, <1>6, <2>1, <3>1
  <2>2. CASE j = Len(toControl) + 1 /\ toControl'[j] = msg
    <3>1. running' = running \ {r}
      BY <1>1, <1>2, <2>2
    <3> QED
      BY <1>2, <1>4, <2>2, <3>1
  <2> QED
    BY <1>4, <2>1, <2>2
<1>12. OnTheWay'
  <2> SUFFICES ASSUME NEW q \in pending \cap Streams
               PROVE  /\ link = "up" /\ q \in running' =>
                           got[q] + Count(toControl', q, Len(toControl')) = sent'[q]
                      /\ \A j \in DOMAIN toControl' :
                           toControl'[j].req = q /\ toControl'[j].kind # "chunk" =>
                             got[q] + Count(toControl', q, j - 1) = sent'[q]
    BY <1>1 DEF OnTheWay
  <2>1. /\ link = "up" /\ q \in running =>
             got[q] + Count(toControl, q, Len(toControl)) = sent[q]
        /\ \A j \in DOMAIN toControl : toControl[j].req = q /\ toControl[j].kind # "chunk" =>
             got[q] + Count(toControl, q, j - 1) = sent[q]
    BY DEF OutInv, OnTheWay
  <2>2. q \in Requests /\ got[q] \in Nat /\ sent[q] \in Nat /\ Len(toControl) \in Nat
    BY <1>2 DEF OutInv, OutputTypes
  <2>3. Count(toControl, q, Len(toControl)) \in Nat
    BY <2>2, CountType
  <2>4. ASSUME link = "up", q \in running'
        PROVE  got[q] + Count(toControl', q, Len(toControl')) = sent'[q]
    <3>1. toControl' = Append(toControl, msg) /\ Len(toControl') = Len(toControl) + 1
      BY <1>2, <1>3, <2>4
    <3>2. Count(toControl', q, Len(toControl')) =
            Count(toControl, q, Len(toControl)) + IF k = "chunk" /\ r = q THEN 1 ELSE 0
      BY <1>2, <3>1, CountAppend
    <3>3. q \in running /\ sent'[q] = sent[q] + IF k = "chunk" /\ r = q THEN 1 ELSE 0
      BY <1>1, <1>6, <2>2, <2>4 DEF OutInv, OutputTypes
    <3> QED
      BY <2>1, <2>2, <2>3, <2>4, <3>2, <3>3
  <2>5. ASSUME NEW j \in DOMAIN toControl',
               toControl'[j].req = q, toControl'[j].kind # "chunk"
        PROVE  got[q] + Count(toControl', q, j - 1) = sent'[q]
    <3>1. CASE j \in DOMAIN toControl /\ toControl'[j] = toControl[j]
      <4>1. q # r
        BY <1>5, <2>5, <3>1
      <4>2. j - 1 \in Nat /\ \A l \in 1..(j - 1) : toControl'[l] = toControl[l]
        BY <1>2, <1>3, <3>1
      <4>3. Count(toControl', q, j - 1) = Count(toControl, q, j - 1)
        BY <4>2, CountSame
      <4> QED
        BY <1>6, <2>1, <2>2, <2>5, <3>1, <4>1, <4>3
    <3>2. CASE link = "up" /\ j = Len(toControl) + 1 /\ toControl'[j] = msg
      <4>1. q = r /\ k # "chunk" /\ sent' = sent
        BY <1>1, <1>2, <2>5, <3>2
      <4>2. j - 1 = Len(toControl) /\ toControl' = Append(toControl, msg)
        BY <1>2, <1>3, <3>2
      <4>3. Count(toControl', q, j - 1) = Count(toControl, q, Len(toControl))
        BY <1>2, <4>2, CountAppend
      <4> QED
        BY <1>1, <2>1, <3>2, <4>1, <4>3
    <3> QED
      BY <1>4, <3>1, <3>2
  <2> QED
    BY <2>4, <2>5
<1> QED
  BY <1>7, <1>8, <1>9, <1>10, <1>11, <1>12 DEF OutInv

(* The first message from the host: output is heard if the call waits, and *)
(* a reply that ends it well finds that everything has been heard.         *)
LEMMA ReceiveOut ==
  ASSUME IInv, OutInv, Receive
  PROVE  OutInv'
<1> DEFINE msg == Head(toControl)
           r == msg.req
           one(q) == IF msg.kind = "chunk" /\ msg.req = q THEN 1 ELSE 0
<1>1. /\ toControl # <<>> /\ toControl' = Tail(toControl)
      /\ UNCHANGED <<link, toAgent, running, sent>>
      /\ \/ msg.kind = "chunk" /\ ReceiveChunk(r)
         \/ msg.kind = "answer" /\ ReceiveReply(r, "resolved")
         \/ msg.kind = "error" /\ ReceiveReply(r, "failed")
  BY DEF Receive, agent
<1>2. /\ toControl \in Seq(Message) /\ toAgent \in Seq(Requests) /\ pending \subseteq Requests
      /\ call \in [Requests -> {"idle", "waiting"} \cup Settled]
      /\ pending = {q \in Requests : call[q] = "waiting"} /\ sinks = pending \cap Streams
      /\ got \in [Requests -> Nat] /\ sent \in [Requests -> Nat]
  BY DEF IInv, Typed, NothingLeaks, OutInv, OutputTypes
<1>3. /\ 1 \in DOMAIN toControl /\ msg = toControl[1] /\ msg \in Message /\ r \in Requests
  <2>1. 1 \in DOMAIN toControl /\ msg = toControl[1] /\ msg \in Message
    BY <1>1, <1>2
  <2> HIDE DEF msg
  <2> QED
    BY <2>1 DEF Message
<1>4. \A j \in DOMAIN toControl' :
        /\ j \in Nat /\ j + 1 \in DOMAIN toControl /\ toControl'[j] = toControl[j + 1]
        /\ j - 1 \in Nat /\ j < Len(toControl) /\ (j - 1) + 1 = j
  <2>1. /\ Len(toControl) \in Nat /\ DOMAIN toControl = 1..Len(toControl)
        /\ DOMAIN toControl' = 1..(Len(toControl) - 1)
        /\ \A j \in 1..(Len(toControl) - 1) : toControl'[j] = toControl[j + 1]
    BY <1>1, <1>2
  <2> QED
    BY <2>1
<1>5. /\ call[r] # "idle" /\ \A i \in DOMAIN toAgent : toAgent[i] # r
  BY <1>3 DEF OutInv, Unborn, Unstarted
\* What the message does to the call, and to what was heard.
<1>6. /\ call' \in [Requests -> {"idle", "waiting"} \cup Settled]
      /\ \A q \in Requests : q # r => call'[q] = call[q]
      /\ call'[r] # "idle"
      /\ pending' \subseteq pending
      /\ call'[r] = "resolved" =>
           \/ call[r] = "resolved" /\ got' = got
           \/ r \in pending /\ msg.kind # "chunk" /\ got' = got
  BY <1>1, <1>2, <1>3, <1>5 DEF ReceiveChunk, ReceiveReply, Settled
<1>7. /\ got' \in [Requests -> Nat]
      /\ \A q \in pending' \cap Streams : got'[q] = got[q] + one(q)
      /\ \A q \in Requests : q # r => got'[q] = got[q]
      /\ r \notin pending => got' = got
  BY <1>1, <1>2, <1>3 DEF ReceiveChunk, ReceiveReply
<1>8. \A q, n : n \in Nat /\ n < Len(toControl) =>
        Count(toControl, q, n + 1) = Count(toControl', q, n) + one(q)
  BY <1>1, <1>2, CountTail
<1> HIDE DEF msg
<1>9. OutputTypes'
  BY <1>1, <1>7 DEF OutInv, OutputTypes
<1>10. Unborn'
  <2> SUFFICES ASSUME NEW q \in Requests, call'[q] = "idle"
               PROVE  /\ got'[q] = 0 /\ sent[q] = 0 /\ q \notin running
                      /\ \A i \in DOMAIN toAgent : toAgent[i] # q
                      /\ \A j \in DOMAIN toControl' : toControl'[j].req # q
    BY <1>1 DEF Unborn
  <2>1. q # r /\ call[q] = "idle"
    BY <1>6
  <2>2. /\ got[q] = 0 /\ sent[q] = 0 /\ q \notin running
        /\ \A i \in DOMAIN toAgent : toAgent[i] # q
        /\ \A j \in DOMAIN toControl : toControl[j].req # q
    BY <2>1 DEF OutInv, Unborn
  <2> QED
    BY <1>4, <1>7, <2>1, <2>2
<1>11. Unstarted'
  <2> SUFFICES ASSUME NEW i \in DOMAIN toAgent
               PROVE  /\ got'[toAgent[i]] = 0 /\ sent[toAgent[i]] = 0
                      /\ toAgent[i] \notin running /\ call'[toAgent[i]] # "resolved"
                      /\ \A l \in DOMAIN toAgent : toAgent[l] = toAgent[i] => l = i
                      /\ \A j \in DOMAIN toControl' : toControl'[j].req # toAgent[i]
    BY <1>1 DEF Unstarted
  <2>1. /\ got[toAgent[i]] = 0 /\ sent[toAgent[i]] = 0
        /\ toAgent[i] \notin running /\ call[toAgent[i]] # "resolved"
        /\ \A l \in DOMAIN toAgent : toAgent[l] = toAgent[i] => l = i
        /\ \A j \in DOMAIN toControl : toControl[j].req # toAgent[i]
    BY DEF OutInv, Unstarted
  <2>2. toAgent[i] # r /\ toAgent[i] \in Requests
    BY <1>2, <1>5
  <2> QED
    BY <1>4, <1>6, <1>7, <2>1, <2>2
<1>12. RepliesEnd'
  <2> SUFFICES ASSUME NEW j \in DOMAIN toControl', toControl'[j].kind # "chunk"
               PROVE  /\ toControl'[j].req \notin running
                      /\ \A l \in DOMAIN toControl' :
                           toControl'[l].req = toControl'[j].req => l <= j
    BY <1>1 DEF RepliesEnd
  <2>1. j \in Nat /\ j + 1 \in DOMAIN toControl /\ toControl'[j] = toControl[j + 1]
    BY <1>4
  <2>2. /\ toControl[j + 1].req \notin running
        /\ \A l \in DOMAIN toControl : toControl[l].req = toControl[j + 1].req => l <= j + 1
    BY <2>1 DEF OutInv, RepliesEnd
  <2> QED
    BY <1>4, <2>1, <2>2
\* A reply that is handled is the last message of its call.
<1>13. msg.kind # "chunk" => r \notin running /\ \A j \in DOMAIN toControl' : toControl'[j].req # r
  <2> SUFFICES ASSUME msg.kind # "chunk"
               PROVE  r \notin running /\ \A j \in DOMAIN toControl' : toControl'[j].req # r
    OBVIOUS
  <2>1. r \notin running /\ \A l \in DOMAIN toControl : toControl[l].req = r => l <= 1
    BY <1>3 DEF OutInv, RepliesEnd
  <2>2. ASSUME NEW j \in DOMAIN toControl' PROVE toControl'[j].req # r
    <3>1. /\ j \in Nat /\ j + 1 \in DOMAIN toControl /\ toControl'[j] = toControl[j + 1]
          /\ j - 1 \in Nat
      BY <1>4
    <3>2. ~(j + 1 <= 1)
      BY <3>1
    <3> QED
      BY <2>1, <3>1, <3>2
  <2> QED
    BY <2>1, <2>2
<1>14. Finished'
  <2>1. call'[r] = "resolved" => r \notin running
    BY <1>3, <1>6, <1>13 DEF OutInv, Finished
  <2> QED
    BY <1>1, <1>6, <2>1 DEF OutInv, Finished
<1>15. OutputComplete'
  <2> SUFFICES ASSUME NEW q \in Streams, call'[q] = "resolved" PROVE got'[q] = sent[q]
    BY <1>1 DEF OutputComplete
  <2>1. CASE call[q] = "resolved" /\ got'[q] = got[q]
    BY <2>1 DEF OutInv, OutputComplete
  <2>2. CASE q = r /\ q \in pending /\ msg.kind # "chunk" /\ got' = got
    <3>1. got[q] + Count(toControl, q, 0) = sent[q]
      BY <1>3, <2>2 DEF OutInv, OnTheWay
    <3>2. ChunksTo(toControl, q, 0) = {}
      BY DEF ChunksTo
    <3>3. Count(toControl, q, 0) = 0
      BY <3>2, FS_EmptySet DEF Count
    <3> QED
      BY <1>2, <1>3, <2>2, <3>1, <3>3
  <2> QED
    BY <1>6, <1>7, <2>1, <2>2, RequestsAssumption
<1>16. OnTheWay'
  <2> SUFFICES ASSUME NEW q \in pending' \cap Streams
               PROVE  /\ link = "up" /\ q \in running =>
                           got'[q] + Count(toControl', q, Len(toControl')) = sent[q]
                      /\ \A j \in DOMAIN toControl' :
                           toControl'[j].req = q /\ toControl'[j].kind # "chunk" =>
                             got'[q] + Count(toControl', q, j - 1) = sent[q]
    BY <1>1 DEF OnTheWay
  <2>1. q \in pending \cap Streams /\ got'[q] = got[q] + one(q) /\ q \in Requests
    BY <1>2, <1>6, <1>7
  <2>2. got[q] \in Nat /\ one(q) \in Nat /\ \A n \in Nat : Count(toControl', q, n) \in Nat
    BY <1>2, <2>1, CountType
  <2>3. ASSUME link = "up", q \in running
        PROVE  got'[q] + Count(toControl', q, Len(toControl')) = sent[q]
    <3>1. /\ Len(toControl') \in Nat /\ Len(toControl') < Len(toControl)
          /\ Len(toControl') + 1 = Len(toControl)
      BY <1>1, <1>2
    <3>2. got[q] + Count(toControl, q, Len(toControl)) = sent[q]
      BY <2>1, <2>3 DEF OutInv, OnTheWay
    <3>3. Count(toControl, q, Len(toControl)) = Count(toControl', q, Len(toControl')) + one(q)
      BY <1>8, <3>1
    <3> DEFINE left == Count(toControl', q, Len(toControl'))
    <3>4. left \in Nat /\ got[q] + (left + one(q)) = sent[q]
      BY <2>2, <3>1, <3>2, <3>3
    <3> HIDE DEF one, left
    <3>5. got'[q] + left = sent[q]
      BY <2>1, <2>2, <3>4
    <3> QED
      BY <3>5 DEF left
  <2>4. ASSUME NEW j \in DOMAIN toControl',
               toControl'[j].req = q, toControl'[j].kind # "chunk"
        PROVE  got'[q] + Count(toControl', q, j - 1) = sent[q]
    <3>1. /\ j + 1 \in DOMAIN toControl /\ toControl'[j] = toControl[j + 1] /\ (j + 1) - 1 = j
          /\ j \in Nat /\ j - 1 \in Nat /\ j - 1 < Len(toControl) /\ (j - 1) + 1 = j
      BY <1>4
    <3>2. got[q] + Count(toControl, q, j) = sent[q]
      BY <2>1, <2>4, <3>1 DEF OutInv, OnTheWay
    <3>3. Count(toControl, q, j) = Count(toControl', q, j - 1) + one(q)
      BY <1>8, <3>1
    <3>4. Count(toControl', q, j - 1) \in Nat
      BY <2>2, <3>1
    <3> HIDE DEF one
    <3> QED
      BY <2>1, <2>2, <3>2, <3>3, <3>4
  <2> QED
    BY <2>3, <2>4
<1> QED
  BY <1>9, <1>10, <1>11, <1>12, <1>14, <1>15, <1>16 DEF OutInv

LEMMA NextOutInv == IInv /\ OutInv /\ [Next]_vars => OutInv'
<1> SUFFICES ASSUME IInv, OutInv, [Next]_vars PROVE OutInv'
  OBVIOUS
<1>1. CASE UNCHANGED vars
  BY <1>1 DEF vars, caller, agent, OutInv, OutputTypes, Unborn, Unstarted, RepliesEnd,
     Finished, OnTheWay, OutputComplete
<1> QED
  BY <1>1, CallOut, TimeoutOut, SendOut, ReceiveOut, DisconnectOut, FadeOut, OnMessageOut DEF Next

(* A command that is reported as finished was heard to its end: runStream  *)
(* and execStream never resolve before, or with less than, the output.     *)
THEOREM NothingUnheard == Spec => []OutputComplete
<1>1. IInv /\ OutInv => OutputComplete
  BY DEF OutInv
<1>2. Init => IInv /\ OutInv
  BY InitIInv, InitOutInv
<1>3. IInv /\ OutInv /\ [Next]_vars => (IInv /\ OutInv)'
  BY NextIInv, NextOutInv
<1> QED
  BY <1>1, <1>2, <1>3, PTL DEF Spec
=============================================================================
