---------------------------- MODULE FleetProofs ----------------------------
(***************************************************************************)
(* The fleet's registry is consistent for any number of machines and       *)
(* connections: the safety invariants of Fleet, together, are inductive.   *)
(* Over it, the update of an installed agent waits only for a restart that *)
(* is under way, and judges the right process.                             *)
(***************************************************************************)
EXTENDS UpdateAgent, TLAPS, WellFoundedInduction, SequenceTheorems

-----------------------------------------------------------------------------
(* Lists of handles *)

Injective(list) == \A i, j \in DOMAIN list : list[i] = list[j] => i = j

(* A non-empty set of indices has a largest element.                       *)
LEMMA LargestExists ==
  ASSUME NEW n \in Nat, NEW S \in SUBSET (1..n), S # {}
  PROVE  \E i \in S : \A j \in S : j <= i
<1> DEFINE T == {n - i : i \in S}
<1>1. T \subseteq Nat
  OBVIOUS
<1>2. T # {}
  <2>1. PICK i \in S : TRUE
    OBVIOUS
  <2>2. n - i \in T
    BY <2>1
  <2> QED
    BY <2>2
<1>3. PICK x \in T : \A y \in T : <<y, x>> \notin OpToRel(<, Nat)
  BY <1>1, <1>2, NatLessThanWellFounded, WFMin
<1>4. \A y \in T : ~(y < x)
  BY <1>1, <1>3 DEF OpToRel
<1>5. PICK i \in S : x = n - i
  BY DEF T
<1>6. ASSUME NEW j \in S PROVE j <= i
  <2>1. n - j \in T
    OBVIOUS
  <2>2. ~(n - j < n - i)
    BY <1>4, <1>5, <2>1
  <2> QED
    BY <2>2
<1> QED
  BY <1>6

Peers == [Handles -> [machine : Machines, mode : AgentMode]]

(* Every non-empty list has an active handle: one that beats every other,  *)
(* and no other handle of the list does.                                   *)
LEMMA ActiveOfBeats ==
  ASSUME NEW who \in Peers, NEW list \in Seq(Handles), list # <<>>
  PROVE  \E i \in DOMAIN list :
            /\ ActiveOf(who, list) = list[i]
            /\ \A j \in DOMAIN list : Beats(who, list, i, j)
<1> DEFINE WithRank(r) == {i \in 1..Len(list) : Rank(who, list[i]) = r}
<1>1. \A i \in DOMAIN list : Rank(who, list[i]) \in 1..3
  BY DEF Rank, MODE_RANK, AgentMode, Peers
<1>2. DOMAIN list = 1..Len(list) /\ Len(list) \in Nat
  OBVIOUS
<1>3. ASSUME NEW r \in 1..3, WithRank(r) # {},
             \A i \in DOMAIN list : Rank(who, list[i]) <= r
      PROVE  \E i \in DOMAIN list : \A j \in DOMAIN list : Beats(who, list, i, j)
  <2>1. WithRank(r) \in SUBSET (1..Len(list))
    OBVIOUS
  <2> HIDE DEF WithRank
  <2>2. PICK i \in WithRank(r) : \A j \in WithRank(r) : j <= i
    BY <1>2, <1>3, <2>1, LargestExists
  <2> USE DEF WithRank
  <2>3. ASSUME NEW j \in DOMAIN list PROVE Beats(who, list, i, j)
    BY <1>1, <1>2, <1>3, <2>2 DEF Beats
  <2> QED
    BY <1>2, <2>3
<1>4. 1 \in DOMAIN list
  BY <1>2
<1>5. \E i \in DOMAIN list : \A j \in DOMAIN list : Beats(who, list, i, j)
  <2>1. CASE WithRank(3) # {}
    <3>1. \A i \in DOMAIN list : Rank(who, list[i]) <= 3
      BY <1>1
    <3> HIDE DEF WithRank
    <3> QED
      BY <1>3, <2>1, <3>1
  <2>2. CASE WithRank(3) = {} /\ WithRank(2) # {}
    <3>1. \A i \in DOMAIN list : Rank(who, list[i]) <= 2
      BY <1>1, <1>2, <2>2
    <3> QED
      BY <1>3, <2>2, <3>1
  <2>3. CASE WithRank(3) = {} /\ WithRank(2) = {}
    <3>1. \A i \in DOMAIN list : Rank(who, list[i]) = 1
      BY <1>1, <1>2, <2>3
    <3>2. 1 \in WithRank(1)
      BY <1>2, <1>4, <3>1
    <3>3. \A i \in DOMAIN list : Rank(who, list[i]) <= 1
      BY <3>1
    <3> HIDE DEF WithRank
    <3> QED
      BY <1>3, <3>2, <3>3
  <2> QED
    BY <2>1, <2>2, <2>3
<1> QED
  BY <1>5 DEF ActiveOf

(* A handle that beats every other one of its list is the active one.      *)
LEMMA ActiveOfUnique ==
  ASSUME NEW who \in Peers, NEW list \in Seq(Handles),
         NEW i \in DOMAIN list, \A j \in DOMAIN list : Beats(who, list, i, j)
  PROVE  ActiveOf(who, list) = list[i]
<1>1. list # <<>>
  OBVIOUS
<1>2. PICK k \in DOMAIN list : /\ ActiveOf(who, list) = list[k]
                               /\ \A j \in DOMAIN list : Beats(who, list, k, j)
  BY <1>1, ActiveOfBeats
<1>3. Rank(who, list[i]) \in Nat /\ Rank(who, list[k]) \in Nat
  BY DEF Rank, MODE_RANK, AgentMode, Peers
<1>4. i \in Nat /\ k \in Nat
  OBVIOUS
<1>5. Beats(who, list, i, k) /\ Beats(who, list, k, i)
  BY <1>2
<1>6. i = k
  BY <1>3, <1>4, <1>5 DEF Beats
<1> QED
  BY <1>2, <1>6

(* The active handle only depends on who is behind the handles listed.     *)
LEMMA ActiveOfSame ==
  ASSUME NEW who \in Peers, NEW new \in Peers, NEW list \in Seq(Handles), list # <<>>,
         \A i \in DOMAIN list : new[list[i]] = who[list[i]]
  PROVE  ActiveOf(new, list) = ActiveOf(who, list)
<1>1. PICK i \in DOMAIN list : /\ ActiveOf(who, list) = list[i]
                               /\ \A j \in DOMAIN list : Beats(who, list, i, j)
  BY ActiveOfBeats
<1>2. \A j \in DOMAIN list : Beats(new, list, i, j)
  BY <1>1 DEF Beats, Rank
<1> QED
  BY <1>1, <1>2, ActiveOfUnique

(* Arrival appends a handle that was not listed.                           *)
LEMMA AppendHandle ==
  ASSUME NEW list \in Seq(Handles), NEW c \in Handles,
         ~Contains(list, c), Injective(list)
  PROVE  /\ Append(list, c) \in Seq(Handles)
         /\ Append(list, c) # <<>>
         /\ Injective(Append(list, c))
         /\ \A h : Contains(Append(list, c), h) <=> Contains(list, h) \/ h = c
<1> DEFINE new == Append(list, c)
<1>1. /\ new \in Seq(Handles)
      /\ Len(new) = Len(list) + 1
      /\ \A i \in 1..Len(list) : new[i] = list[i]
      /\ new[Len(list) + 1] = c
  OBVIOUS
<1>2. DOMAIN new = 1..(Len(list) + 1) /\ DOMAIN list = 1..Len(list) /\ Len(list) \in Nat
  BY <1>1
<1> HIDE DEF new
<1>3. Injective(new)
  BY <1>1, <1>2 DEF Injective, Contains
<1>4. ASSUME NEW h PROVE Contains(new, h) <=> Contains(list, h) \/ h = c
  <2>1. ASSUME Contains(list, h) PROVE Contains(new, h)
    BY <1>1, <1>2, <2>1 DEF Contains
  <2>2. Contains(new, c)
    BY <1>1, <1>2 DEF Contains
  <2>3. ASSUME Contains(new, h), h # c PROVE Contains(list, h)
    BY <1>1, <1>2, <2>3 DEF Contains
  <2> QED
    BY <2>1, <2>2, <2>3
<1>5. new # <<>>
  BY <1>1, <1>2
<1> QED
  BY <1>1, <1>3, <1>4, <1>5 DEF new

(* Departure takes out one handle and keeps the order of the others.       *)
LEMMA RemoveHandle ==
  ASSUME NEW list \in Seq(Handles), NEW k \in DOMAIN list, Injective(list)
  PROVE  /\ RemoveAt(list, k) \in Seq(Handles)
         /\ Len(RemoveAt(list, k)) = Len(list) - 1
         /\ Injective(RemoveAt(list, k))
         /\ \A h : Contains(RemoveAt(list, k), h) <=> Contains(list, h) /\ h # list[k]
         /\ \A i \in DOMAIN RemoveAt(list, k) :
              RemoveAt(list, k)[i] = list[IF i < k THEN i ELSE i + 1]
<1> DEFINE new == RemoveAt(list, k)
<1>1. Len(list) \in Nat /\ DOMAIN list = 1..Len(list) /\ k \in 1..Len(list)
  OBVIOUS
<1>2. /\ SubSeq(list, 1, k-1) \in Seq(Handles)
      /\ Len(SubSeq(list, 1, k-1)) = k - 1
      /\ \A i \in 1..(k-1) : SubSeq(list, 1, k-1)[i] = list[i]
  BY <1>1
<1>3. /\ SubSeq(list, k+1, Len(list)) \in Seq(Handles)
      /\ Len(SubSeq(list, k+1, Len(list))) = Len(list) - k
      /\ \A i \in 1..(Len(list) - k) : SubSeq(list, k+1, Len(list))[i] = list[i+k]
  BY <1>1
<1>4. /\ new \in Seq(Handles)
      /\ Len(new) = Len(list) - 1
      /\ \A i \in 1..(k-1) : new[i] = list[i]
      /\ \A i \in k..(Len(list) - 1) : new[i] = list[i+1]
  <2> DEFINE head == SubSeq(list, 1, k-1)
             tail == SubSeq(list, k+1, Len(list))
  <2>1. new = head \o tail
    BY DEF RemoveAt
  <2> HIDE DEF head, tail, new
  <2>2. /\ head \o tail \in Seq(Handles)
        /\ Len(head \o tail) = Len(head) + Len(tail)
        /\ \A i \in 1..(Len(head) + Len(tail)) :
             (head \o tail)[i] = IF i <= Len(head) THEN head[i] ELSE tail[i - Len(head)]
    BY <1>2, <1>3, ConcatProperties DEF head, tail
  <2>3. Len(head) = k - 1 /\ Len(tail) = Len(list) - k
    BY <1>2, <1>3 DEF head, tail
  <2>4. ASSUME NEW i \in k..(Len(list) - 1) PROVE new[i] = list[i+1]
    <3>1. i - (k - 1) \in 1..(Len(list) - k) /\ (i - (k - 1)) + k = i + 1
      BY <1>1
    <3>2. new[i] = tail[i - (k - 1)]
      BY <1>1, <2>1, <2>2, <2>3
    <3> QED
      BY <1>3, <3>1, <3>2 DEF tail
  <2>5. ASSUME NEW i \in 1..(k-1) PROVE new[i] = list[i]
    BY <1>1, <1>2, <2>1, <2>2, <2>3 DEF head
  <2> QED
    BY <1>1, <2>1, <2>2, <2>3, <2>4, <2>5
<1>5. DOMAIN new = 1..(Len(list) - 1)
  BY <1>4
<1> HIDE DEF new
<1>6. Injective(new)
  <2> SUFFICES ASSUME NEW i \in 1..(Len(list) - 1), NEW j \in 1..(Len(list) - 1),
                      new[i] = new[j]
               PROVE  i = j
    BY <1>5 DEF Injective
  <2> DEFINE Old(x) == IF x < k THEN x ELSE x + 1
  <2>1. ASSUME NEW x \in 1..(Len(list) - 1)
        PROVE  Old(x) \in 1..Len(list) /\ new[x] = list[Old(x)]
    <3>1. CASE x < k
      BY <1>1, <1>4, <3>1
    <3>2. CASE ~(x < k)
      <4>1. x \in k..(Len(list) - 1)
        BY <1>1, <3>2
      <4> QED
        BY <1>1, <1>4, <3>2, <4>1
    <3> QED
      BY <3>1, <3>2
  <2>2. Old(i) = Old(j)
    <3> HIDE DEF Old
    <3> QED
      BY <1>1, <2>1 DEF Injective
  <2> QED
    BY <1>1, <2>2
<1>7. ASSUME NEW h PROVE Contains(new, h) <=> Contains(list, h) /\ h # list[k]
  <2>1. ASSUME Contains(new, h) PROVE Contains(list, h) /\ h # list[k]
    <3>1. PICK i \in 1..(Len(list) - 1) : new[i] = h
      BY <1>4, <2>1 DEF Contains
    <3>2. CASE i < k
      <4>1. i \in 1..(k - 1) /\ i \in 1..Len(list) /\ i # k
        BY <1>1, <3>1, <3>2
      <4>2. list[i] = h
        BY <1>4, <3>1, <4>1
      <4> QED
        BY <1>1, <4>1, <4>2 DEF Contains, Injective
    <3>3. CASE i >= k
      <4>1. i \in k..(Len(list) - 1) /\ i + 1 \in 1..Len(list) /\ i + 1 # k
        BY <1>1, <3>1, <3>3
      <4>2. list[i + 1] = h
        BY <1>4, <3>1, <4>1
      <4> QED
        BY <1>1, <4>1, <4>2 DEF Contains, Injective
    <3> QED
      BY <1>1, <3>2, <3>3
  <2>2. ASSUME Contains(list, h), h # list[k] PROVE Contains(new, h)
    <3>1. PICK i \in 1..Len(list) : list[i] = h
      BY <2>2 DEF Contains
    <3>2. CASE i < k
      BY <1>1, <1>4, <3>1, <3>2 DEF Contains
    <3>3. CASE i > k
      <4>1. i - 1 \in k..(Len(list) - 1) /\ (i - 1) + 1 = i
        BY <1>1, <3>3
      <4>2. new[i - 1] = h
        BY <1>4, <3>1, <4>1
      <4>3. i - 1 \in 1..Len(new)
        BY <1>1, <1>4, <4>1
      <4> QED
        BY <4>2, <4>3 DEF Contains
    <3> QED
      BY <1>1, <2>2, <3>1, <3>2, <3>3
  <2> QED
    BY <2>1, <2>2
<1>8. ASSUME NEW i \in DOMAIN new PROVE new[i] = list[IF i < k THEN i ELSE i + 1]
  BY <1>1, <1>4, <1>5
<1> QED
  BY <1>4, <1>6, <1>7, <1>8 DEF new

LEMMA ActiveOfListed ==
  ASSUME NEW who \in Peers, NEW list \in Seq(Handles), list # <<>>
  PROVE  ActiveOf(who, list) \in Handles /\ Contains(list, ActiveOf(who, list))
<1>1. PICK i \in DOMAIN list : ActiveOf(who, list) = list[i]
  BY ActiveOfBeats
<1> QED
  BY <1>1 DEF Contains

(* The embedded agent outranks every agent it can share a machine with.    *)
LEMMA EmbeddedWins ==
  ASSUME NEW who \in Peers, NEW list \in Seq(Handles), Contains(list, Embedded),
         \A h \in Handles : who[h].mode = "embedded" <=> h = Embedded
  PROVE  list # <<>> /\ ActiveOf(who, list) = Embedded
<1>1. PICK e \in DOMAIN list : list[e] = Embedded
  BY DEF Contains
<1>2. PICK i \in DOMAIN list : /\ ActiveOf(who, list) = list[i]
                               /\ \A j \in DOMAIN list : Beats(who, list, i, j)
  BY <1>1, ActiveOfBeats
<1>3. Beats(who, list, i, e)
  BY <1>1, <1>2
<1>4. Rank(who, Embedded) = 3
  BY DEF Rank, MODE_RANK, Handles
<1>5. list[i] \in Handles /\ who[list[i]].mode \in AgentMode
  BY DEF Peers
<1>6. Rank(who, list[i]) >= 3
  BY <1>1, <1>3, <1>4, <1>5 DEF Beats, Rank, MODE_RANK, AgentMode
<1>7. who[list[i]].mode = "embedded"
  BY <1>5, <1>6 DEF Rank, MODE_RANK, AgentMode
<1> QED
  BY <1>1, <1>2, <1>5, <1>7

-----------------------------------------------------------------------------
(* The inductive invariant *)

(* The process has one embedded agent, which stands for its own machine.   *)
EmbeddedIsLocal == peer[Embedded].machine = Local

IInv ==
  /\ TypeOK
  /\ EmbeddedIsLocal
  /\ RoutesAgree
  /\ OneActive
  /\ KnownCoversConnected

LEMMA TypedPeers == TypeOK => peer \in Peers
BY DEF TypeOK, Peers

(* What the fleet does to the list of one machine, whoever came or went:   *)
(* as long as the list names handles of that machine only, reconciling it  *)
(* leaves exactly its active handle active and on record.                  *)
LEMMA ReconcileOne ==
  ASSUME IInv, NEW m \in Machines, NEW list \in Seq(Handles), list # <<>>,
         \A h \in Handles : Contains(list, h) => peer[h].machine = m,
         peer' = peer,
         connections' = [connections EXCEPT ![m] = list],
         active' = Reconciled(list),
         knownAgents' = Recorded(m, list)
  PROVE  /\ active' \in [Handles -> BOOLEAN]
         /\ knownAgents' \in [Machines -> AgentMode \cup {None}]
         /\ OneActive'
         /\ KnownCoversConnected'
<1>1. peer \in Peers /\ connections \in [Machines -> Seq(Handles)]
  BY TypedPeers DEF IInv, TypeOK
<1>2. /\ ActiveOf(peer, list) \in Handles
      /\ Contains(list, ActiveOf(peer, list))
  BY <1>1, ActiveOfListed
<1>3. active' \in [Handles -> BOOLEAN]
  BY DEF Reconciled, IInv, TypeOK
<1>4. knownAgents' = [knownAgents EXCEPT ![m] = peer[ActiveOf(peer, list)].mode]
  BY DEF Recorded
<1>5. knownAgents' \in [Machines -> AgentMode \cup {None}]
  BY <1>1, <1>2, <1>4 DEF IInv, TypeOK, Peers
<1>6. \A n \in Machines : connections'[n] = IF n = m THEN list ELSE connections[n]
  BY <1>1
<1>7. OneActive'
  <2> SUFFICES ASSUME NEW n \in Machines, NEW i \in DOMAIN connections'[n]
               PROVE  active'[connections'[n][i]]
                        <=> connections'[n][i] = ActiveOf(peer, connections'[n])
    BY DEF OneActive, Get
  <2>1. CASE n = m
    <3>1. connections'[n] = list /\ list[i] \in Handles /\ Contains(list, list[i])
      BY <1>6, <2>1 DEF Contains
    <3> QED
      BY <3>1 DEF Reconciled
  <2>2. CASE n # m
    <3> DEFINE h == connections[n][i]
    <3>1. connections'[n] = connections[n] /\ h \in Handles /\ Contains(connections[n], h)
      BY <1>1, <1>6, <2>2 DEF Contains
    <3>2. peer[h].machine = n
      BY <3>1 DEF IInv, RoutesAgree
    <3>3. ~Contains(list, h)
      BY <2>2, <3>1, <3>2
    <3>4. active'[h] = active[h]
      BY <3>1, <3>3 DEF Reconciled
    <3> QED
      BY <3>1, <3>4 DEF IInv, OneActive, Get
  <2> QED
    BY <2>1, <2>2
<1>8. KnownCoversConnected'
  <2> SUFFICES ASSUME NEW n \in Machines, connections'[n] # <<>>
               PROVE  knownAgents'[n] = peer[ActiveOf(peer, connections'[n])].mode
    BY DEF KnownCoversConnected, Connected, Get
  <2>1. CASE n = m
    BY <1>4, <1>6, <2>1 DEF IInv, TypeOK
  <2>2. CASE n # m
    BY <1>4, <1>6, <2>2 DEF IInv, TypeOK, KnownCoversConnected, Connected, Get
  <2> QED
    BY <2>1, <2>2
<1> QED
  BY <1>3, <1>5, <1>7, <1>8

LEMMA InitIInv == Init => IInv
<1> SUFFICES ASSUME Init PROVE IInv
  OBVIOUS
<1> USE FleetAssumption
<1>1. TypeOK
  <2>1. /\ peer \in [Handles -> [machine : Machines, mode : AgentMode]]
        /\ \A h \in Handles : peer[h].mode = "embedded" <=> h = Embedded
    BY DEF Init, AgentMode
  <2>2. connections \in [Machines -> Seq(Handles)]
    <3>1. <<Embedded>> \in Seq(Handles) /\ <<>> \in Seq(Handles)
      BY DEF Handles
    <3> QED
      BY <3>1 DEF Init
  <2>3. /\ disk \in [Machines -> AgentMode \cup {None}]
        /\ knownAgents \in [Machines -> AgentMode \cup {None}]
        /\ writes \in SUBSET [Machines -> AgentMode \cup {None}]
    BY DEF Init, Boot, AgentMode
  <2>4. /\ sock \in [Conns -> {"closed", "open", "identified"}]
        /\ gone \in SUBSET Conns
        /\ agents \in SUBSET Conns
        /\ active \in [Handles -> BOOLEAN]
    BY DEF Init
  <2> QED
    BY <2>1, <2>2, <2>3, <2>4 DEF TypeOK
<1>2. EmbeddedIsLocal
  BY DEF Init, EmbeddedIsLocal, Handles
<1>3. RoutesAgree
  <2>1. \A m \in Machines, h \in Handles :
          Contains(connections[m], h) <=> h = Embedded /\ m = Local
    BY DEF Init, Contains, Handles
  <2> QED
    BY <2>1 DEF Init, RoutesAgree, Handles
<1>4. peer \in Peers /\ <<Embedded>> \in Seq(Handles) /\ Contains(<<Embedded>>, Embedded)
  BY <1>1, TypedPeers DEF Handles, Contains
<1>5. ActiveOf(peer, <<Embedded>>) = Embedded
  BY <1>1, <1>4, EmbeddedWins DEF TypeOK
<1>6. OneActive
  BY <1>5 DEF Init, OneActive, Get, Handles
<1>7. KnownCoversConnected
  BY <1>5 DEF Init, Boot, KnownCoversConnected, Connected, Get, Handles
<1> QED
  BY <1>1, <1>2, <1>3, <1>6, <1>7 DEF IInv

(* A new connection: it was listed nowhere, and joins its machine's list.  *)
LEMMA IdentifyIInv ==
  ASSUME IInv, NEW c \in Conns, Identify(c)
  PROVE  IInv'
<1> USE FleetAssumption
<1> DEFINE m == peer[c].machine
           list == Append(connections[m], c)
<1>1. /\ peer \in Peers /\ m \in Machines /\ c \in Handles /\ c # Embedded
      /\ connections \in [Machines -> Seq(Handles)]
  BY DEF IInv, TypeOK, Peers, Handles
<1>2. /\ sock[c] = "open"
      /\ sock' = [sock EXCEPT ![c] = "identified"]
      /\ agents' = agents \cup {c}
      /\ connections' = [connections EXCEPT ![m] = list]
      /\ active' = Reconciled(list)
      /\ knownAgents' = Recorded(m, list)
      /\ PersistState
      /\ UNCHANGED <<peer, gone, disk>>
  BY DEF Identify, Register
<1>3. c \notin agents
  BY <1>2 DEF IInv, RoutesAgree
<1>4. ~Contains(connections[m], c)
  BY <1>1, <1>3 DEF IInv, RoutesAgree
<1>5. Injective(connections[m])
  BY <1>1 DEF IInv, RoutesAgree, Injective
<1>6. /\ list \in Seq(Handles) /\ list # <<>> /\ Injective(list)
      /\ \A h : Contains(list, h) <=> Contains(connections[m], h) \/ h = c
  BY <1>1, <1>4, <1>5, AppendHandle
<1> HIDE DEF list
<1>7. \A h \in Handles : Contains(list, h) => peer[h].machine = m
  BY <1>1, <1>6 DEF IInv, RoutesAgree, m
<1> HIDE DEF m
<1>8. /\ active' \in [Handles -> BOOLEAN]
      /\ knownAgents' \in [Machines -> AgentMode \cup {None}]
      /\ OneActive'
      /\ KnownCoversConnected'
  BY <1>1, <1>2, <1>6, <1>7, ReconcileOne
<1>9. TypeOK'
  BY <1>1, <1>2, <1>6, <1>8 DEF IInv, TypeOK, PersistState
<1>10. RoutesAgree'
  <2>1. \A n \in Machines : connections'[n] = IF n = m THEN list ELSE connections[n]
    BY <1>1, <1>2
  <2>2. agents' = {d \in Conns : sock'[d] = "identified"}
    BY <1>2 DEF IInv, TypeOK, RoutesAgree
  <2>3. ASSUME NEW n \in Machines, NEW h \in Handles
        PROVE  Contains(connections'[n], h) <=>
                 /\ h \in agents' \cup {Embedded}
                 /\ peer'[h].machine = n
    <3>1. Contains(connections[n], h) <=>
            /\ h \in agents \cup {Embedded}
            /\ peer[h].machine = n
      BY DEF IInv, RoutesAgree
    <3> QED
      BY <1>1, <1>2, <1>6, <2>1, <3>1 DEF m
  <2>4. \A n \in Machines : Injective(connections'[n])
    BY <1>6, <2>1 DEF IInv, RoutesAgree, Injective
  <2> QED
    BY <2>2, <2>3, <2>4 DEF RoutesAgree, Injective
<1>11. EmbeddedIsLocal'
  BY <1>2 DEF IInv, EmbeddedIsLocal
<1> QED
  BY <1>8, <1>9, <1>10, <1>11 DEF IInv

(* A departure: the handle leaves the one list it is in.                   *)
LEMMA CloseIInv ==
  ASSUME IInv, NEW c \in Conns, Close(c)
  PROVE  IInv'
<1> USE FleetAssumption
<1> DEFINE m == peer[c].machine
           k == CHOOSE i \in DOMAIN connections[m] : connections[m][i] = c
           list == RemoveAt(connections[m], k)
<1>1. /\ peer \in Peers /\ m \in Machines /\ c \in Handles /\ c # Embedded
      /\ connections \in [Machines -> Seq(Handles)]
  BY DEF IInv, TypeOK, Peers, Handles
<1>2. /\ sock' = [sock EXCEPT ![c] = "closed"]
      /\ gone' = gone \ {c}
      /\ agents' = agents \ {c}
      /\ peer' = peer /\ disk' = disk
  BY DEF Close
<1>3. agents' = {d \in Conns : sock'[d] = "identified"}
  BY <1>2 DEF IInv, TypeOK, RoutesAgree
<1>4. CASE c \notin agents
  <2>1. UNCHANGED <<connections, active, knownAgents, writes>>
    BY <1>4 DEF Close
  <2>2. TypeOK'
    BY <1>2, <2>1 DEF IInv, TypeOK
  <2>3. agents' = agents
    BY <1>2, <1>4
  <2>4. RoutesAgree'
    BY <1>2, <1>3, <2>1, <2>3 DEF IInv, RoutesAgree
  <2>5. OneActive' /\ KnownCoversConnected' /\ EmbeddedIsLocal'
    BY <1>2, <2>1 DEF IInv, OneActive, KnownCoversConnected, Connected, Get, EmbeddedIsLocal
  <2> QED
    BY <2>2, <2>4, <2>5 DEF IInv
<1>5. CASE c \in agents
  <2>1. Contains(connections[m], c)
    BY <1>1, <1>5 DEF IInv, RoutesAgree
  <2>2. k \in DOMAIN connections[m] /\ connections[m][k] = c
    BY <2>1 DEF Contains
  <2>3. Injective(connections[m])
    BY <1>1 DEF IInv, RoutesAgree, Injective
  <2>4. /\ connections' = [connections EXCEPT ![m] = list]
        /\ \/ list = <<>> /\ UNCHANGED <<active, knownAgents>>
           \/ list # <<>> /\ active' = Reconciled(list) /\ knownAgents' = Recorded(m, list)
        /\ PersistState
    BY <1>5 DEF Close, Deregister
  <2> HIDE DEF k
  <2>5. /\ list \in Seq(Handles) /\ Injective(list)
        /\ \A h : Contains(list, h) <=> Contains(connections[m], h) /\ h # c
    BY <1>1, <2>2, <2>3, RemoveHandle
  <2> HIDE DEF list
  <2>6. \A h \in Handles : Contains(list, h) => peer[h].machine = m
    BY <1>1, <2>5 DEF IInv, RoutesAgree, m
  <2> HIDE DEF m
  <2>7. \A n \in Machines : connections'[n] = IF n = m THEN list ELSE connections[n]
    BY <1>1, <2>4
  <2>8. /\ active' \in [Handles -> BOOLEAN]
        /\ knownAgents' \in [Machines -> AgentMode \cup {None}]
        /\ OneActive'
        /\ KnownCoversConnected'
    <3>1. CASE list = <<>>
      <4>1. UNCHANGED <<active, knownAgents>>
        BY <2>4, <3>1
      <4>2. OneActive'
        <5> SUFFICES ASSUME NEW n \in Machines, NEW i \in DOMAIN connections'[n]
                     PROVE  active'[connections'[n][i]]
                              <=> connections'[n][i] = ActiveOf(peer', connections'[n])
          BY DEF OneActive, Get
        <5>1. n # m /\ connections'[n] = connections[n]
          BY <2>7, <3>1
        <5> QED
          BY <1>2, <4>1, <5>1 DEF IInv, OneActive, Get
      <4>3. KnownCoversConnected'
        <5> SUFFICES ASSUME NEW n \in Machines, connections'[n] # <<>>
                     PROVE  knownAgents'[n] = peer'[ActiveOf(peer', connections'[n])].mode
          BY DEF KnownCoversConnected, Connected, Get
        <5>1. n # m /\ connections'[n] = connections[n]
          BY <2>7, <3>1
        <5> QED
          BY <1>2, <4>1, <5>1 DEF IInv, KnownCoversConnected, Connected, Get
      <4> QED
        BY <4>1, <4>2, <4>3 DEF IInv, TypeOK
    <3>2. CASE list # <<>>
      BY <1>1, <1>2, <2>4, <2>5, <2>6, <3>2, ReconcileOne
    <3> QED
      BY <3>1, <3>2
  <2>9. TypeOK'
    BY <1>1, <1>2, <2>4, <2>5, <2>8 DEF IInv, TypeOK, PersistState
  <2>10. RoutesAgree'
    <3>1. ASSUME NEW n \in Machines, NEW h \in Handles
          PROVE  Contains(connections'[n], h) <=>
                   /\ h \in agents' \cup {Embedded}
                   /\ peer'[h].machine = n
      <4>1. Contains(connections[n], h) <=>
              /\ h \in agents \cup {Embedded}
              /\ peer[h].machine = n
        BY DEF IInv, RoutesAgree
      <4> QED
        BY <1>1, <1>2, <2>5, <2>7, <4>1 DEF m
    <3>2. \A n \in Machines : Injective(connections'[n])
      BY <2>5, <2>7 DEF IInv, RoutesAgree, Injective
    <3> QED
      BY <1>3, <3>1, <3>2 DEF RoutesAgree, Injective
  <2>11. EmbeddedIsLocal'
    BY <1>2 DEF IInv, EmbeddedIsLocal
  <2> QED
    BY <2>8, <2>9, <2>10, <2>11 DEF IInv
<1> QED
  BY <1>4, <1>5

(* The active handles do not depend on who is behind a handle that is not  *)
(* registered.                                                             *)
LEMMA StrangerIgnored ==
  ASSUME IInv, peer' \in Peers, NEW c \in Handles, c \notin agents, c # Embedded,
         \A h \in Handles : h # c => peer'[h] = peer[h],
         NEW n \in Machines, connections[n] # <<>>
  PROVE  /\ ActiveOf(peer', connections[n]) = ActiveOf(peer, connections[n])
         /\ peer'[ActiveOf(peer, connections[n])] = peer[ActiveOf(peer, connections[n])]
<1>1. connections[n] \in Seq(Handles) /\ peer \in Peers
  BY TypedPeers DEF IInv, TypeOK
<1>2. ASSUME NEW h \in Handles, Contains(connections[n], h) PROVE peer'[h] = peer[h]
  BY <1>2 DEF IInv, RoutesAgree
<1>3. \A i \in DOMAIN connections[n] : peer'[connections[n][i]] = peer[connections[n][i]]
  BY <1>1, <1>2 DEF Contains
<1>4. ActiveOf(peer', connections[n]) = ActiveOf(peer, connections[n])
  BY <1>1, <1>3, ActiveOfSame
<1> QED
  BY <1>1, <1>2, <1>4, ActiveOfListed

(* A socket that opens belongs to a handle no list names yet.              *)
LEMMA OpenIInv ==
  ASSUME IInv, NEW c \in Conns, NEW m \in Machines,
         NEW md \in {"live", "installed"}, Open(c, m, md)
  PROVE  IInv'
<1> USE FleetAssumption
<1>1. /\ sock[c] = "closed"
      /\ sock' = [sock EXCEPT ![c] = "open"]
      /\ peer' = [peer EXCEPT ![c] = [machine |-> m, mode |-> md]]
      /\ UNCHANGED <<gone, agents, connections, active, knownAgents, disk, writes>>
  BY DEF Open
<1>2. TypeOK'
  <2>1. /\ peer' \in [Handles -> [machine : Machines, mode : AgentMode]]
        /\ \A h \in Handles : peer'[h].mode = "embedded" <=> h = Embedded
    BY <1>1 DEF IInv, TypeOK, Handles, AgentMode
  <2> QED
    BY <1>1, <2>1 DEF IInv, TypeOK
<1>3. peer \in Peers /\ peer' \in Peers
  BY <1>2 DEF IInv, TypeOK, Peers
<1>4. c \notin agents /\ c # Embedded /\ c \in Handles
  BY <1>1 DEF IInv, RoutesAgree, Handles
<1>5. \A h \in Handles : h # c => peer'[h] = peer[h]
  BY <1>1 DEF IInv, TypeOK
<1>6. RoutesAgree'
  <2>1. agents' = {d \in Conns : sock'[d] = "identified"}
    BY <1>1 DEF IInv, TypeOK, RoutesAgree
  <2>2. ASSUME NEW n \in Machines, NEW h \in Handles
        PROVE  Contains(connections'[n], h) <=>
                 /\ h \in agents' \cup {Embedded}
                 /\ peer'[h].machine = n
    BY <1>1, <1>4, <1>5 DEF IInv, RoutesAgree
  <2> QED
    BY <1>1, <2>1, <2>2 DEF IInv, RoutesAgree
<1>7. ASSUME NEW n \in Machines, connections[n] # <<>>
      PROVE  /\ ActiveOf(peer', connections[n]) = ActiveOf(peer, connections[n])
             /\ peer'[ActiveOf(peer, connections[n])] = peer[ActiveOf(peer, connections[n])]
  BY <1>1, <1>3, <1>4, <1>5, <1>7, StrangerIgnored
<1>8. OneActive'
  <2> SUFFICES ASSUME NEW n \in Machines, NEW i \in DOMAIN connections[n]
               PROVE  active[connections[n][i]]
                        <=> connections[n][i] = ActiveOf(peer', connections[n])
    BY <1>1 DEF OneActive, Get
  <2>1. connections[n] # <<>>
    OBVIOUS
  <2> QED
    BY <1>7, <2>1 DEF IInv, OneActive, Get
<1>9. KnownCoversConnected'
  BY <1>1, <1>7 DEF IInv, KnownCoversConnected, Connected, Get
<1>10. EmbeddedIsLocal'
  BY <1>4, <1>5 DEF IInv, EmbeddedIsLocal, Handles
<1> QED
  BY <1>2, <1>6, <1>8, <1>9, <1>10 DEF IInv

(* Only a machine without a connection loses its record.                   *)
LEMMA RemoveServerIInv ==
  ASSUME IInv, NEW m \in Machines, RemoveServer(m)
  PROVE  IInv'
<1>1. /\ connections[m] = <<>>
      /\ knownAgents' = [knownAgents EXCEPT ![m] = None]
      /\ PersistState
      /\ UNCHANGED <<sock, peer, gone, agents, connections, active, disk>>
  BY DEF RemoveServer, Connected
<1>2. TypeOK'
  BY <1>1 DEF IInv, TypeOK, PersistState
<1>3. KnownCoversConnected'
  BY <1>1 DEF IInv, TypeOK, KnownCoversConnected, Connected, Get
<1>4. RoutesAgree' /\ OneActive' /\ EmbeddedIsLocal'
  BY <1>1 DEF IInv, RoutesAgree, OneActive, Get, EmbeddedIsLocal
<1> QED
  BY <1>2, <1>3, <1>4 DEF IInv

(* A new process knows nothing of the connections of the old one.          *)
LEMMA RestartIInv ==
  ASSUME IInv, Restart
  PROVE  IInv'
<1> USE FleetAssumption
<1>1. /\ sock' = [c \in Conns |-> "closed"]
      /\ gone' = {} /\ agents' = {}
      /\ connections' = [m \in Machines |-> IF m = Local THEN <<Embedded>> ELSE <<>>]
      /\ active' = [active EXCEPT ![Embedded] = TRUE]
      /\ knownAgents' = [disk EXCEPT ![Local] = "embedded"]
      /\ writes' = {knownAgents'}
      /\ UNCHANGED <<peer, disk>>
  BY DEF Restart, Boot
<1>2. <<Embedded>> \in Seq(Handles) /\ <<>> \in Seq(Handles) /\ Contains(<<Embedded>>, Embedded)
  BY DEF Handles, Contains
<1>3. TypeOK'
  <2>1. connections' \in [Machines -> Seq(Handles)]
    BY <1>1, <1>2
  <2>2. knownAgents' \in [Machines -> AgentMode \cup {None}]
    BY <1>1 DEF IInv, TypeOK, AgentMode
  <2> QED
    BY <1>1, <2>1, <2>2 DEF IInv, TypeOK
<1>4. RoutesAgree'
  <2>1. \A m \in Machines, h \in Handles :
          Contains(connections'[m], h) <=> h = Embedded /\ m = Local
    BY <1>1 DEF Contains, Handles
  <2> QED
    BY <1>1, <2>1 DEF RoutesAgree, Handles, IInv, EmbeddedIsLocal
<1>5. ActiveOf(peer, <<Embedded>>) = Embedded
  <2>1. peer \in Peers
    BY TypedPeers DEF IInv
  <2> QED
    BY <1>2, <2>1, EmbeddedWins DEF IInv, TypeOK
<1>6. OneActive'
  BY <1>1, <1>5 DEF IInv, TypeOK, OneActive, Get, Handles
<1>7. KnownCoversConnected'
  <2>1. peer[Embedded].mode = "embedded"
    BY DEF IInv, TypeOK, Handles
  <2> QED
    BY <1>1, <1>5, <2>1 DEF IInv, TypeOK, KnownCoversConnected, Connected, Get
<1>8. EmbeddedIsLocal'
  BY <1>1 DEF IInv, EmbeddedIsLocal
<1> QED
  BY <1>3, <1>4, <1>6, <1>7, <1>8 DEF IInv

LEMMA NextIInv == IInv /\ [Next]_vars => IInv'
<1> SUFFICES ASSUME IInv, [Next]_vars PROVE IInv'
  OBVIOUS
<1>1. ASSUME NEW c \in Conns, NEW m \in Machines, NEW md \in {"live", "installed"},
             Open(c, m, md)
      PROVE  IInv'
  BY <1>1, OpenIInv
<1>2. ASSUME NEW c \in Conns, Identify(c) PROVE IInv'
  BY <1>2, IdentifyIInv
<1>3. ASSUME NEW c \in Conns, Vanish(c) PROVE IInv'
  <2>1. /\ gone' = gone \cup {c}
        /\ UNCHANGED <<sock, peer, agents, connections, active, knownAgents, disk, writes>>
    BY <1>3 DEF Vanish
  <2> QED
    BY <2>1 DEF IInv, TypeOK, EmbeddedIsLocal, RoutesAgree, OneActive, KnownCoversConnected,
                Connected, Get
<1>4. ASSUME NEW c \in Conns, Close(c) PROVE IInv'
  BY <1>4, CloseIInv
<1>5. ASSUME NEW m \in Machines, RemoveServer(m) PROVE IInv'
  BY <1>5, RemoveServerIInv
<1>6. ASSUME NEW w \in writes, WriteLands(w) PROVE IInv'
  <2>1. /\ disk' = w /\ writes' = writes \ {w}
        /\ UNCHANGED <<sock, peer, gone, agents, connections, active, knownAgents>>
    BY <1>6 DEF WriteLands
  <2> QED
    BY <2>1 DEF IInv, TypeOK, EmbeddedIsLocal, RoutesAgree, OneActive, KnownCoversConnected,
                Connected, Get
<1>7. CASE Restart
  BY <1>7, RestartIInv
<1>8. CASE UNCHANGED vars
  BY <1>8 DEF vars, IInv, TypeOK, EmbeddedIsLocal, RoutesAgree, OneActive,
              KnownCoversConnected, Connected, Get
<1> QED
  BY <1>1, <1>2, <1>3, <1>4, <1>5, <1>6, <1>7, <1>8 DEF Next

(* The two routing tables, the active flags and the records agree, however *)
(* agents connect, vanish, disconnect and restart: RoutesAgree, OneActive  *)
(* and KnownCoversConnected hold in every reachable state.                 *)
THEOREM Consistency == Spec => [](TypeOK /\ RoutesAgree /\ OneActive /\ KnownCoversConnected)
<1>1. IInv => TypeOK /\ RoutesAgree /\ OneActive /\ KnownCoversConnected
  BY DEF IInv
<1> QED
  BY InitIInv, NextIInv, <1>1, PTL DEF Spec

(* The control plane's own host is always served by its embedded agent.    *)
THEOREM LocalServed == Spec => []LocalIsEmbedded
<1>1. IInv => LocalIsEmbedded
  <2> SUFFICES ASSUME IInv PROVE LocalIsEmbedded
    OBVIOUS
  <2>1. Contains(connections[Local], Embedded)
    BY FleetAssumption DEF IInv, RoutesAgree, EmbeddedIsLocal, Handles
  <2>2. connections[Local] \in Seq(Handles) /\ peer \in Peers
    BY FleetAssumption, TypedPeers DEF IInv, TypeOK
  <2> QED
    BY <2>1, <2>2, EmbeddedWins DEF IInv, TypeOK, LocalIsEmbedded, Connected, Get
<1> QED
  BY InitIInv, NextIInv, <1>1, PTL DEF Spec

-----------------------------------------------------------------------------
(* Who may take over the active role *)

\* The step formula of NoUsurper.
Succession ==
  \A m \in Machines :
    (Connected(m) /\ Contains(connections'[m], Get(m)) /\ Get(m)' # Get(m)) =>
       /\ ~Contains(connections[m], Get(m)')
       /\ Rank(peer', Get(m)') >= Rank(peer, Get(m))

(* The arrival of a handle changes the active one only into itself, and    *)
(* only if it is not outranked.                                            *)
LEMMA IdentifySuccession ==
  ASSUME IInv, NEW c \in Conns, Identify(c)
  PROVE  Succession
<1> DEFINE m == peer[c].machine
           list == Append(connections[m], c)
<1>1. /\ peer \in Peers /\ m \in Machines /\ c \in Handles
      /\ connections \in [Machines -> Seq(Handles)]
  BY DEF IInv, TypeOK, Peers, Handles
<1>2. connections' = [connections EXCEPT ![m] = list] /\ peer' = peer
  BY DEF Identify, Register
<1>3. ~Contains(connections[m], c)
  <2>1. c \notin agents /\ c # Embedded
    BY FleetAssumption DEF IInv, RoutesAgree, Identify
  <2> QED
    BY <1>1, <2>1 DEF IInv, RoutesAgree
<1>4. /\ list \in Seq(Handles) /\ list # <<>>
      /\ Len(list) = Len(connections[m]) + 1 /\ Len(connections[m]) \in Nat
      /\ \A i \in 1..Len(connections[m]) : list[i] = connections[m][i]
      /\ list[Len(connections[m]) + 1] = c
  BY <1>1
<1> HIDE DEF list
<1>5. PICK i \in DOMAIN list : /\ ActiveOf(peer, list) = list[i]
                               /\ \A j \in DOMAIN list : Beats(peer, list, i, j)
  BY <1>1, <1>4, ActiveOfBeats
<1> HIDE DEF m
<1> SUFFICES ASSUME NEW n \in Machines, Connected(n),
                    Get(n)' # Get(n)
             PROVE  /\ ~Contains(connections[n], Get(n)')
                    /\ Rank(peer', Get(n)') >= Rank(peer, Get(n))
  BY DEF Succession
<1>6. n = m /\ connections'[n] = list
  BY <1>1, <1>2 DEF Get
<1>7. Get(n) = ActiveOf(peer, connections[m]) /\ Get(n)' = list[i]
  BY <1>2, <1>5, <1>6 DEF Get
<1>8. i = Len(connections[m]) + 1
  <2> SUFFICES ASSUME i \in 1..Len(connections[m]) PROVE FALSE
    BY <1>4
  <2>1. \A j \in 1..Len(connections[m]) : j \in DOMAIN list
    BY <1>4
  <2>2. \A j \in DOMAIN connections[m] : Beats(peer, connections[m], i, j)
    BY <1>1, <1>4, <1>5, <2>1 DEF Beats
  <2>3. ActiveOf(peer, connections[m]) = connections[m][i]
    BY <1>1, <2>2, ActiveOfUnique
  <2> QED
    BY <1>4, <1>7, <2>3
<1>9. PICK k \in DOMAIN connections[m] : ActiveOf(peer, connections[m]) = connections[m][k]
  BY <1>1, <1>6, ActiveOfBeats DEF Connected
<1>10. Beats(peer, list, i, k) /\ list[k] = connections[m][k]
  BY <1>1, <1>4, <1>5, <1>9
<1>11. Rank(peer, list[i]) >= Rank(peer, list[k])
  <2>1. list[i] \in Handles /\ list[k] \in Handles
    BY <1>1, <1>4, <1>5, <1>9, <1>10
  <2>2. Rank(peer, list[i]) \in Nat /\ Rank(peer, list[k]) \in Nat
    BY <1>1, <2>1 DEF Rank, MODE_RANK, Peers, AgentMode
  <2> QED
    BY <1>10, <2>2 DEF Beats
<1> QED
  BY <1>2, <1>3, <1>4, <1>6, <1>7, <1>8, <1>9, <1>10, <1>11

(* The departure of a standby never changes which handle is active.        *)
LEMMA CloseSuccession ==
  ASSUME IInv, NEW c \in Conns, Close(c)
  PROVE  Succession
<1> DEFINE m == peer[c].machine
           k == CHOOSE i \in DOMAIN connections[m] : connections[m][i] = c
           list == RemoveAt(connections[m], k)
<1>1. /\ peer \in Peers /\ m \in Machines /\ c \in Handles
      /\ connections \in [Machines -> Seq(Handles)]
  BY DEF IInv, TypeOK, Peers, Handles
<1>2. peer' = peer
  BY DEF Close
<1>3. CASE c \notin agents
  BY <1>2, <1>3 DEF Close, Succession, Get
<1>4. CASE c \in agents
  <2>1. connections' = [connections EXCEPT ![m] = list]
    BY <1>4 DEF Close, Deregister
  <2>2. k \in DOMAIN connections[m] /\ connections[m][k] = c
    BY <1>1, <1>4 DEF Contains, IInv, RoutesAgree
  <2>3. Injective(connections[m])
    BY <1>1 DEF IInv, RoutesAgree, Injective
  <2> HIDE DEF k
  <2>4. /\ list \in Seq(Handles) /\ Len(list) = Len(connections[m]) - 1
        /\ \A i \in DOMAIN list : list[i] = connections[m][IF i < k THEN i ELSE i + 1]
        /\ \A h : Contains(list, h) <=> Contains(connections[m], h) /\ h # c
    BY <1>1, <2>2, <2>3, RemoveHandle
  <2>5. DOMAIN list = 1..Len(list) /\ Len(list) = Len(connections[m]) - 1
    BY <2>4
  <2> HIDE DEF list
  <2> SUFFICES ASSUME NEW n \in Machines, Connected(n), Contains(connections'[n], Get(n))
               PROVE  Get(n)' = Get(n)
    BY DEF Succession
  <2>6. CASE n # m
    BY <1>1, <1>2, <2>1, <2>6 DEF Get, m
  <2>7. CASE n = m
    <3>1. connections'[n] = list
      BY <1>1, <2>1, <2>7
    <3>2. PICK i \in DOMAIN list : list[i] = Get(n)
      BY <3>1 DEF Contains
    <3>3. PICK a \in DOMAIN connections[m] :
             /\ ActiveOf(peer, connections[m]) = connections[m][a]
             /\ \A j \in DOMAIN connections[m] : Beats(peer, connections[m], a, j)
      BY <1>1, <2>7, ActiveOfBeats DEF Connected
    <3> DEFINE Old(x) == IF x < k THEN x ELSE x + 1
    <3>4. \A x \in DOMAIN list : Old(x) \in DOMAIN connections[m] /\ list[x] = connections[m][Old(x)]
      BY <1>1, <2>2, <2>4, <2>5
    <3>5. Old(i) = a
      <4> HIDE DEF Old
      <4> QED
        BY <2>3, <2>7, <3>2, <3>3, <3>4 DEF Injective, Get
    <3>6. ASSUME NEW j \in DOMAIN list PROVE Beats(peer, list, i, j)
      <4>1. Beats(peer, connections[m], a, Old(j))
        BY <3>3, <3>4
      <4>2. a >= Old(j) => i >= j
        BY <1>1, <2>2, <2>5, <3>5
      <4> HIDE DEF Old
      <4> QED
        BY <3>4, <3>5, <4>1, <4>2 DEF Beats
    <3>7. ActiveOf(peer, list) = list[i]
      BY <1>1, <2>4, <3>6, ActiveOfUnique
    <3> QED
      BY <1>2, <3>1, <3>2, <3>7 DEF Get
  <2> QED
    BY <2>6, <2>7
<1> QED
  BY <1>3, <1>4

(* A new process has only its embedded agent, active before and after.     *)
LEMMA RestartSuccession ==
  ASSUME IInv, Restart
  PROVE  Succession
<1> USE FleetAssumption
<1>1. /\ connections' = [m \in Machines |-> IF m = Local THEN <<Embedded>> ELSE <<>>]
      /\ peer' = peer
  BY DEF Restart
<1>2. ASSUME NEW m \in Machines, Contains(connections'[m], Get(m)), Connected(m)
      PROVE  Get(m)' = Get(m)
  <2>1. m = Local /\ Get(m) = Embedded
    BY <1>1, <1>2 DEF Contains
  <2>2. peer \in Peers /\ <<Embedded>> \in Seq(Handles) /\ Contains(<<Embedded>>, Embedded)
    BY TypedPeers DEF IInv, Handles, Contains
  <2>3. ActiveOf(peer, <<Embedded>>) = Embedded
    BY <2>2, EmbeddedWins DEF IInv, TypeOK
  <2> QED
    BY <1>1, <2>1, <2>3 DEF Get
<1> QED
  BY <1>2 DEF Succession

LEMMA NextSuccession == IInv /\ IInv' /\ [Next]_vars => Succession
<1> SUFFICES ASSUME IInv, IInv', [Next]_vars PROVE Succession
  OBVIOUS
<1>1. ASSUME NEW c \in Conns, NEW m \in Machines, NEW md \in {"live", "installed"},
             Open(c, m, md)
      PROVE  Succession
  <2>1. /\ sock[c] = "closed" /\ connections' = connections
        /\ peer' = [peer EXCEPT ![c] = [machine |-> m, mode |-> md]]
    BY <1>1 DEF Open
  <2>2. /\ c \notin agents /\ c # Embedded /\ c \in Handles
        /\ peer' \in Peers
        /\ \A h \in Handles : h # c => peer'[h] = peer[h]
    BY <2>1, FleetAssumption DEF IInv, RoutesAgree, TypeOK, Handles, Peers
  <2>3. ASSUME NEW n \in Machines, Connected(n) PROVE Get(n)' = Get(n)
    BY <2>1, <2>2, <2>3, StrangerIgnored DEF Connected, Get
  <2> QED
    BY <2>3 DEF Succession
<1>2. ASSUME NEW c \in Conns, Identify(c) PROVE Succession
  BY <1>2, IdentifySuccession
<1>3. ASSUME NEW c \in Conns, Close(c) PROVE Succession
  BY <1>3, CloseSuccession
<1>4. CASE Restart
  BY <1>4, RestartSuccession
<1>5. ASSUME connections' = connections, peer' = peer PROVE Succession
  BY <1>5 DEF Succession, Get
<1>6. ASSUME NEW c \in Conns, Vanish(c) PROVE Succession
  BY <1>5, <1>6 DEF Vanish
<1>7. ASSUME NEW m \in Machines, RemoveServer(m) PROVE Succession
  BY <1>5, <1>7 DEF RemoveServer
<1>8. ASSUME NEW w \in writes, WriteLands(w) PROVE Succession
  BY <1>5, <1>8 DEF WriteLands
<1>9. CASE UNCHANGED vars
  BY <1>5, <1>9 DEF vars
<1> QED
  BY <1>1, <1>2, <1>3, <1>4, <1>6, <1>7, <1>8, <1>9 DEF Next

(* No agent that stays connected is displaced by one that ranks below it   *)
(* or that was there before: the action property NoUsurper, always.        *)
THEOREM NoUsurpation == Spec => NoUsurper
<1>1. Succession => [Succession]_vars
  OBVIOUS
<1>2. IInv /\ IInv' /\ [Next]_vars => [Succession]_vars
  BY NextSuccession
<1>3. NoUsurper <=> [][Succession]_vars
  BY PTL DEF NoUsurper, Succession
<1> QED
  BY InitIInv, NextIInv, <1>2, <1>3, PTL DEF Spec

-----------------------------------------------------------------------------
(* Updates over the registry *)

(* A connection behind which the installed agent's process still is.       *)
Served(c) == sock[c] # "closed" /\ peer[c].mode = "installed" /\ c \notin gone

(* The machine has one installed process: it has one connection at most,   *)
(* and that connection's build is its own.                                 *)
OneProcess ==
  /\ \A c \in Conns : Served(c) => build[c] = service
  /\ \A c, d \in Conns : Served(c) /\ Served(d) => c = d

(* A request under way is on the open connection of an installed agent.    *)
AskedInstalled ==
  run.st = "asked" =>
    run.before \in Conns /\ sock[run.before] = "identified" /\ peer[run.before].mode = "installed"

(* While the task waits and the old process is still there, that process   *)
(* has no connection but the one it was asked over.                        *)
NoOtherWay ==
  run.st = "polling" /\ service = "old" =>
    \A c \in Conns : Served(c) => c = run.before

(* The inductive invariant of the composition.                             *)
UpdateInv ==
  /\ IInv
  /\ UpdateTypeOK
  /\ OneProcess
  /\ AskedInstalled
  /\ PollingMeansSwapped
  /\ NoOtherWay

LEMMA InitUpdateInv == UpdateInit => UpdateInv
<1> SUFFICES ASSUME UpdateInit PROVE UpdateInv
  OBVIOUS
<1>1. IInv
  BY InitIInv DEF UpdateInit
<1>2. UpdateTypeOK
  BY DEF UpdateInit, UpdateTypeOK, Builds, Handles
<1>3. \A c \in Conns : ~Served(c)
  BY DEF UpdateInit, Init, Served
<1> QED
  BY <1>1, <1>2, <1>3
     DEF UpdateInit, UpdateInv, OneProcess, AskedInstalled, PollingMeansSwapped, NoOtherWay

(* The registry does not look at which peers are gone.                     *)
LEMMA GoneIgnored ==
  ASSUME IInv, gone' \in SUBSET Conns,
         UNCHANGED <<sock, peer, agents, connections, active, knownAgents, disk, writes>>
  PROVE  IInv'
BY DEF IInv, TypeOK, EmbeddedIsLocal, RoutesAgree, OneActive, KnownCoversConnected,
       Connected, Get

(* The agent that serves the machine, if it is an installed one, is a      *)
(* remote connection that has identified itself.                           *)
LEMMA InstalledIsRemote ==
  ASSUME IInv, Connected(Target), peer[Get(Target)].mode = "installed"
  PROVE  Get(Target) \in Conns /\ sock[Get(Target)] = "identified"
<1> USE UpdateAssumption
<1>1. connections[Target] \in Seq(Handles) /\ connections[Target] # <<>> /\ peer \in Peers
  BY TypedPeers DEF IInv, TypeOK, Connected
<1>2. Get(Target) \in Handles /\ Contains(connections[Target], Get(Target))
  BY <1>1, ActiveOfListed DEF Get
<1>3. Get(Target) # Embedded
  BY <1>2 DEF IInv, TypeOK, Handles
<1>4. Get(Target) \in agents
  BY <1>2, <1>3 DEF IInv, RoutesAgree
<1> QED
  BY <1>4 DEF IInv, RoutesAgree

(* Whatever happens to connections behind which the process was, or the    *)
(* task was not, takes away from the served ones only.                     *)
LEMMA FewerServed ==
  ASSUME UpdateInv, UNCHANGED <<build, service>>,
         \A c \in Conns : Served(c)' => Served(c)
  PROVE  OneProcess'
BY DEF UpdateInv, OneProcess, Served

(* A connection opens: the installed process makes one when it has given   *)
(* up all others and is not about to exit.                                 *)
LEMMA ConnectUpdateInv ==
  ASSUME UpdateInv, NEW c \in Conns, NEW md \in {"live", "installed"}, NEW b \in Builds,
         Connect(c, md, b)
  PROVE  UpdateInv'
<1> USE UpdateAssumption
<1>1. /\ sock[c] = "closed"
      /\ sock' = [sock EXCEPT ![c] = "open"]
      /\ peer' = [peer EXCEPT ![c] = [machine |-> Target, mode |-> md]]
      /\ build' = [build EXCEPT ![c] = b]
      /\ UNCHANGED <<gone, symlink, service, exiting, jobs, run>>
  BY DEF Connect, Open, hostVars
<1>2. IInv'
  BY OpenIInv DEF UpdateInv, Connect
<1>3. UpdateTypeOK'
  BY <1>1 DEF UpdateInv, UpdateTypeOK, Handles
<1>4. \A d \in Conns : d # c => /\ Served(d)' = Served(d)
                                /\ build'[d] = build[d]
                                /\ sock'[d] = sock[d] /\ peer'[d] = peer[d]
  BY <1>1 DEF UpdateInv, IInv, TypeOK, UpdateTypeOK, Handles, Served
<1>5. build'[c] = b /\ (Served(c)' => md = "installed")
  BY <1>1 DEF UpdateInv, IInv, TypeOK, UpdateTypeOK, Handles, Served
<1>6. md = "installed" => b = service /\ ~exiting /\ \A d \in Conns : ~Served(d)
  BY DEF Connect, Served
<1>7. OneProcess'
  BY <1>1, <1>4, <1>5, <1>6 DEF UpdateInv, OneProcess
<1>8. AskedInstalled'
  BY <1>1, <1>4 DEF UpdateInv, AskedInstalled
<1>9. PollingMeansSwapped' /\ NoOtherWay'
  BY <1>1, <1>4, <1>5, <1>6 DEF UpdateInv, PollingMeansSwapped, NoOtherWay
<1> QED
  BY <1>2, <1>3, <1>7, <1>8, <1>9 DEF UpdateInv

(* An identify, a peer's disappearance, a close: the task hears of the     *)
(* close of the connection it was asked over.                              *)
LEMMA TrafficUpdateInv ==
  ASSUME UpdateInv, Traffic \/ \E c \in Conns : Drop(c)
  PROVE  UpdateInv'
<1>1. ASSUME NEW c \in Conns, Identify(c), UNCHANGED taskVars PROVE UpdateInv'
  <2>1. /\ sock[c] = "open" /\ sock' = [sock EXCEPT ![c] = "identified"]
        /\ UNCHANGED <<peer, gone, build, symlink, service, exiting, jobs, run>>
    BY <1>1 DEF Identify, taskVars
  <2>2. /\ \A d \in Conns : Served(d)' = Served(d)
        /\ \A d \in Conns : sock[d] = "identified" => sock'[d] = "identified"
    BY <2>1 DEF UpdateInv, IInv, TypeOK, Served
  <2>3. IInv'
    BY <1>1, IdentifyIInv DEF UpdateInv
  <2>4. AskedInstalled'
    BY <2>1, <2>2 DEF UpdateInv, AskedInstalled
  <2> QED
    BY <2>1, <2>2, <2>3, <2>4, FewerServed
       DEF UpdateInv, UpdateTypeOK, PollingMeansSwapped, NoOtherWay
<1>2. ASSUME NEW c \in Conns, Vanish(c), UNCHANGED taskVars PROVE UpdateInv'
  <2>1. /\ gone' = gone \cup {c}
        /\ UNCHANGED <<sock, peer, agents, connections, active, knownAgents, disk, writes>>
        /\ UNCHANGED <<build, symlink, service, exiting, jobs, run>>
    BY <1>2 DEF Vanish, taskVars
  <2>2. \A d \in Conns : Served(d)' => Served(d)
    BY <2>1 DEF Served
  <2>3. IInv'
    BY <2>1, GoneIgnored DEF UpdateInv, IInv, TypeOK
  <2> QED
    BY <2>1, <2>2, <2>3, FewerServed
       DEF UpdateInv, UpdateTypeOK, AskedInstalled, PollingMeansSwapped, NoOtherWay
<1>3. ASSUME NEW c \in Conns, Drop(c) PROVE UpdateInv'
  <2>1. /\ sock' = [sock EXCEPT ![c] = "closed"] /\ gone' = gone \ {c}
        /\ UNCHANGED <<peer, build, symlink, service, exiting, jobs>>
        /\ run' = IF run.st = "asked" /\ run.before = c THEN [run EXCEPT !.st = "failed"]
                                                        ELSE run
    BY <1>3 DEF Drop, Close, hostVars
  <2>2. /\ \A d \in Conns : Served(d)' => Served(d)
        /\ \A d \in Conns : d # c => sock'[d] = sock[d]
    BY <2>1 DEF UpdateInv, IInv, TypeOK, Served
  <2>3. IInv'
    BY <1>3, CloseIInv DEF UpdateInv, Drop
  <2>4. UpdateTypeOK' /\ (run'.st \in {"asked", "polling"} => run' = run)
    BY <2>1 DEF UpdateInv, UpdateTypeOK, Finished
  <2>5. AskedInstalled'
    <3>1. run'.st = "asked" => run' = run /\ run.before # c
      BY <2>1, <2>4
    <3> QED
      BY <2>1, <2>2, <3>1 DEF UpdateInv, AskedInstalled
  <2> QED
    BY <2>1, <2>2, <2>3, <2>4, <2>5, FewerServed
       DEF UpdateInv, PollingMeansSwapped, NoOtherWay
<1> QED
  BY <1>1, <1>2, <1>3 DEF Traffic

(* The task's own steps.  What it asks, it asks an installed agent.        *)
LEMMA TaskUpdateInv ==
  ASSUME UpdateInv,
         (\E force \in BOOLEAN : StartUpdate(force)) \/ RequestTimeout \/ Poll \/ GiveUp \/ Again
  PROVE  UpdateInv'
<1>1. UNCHANGED <<vars, build, symlink, service, exiting>>
  BY DEF StartUpdate, RequestTimeout, Poll, GiveUp, Again, hostVars
<1>2. IInv' /\ OneProcess'
  BY <1>1 DEF vars, UpdateInv, IInv, TypeOK, EmbeddedIsLocal, RoutesAgree, OneActive,
              KnownCoversConnected, Connected, Get, OneProcess, Served
<1>3. run'.st # "polling"
  BY DEF StartUpdate, RequestTimeout, Poll, GiveUp, Again, UpdateInv, UpdateTypeOK, Finished
<1>4. PollingMeansSwapped' /\ NoOtherWay'
  BY <1>3 DEF PollingMeansSwapped, NoOtherWay
<1>5. ASSUME NEW force \in BOOLEAN, StartUpdate(force) PROVE UpdateTypeOK' /\ AskedInstalled'
  <2>1. Get(Target) \in Conns /\ sock[Get(Target)] = "identified"
    BY <1>5, InstalledIsRemote DEF StartUpdate, UpdateInv
  <2>2. UpdateTypeOK'
    BY <1>1, <1>5, <2>1 DEF StartUpdate, UpdateInv, UpdateTypeOK, Handles
  <2>3. AskedInstalled'
    BY <1>1, <1>5, <2>1 DEF StartUpdate, AskedInstalled, vars
  <2> QED
    BY <2>2, <2>3
<1>6. ASSUME RequestTimeout \/ Poll \/ GiveUp \/ Again PROVE UpdateTypeOK' /\ AskedInstalled'
  <2>1. PICK st \in {"idle"} \cup Finished : run' = [run EXCEPT !.st = st] /\ jobs' = jobs
    BY <1>6 DEF RequestTimeout, Poll, GiveUp, Again, hostVars, Finished
  <2> QED
    BY <1>1, <2>1 DEF UpdateInv, UpdateTypeOK, AskedInstalled, Finished
<1> QED
  BY <1>2, <1>4, <1>5, <1>6 DEF UpdateInv

(* The host's own steps.  The reply that makes the task wait is sent after *)
(* the swap, over the only connection the old process has.                 *)
LEMMA HostUpdateInv ==
  ASSUME UpdateInv, (\E c \in Conns : UpdateFails(c) \/ Update(c)) \/ Exit \/ Reexec
  PROVE  UpdateInv'
<1>1. ASSUME NEW c \in Conns, NEW st \in {"failed", "polling"}, UNCHANGED <<vars, build, service>>,
             Answer(c, st), jobs' = jobs \ {c}, symlink' \in Builds, exiting' \in BOOLEAN,
             \/ st = "failed" /\ UNCHANGED <<symlink, exiting>>
             \/ symlink' = "new" /\ exiting'
      PROVE  UpdateInv'
  <2>1. IInv' /\ OneProcess' /\ \A d \in Conns : Served(d)' = Served(d)
    BY <1>1 DEF vars, UpdateInv, IInv, TypeOK, EmbeddedIsLocal, RoutesAgree, OneActive,
                KnownCoversConnected, Connected, Get, OneProcess, Served
  <2>2. \/ run' = run
        \/ /\ run' = [run EXCEPT !.st = st] /\ run.st = "asked" /\ run.before = c
           /\ c \notin gone /\ sock[c] = "identified"
    BY <1>1 DEF Answer
  <2>3. UpdateTypeOK' /\ (run' # run => run'.st = st /\ run'.before = run.before)
    BY <1>1, <2>2 DEF UpdateInv, UpdateTypeOK, Finished
  <2>4. AskedInstalled'
    BY <1>1, <2>3 DEF UpdateInv, AskedInstalled, vars
  <2>5. run'.st = "polling" => symlink' = "new" /\ (service' = "old" => exiting')
    BY <1>1, <2>3 DEF UpdateInv, PollingMeansSwapped
  <2>6. NoOtherWay'
    <3>1. CASE run' = run
      BY <1>1, <2>1, <3>1 DEF UpdateInv, NoOtherWay
    <3>2. CASE run' # run
      <4>1. run'.before = c /\ Served(c)
        BY <2>2, <2>3, <3>2 DEF UpdateInv, AskedInstalled, Served
      <4> QED
        BY <2>1, <4>1 DEF UpdateInv, OneProcess, NoOtherWay
    <3> QED
      BY <3>1, <3>2
  <2> QED
    BY <2>1, <2>3, <2>4, <2>5, <2>6 DEF UpdateInv, PollingMeansSwapped
<1>2. ASSUME NEW c \in Conns, UpdateFails(c) PROVE UpdateInv'
  BY <1>1, <1>2 DEF UpdateFails, UpdateInv, UpdateTypeOK
<1>3. ASSUME NEW c \in Conns, Update(c) PROVE UpdateInv'
  BY <1>1, <1>3 DEF Update, Builds
<1>4. CASE Exit
  <2>1. /\ service' = "none" /\ exiting' = FALSE /\ jobs' = {}
        /\ gone' = gone \cup {c \in Conns : sock[c] # "closed" /\ peer[c].mode = "installed"}
        /\ UNCHANGED <<sock, peer, agents, connections, active, knownAgents, disk, writes>>
        /\ UNCHANGED <<build, symlink, run>>
    BY <1>4 DEF Exit
  <2>2. IInv'
    BY <2>1, GoneIgnored DEF UpdateInv, IInv, TypeOK
  <2>3. \A c \in Conns : ~Served(c)'
    BY <2>1 DEF Served
  <2> QED
    BY <2>1, <2>2, <2>3 DEF UpdateInv, UpdateTypeOK, OneProcess, AskedInstalled,
                            PollingMeansSwapped, NoOtherWay
<1>5. CASE Reexec
  <2>1. /\ service = "none" /\ service' = symlink
        /\ UNCHANGED <<vars, build, symlink, exiting, jobs, run>>
    BY <1>5 DEF Reexec
  <2>2. IInv' /\ \A c \in Conns : Served(c)' = Served(c)
    BY <2>1 DEF vars, UpdateInv, IInv, TypeOK, EmbeddedIsLocal, RoutesAgree, OneActive,
                KnownCoversConnected, Connected, Get, Served
  <2>3. \A c \in Conns : build[c] # "none"
    BY DEF UpdateInv, UpdateTypeOK, Handles, Builds
  <2>4. \A c \in Conns : ~Served(c)
    BY <2>1, <2>3 DEF UpdateInv, OneProcess
  <2> QED
    BY <2>1, <2>2, <2>4 DEF UpdateInv, UpdateTypeOK, Builds, OneProcess, AskedInstalled,
                            PollingMeansSwapped, NoOtherWay, vars
<1> QED
  BY <1>2, <1>3, <1>4, <1>5

LEMMA NextUpdateInv == UpdateInv /\ [UpdateNext]_allVars => UpdateInv'
<1> SUFFICES ASSUME UpdateInv, [UpdateNext]_allVars PROVE UpdateInv'
  OBVIOUS
<1>1. CASE UNCHANGED allVars
  BY <1>1 DEF allVars, vars, UpdateInv, IInv, TypeOK, EmbeddedIsLocal, RoutesAgree, OneActive,
              KnownCoversConnected, Connected, Get, UpdateTypeOK, OneProcess, Served,
              AskedInstalled, PollingMeansSwapped, NoOtherWay
<1> QED
  BY <1>1, ConnectUpdateInv, TrafficUpdateInv, TaskUpdateInv, HostUpdateInv DEF UpdateNext

(* updateSelf (agent-cli.ts:379-386) and update_agent (feature.ts:113):    *)
(* whenever the task waits for a reconnect, the host has repointed its     *)
(* symlink and its old process exits or has exited, whatever else connects *)
(* meanwhile.                                                              *)
THEOREM WaitsForARestart == UpdateSpec => []PollingMeansSwapped
<1>1. UpdateInv => PollingMeansSwapped
  BY DEF UpdateInv
<1> QED
  BY InitUpdateInv, NextUpdateInv, <1>1, PTL DEF UpdateSpec

\* The step formula of RightAboutLivePeers.
RightVerdict ==
  run.st = "polling" /\ run'.st \in {"succeeded", "mismatch"}
    /\ Get(Target) \notin gone /\ peer[Get(Target)].mode = "installed"
  => run'.st = "succeeded" /\ service = "new"

(* Of all steps only the poll gives a verdict.  If the old process were    *)
(* still there, the connection it was asked over would be the only one     *)
(* served, and the poll looks for another.                                 *)
LEMMA NextRightVerdict == UpdateInv /\ [UpdateNext]_allVars => RightVerdict
<1> SUFFICES ASSUME UpdateInv, [UpdateNext]_allVars,
                    run.st = "polling", run'.st \in {"succeeded", "mismatch"},
                    Get(Target) \notin gone, peer[Get(Target)].mode = "installed"
             PROVE  run'.st = "succeeded" /\ service = "new"
  BY DEF RightVerdict
<1>1. Poll
  <2>1. ASSUME NEW c \in Conns, NEW st, Answer(c, st) PROVE FALSE
    BY <2>1 DEF Answer
  <2>2. ASSUME run' = run PROVE FALSE
    BY <2>2
  <2>3. ASSUME NEW c \in Conns, Drop(c) PROVE FALSE
    BY <2>2, <2>3 DEF Drop
  <2>4. ASSUME GiveUp PROVE FALSE
    BY <2>4 DEF GiveUp, UpdateInv, UpdateTypeOK
  <2> QED
    BY <2>1, <2>2, <2>3, <2>4
       DEF UpdateNext, allVars, Connect, Traffic, taskVars, UpdateFails, Update, StartUpdate,
           RequestTimeout, Again, Finished, Exit, Reexec
<1>2. /\ Connected(Target) /\ Get(Target) # run.before
      /\ run' = [run EXCEPT !.st = IF run.force \/ build[Get(Target)] = "new"
                                   THEN "succeeded" ELSE "mismatch"]
  BY <1>1 DEF Poll
<1>3. Get(Target) \in Conns /\ sock[Get(Target)] = "identified"
  BY <1>2, InstalledIsRemote DEF UpdateInv
<1>4. Served(Get(Target))
  BY <1>3 DEF Served
<1>5. service # "old"
  BY <1>2, <1>3, <1>4 DEF UpdateInv, NoOtherWay
<1>6. build[Get(Target)] = service /\ build[Get(Target)] \in Builds
  BY <1>3, <1>4 DEF UpdateInv, OneProcess, UpdateTypeOK, Handles
<1>7. build[Get(Target)] = "new" /\ service = "new"
  BY <1>5, <1>6 DEF Builds
<1> QED
  BY <1>2, <1>7 DEF UpdateInv, UpdateTypeOK

(* waitForAgentReconnect (features/servers/feature.ts:150-173): the verdict*)
(* reached on a live connection of the installed agent is that the update  *)
(* succeeded, and the process behind it is the restarted one.              *)
THEOREM VerdictIsRight == UpdateSpec => RightAboutLivePeers
<1>1. UpdateInv /\ UpdateInv' /\ [UpdateNext]_allVars => [RightVerdict]_allVars
  BY NextRightVerdict
<1>2. RightAboutLivePeers <=> [][RightVerdict]_allVars
  BY PTL DEF RightAboutLivePeers, RightVerdict
<1> QED
  BY InitUpdateInv, NextUpdateInv, <1>1, <1>2, PTL DEF UpdateSpec
=============================================================================
