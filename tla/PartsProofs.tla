----------------------------- MODULE PartsProofs -----------------------------
(***************************************************************************)
(* Proofs about the parts that MCParts checks one at a time: the rules of  *)
(* authorization, for any segments and any bound on the length of a name;  *)
(* the tables of accounts and roles and their files, for any number of     *)
(* writes; the reverse proxy, for any nodes, routes, calls and number of   *)
(* edits; the dashboard's polling cache, for any number of widgets; and    *)
(* the renaming of a selection, for any selection and plan.                *)
(***************************************************************************)
EXTENDS ProxyRoutes, Permissions, Directory, HostPoll, BatchRename, TLAPS

(***************************************************************************)
(* Authorization.                                                          *)
(***************************************************************************)

\* A name of at most n segments, as a sequence.
LEMMA NamesAreSequences ==
    ASSUME NEW n \in Nat
    PROVE  Names(n) = {s \in Seq(Segments) : Len(s) <= n}
  <1>1. ASSUME NEW s \in Names(n) PROVE s \in Seq(Segments) /\ Len(s) <= n
    BY <1>1 DEF Names, BoundedSeq, SeqOf
  <1>2. ASSUME NEW s \in Seq(Segments), Len(s) <= n PROVE s \in Names(n)
    <2>1. Len(s) \in 0 .. n /\ s \in [1 .. Len(s) -> Segments]
      BY <1>2
    <2> QED
      BY <2>1 DEF Names, BoundedSeq, SeqOf
  <1> QED
    BY <1>1, <1>2

\* A prefix in terms of its elements.
LEMMA PrefixByElements ==
    ASSUME NEW p \in Seq(Segments), NEW q \in Seq(Segments)
    PROVE  IsPrefix(p, q) <=> /\ Len(p) <= Len(q)
                              /\ \A i \in 1 .. Len(p) : p[i] = q[i]
  BY DEF IsPrefix

\* Two prefixes of one name are comparable.
LEMMA PrefixesCompare ==
    ASSUME NEW p \in Seq(Segments), NEW q \in Seq(Segments), NEW n \in Seq(Segments),
           IsPrefix(p, n), IsPrefix(q, n)
    PROVE  IsPrefix(p, q) \/ IsPrefix(q, p)
  <1>1. CASE Len(p) <= Len(q)
    BY <1>1, PrefixByElements
  <1>2. CASE Len(q) <= Len(p)
    BY <1>2, PrefixByElements
  <1> QED
    BY <1>1, <1>2

\* A name that is extended by a segment is a strict prefix of the result,
\* and so is whatever was a prefix of it.
LEMMA Extension ==
    ASSUME NEW p \in Seq(Segments), NEW q \in Seq(Segments), NEW s \in Segments,
           IsPrefix(p, q)
    PROVE  /\ Append(q, s) \in Seq(Segments)
           /\ Len(Append(q, s)) = Len(q) + 1
           /\ IsStrictPrefix(p, Append(q, s))
  <1> DEFINE n == Append(q, s)
  <1>1. n \in Seq(Segments) /\ Len(n) = Len(q) + 1
    OBVIOUS
  <1>2. \A i \in 1 .. Len(q) : n[i] = q[i]
    OBVIOUS
  <1>3. Len(p) <= Len(q) /\ \A i \in 1 .. Len(p) : p[i] = q[i]
    BY PrefixByElements
  <1> HIDE DEF n
  <1>4. IsPrefix(p, n)
    <2>1. Len(p) <= Len(n) /\ \A i \in 1 .. Len(p) : p[i] = n[i]
      BY <1>1, <1>2, <1>3
    <2> QED
      BY <1>1, <2>1, PrefixByElements
  <1>5. p # n
    BY <1>1, <1>3
  <1> QED
    BY <1>1, <1>4, <1>5 DEF IsStrictPrefix, n

\* The types that the rules compare.
LEMMA Typed ==
    ASSUME NEW a \in Permission
    PROVE  /\ a.path \in Seq(Segments) /\ Len(a.path) <= Depth
           /\ a.wild \in BOOLEAN
           /\ a = [path |-> a.path, wild |-> a.wild]
           /\ ~a.wild => a \in Node(Depth) /\ a.path # <<>>
  BY PermissionsAssumption, NamesAreSequences DEF Permission, Node

\* A name that both prefixes of it begin, one segment longer than either.
LEMMA Witness ==
    ASSUME NEW p \in Seq(Segments), NEW q \in Seq(Segments),
           Len(p) <= Depth, Len(q) <= Depth, IsPrefix(p, q)
    PROVE  \E n \in Node(Depth + 1) :
               /\ ~n.wild
               /\ IsStrictPrefix(p, n.path)
               /\ IsStrictPrefix(q, n.path)
  <1>1. PICK s \in Segments : TRUE
    BY PermissionsAssumption
  <1> DEFINE m == Append(q, s)
             n == [path |-> m, wild |-> FALSE]
  <1>2. IsPrefix(q, q)
    BY PrefixByElements
  <1>3. /\ m \in Seq(Segments) /\ Len(m) = Len(q) + 1
        /\ IsStrictPrefix(p, m) /\ IsStrictPrefix(q, m)
    BY <1>2, Extension
  <1> HIDE DEF m
  <1>4. m # <<>> /\ Len(m) <= Depth + 1
    BY <1>3, PermissionsAssumption
  <1>5. n \in Node(Depth + 1)
    BY <1>3, <1>4, NamesAreSequences, PermissionsAssumption DEF Node
  <1> QED
    BY <1>3, <1>5

(* What the code compares and what its comment means: for two permissions  *)
(* of any length.                                                          *)
LEMMA OverlapMeansShared ==
    ASSUME NEW a \in Permission, NEW b \in Permission
    PROVE  PermissionOverlaps(a, b) <=>
               \E n \in Node(Depth + 1) : PermissionMatches(a, n) /\ PermissionMatches(b, n)
  <1>0. /\ Depth + 1 \in Nat
        /\ Names(Depth) = {s \in Seq(Segments) : Len(s) <= Depth}
        /\ Names(Depth + 1) = {s \in Seq(Segments) : Len(s) <= Depth + 1}
    <2>1. Depth \in Nat /\ Depth + 1 \in Nat
      BY PermissionsAssumption
    <2> QED
      BY <2>1, NamesAreSequences
  <1>1. \A n \in Node(Depth + 1) : /\ n.path \in Seq(Segments) /\ ~n.wild
                                   /\ n = [path |-> n.path, wild |-> n.wild]
    <2> TAKE n \in Node(Depth + 1)
    <2>1. n.path \in Names(Depth + 1) /\ n.wild = FALSE
      BY DEF Node
    <2>2. n = [path |-> n.path, wild |-> n.wild]
      BY DEF Node
    <2> QED
      BY <1>0, <2>1, <2>2
  <1>2. \A x \in Node(Depth) : x \in Node(Depth + 1)
    <2>1. Names(Depth) \subseteq Names(Depth + 1)
      BY <1>0, PermissionsAssumption
    <2> QED
      BY <2>1 DEF Node
  <1> USE Typed
  \* A node is matched by what matches it, and by itself.
  <1>3. CASE ~a.wild
    <2>1. a \in Node(Depth + 1) /\ PermissionMatches(a, a)
      BY <1>2, <1>3 DEF PermissionMatches
    <2>2. \A n \in Node(Depth + 1) : PermissionMatches(a, n) => n = a
      BY <1>3 DEF PermissionMatches
    <2>3. PermissionMatches(a, b) => a = b
      BY <1>3 DEF PermissionMatches
    <2> QED
      BY <2>1, <2>2, <2>3 DEF PermissionOverlaps
  <1>4. CASE ~b.wild
    <2>1. b \in Node(Depth + 1) /\ PermissionMatches(b, b)
      BY <1>2, <1>4 DEF PermissionMatches
    <2>2. \A n \in Node(Depth + 1) : PermissionMatches(b, n) => n = b
      BY <1>4 DEF PermissionMatches
    <2>3. PermissionMatches(b, a) => a = b
      BY <1>4 DEF PermissionMatches
    <2> QED
      BY <2>1, <2>2, <2>3 DEF PermissionOverlaps
  \* Two prefixes share a name if and only if one continues the other.
  <1>5. CASE a.wild /\ b.wild
    <2>1. PermissionOverlaps(a, b) <=> IsPrefix(a.path, b.path) \/ IsPrefix(b.path, a.path)
      <3>1. a = b => IsPrefix(a.path, b.path)
        BY PrefixByElements
      <3> QED
        BY <1>5, <3>1 DEF PermissionOverlaps, PermissionMatches
    <2>2. \A n \in Node(Depth + 1) :
            /\ PermissionMatches(a, n) <=> IsStrictPrefix(a.path, n.path)
            /\ PermissionMatches(b, n) <=> IsStrictPrefix(b.path, n.path)
      BY <1>1, <1>5 DEF PermissionMatches
    <2>3. ASSUME PermissionOverlaps(a, b)
          PROVE  \E n \in Node(Depth + 1) : PermissionMatches(a, n) /\ PermissionMatches(b, n)
      BY <2>1, <2>2, <2>3, Witness
    <2>4. ASSUME NEW n \in Node(Depth + 1), PermissionMatches(a, n), PermissionMatches(b, n)
          PROVE  PermissionOverlaps(a, b)
      <3>1. IsPrefix(a.path, n.path) /\ IsPrefix(b.path, n.path)
        BY <2>2, <2>4 DEF IsStrictPrefix
      <3> QED
        BY <1>1, <2>1, <3>1, PrefixesCompare
    <2> QED
      BY <2>3, <2>4
  <1> QED
    BY <1>3, <1>4, <1>5

-----------------------------------------------------------------------------

(* permissionOverlaps answers what its comment says, for every pair of     *)
(* permissions, of any segments and any length.                            *)
THEOREM Overlap == QuestionSpec => []OverlapIsShared
  <1>1. QuestionInit => OverlapIsShared
    BY OverlapMeansShared DEF QuestionInit, OverlapIsShared
  <1>2. OverlapIsShared /\ UNCHANGED <<grants, need>> => OverlapIsShared'
    BY DEF OverlapIsShared
  <1> QED
    BY <1>1, <1>2, PTL DEF QuestionSpec

(* The gate of an operation and the proxy's gate agree on concrete nodes,  *)
(* sensitive ones included, whatever an account holds.                     *)
THEOREM Gates == QuestionSpec => []GatesAgreeOnNodes
  <1>1. QuestionInit => GatesAgreeOnNodes
    <2> SUFFICES ASSUME QuestionInit, need \in Node(Depth)
                 PROVE  UserCan([isOwner |-> FALSE, permissions |-> grants], need)
                            <=> HasAnyPermission(grants, {need})
      BY DEF GatesAgreeOnNodes
    <2>1. ~need.wild
      BY DEF Node
    <2>2. \A h \in grants : PermissionOverlaps(h, need) <=> PermissionMatches(h, need)
      BY <2>1 DEF PermissionOverlaps, PermissionMatches
    <2>3. UserCan([isOwner |-> FALSE, permissions |-> grants], need) <=> HasPermission(grants, need)
      BY DEF UserCan
    <2> QED
      BY <2>2, <2>3 DEF HasPermission, HasAnyPermission
  <1>2. GatesAgreeOnNodes /\ UNCHANGED <<grants, need>> => GatesAgreeOnNodes'
    BY DEF GatesAgreeOnNodes
  <1> QED
    BY <1>1, <1>2, PTL DEF QuestionSpec

-----------------------------------------------------------------------------
(* Accounts, roles and their files.                                        *)

Files == {"users", "roles"}

\* The writes of a file that have not serialised its table yet.
Unserialised(f) == {s \in InProgress(f) : ~saving[s].written}

\* What the bookkeeping of a file is worth: a write that is the newest, when no
\* other is to come, holds the table, and without one the file does.
OnFile(f) ==
  /\ Unserialised(f) = {} => \A s \in newest \cap InProgress(f) : saving[s].copy = Memory[f]
  /\ Unserialised(f) = {} /\ newest \cap InProgress(f) = {} /\ f \notin stale => disk[f] = Memory[f]

FilesInv ==
  /\ disk = [users |-> disk.users, roles |-> disk.roles]
  /\ saving = [s \in Saves |-> saving[s]]
  /\ \A s \in Saves : saving[s] # NoSave => saving[s].file \in Files
  /\ \A s \in newest : saving[s].written
  /\ \A f \in Files : OnFile(f)

LEMMA FilesInit == DirectoryInit => FilesInv
<1> SUFFICES ASSUME DirectoryInit PROVE FilesInv
  OBVIOUS
<1>1. \A f \in Files : disk[f] = Memory[f]
  BY DEF DirectoryInit, Files, Memory
<1>2. newest = {} /\ \A s \in Saves : saving[s] = NoSave
  BY DEF DirectoryInit
<1> QED
  BY <1>1, <1>2 DEF DirectoryInit, FilesInv, OnFile

\* Nothing that the argument is about changes.
LEMMA FilesKept ==
  ASSUME FilesInv, UNCHANGED <<account, known, disk, saving, newest, stale>>
  PROVE  FilesInv'
BY DEF FilesInv, OnFile, Unserialised, InProgress, Memory

(* An operation changes the table of one file and goes on to write it.     *)
LEMMA SaveBegins ==
  ASSUME FilesInv, NEW f \in Files, Persist(f),
         \A g \in Files : g # f => Memory'[g] = Memory[g]
  PROVE  FilesInv'
<1>1. PICK s \in Saves : saving[s] = NoSave /\ saving' = [saving EXCEPT ![s] = [NoSave EXCEPT !.file = f]]
  BY DEF Persist
<1>2. UNCHANGED <<disk, newest, stale>>
  BY DEF Persist
<1>3. /\ saving'[s].file = f /\ ~saving'[s].written
      /\ \A t \in Saves : t # s => saving'[t] = saving[t]
      /\ saving' = [t \in Saves |-> saving'[t]]
  BY <1>1 DEF FilesInv, NoSave
<1>4. s \notin newest /\ saving[s].file \notin Files
  BY <1>1 DEF FilesInv, NoSave, Files
<1>5. s \in Unserialised(f)'
  BY <1>3 DEF Unserialised, InProgress
<1>6. ASSUME NEW g \in Files, g # f PROVE OnFile(g)'
  <2>1. InProgress(g)' = InProgress(g) /\ Unserialised(g)' = Unserialised(g) /\ s \notin InProgress(g)
    BY <1>3, <1>4, <1>6 DEF InProgress, Unserialised
  <2>2. \A t \in InProgress(g) : saving'[t] = saving[t]
    BY <1>3, <2>1 DEF InProgress
  <2> QED
    BY <1>2, <1>6, <2>1, <2>2 DEF FilesInv, OnFile
<1>7. OnFile(f)'
  BY <1>5 DEF OnFile
<1>8. \A t \in newest' : saving'[t].written
  BY <1>1, <1>2, <1>3, <1>4 DEF FilesInv
<1>9. \A t \in Saves : saving'[t] # NoSave => saving'[t].file \in Files
  BY <1>3 DEF FilesInv
<1> QED
  BY <1>2, <1>3, <1>6, <1>7, <1>8, <1>9 DEF FilesInv

\* A write in progress leaves the other file as it is.
LEMMA OtherFile ==
  ASSUME FilesInv, UNCHANGED memoryVars, NEW s \in Saves, NEW g \in Files,
         saving[s].file # g, saving'[s].file # g,
         \A t \in Saves : t # s => saving'[t] = saving[t],
         newest' \cap InProgress(g) = newest \cap InProgress(g),
         g \in stale' <=> g \in stale, disk'[g] = disk[g]
  PROVE  OnFile(g)'
<1>1. InProgress(g)' = InProgress(g) /\ Unserialised(g)' = Unserialised(g)
  BY DEF InProgress, Unserialised
<1>2. \A t \in InProgress(g) : saving'[t] = saving[t]
  BY DEF InProgress
<1>3. Memory' = Memory /\ OnFile(g)
  BY DEF Memory, memoryVars, FilesInv
<1> QED
  BY <1>1, <1>2, <1>3 DEF OnFile

LEMMA Serialising ==
  ASSUME FilesInv, NEW s \in Saves, Serialises(s)
  PROVE  FilesInv'
<1>0. PICK f : f = saving[s].file
  OBVIOUS
<1> DEFINE e == [file |-> f, written |-> TRUE, copy |-> Memory[f]]
<1>1. /\ f \in Files /\ saving' = [saving EXCEPT ![s] = e]
      /\ newest' = (newest \ InProgress(f)) \cup {s} /\ UNCHANGED <<memoryVars, disk, stale>>
  BY <1>0 DEF Serialises, FilesInv
<1>2. /\ saving'[s].file = f /\ saving'[s].written /\ saving'[s].copy = Memory[f]
      /\ \A t \in Saves : t # s => saving'[t] = saving[t]
      /\ saving' = [t \in Saves |-> saving'[t]]
  BY <1>1 DEF FilesInv
<1>3. Memory' = Memory
  BY <1>1 DEF memoryVars, Memory
<1> HIDE DEF e
<1>4. InProgress(f)' = InProgress(f) /\ newest' \cap InProgress(f) = {s}
  BY <1>0, <1>1, <1>2 DEF InProgress
<1>5. OnFile(f)'
  BY <1>2, <1>3, <1>4 DEF OnFile
<1>6. ASSUME NEW g \in Files, g # f PROVE OnFile(g)'
  <2>1. newest' \cap InProgress(g) = newest \cap InProgress(g)
    BY <1>0, <1>1, <1>6 DEF InProgress
  <2> QED
    BY <1>0, <1>1, <1>2, <1>6, <2>1, OtherFile
<1>7. \A t \in newest' : saving'[t].written
  BY <1>1, <1>2 DEF FilesInv
<1>8. \A t \in Saves : saving'[t] # NoSave => saving'[t].file \in Files
  BY <1>1, <1>2 DEF FilesInv
<1> QED
  BY <1>1, <1>2, <1>5, <1>6, <1>7, <1>8 DEF FilesInv

\* A write is over, done or failed: what of the bookkeeping is the same.
LEMMA Over ==
  ASSUME FilesInv, NEW s \in Saves, NEW f \in Files, f = saving[s].file,
         saving' = [saving EXCEPT ![s] = NoSave], UNCHANGED memoryVars,
         newest' \subseteq newest, s \notin newest', newest \ InProgress(f) \subseteq newest',
         disk' = [users |-> disk'.users, roles |-> disk'.roles],
         \A g \in Files : g # f => disk'[g] = disk[g] /\ (g \in stale' <=> g \in stale),
         OnFile(f)'
  PROVE  FilesInv'
<1>1. /\ saving'[s] = NoSave /\ \A t \in Saves : t # s => saving'[t] = saving[t]
      /\ saving' = [t \in Saves |-> saving'[t]] /\ saving'[s].file \notin Files
  BY DEF FilesInv, Files, NoSave
<1>2. ASSUME NEW g \in Files, g # f PROVE OnFile(g)'
  <2>1. newest' \cap InProgress(g) = newest \cap InProgress(g)
    BY <1>2 DEF InProgress
  <2> QED
    BY <1>1, <1>2, <2>1, OtherFile
<1>3. \A t \in newest' : t # s /\ saving'[t].written
  BY <1>1 DEF FilesInv
<1>4. \A t \in Saves : saving'[t] # NoSave => saving'[t].file \in Files
  BY <1>1 DEF FilesInv
<1> QED
  BY <1>1, <1>2, <1>3, <1>4 DEF FilesInv

LEMMA Landed ==
  ASSUME FilesInv, NEW s \in Saves, Lands(s)
  PROVE  FilesInv'
<1>0. PICK f : f = saving[s].file
  OBVIOUS
<1>1. /\ saving[s].written /\ disk' = [disk EXCEPT ![f] = saving[s].copy]
      /\ saving' = [saving EXCEPT ![s] = NoSave] /\ newest' = newest \ {s}
      /\ stale' = (IF s \in newest THEN stale \ {f} ELSE stale \cup {f})
      /\ UNCHANGED memoryVars
  BY <1>0 DEF Lands
<1>2. saving[s] # NoSave /\ f \in Files
  BY <1>0, <1>1 DEF FilesInv, NoSave
<1>3. /\ disk'[f] = saving[s].copy /\ \A g \in Files : g # f => disk'[g] = disk[g]
      /\ disk' = [users |-> disk'.users, roles |-> disk'.roles]
  BY <1>1, <1>2 DEF FilesInv, Files
<1>4. /\ InProgress(f)' = InProgress(f) \ {s} /\ Unserialised(f)' = Unserialised(f)
      /\ \A t \in InProgress(f)' : saving'[t] = saving[t]
      /\ s \in InProgress(f)
  <2>1. saving'[s] = NoSave /\ \A t \in Saves : t # s => saving'[t] = saving[t]
    BY <1>1 DEF FilesInv
  <2>2. saving'[s].file # f
    BY <1>2, <2>1 DEF NoSave, Files
  <2> QED
    BY <1>0, <1>1, <2>1, <2>2 DEF InProgress, Unserialised
<1>5. Memory' = Memory /\ OnFile(f)
  BY <1>1, <1>2 DEF memoryVars, Memory, FilesInv
<1>6. OnFile(f)'
  <2>1. CASE s \in newest
    BY <1>1, <1>3, <1>4, <1>5, <2>1 DEF OnFile
  <2>2. CASE s \notin newest
    BY <1>1, <1>4, <1>5, <2>2 DEF OnFile
  <2> QED
    BY <2>1, <2>2
<1>7. newest' \subseteq newest /\ s \notin newest' /\ newest \ InProgress(f) \subseteq newest'
  BY <1>1, <1>4
<1>8. \A g \in Files : g # f => (g \in stale' <=> g \in stale)
  BY <1>1
<1> QED
  BY <1>0, <1>1, <1>2, <1>3, <1>6, <1>7, <1>8, Over

LEMMA SaveLost ==
  ASSUME FilesInv, NEW s \in Saves, PersistFails(s)
  PROVE  FilesInv'
<1>0. PICK f : f = saving[s].file
  OBVIOUS
<1> DEFINE missed == s \in newest \/ ~saving[s].written
<1>1. /\ saving[s] # NoSave /\ saving' = [saving EXCEPT ![s] = NoSave]
      /\ newest' = (IF missed THEN newest \ InProgress(f) ELSE newest)
      /\ stale' = (IF missed THEN stale \cup {f} ELSE stale)
      /\ UNCHANGED <<memoryVars, disk>>
  BY <1>0 DEF PersistFails
<1>2. f \in Files /\ s \in InProgress(f)
  BY <1>0, <1>1 DEF FilesInv, InProgress
<1>3. /\ InProgress(f)' = InProgress(f) \ {s}
      /\ \A t \in InProgress(f)' : saving'[t] = saving[t]
  <2>1. saving'[s] = NoSave /\ \A t \in Saves : t # s => saving'[t] = saving[t]
    BY <1>1 DEF FilesInv
  <2>2. saving'[s].file # f
    BY <1>2, <2>1 DEF NoSave, Files
  <2> QED
    BY <1>0, <2>1, <2>2 DEF InProgress
<1>4. Memory' = Memory /\ OnFile(f)
  BY <1>1, <1>2 DEF memoryVars, Memory, FilesInv
<1>5. OnFile(f)'
  <2>1. CASE missed
    BY <1>1, <1>3, <2>1 DEF OnFile
  <2>2. CASE ~missed
    <3>1. Unserialised(f)' = Unserialised(f) /\ newest' \cap InProgress(f)' = newest \cap InProgress(f)
      BY <1>1, <1>3, <2>2 DEF Unserialised
    <3> QED
      BY <1>1, <1>3, <1>4, <2>2, <3>1 DEF OnFile
  <2> QED
    BY <2>1, <2>2
<1>6. newest' \subseteq newest /\ s \notin newest' /\ newest \ InProgress(f) \subseteq newest'
  BY <1>1, <1>2
<1>7. disk' = [users |-> disk'.users, roles |-> disk'.roles]
  BY <1>1 DEF FilesInv
<1>8. \A g \in Files : g # f => (g \in stale' <=> g \in stale)
  BY <1>1
<1> QED
  BY <1>0, <1>1, <1>2, <1>5, <1>6, <1>7, <1>8, Over

LEMMA Restarted == FilesInv /\ StoresRestart => FilesInv'
<1> SUFFICES ASSUME FilesInv, StoresRestart PROVE FilesInv'
  OBVIOUS
<1>1. /\ account' = disk.users /\ known' = RolesRead /\ disk' = [disk EXCEPT !.roles = RolesRead]
      /\ saving' = [s \in Saves |-> NoSave] /\ newest' = {}
  BY DEF StoresRestart
<1>2. disk' = [users |-> disk.users, roles |-> RolesRead]
  BY <1>1 DEF FilesInv
<1>3. \A f \in Files : disk'[f] = Memory'[f]
  BY <1>1, <1>2 DEF Files, Memory
<1>4. disk' = [users |-> disk'.users, roles |-> disk'.roles]
  BY <1>2
<1> QED
  BY <1>1, <1>3, <1>4 DEF FilesInv, OnFile

LEMMA FilesNext ==
  ASSUME FilesInv, [DirectoryNext]_directoryVars
  PROVE  FilesInv'
<1>1. ASSUME NEW p \in People, NEW name \in Usernames, NEW email \in Emails \cup {Absent},
             NEW roles \in SUBSET Roles, AddUser(p, name, email, roles)
      PROVE  FilesInv'
  BY <1>1, FilesKept DEF AddUser, fileVars
<1>2. ASSUME Persist("users"), UNCHANGED known PROVE FilesInv'
  <2>1. \A g \in Files : g # "users" => Memory'[g] = Memory[g]
    BY <1>2 DEF Files, Memory
  <2> QED
    BY <1>2, <2>1, SaveBegins DEF Files
<1>3. ASSUME Persist("roles"), UNCHANGED account PROVE FilesInv'
  <2>1. \A g \in Files : g # "roles" => Memory'[g] = Memory[g]
    BY <1>3 DEF Files, Memory
  <2> QED
    BY <1>3, <2>1, SaveBegins DEF Files
<1>4. ASSUME NEW p \in People, CreateUser(p) \/ DeleteUser(p)
      PROVE  FilesInv'
  BY <1>2, <1>4 DEF CreateUser, DeleteUser
<1>5. ASSUME NEW p \in People, NEW email \in Emails \cup {Absent}, SetEmail(p, email)
      PROVE  FilesInv'
  BY <1>2, <1>5 DEF SetEmail
<1>6. ASSUME NEW p \in People, NEW roles \in SUBSET Roles, SetUserRoles(p, roles)
      PROVE  FilesInv'
  BY <1>2, <1>6 DEF SetUserRoles
<1>7. ASSUME NEW r \in Roles, CreateRole(r) \/ DeleteRole(r) \/ ResetToSeed(r)
      PROVE  FilesInv'
  BY <1>3, <1>7 DEF CreateRole, DeleteRole, ResetToSeed
<1>8. CASE UNCHANGED directoryVars
  BY <1>8, FilesKept DEF directoryVars
<1> QED
  BY <1>1, <1>4, <1>5, <1>6, <1>7, <1>8, Serialising, Landed, SaveLost, Restarted DEF DirectoryNext

LEMMA SettledFile ==
  ASSUME FilesInv, NEW f \in Files, AllLanded(f)
  PROVE  disk[f] = Memory[f]
<1>1. OnFile(f)
  BY SMT DEF FilesInv
<1>2. InProgress(f) = {} /\ f \notin stale
  BY SMT DEF AllLanded
<1>3. Unserialised(f) = {}
  BY SMT, <1>2 DEF Unserialised
<1> QED
  BY SMT, <1>1, <1>2, <1>3 DEF OnFile

(* AccessIsDurable: whatever order the writes of users.json and roles.json *)
(* are serialised and renamed in, whichever of them fail and whenever the  *)
(* control plane restarts, when the last of each has landed and was not    *)
(* overtaken by an older one, a restart finds every account and gives it   *)
(* the roles it has (persistUsers and persist, writeFileAtomic, the two    *)
(* stores' init): the newest write of a file always holds the table,       *)
(* unless one is still to be serialised.                                   *)
THEOREM AccessSurvives == DirectorySpec => []AccessIsDurable
<1>1. FilesInv /\ AllLanded("users") /\ AllLanded("roles") =>
        disk.users = account /\ disk.roles = known
  BY SettledFile DEF Files, Memory
<1>4. ASSUME disk.users = account, disk.roles = known, NEW p \in People
      PROVE  /\ disk.users[p] = account[p]
             /\ Exists(p) /\ account[p].roles \subseteq known =>
                  Resolve(disk.users[p], RolesRead) = Resolve(account[p], known)
  BY <1>4 DEF RolesRead, Resolve
<1>5. FilesInv => AccessIsDurable
  BY <1>1, <1>4 DEF AccessIsDurable
<1> QED
  BY <1>5, FilesInit, FilesNext, PTL DEF DirectorySpec

(***************************************************************************)
(* The reverse proxy: what is saved can be rendered, and a push that had   *)
(* the proxy to itself repairs what others left.                           *)
(***************************************************************************)

CallRecord ==
    [at : {"idle", "mkdir", "write", "push", "loaded", "rejected"},
     op : {"none", "config", "route", "push"}, snap : State,
     node : Nodes \cup {None}, body : RouteTable, alone : BOOLEAN]

\* Types of what the argument is about.
ProxyTypeOK ==
    /\ proxy \in State
    /\ file \in State
    /\ call \in [Calls -> CallRecord]

(* The inductive invariant: the store and the file are renderable, and so  *)
(* is what any call is about to write over the file.                       *)
Snapshots == \A c \in Calls : Renderable(call[c].snap)

ProxyInv == ProxyTypeOK /\ NoStrandedRoute /\ Snapshots

\* What a step owes of the calls: their types, and renderable snapshots.
CallsOK(calls) ==
    /\ calls \in [Calls -> CallRecord]
    /\ \A c \in Calls : Renderable(calls[c].snap)

LEMMA EmptyIsRenderable ==
    Empty \in State /\ Renderable(Empty) /\ NoCall \in CallRecord /\ Renderable(NoCall.snap)
  <1>1. [r \in Routes |-> None] \in RouteTable
    BY DEF RouteTable
  <1>2. Empty \in State
    BY <1>1 DEF Empty, State
  <1>3. Renderable(Empty)
    BY DEF Renderable, Empty
  <1>4. NoCall \in CallRecord
    BY <1>1, <1>2 DEF NoCall, CallRecord, Empty
  <1> QED
    BY <1>2, <1>3, <1>4 DEF NoCall

\* A call that goes on to another step keeps its snapshot.
LEMMA GoingOn ==
    ASSUME CallsOK(call), NEW c \in Calls,
           NEW step \in {"idle", "mkdir", "write", "push", "loaded", "rejected"},
           Goto(c, step)
    PROVE  CallsOK(call')
  BY DEF CallsOK, Goto, CallRecord

\* A call that begins has nothing to write yet.
LEMMA Beginning ==
    ASSUME CallsOK(call), NEW c \in Calls, NEW op \in {"config", "route"}, Begin(c, op)
    PROVE  CallsOK(call')
  <1> DEFINE rec == [NoCall EXCEPT !.at = "mkdir", !.op = op]
  <1>1. rec \in CallRecord /\ rec.snap = NoCall.snap
    BY EmptyIsRenderable DEF CallRecord
  <1>2. Renderable(rec.snap)
    BY <1>1, EmptyIsRenderable
  <1>3. call' = [d \in Calls |-> IF d = c THEN rec ELSE [call[d] EXCEPT !.alone = FALSE]]
    BY DEF Begin
  <1>4. \A d \in Calls : /\ [call[d] EXCEPT !.alone = FALSE] \in CallRecord
                         /\ [call[d] EXCEPT !.alone = FALSE].snap = call[d].snap
    BY DEF CallsOK, CallRecord
  <1> HIDE DEF rec
  <1> QED
    BY <1>1, <1>2, <1>3, <1>4 DEF CallsOK

\* A call that ends, or that is replaced by one that has nothing to write.
LEMMA Replacing ==
    ASSUME CallsOK(call), NEW c \in Calls
    PROVE  CallsOK([call EXCEPT ![c] = NoCall])
  BY EmptyIsRenderable DEF CallsOK

\* An attempt to push: the store keeps its configuration and its routes.
LEMMA Pushing ==
    ASSUME ProxyInv, NEW c \in Calls, Push(c)
    PROVE  CallsOK(call') /\ proxy' \in State /\ Renderable(proxy')
  <1> DEFINE pushed == [NoCall EXCEPT !.op = "push"]
             with(rec) == [d \in Calls |-> IF d = c THEN rec
                                                    ELSE [call[d] EXCEPT !.alone = FALSE]]
  <1>1. CallsOK(call) /\ proxy \in State /\ Renderable(proxy)
    BY DEF ProxyInv, ProxyTypeOK, NoStrandedRoute, Snapshots, CallsOK
  <1>2. ASSUME NEW rec \in CallRecord, rec.snap = NoCall.snap
        PROVE  CallsOK(with(rec))
    <2>1. \A d \in Calls : /\ [call[d] EXCEPT !.alone = FALSE] \in CallRecord
                           /\ [call[d] EXCEPT !.alone = FALSE].snap = call[d].snap
      BY <1>1 DEF CallsOK, CallRecord
    <2>2. Renderable(rec.snap)
      BY <1>2, EmptyIsRenderable
    <2> QED
      BY <1>1, <2>1, <2>2 DEF CallsOK
  <1>3. CASE /\ proxy.config # None
             /\ call' = with([pushed EXCEPT !.at = "push", !.node = proxy.config,
                                  !.body = proxy.routes,
                                  !.alone = ({d \in Calls \ {c} : ~At(d, "idle")} = {}
                                             /\ late = {})])
             /\ UNCHANGED proxy
    <2> DEFINE rec == [pushed EXCEPT !.at = "push", !.node = proxy.config,
                                     !.body = proxy.routes,
                                     !.alone = ({d \in Calls \ {c} : ~At(d, "idle")} = {}
                                                /\ late = {})]
    <2>1. proxy.config \in Nodes \cup {None} /\ proxy.routes \in RouteTable
      BY <1>1 DEF State
    <2>2. rec \in CallRecord /\ rec.snap = NoCall.snap
      BY <2>1, EmptyIsRenderable DEF CallRecord
    <2> HIDE DEF rec
    <2> QED
      BY <1>1, <1>2, <1>3, <2>2 DEF rec
  <1>4. CASE call' = with([pushed EXCEPT !.at = "mkdir"]) /\ Outcome(c, FALSE)
    <2> DEFINE rec == [pushed EXCEPT !.at = "mkdir"]
    <2>1. rec \in CallRecord /\ rec.snap = NoCall.snap
      BY EmptyIsRenderable DEF CallRecord
    <2>2. proxy' = [proxy EXCEPT !.ok = FALSE]
      BY <1>4 DEF Outcome
    <2>3. proxy' \in State /\ proxy'.config = proxy.config /\ proxy'.routes = proxy.routes
      BY <1>1, <2>2 DEF State
    <2> HIDE DEF rec
    <2> QED
      BY <1>1, <1>2, <1>4, <2>1, <2>3 DEF Renderable, rec
  <1> QED
    BY <1>3, <1>4 DEF Push

-----------------------------------------------------------------------------

LEMMA Initially == ProxyInit => ProxyInv
  BY EmptyIsRenderable
     DEF ProxyInit, ProxyInv, ProxyTypeOK, NoStrandedRoute, Snapshots

\* Every step keeps what is saved, in memory and on the way, renderable.
LEMMA Step == ProxyInv /\ [ProxyNext]_proxyVars => ProxyInv'
  <1> SUFFICES ASSUME ProxyInv, [ProxyNext]_proxyVars
               PROVE  ProxyInv'
    OBVIOUS
  <1>1. /\ CallsOK(call)
        /\ proxy \in State /\ Renderable(proxy)
        /\ file \in State /\ Renderable(file)
    BY DEF ProxyInv, ProxyTypeOK, NoStrandedRoute, Snapshots, CallsOK
  <1>2. SUFFICES /\ CallsOK(call')
                 /\ proxy' \in State /\ Renderable(proxy')
                 /\ file' \in State /\ Renderable(file')
    BY DEF ProxyInv, ProxyTypeOK, NoStrandedRoute, Snapshots, CallsOK, Renderable
  \* Moving the proxy looks at the routes.
  <1>3. ASSUME NEW c \in Calls, NEW n \in Nodes \cup {None}, SetConfig(c, n)
        PROVE  CallsOK(call') /\ proxy' \in State /\ Renderable(proxy') /\ file' = file
    <2>1. proxy' = [proxy EXCEPT !.config = n] /\ file' = file /\ Begin(c, "config")
      BY <1>3 DEF SetConfig
    <2>2. proxy' \in State /\ proxy'.config = n /\ proxy'.routes = proxy.routes
      BY <1>1, <2>1 DEF State
    <2>3. ASSUME n # None, NEW r \in Routes
          PROVE  proxy.routes[r] \in {n, HostPort, None}
      <3>1. proxy.routes[r] \in Nodes \cup {HostPort, None}
        BY <1>1 DEF State, RouteTable
      <3>2. proxy.routes[r] \notin Nodes \ {n}
        BY <1>3, <2>3 DEF SetConfig, Stranded
      <3> QED
        BY <3>1, <3>2
    <2> QED
      BY <1>1, <2>1, <2>2, <2>3, Beginning DEF Renderable
  \* Saving a route looks at the proxy's node.
  <1>4. ASSUME NEW c \in Calls, NEW r \in Routes, NEW target \in Nodes \cup {HostPort},
               SaveRoute(c, r, target)
        PROVE  CallsOK(call') /\ proxy' \in State /\ Renderable(proxy') /\ file' = file
    <2>1. proxy' = [proxy EXCEPT !.routes[r] = target] /\ file' = file /\ Begin(c, "route")
      BY <1>4 DEF SaveRoute
    <2>2. /\ proxy' \in State /\ proxy'.config = proxy.config
          /\ proxy'.routes = [proxy.routes EXCEPT ![r] = target]
      BY <1>1, <2>1 DEF State, RouteTable
    <2>3. proxy.config # None => target \in {proxy.config, HostPort, None}
      BY <1>4 DEF SaveRoute, Valid
    <2>4. \A x \in Routes : proxy'.routes[x] = (IF x = r THEN target ELSE proxy.routes[x])
      BY <1>1, <2>2 DEF State, RouteTable
    <2> QED
      BY <1>1, <2>1, <2>2, <2>3, <2>4, Beginning DEF Renderable
  <1>5. ASSUME NEW c \in Calls, NEW r \in Routes, DeleteRoute(c, r)
        PROVE  CallsOK(call') /\ proxy' \in State /\ Renderable(proxy') /\ file' = file
    <2>1. proxy' = [proxy EXCEPT !.routes[r] = None] /\ file' = file /\ Begin(c, "route")
      BY <1>5 DEF DeleteRoute
    <2>2. /\ proxy' \in State /\ proxy'.config = proxy.config
          /\ proxy'.routes = [proxy.routes EXCEPT ![r] = None]
      BY <1>1, <2>1 DEF State, RouteTable
    <2>3. \A x \in Routes : proxy'.routes[x] = (IF x = r THEN None ELSE proxy.routes[x])
      BY <1>1, <2>2 DEF State, RouteTable
    <2> QED
      BY <1>1, <2>1, <2>2, <2>3, Beginning DEF Renderable
  \* A snapshot is one of the store, and the file is one of the snapshots.
  <1>6. ASSUME NEW c \in Calls, Serialise(c)
        PROVE  CallsOK(call') /\ UNCHANGED <<proxy, file>>
    <2> DEFINE writing == [call[c] EXCEPT !.at = "write", !.snap = proxy]
    <2>1. call' = [call EXCEPT ![c] = writing] /\ UNCHANGED <<proxy, file>>
      BY <1>1, <1>6 DEF Serialise, CallsOK
    <2>2. writing \in CallRecord /\ writing.snap = proxy
      BY <1>1 DEF CallsOK, CallRecord
    <2> HIDE DEF writing
    <2> QED
      BY <1>1, <2>1, <2>2 DEF CallsOK
  <1>7. ASSUME NEW c \in Calls, Saved(c)
        PROVE  /\ CallsOK(call') /\ proxy' \in State /\ Renderable(proxy')
               /\ file' \in State /\ Renderable(file')
    <2>1. file' \in State /\ Renderable(file')
      BY <1>1, <1>7 DEF Saved, CallsOK, CallRecord
    <2>2. CASE Push(c)
      BY <2>1, <2>2, Pushing
    <2>3. CASE call' = [call EXCEPT ![c] = NoCall] /\ UNCHANGED proxy
      BY <1>1, <2>1, <2>3, Replacing
    <2> QED
      BY <1>7, <2>2, <2>3 DEF Saved
  <1>8. ASSUME NEW c \in Calls, SaveFails(c)
        PROVE  CallsOK(call') /\ UNCHANGED <<proxy, file>>
    BY <1>1, <1>8, Replacing DEF SaveFails
  <1>9. ASSUME NEW c \in Calls, Apply(c)
        PROVE  CallsOK(call') /\ proxy' \in State /\ Renderable(proxy') /\ file' = file
    BY <1>9, Pushing DEF Apply
  <1>10. ASSUME NEW c \in Calls, Load(c)
         PROVE  CallsOK(call') /\ UNCHANGED <<proxy, file>>
    BY <1>1, <1>10, GoingOn DEF Load
  \* The outcome of a push is kept beside what it was a push of.
  <1>11. ASSUME NEW c \in Calls, Answered(c) \/ GivenUp(c)
         PROVE  CallsOK(call') /\ proxy' \in State /\ Renderable(proxy') /\ file' = file
    <2>1. Goto(c, "mkdir") /\ file' = file
      BY <1>11 DEF Answered, GivenUp
    <2>2. PICK ok \in BOOLEAN : proxy' = [proxy EXCEPT !.ok = ok]
      BY <1>11 DEF Answered, GivenUp, Outcome, At
    <2>3. proxy' \in State /\ proxy'.config = proxy.config /\ proxy'.routes = proxy.routes
      BY <1>1, <2>2 DEF State
    <2> QED
      BY <1>1, <2>1, <2>3, GoingOn DEF Renderable
  <1>12. ASSUME LoadLate
         PROVE  UNCHANGED <<proxy, file, call>>
    BY <1>12 DEF LoadLate
  <1>13. ASSUME Restart
         PROVE  CallsOK(call') /\ proxy' = file /\ file' = file
    <2>1. call' = [c \in Calls |-> NoCall] /\ proxy' = file /\ file' = file
      BY <1>13 DEF Restart
    <2> QED
      BY <2>1, EmptyIsRenderable DEF CallsOK
  <1>14. CASE UNCHANGED proxyVars
    BY <1>1, <1>14 DEF proxyVars
  <1> QED
    BY <1>1, <1>3, <1>4, <1>5, <1>6, <1>7, <1>8, <1>9, <1>10, <1>11, <1>12, <1>13, <1>14
       DEF ProxyNext

(* store.ts:26-30 and 115-118: what the store and proxy.json hold can      *)
(* always be rendered, whatever calls overlap, fail or are cut off by a    *)
(* restart, and however often the proxy moves.                             *)
THEOREM AlwaysRenderable == ProxySpec => []NoStrandedRoute
  <1>1. ProxyInv => NoStrandedRoute
    BY DEF ProxyInv
  <1> QED
    BY <1>1, Initially, Step, PTL DEF ProxySpec

-----------------------------------------------------------------------------
(* What a push that had the proxy to itself leaves behind                  *)

\* The push of c has had no company since it began.
Solo(c) == call[c].alone /\ call[c].at \in {"push", "loaded", "rejected"}

(* Nobody else is at work while a push is alone, so that what it carries,  *)
(* and once loaded what Caddy serves, is what the store holds.             *)
SoloIsCurrent ==
    \A c \in Calls : Solo(c) =>
        /\ \A d \in Calls \ {c} : At(d, "idle")
        /\ late = {}
        /\ call[c].node \in Nodes
        /\ call[c].node = proxy.config /\ call[c].body = proxy.routes
        /\ At(c, "loaded") => caddy[proxy.config] = proxy.routes

HealInv ==
    /\ ProxyInv
    /\ caddy \in [Nodes -> RouteTable]
    /\ late \subseteq [node : Nodes, body : RouteTable]
    /\ \A c \in Calls : At(c, "push") => call[c].node \in Nodes
    /\ SoloIsCurrent

LEMMA HealInitially == ProxyInit => HealInv
  <1> SUFFICES ASSUME ProxyInit PROVE HealInv
    OBVIOUS
  <1>1. ProxyInv
    BY Initially
  <1>2. caddy \in [Nodes -> RouteTable] /\ late = {}
    BY EmptyIsRenderable DEF ProxyInit, State
  <1>3. \A c \in Calls : call[c].at = "idle"
    BY DEF ProxyInit, NoCall
  <1> QED
    BY <1>1, <1>2, <1>3 DEF HealInv, SoloIsCurrent, Solo, At

\* What every other call becomes when c is replaced by rec.
Beside(c, rec) ==
    call' = [d \in Calls |-> IF d = c THEN rec ELSE [call[d] EXCEPT !.alone = FALSE]]

\* What an attempt to push leaves: a push of what the store holds, or a failure.
LEMMA Pushed ==
    ASSUME ProxyInv, NEW c \in Calls, Push(c)
    PROVE  \E rec \in CallRecord :
              /\ Beside(c, rec)
              /\ \/ rec.at = "mkdir"
                 \/ /\ proxy.config # None /\ UNCHANGED proxy
                    /\ rec.at = "push" /\ rec.node = proxy.config /\ rec.body = proxy.routes
                    /\ rec.alone => {d \in Calls \ {c} : ~At(d, "idle")} = {} /\ late = {}
  <1> DEFINE fine == {d \in Calls \ {c} : ~At(d, "idle")} = {} /\ late = {}
             begun == [[NoCall EXCEPT !.op = "push"] EXCEPT
                         !.at = "push", !.node = proxy.config, !.body = proxy.routes,
                         !.alone = fine]
             retried == [[NoCall EXCEPT !.op = "push"] EXCEPT !.at = "mkdir"]
  <1>1. proxy.config \in Nodes \cup {None} /\ proxy.routes \in RouteTable
    BY DEF ProxyInv, ProxyTypeOK, State
  <1>2. \/ proxy.config # None /\ UNCHANGED proxy /\ Beside(c, begun)
        \/ Beside(c, retried)
    BY DEF Push, Beside
  <1>3. retried \in CallRecord /\ retried.at = "mkdir"
    BY EmptyIsRenderable DEF CallRecord
  <1> HIDE DEF fine
  <1>4. /\ begun \in CallRecord /\ begun.at = "push"
        /\ begun.node = proxy.config /\ begun.body = proxy.routes
    BY <1>1, EmptyIsRenderable DEF CallRecord, fine
  <1>5. begun.alone = fine
    BY EmptyIsRenderable DEF CallRecord
  <1> HIDE DEF begun, retried
  <1>6. begun.alone => {d \in Calls \ {c} : ~At(d, "idle")} = {} /\ late = {}
    BY <1>5 DEF fine
  <1> QED
    BY <1>2, <1>3, <1>4, <1>6

\* A call that begins has not pushed anything.
LEMMA Begun ==
    ASSUME NEW c \in Calls, NEW op \in {"config", "route"}, Begin(c, op)
    PROVE  \E rec \in CallRecord : Beside(c, rec) /\ rec.at = "mkdir"
  <1> DEFINE rec == [NoCall EXCEPT !.at = "mkdir", !.op = op]
  <1>1. rec \in CallRecord /\ rec.at = "mkdir"
    BY EmptyIsRenderable DEF CallRecord
  <1>2. Beside(c, rec)
    BY DEF Begin, Beside
  <1> QED
    BY <1>1, <1>2

\* Either leaves no other push alone.
LEMMA CompanyEnds ==
    ASSUME ProxyInv, NEW c \in Calls, NEW rec \in CallRecord, Beside(c, rec)
    PROVE  /\ call'[c] = rec
           /\ \A d \in Calls \ {c} : /\ ~call'[d].alone /\ call'[d].at = call[d].at
                                     /\ call'[d].node = call[d].node
  BY DEF ProxyInv, ProxyTypeOK, CallRecord, Beside

\* A call that begins is not a push yet.
LEMMA BeginHeals ==
    ASSUME HealInv, NEW c \in Calls, NEW op \in {"config", "route"}, Begin(c, op)
    PROVE  /\ \A d \in Calls : ~Solo(d)'
           /\ \A d \in Calls : At(d, "push")' => call'[d].node \in Nodes
  <1>1. PICK rec \in CallRecord : Beside(c, rec) /\ rec.at = "mkdir"
    BY Begun
  <1> QED
    BY <1>1, CompanyEnds DEF HealInv, Solo, At

\* A push carries what the store holds; it is alone if nothing else is there.
LEMMA PushHeals ==
    ASSUME HealInv, NEW c \in Calls, Push(c), UNCHANGED <<late, caddy>>
    PROVE  SoloIsCurrent' /\ \A d \in Calls : At(d, "push")' => call'[d].node \in Nodes
  <1>1. PICK rec \in CallRecord :
              /\ Beside(c, rec)
              /\ \/ rec.at = "mkdir"
                 \/ /\ proxy.config # None /\ UNCHANGED proxy
                    /\ rec.at = "push" /\ rec.node = proxy.config /\ rec.body = proxy.routes
                    /\ rec.alone => {d \in Calls \ {c} : ~At(d, "idle")} = {} /\ late = {}
    BY Pushed DEF HealInv
  <1>2. /\ call'[c] = rec
        /\ \A d \in Calls \ {c} : /\ ~call'[d].alone /\ call'[d].at = call[d].at
                                  /\ call'[d].node = call[d].node
    BY <1>1, CompanyEnds DEF HealInv
  <1>3. \A d \in Calls \ {c} : ~Solo(d)' /\ (At(d, "push")' => call'[d].node \in Nodes)
    BY <1>2 DEF HealInv, Solo, At
  <1>4. CASE rec.at = "mkdir"
    BY <1>2, <1>3, <1>4 DEF SoloIsCurrent, Solo, At
  <1>5. CASE rec.at # "mkdir"
    <2>1. proxy.config \in Nodes
      BY <1>1, <1>5 DEF HealInv, ProxyInv, ProxyTypeOK, State
    <2>2. call'[c].alone => (\A d \in Calls \ {c} : At(d, "idle")') /\ late' = {}
      BY <1>1, <1>2, <1>5 DEF At
    <2>3. At(c, "push")' /\ call'[c].node = proxy'.config /\ call'[c].body = proxy'.routes
      BY <1>1, <1>2, <1>5 DEF At
    <2>4. proxy' = proxy
      BY <1>1, <1>5
    <2> QED
      BY <1>3, <2>1, <2>2, <2>3, <2>4 DEF SoloIsCurrent, Solo, At
  <1> QED
    BY <1>4, <1>5

\* A call that goes on, or ends, outside a push: a push that is alone is its own.
LEMMA OthersHeal ==
    ASSUME HealInv, NEW c \in Calls, ~At(c, "idle"),
           NEW rec, call' = [call EXCEPT ![c] = rec], rec.at \in {"idle", "mkdir", "write"}
    PROVE  (\A d \in Calls : ~Solo(d)') /\ (\A d \in Calls : At(d, "push")' => call'[d].node \in Nodes)
  <1>1. call'[c] = rec /\ \A d \in Calls \ {c} : call'[d] = call[d]
    BY DEF HealInv, ProxyInv, ProxyTypeOK
  <1>2. \A d \in Calls \ {c} : ~Solo(d)
    BY DEF HealInv, SoloIsCurrent, At
  <1> QED
    BY <1>1, <1>2 DEF HealInv, Solo, At

\* Going on to another step changes only the step.
LEMMA GoesTo ==
    ASSUME ProxyInv, NEW c \in Calls, NEW step, Goto(c, step)
    PROVE  /\ call' = [call EXCEPT ![c] = [call[c] EXCEPT !.at = step]]
           /\ [call[c] EXCEPT !.at = step].at = step
           /\ call'[c].node = call[c].node /\ call'[c].body = call[c].body
           /\ call'[c].alone = call[c].alone /\ call'[c].at = step
           /\ \A d \in Calls \ {c} : call'[d] = call[d]
  BY DEF Goto, ProxyInv, ProxyTypeOK, CallRecord

LEMMA HealStep == HealInv /\ [ProxyNext]_proxyVars => HealInv'
  <1> SUFFICES ASSUME HealInv, [ProxyNext]_proxyVars PROVE HealInv'
    OBVIOUS
  <1>1. ProxyInv /\ ProxyInv'
    BY Step DEF HealInv
  <1>2. SUFFICES /\ caddy' \in [Nodes -> RouteTable]
                 /\ late' \subseteq [node : Nodes, body : RouteTable]
                 /\ \A c \in Calls : At(c, "push")' => call'[c].node \in Nodes
                 /\ SoloIsCurrent'
    BY <1>1 DEF HealInv
  <1>3. /\ caddy \in [Nodes -> RouteTable]
        /\ late \subseteq [node : Nodes, body : RouteTable]
        /\ \A c \in Calls : /\ At(c, "push") => call[c].node \in Nodes
                            /\ call[c].body \in RouteTable
    BY <1>1 DEF HealInv, ProxyInv, ProxyTypeOK, CallRecord
  <1>4. ASSUME UNCHANGED <<late, caddy>>, \A d \in Calls : ~Solo(d)',
               \A d \in Calls : At(d, "push")' => call'[d].node \in Nodes
        PROVE  HealInv'
    BY <1>1, <1>3, <1>4 DEF HealInv, SoloIsCurrent
  \* A change of the store begins a call.
  <1>5. ASSUME NEW c \in Calls,
               \/ \E n \in Nodes \cup {None} : SetConfig(c, n)
               \/ \E r \in Routes, target \in Nodes \cup {HostPort} : SaveRoute(c, r, target)
               \/ \E r \in Routes : DeleteRoute(c, r)
        PROVE  HealInv'
    <2>1. UNCHANGED <<late, caddy>> /\ \E op \in {"config", "route"} : Begin(c, op)
      BY <1>5 DEF SetConfig, SaveRoute, DeleteRoute
    <2> QED
      BY <1>4, <2>1, BeginHeals
  <1>6. ASSUME NEW c \in Calls, Apply(c) PROVE HealInv'
    BY <1>1, <1>3, <1>6, PushHeals DEF Apply, HealInv
  <1>7. ASSUME NEW c \in Calls, Serialise(c) \/ SaveFails(c) PROVE HealInv'
    <2>1. /\ ~At(c, "idle") /\ UNCHANGED <<late, caddy>>
          /\ \E rec : call' = [call EXCEPT ![c] = rec] /\ rec.at \in {"idle", "mkdir", "write"}
      <3>1. CASE Serialise(c)
        <4>1. /\ call' = [call EXCEPT ![c] = [call[c] EXCEPT !.at = "write", !.snap = proxy]]
              /\ [call[c] EXCEPT !.at = "write", !.snap = proxy].at = "write"
          BY <1>1, <3>1 DEF Serialise, ProxyInv, ProxyTypeOK, CallRecord
        <4> QED
          BY <3>1, <4>1 DEF Serialise, At
      <3>2. CASE SaveFails(c)
        <4>1. /\ At(c, "mkdir") \/ At(c, "write")
              /\ call' = [call EXCEPT ![c] = NoCall] /\ UNCHANGED <<late, caddy>>
          BY <3>2 DEF SaveFails
        <4>2. NoCall.at = "idle"
          BY DEF NoCall
        <4> QED
          BY <4>1, <4>2 DEF At
      <3> QED
        BY <1>7, <3>1, <3>2
    <2> QED
      BY <1>4, <2>1, OthersHeal
  <1>8. ASSUME NEW c \in Calls, Saved(c) PROVE HealInv'
    <2>1. ~At(c, "idle") /\ UNCHANGED <<late, caddy>>
      BY <1>8 DEF Saved, At
    <2>2. CASE Push(c)
      BY <1>1, <1>3, <2>1, <2>2, PushHeals DEF HealInv
    <2>3. CASE call' = [call EXCEPT ![c] = NoCall]
      BY <1>4, <2>1, <2>3, OthersHeal DEF NoCall
    <2> QED
      BY <1>8, <2>2, <2>3 DEF Saved
  \* The one push that is alone changes what Caddy serves to what it carries.
  <1>9. ASSUME NEW c \in Calls, Load(c) PROVE HealInv'
    <2>1. At(c, "push") /\ UNCHANGED <<proxy, late>>
      BY <1>9 DEF Load
    <2>2. PICK step \in {"loaded", "rejected"} :
            /\ Goto(c, step)
            /\ caddy' = IF step = "loaded" THEN [caddy EXCEPT ![call[c].node] = call[c].body]
                                          ELSE caddy
      BY <1>9 DEF Load
    <2>3. /\ call'[c].node = call[c].node /\ call'[c].body = call[c].body
          /\ call'[c].alone = call[c].alone /\ call'[c].at = step
          /\ \A d \in Calls \ {c} : call'[d] = call[d]
      BY <1>1, <2>2, GoesTo
    <2>4. caddy' \in [Nodes -> RouteTable]
      BY <1>3, <2>1, <2>2
    <2>5. \A d \in Calls \ {c} : ~Solo(d)
      BY <2>1 DEF HealInv, SoloIsCurrent, At
    <2>6. Solo(c)' => Solo(c)
      BY <2>1, <2>3 DEF Solo, At
    <2>7. SoloIsCurrent'
      <3> SUFFICES ASSUME NEW d \in Calls, Solo(d)'
                   PROVE  /\ \A e \in Calls \ {d} : At(e, "idle")'
                          /\ late' = {}
                          /\ call'[d].node \in Nodes
                          /\ call'[d].node = proxy'.config /\ call'[d].body = proxy'.routes
                          /\ At(d, "loaded")' => caddy'[proxy'.config] = proxy'.routes
        BY DEF SoloIsCurrent
      <3>1. d = c /\ Solo(c)
        BY <2>3, <2>5, <2>6 DEF Solo
      <3>2. /\ \A e \in Calls \ {c} : At(e, "idle")
            /\ late = {}
            /\ call[c].node \in Nodes
            /\ call[c].node = proxy.config /\ call[c].body = proxy.routes
        BY <3>1 DEF HealInv, SoloIsCurrent
      <3>3. step = "loaded" => caddy'[proxy.config] = proxy.routes
        BY <1>3, <2>2, <3>2
      <3> QED
        BY <2>1, <2>3, <3>1, <3>2, <3>3 DEF At
    <2> QED
      BY <1>1, <1>3, <2>1, <2>3, <2>4, <2>7 DEF HealInv, At
  <1>10. ASSUME NEW c \in Calls, Answered(c) \/ GivenUp(c) PROVE HealInv'
    <2>1. ~At(c, "idle") /\ Goto(c, "mkdir") /\ UNCHANGED caddy
      BY <1>10 DEF Answered, GivenUp, At
    <2>2. /\ \A d \in Calls : ~Solo(d)'
          /\ \A d \in Calls : At(d, "push")' => call'[d].node \in Nodes
      BY <1>1, <2>1, GoesTo, OthersHeal
    <2>3. late' \subseteq [node : Nodes, body : RouteTable]
      <3>1. At(c, "push") =>
              [node |-> call[c].node, body |-> call[c].body] \in [node : Nodes, body : RouteTable]
        BY <1>3
      <3>2. \/ late' = late
            \/ At(c, "push") /\ late' = late \cup {[node |-> call[c].node, body |-> call[c].body]}
        BY <1>10 DEF Answered, GivenUp
      <3> QED
        BY <1>3, <3>1, <3>2
    <2> QED
      BY <1>1, <1>3, <2>1, <2>2, <2>3 DEF HealInv, SoloIsCurrent
  \* While a push is alone there is no late one.
  <1>11. ASSUME LoadLate PROVE HealInv'
    <2>1. PICK p \in late : /\ late' = late \ {p} /\ UNCHANGED <<proxy, call>>
                            /\ caddy' = [caddy EXCEPT ![p.node] = p.body] \/ caddy' = caddy
      BY <1>11 DEF LoadLate
    <2>2. \A c \in Calls : ~Solo(c)
      BY DEF HealInv, SoloIsCurrent
    <2>3. caddy' \in [Nodes -> RouteTable]
      BY <1>3, <2>1
    <2> QED
      BY <1>1, <1>3, <2>1, <2>2, <2>3 DEF HealInv, SoloIsCurrent, Solo, At
  <1>12. ASSUME Restart PROVE HealInv'
    <2>1. \A c \in Calls : call'[c].at = "idle"
      BY <1>12 DEF Restart, NoCall
    <2>2. late' \subseteq [node : Nodes, body : RouteTable] /\ caddy' = caddy
      BY <1>3, <1>12 DEF Restart
    <2> QED
      BY <1>1, <1>3, <2>1, <2>2 DEF HealInv, SoloIsCurrent, Solo, At
  <1>13. CASE UNCHANGED proxyVars
    BY <1>1, <1>3, <1>13 DEF proxyVars, HealInv, SoloIsCurrent, Solo, At
  <1> QED
    BY <1>5, <1>6, <1>7, <1>8, <1>9, <1>10, <1>11, <1>12, <1>13 DEF ProxyNext, HealInv

\* The step formula of ApplyHeals.
Healed ==
    \A c \in Calls :
        call[c].alone /\ call[c].at \in {"loaded", "rejected"} /\ call'[c].at = "mkdir"
        /\ proxy'.ok
        => caddy[proxy.config] = proxy.routes

\* A push that Caddy rejected is not answered by success.
LEMMA StepHeals == HealInv /\ [ProxyNext]_proxyVars => Healed
  <1> SUFFICES ASSUME HealInv, [ProxyNext]_proxyVars, NEW c \in Calls,
                      call[c].alone, call[c].at \in {"loaded", "rejected"},
                      call'[c].at = "mkdir", proxy'.ok
               PROVE  caddy[proxy.config] = proxy.routes
    BY DEF Healed
  <1>1. CASE call[c].at = "loaded"
    BY <1>1 DEF HealInv, SoloIsCurrent, Solo, At
  <1>2. CASE call[c].at = "rejected"
    <2>1. ProxyInv /\ Solo(c) /\ \A d \in Calls \ {c} : At(d, "idle")
      BY <1>2 DEF HealInv, SoloIsCurrent, Solo
    <2>2. ASSUME NEW d \in Calls, Answered(d) \/ GivenUp(d) PROVE FALSE
      <3>1. d = c
        BY <2>1, <2>2 DEF Answered, GivenUp, At
      <3>2. proxy' = [proxy EXCEPT !.ok = FALSE]
        BY <1>2, <2>2, <3>1 DEF Answered, GivenUp, Outcome, At
      <3> QED
        BY <2>1, <3>2 DEF ProxyInv, ProxyTypeOK, State
    <2>3. ASSUME NEW d \in Calls,
                 Push(d) \/ \E op \in {"config", "route"} : Begin(d, op),
                 At(d, "idle") \/ At(d, "write")
          PROVE  FALSE
      <3>1. d # c /\ \E rec \in CallRecord : Beside(d, rec)
        BY <1>2, <2>1, <2>3, Pushed, Begun DEF At
      <3> QED
        BY <1>2, <2>1, <3>1, CompanyEnds
    <2>4. ASSUME NEW d \in Calls, ~At(d, "idle"), d # c PROVE FALSE
      BY <2>1, <2>4
    <2>5. ASSUME NEW d \in Calls, Saved(d) \/ Serialise(d) \/ SaveFails(d) \/ Load(d) PROVE FALSE
      <3>1. At(d, "write") \/ At(d, "mkdir") \/ At(d, "push")
        BY <2>5 DEF Saved, Serialise, SaveFails, Load
      <3> QED
        BY <1>2, <2>4, <3>1 DEF At
    <2>6. ASSUME NEW d \in Calls,
                 \/ \E n \in Nodes \cup {None} : SetConfig(d, n)
                 \/ \E r \in Routes, target \in Nodes \cup {HostPort} : SaveRoute(d, r, target)
                 \/ \E r \in Routes : DeleteRoute(d, r)
                 \/ Apply(d)
          PROVE  FALSE
      <3>1. At(d, "idle") /\ (Push(d) \/ \E op \in {"config", "route"} : Begin(d, op))
        BY <2>6 DEF SetConfig, SaveRoute, DeleteRoute, Apply, Begin
      <3> QED
        BY <2>3, <3>1
    <2>7. ASSUME Restart PROVE FALSE
      BY <2>7 DEF Restart, NoCall
    <2>8. ASSUME call' = call PROVE FALSE
      BY <1>2, <2>8
    <2> QED
      BY <2>2, <2>5, <2>6, <2>7, <2>8 DEF ProxyNext, proxyVars, LoadLate
  <1> QED
    BY <1>1, <1>2

(* manager.ts:106-110: whatever pushes were lost, rejected, given up or    *)
(* overtaken before, one that succeeds with nothing else in progress       *)
(* leaves Caddy serving the store's routes, for any nodes, routes and      *)
(* calls.                                                                  *)
THEOREM PushesHeal == ProxySpec => ApplyHeals
  <1>1. HealInv /\ HealInv' /\ [ProxyNext]_proxyVars => [Healed]_proxyVars
    BY StepHeals
  <1>2. ApplyHeals <=> [][Healed]_proxyVars
    BY PTL DEF ApplyHeals, Healed
  <1> QED
    BY HealInitially, HealStep, <1>1, <1>2, PTL DEF ProxySpec

(***************************************************************************)
(* The dashboard's polling cache.                                          *)
(***************************************************************************)

PollInv == PollTypeOK /\ PollsForViewers

(* No key, no timers: what useHostPoll's module starts with.               *)
LEMMA Starting == PollInit => PollInv
  BY DEF PollInit, PollInv, PollTypeOK, PollsForViewers, Watched

(* Widgets that come and go (useHostPoll's effect and its cleanup).        *)
LEMMA Subscribing ==
  ASSUME PollInv, NEW w \in Widgets, Mount(w) \/ Unmount(w)
  PROVE  PollInv'
<1>1. CASE Mount(w)
  <2>1. CASE answered
    BY <1>1, <2>1 DEF PollInv, PollTypeOK, PollsForViewers, Watched, Mount, Schedule
  <2>2. CASE ~answered
    BY <1>1, <2>2 DEF PollInv, PollTypeOK, PollsForViewers, Watched, Mount
  <2> QED
    BY <2>1, <2>2
<1>2. CASE Unmount(w)
  BY <1>2 DEF PollInv, PollTypeOK, PollsForViewers, Watched, Unmount
<1> QED
  BY <1>1, <1>2

(* Requests: a refresh, the poll timer, and an answer (fetchNow).          *)
LEMMA Fetching ==
  ASSUME PollInv, Refresh \/ TimerFires \/ Settled
  PROVE  PollInv'
<1>1. CASE Refresh
  BY <1>1 DEF PollInv, PollTypeOK, PollsForViewers, Watched, Refresh, FetchNow
<1>2. CASE TimerFires
  BY <1>2 DEF PollInv, PollTypeOK, PollsForViewers, Watched, TimerFires, FetchNow
<1>3. CASE Settled
  BY <1>3 DEF PollInv, PollTypeOK, PollsForViewers, Watched, Settled, Schedule
<1> QED
  BY <1>1, <1>2, <1>3

(* The tab is hidden or shown, and the entry dropped.                      *)
LEMMA Leaving ==
  ASSUME PollInv, Hide \/ Show \/ Evict
  PROVE  PollInv'
<1>1. CASE Hide
  BY <1>1 DEF PollInv, PollTypeOK, PollsForViewers, Watched, Hide
<1>2. CASE Show
  BY <1>2 DEF PollInv, PollTypeOK, PollsForViewers, Watched, Show, FetchNow
<1>3. CASE Evict
  BY <1>3 DEF PollInv, PollTypeOK, PollsForViewers, Watched, Evict
<1> QED
  BY <1>1, <1>2, <1>3

(* However many widgets share a value, and in whatever order they come and *)
(* go, requests end and the tab is hidden: a watched value is being        *)
(* fetched or will be, no clock runs for another one, and an entry without *)
(* subscribers is going to be dropped (schedule, fetchNow, the visibility  *)
(* listener, evictTimer).                                                  *)
THEOREM ClockRunsForViewers == PollSpec => []PollsForViewers
<1>1. PollInv /\ [PollNext]_pollVars => PollInv'
  <2>1. ASSUME PollInv, PollNext
        PROVE  PollInv'
    BY <2>1, Subscribing, Fetching, Leaving DEF PollNext
  <2>2. ASSUME PollInv, UNCHANGED pollVars
        PROVE  PollInv'
    BY <2>2 DEF PollInv, PollTypeOK, PollsForViewers, Watched, pollVars
  <2> QED
    BY <2>1, <2>2
<1>2. PollInv => PollsForViewers
  BY DEF PollInv
<1> QED
  BY <1>1, <1>2, Starting, PTL DEF PollSpec

(***************************************************************************)
(* The batch rename.                                                       *)
(***************************************************************************)

PlanTypes ==
  /\ to \in [Rows -> FileNames]
  /\ \A i, j \in Rows : to[i] = to[j] => i = j
  /\ folder \in [Places -> FileNames \cup {NoFile}]
  /\ phase \in {"ready", "parking", "renaming", "finished"}
  /\ next \in Nat
  /\ parked \subseteq Changing /\ renamed \subseteq Changing /\ failed \subseteq Changing

\* Which rows the loops are through with.
Progress ==
  /\ phase = "ready" => next = 1 /\ parked = {} /\ renamed = {} /\ failed = {}
  /\ phase = "parking" => renamed = {} /\ parked \cap failed = {} /\ \A i \in parked \cup failed : i < next
  /\ phase = "parking" => \A i \in Changing : i < next => i \in parked \cup failed
  /\ phase = "renaming" /\ Staged => Changing \subseteq parked \cup failed
  /\ phase = "renaming" => \A i \in (renamed \cup failed) \cap Pending : i < next
  /\ phase = "parking" \/ parked # {} => Staged

\* No row was dropped by the first loop.
AllParked == failed \cap Changing \subseteq Pending

\* Where the file of a row is.
RowIsThere(i) ==
  /\ i \in renamed => folder[to[i]] = Entries[i]
  /\ i \in failed => Entries[i] \in {folder[PlaceOf(i)], folder[to[i]]}
  /\ i \notin renamed \cup failed => folder[PlaceOf(i)] = Entries[i]

RenameInv == PlanTypes /\ Progress /\ (AllParked => \A i \in Rows : RowIsThere(i))

LEMMA RowFacts ==
  /\ Rows \subseteq Nat \ {0}
  /\ \A i \in Rows : Entries[i] \in FileNames /\ Entries[i] \in Sources
  /\ \A i, j \in Rows : Entries[i] = Entries[j] => i = j
  /\ \A i \in Rows, f \in FileNames : i # f
<1>1. Rows = 1 .. Len(Entries)
  BY RenameAssumption DEF Rows
<1> QED
  BY <1>1, RenameAssumption DEF Sources, Rows

LEMMA RenameStart == RenameInit => RenameInv
<1> SUFFICES ASSUME RenameInit PROVE RenameInv
  OBVIOUS
<1>1. PICK others \in SUBSET (FileNames \ Sources) :
        /\ Acceptable(to, others)
        /\ folder = [p \in Places |-> IF p \in Sources \cup others THEN p ELSE NoFile]
  BY DEF RenameInit
<1>2. /\ phase = "ready" /\ next = 1 /\ parked = {} /\ renamed = {} /\ failed = {}
      /\ to \in [Rows -> FileNames]
  BY DEF RenameInit
<1>3. PlanTypes
  <2>1. folder \in [Places -> FileNames \cup {NoFile}]
    BY <1>1, RowFacts DEF Sources
  <2> QED
    BY <1>1, <1>2, <2>1 DEF PlanTypes, Acceptable
<1>4. Progress
  BY <1>2 DEF Progress
<1>5. \A i \in Rows : RowIsThere(i)
  BY <1>1, <1>2, RowFacts DEF RowIsThere, PlaceOf, Places
<1> QED
  BY <1>3, <1>4, <1>5 DEF RenameInv

\* In either loop a row's move touches nobody else's place: rows are parked
\* under names of their own, and without the detour no target is a source.
LEMMA PlacesApart ==
  ASSUME PlanTypes, Progress, NEW i \in Changing, NEW j \in Rows, i # j,
         phase = "renaming", i \in Pending, j \in parked \/ j \notin Changing \/ ~Staged
  PROVE  /\ PlaceOf(i) \in Places /\ to[i] \in Places /\ PlaceOf(j) \in Places /\ to[j] \in Places
         /\ to[i] # to[j] /\ to[i] # PlaceOf(j)
         /\ PlaceOf(i) # PlaceOf(j) /\ PlaceOf(i) # to[j]
<1>1. i \in Rows /\ to[i] \in FileNames /\ to[j] \in FileNames /\ to[i] # to[j]
  BY DEF PlanTypes, Changing
<1>2. PlaceOf(i) \in Places /\ to[i] \in Places /\ PlaceOf(j) \in Places /\ to[j] \in Places
  BY <1>1, RowFacts DEF PlaceOf, Places
<1>3. CASE Staged
  <2>1. PlaceOf(i) = i
    BY <1>3 DEF Pending, PlaceOf
  <2>2. PlaceOf(j) = j \/ (PlaceOf(j) = Entries[j] /\ to[j] = Entries[j])
    BY <1>3 DEF PlaceOf, Changing
  <2> QED
    BY <1>1, <1>2, <2>1, <2>2, RowFacts
<1>4. CASE ~Staged
  <2>1. PlaceOf(i) = Entries[i] /\ PlaceOf(j) = Entries[j]
    BY <1>4 DEF PlaceOf, Progress
  <2>2. to[i] \notin Sources /\ (j \in Changing => to[j] \notin Sources)
    BY <1>4 DEF Staged
  <2>3. j \notin Changing => to[j] = Entries[j]
    BY DEF Changing
  <2> QED
    BY <1>1, <1>2, <2>1, <2>2, <2>3, RowFacts
<1> QED
  BY <1>3, <1>4

LEMMA Parking ==
  ASSUME RenameInv, NEW ok \in BOOLEAN, Park(ok)
  PROVE  RenameInv'
<1>1. /\ phase = "parking" /\ next \in Changing /\ UNCHANGED <<to, phase, renamed>>
      /\ next \in Rows /\ Entries[next] \in Places /\ next \in Places /\ Entries[next] # next
      /\ Staged /\ renamed = {} /\ next' = next + 1
  BY RowFacts DEF Park, RenameInv, Progress, Changing, Places
<1>2. folder' = Moved(Entries[next], next) \/ (~ok /\ folder' = folder)
  BY DEF Park, Request
<1>3. \/ ok /\ parked' = parked \cup {next} /\ failed' = failed
      \/ ~ok /\ failed' = failed \cup {next} /\ parked' = parked
  BY DEF Park
<1>4. next \notin parked \cup failed
  BY <1>1 DEF RenameInv, Progress, PlanTypes
<1>5. PlanTypes'
  <2>1. folder' \in [Places -> FileNames \cup {NoFile}]
    BY <1>1, <1>2 DEF RenameInv, PlanTypes, Moved
  <2>2. Changing' = Changing
    BY <1>1 DEF Changing
  <2>3. next' \in Nat
    BY <1>1, RowFacts
  <2>4. parked' \subseteq Changing /\ renamed' \subseteq Changing /\ failed' \subseteq Changing
    BY <1>1, <1>3 DEF RenameInv, PlanTypes
  <2> QED
    BY <1>1, <2>1, <2>2, <2>3, <2>4 DEF RenameInv, PlanTypes
<1>6. Progress'
  <2>1. /\ \A i \in parked' \cup failed' : i < next'
        /\ parked' \cap failed' = {}
    <3>1. \A i \in parked \cup failed : i < next /\ i \in Nat
      BY <1>1, RowFacts DEF RenameInv, Progress, PlanTypes, Changing
    <3>2. parked \cap failed = {} /\ next \in Nat /\ next < next + 1
      BY <1>1, RowFacts DEF RenameInv, Progress
    <3>3. \A i \in parked' \cup failed' : i < next'
      BY <1>1, <1>3, <3>1, <3>2
    <3> QED
      BY <1>3, <1>4, <3>2, <3>3
  <2>2. Staged' /\ Changing' = Changing
    BY <1>1 DEF Staged, Changing
  <2>3. \A i \in Changing' : i < next' => i \in parked' \cup failed'
    BY <1>1, <1>3, <2>2, RowFacts DEF RenameInv, Progress, PlanTypes, Changing
  <2> QED
    BY <1>1, <2>1, <2>2, <2>3 DEF Progress
<1>7. ASSUME AllParked', NEW i \in Rows PROVE RowIsThere(i)'
  <2>1. Pending = parked /\ Pending' = parked' /\ Changing' = Changing
    BY <1>1 DEF Pending, Staged, Changing
  <2>2. ok /\ parked' = parked \cup {next} /\ failed' = failed
    BY <1>1, <1>3, <1>4, <1>7, <2>1 DEF AllParked
  <2>3. AllParked
    BY <1>4, <1>7, <2>1, <2>2 DEF AllParked
  <2>4. failed = {}
    <3>1. failed \subseteq parked
      BY <2>1, <2>3 DEF AllParked, RenameInv, PlanTypes
    <3> QED
      BY <1>1, <3>1 DEF RenameInv, Progress
  <2>5. folder[PlaceOf(i)] = Entries[i]
    BY <1>1, <2>3, <2>4 DEF RenameInv, RowIsThere
  <2>6. folder' = Moved(Entries[next], next)
    BY <1>2, <2>2
  <2>7. folder'[PlaceOf(i)'] = Entries[i]
    <3>1. CASE i = next
      <4>1. PlaceOf(i) = Entries[i] /\ PlaceOf(i)' = i
        BY <1>4, <2>2, <3>1 DEF PlaceOf
      <4> QED
        BY <1>1, <2>5, <2>6, <3>1, <4>1 DEF Moved, RenameInv, PlanTypes
    <3>2. CASE i # next
      <4>1. PlaceOf(i)' = PlaceOf(i)
        BY <2>2, <3>2 DEF PlaceOf
      <4>2. PlaceOf(i) \in Places /\ PlaceOf(i) # next /\ PlaceOf(i) # Entries[next]
        BY <1>1, <3>2, RowFacts DEF PlaceOf, Places
      <4> QED
        BY <1>1, <2>5, <2>6, <4>1, <4>2 DEF Moved, RenameInv, PlanTypes
    <3> QED
      BY <3>1, <3>2
  <2> QED
    BY <1>1, <2>2, <2>4, <2>7 DEF RowIsThere
<1> QED
  BY <1>5, <1>6, <1>7 DEF RenameInv

LEMMA Renaming ==
  ASSUME RenameInv, NEW ok \in BOOLEAN, Rename(ok)
  PROVE  RenameInv'
<1>1. /\ phase = "renaming" /\ next \in Pending /\ UNCHANGED <<to, phase, parked>> /\ next' = next + 1
      /\ Pending \subseteq Changing /\ next \in Changing /\ next \in Rows /\ Changing \subseteq Rows
  BY DEF Rename, RenameInv, PlanTypes, Pending, Changing
<1>2. folder' = Moved(PlaceOf(next), to[next]) \/ (~ok /\ folder' = folder)
  BY DEF Rename, Request
<1>3. \/ ok /\ renamed' = renamed \cup {next} /\ failed' = failed
      \/ ~ok /\ failed' = failed \cup {next} /\ renamed' = renamed
  BY DEF Rename
<1>4. next \notin renamed \cup failed
  BY <1>1 DEF RenameInv, Progress, PlanTypes
<1>5. Pending' = Pending /\ Changing' = Changing /\ Staged' = Staged
  BY <1>1 DEF Pending, Staged, Changing
<1>6. \A i \in Rows : PlaceOf(i)' = PlaceOf(i)
  BY <1>1 DEF PlaceOf
<1>7. PlaceOf(next) \in Places /\ to[next] \in Places /\ PlaceOf(next) # to[next]
  <2>1. to[next] \in FileNames /\ to[next] # Entries[next]
    BY <1>1 DEF RenameInv, PlanTypes, Changing
  <2> QED
    BY <1>1, <2>1, RowFacts DEF PlaceOf, Places
<1>8. PlanTypes'
  <2>1. folder' \in [Places -> FileNames \cup {NoFile}]
    BY <1>2, <1>7 DEF RenameInv, PlanTypes, Moved
  <2>2. next' \in Nat
    BY <1>1, RowFacts
  <2>3. parked' \subseteq Changing /\ renamed' \subseteq Changing /\ failed' \subseteq Changing
    BY <1>1, <1>3 DEF RenameInv, PlanTypes
  <2> QED
    BY <1>1, <1>5, <2>1, <2>2, <2>3 DEF RenameInv, PlanTypes
<1>9. Progress'
  <2>1. \A i \in (renamed' \cup failed') \cap Pending : i < next'
    <3>1. \A i \in (renamed \cup failed) \cap Pending : i < next /\ i \in Nat
      BY <1>1, RowFacts DEF RenameInv, Progress
    <3> QED
      BY <1>1, <1>3, <3>1, RowFacts
  <2>2. Staged => Changing \subseteq parked' \cup failed'
    BY <1>1, <1>3 DEF RenameInv, Progress
  <2> QED
    BY <1>1, <1>5, <2>1, <2>2 DEF RenameInv, Progress
<1>10. ASSUME AllParked', NEW i \in Rows PROVE RowIsThere(i)'
  <2>1. AllParked
    BY <1>3, <1>5, <1>10 DEF AllParked
  <2>2. RowIsThere(i) /\ RowIsThere(next)
    BY <1>1, <2>1 DEF RenameInv
  <2>3. CASE i = next
    <3>1. folder[PlaceOf(next)] = Entries[next]
      BY <1>4, <2>2 DEF RowIsThere
    <3>2. folder' = Moved(PlaceOf(next), to[next]) => folder'[to[next]] = Entries[next]
      BY <1>7, <3>1 DEF Moved, RenameInv, PlanTypes
    <3>3. CASE ok
      BY <1>1, <1>2, <1>3, <1>4, <2>3, <3>2, <3>3 DEF RowIsThere
    <3>4. CASE ~ok
      <4>1. Entries[i] \in {folder'[PlaceOf(i)], folder'[to[i]]}
        BY <1>2, <2>3, <3>1, <3>2
      <4> QED
        BY <1>1, <1>3, <1>4, <1>6, <2>3, <3>4, <4>1 DEF RowIsThere
    <3> QED
      BY <3>3, <3>4
  <2>4. CASE i # next
    <3>1. i \in parked \/ i \notin Changing \/ ~Staged
      BY <1>1, <2>1 DEF RenameInv, Progress, AllParked, Pending
    <3>2. /\ PlaceOf(i) \in Places /\ to[i] \in Places
          /\ to[next] # to[i] /\ to[next] # PlaceOf(i)
          /\ PlaceOf(next) # PlaceOf(i) /\ PlaceOf(next) # to[i]
      BY <1>1, <2>4, <3>1, PlacesApart DEF RenameInv
    <3>3. folder'[PlaceOf(i)] = folder[PlaceOf(i)] /\ folder'[to[i]] = folder[to[i]]
      BY <1>2, <1>7, <3>2 DEF Moved, RenameInv, PlanTypes
    <3>4. (i \in renamed' <=> i \in renamed) /\ (i \in failed' <=> i \in failed)
      BY <1>3, <2>4
    <3> QED
      BY <1>1, <1>6, <2>2, <3>3, <3>4 DEF RowIsThere
  <2> QED
    BY <2>3, <2>4
<1> QED
  BY <1>8, <1>9, <1>10 DEF RenameInv

\* The steps between the requests.
LEMMA Stepping ==
  ASSUME RenameInv, StartRename \/ Skip \/ LoopEnds
  PROVE  RenameInv'
<1>1. UNCHANGED <<to, folder, parked, renamed, failed>>
  BY DEF StartRename, Skip, LoopEnds
<1>2. Changing' = Changing /\ Staged' = Staged /\ Pending' = Pending
  BY <1>1 DEF Changing, Staged, Pending
<1>3. PlanTypes'
  BY <1>1, <1>2 DEF RenameInv, PlanTypes, StartRename, Skip, LoopEnds
<1>4. Progress'
  <2>1. CASE StartRename
    <3>1. next = 1 /\ \A i \in Changing : ~(i < next)
      BY <2>1, RowFacts DEF RenameInv, Progress, StartRename, Changing
    <3> QED
      BY <1>1, <1>2, <2>1, <3>1 DEF RenameInv, Progress, StartRename
  <2>2. CASE Skip
    <3>1. next' = next + 1 /\ next \in Nat /\ \A i \in Changing : i \in Nat
      BY <2>2, RowFacts DEF Skip, RenameInv, PlanTypes, Changing
    <3>2. CASE phase = "parking" /\ next \notin Changing
      BY <1>1, <1>2, <2>2, <3>1, <3>2 DEF RenameInv, Progress, PlanTypes, Skip
    <3>3. CASE phase = "renaming" /\ next \notin Pending
      BY <1>1, <1>2, <2>2, <3>1, <3>3 DEF RenameInv, Progress, PlanTypes, Skip
    <3> QED
      BY <2>2, <3>2, <3>3 DEF Skip
  <2>3. CASE LoopEnds
    <3>1. \A i \in Changing : i < next
      BY <2>3, RenameAssumption DEF LoopEnds, Changing, Rows
    <3>2. CASE phase = "parking"
      <4>1. Pending = parked
        BY <3>2 DEF Pending, RenameInv, Progress
      <4> QED
        BY <1>1, <1>2, <2>3, <3>1, <3>2, <4>1 DEF RenameInv, Progress, LoopEnds
    <3>3. CASE phase = "renaming"
      BY <1>1, <1>2, <2>3, <3>3 DEF RenameInv, Progress, LoopEnds
    <3> QED
      BY <2>3, <3>2, <3>3 DEF LoopEnds
  <2> QED
    BY <2>1, <2>2, <2>3
<1>5. AllParked' => \A i \in Rows : RowIsThere(i)'
  BY <1>1, <1>2 DEF RenameInv, AllParked, RowIsThere, PlaceOf
<1> QED
  BY <1>3, <1>4, <1>5 DEF RenameInv

(* A batch whose rows could all be parked, or need not be, leaves every    *)
(* file where the dialog reports it (rename's "renamed" and "left as"),    *)
(* whichever of its requests fail or lose their replies: for any selection *)
(* and any acceptable plan.                                                *)
THEOREM NothingGetsLost == RenameSpec => []FilesAreWhereItSays
<1>1. RenameInit => RenameInv
  BY RenameStart
<1>2. RenameInv /\ [RenameNext]_renameVars => RenameInv'
  <2> SUFFICES ASSUME RenameInv, [RenameNext]_renameVars PROVE RenameInv'
    OBVIOUS
  <2>1. CASE UNCHANGED renameVars
    BY <2>1 DEF renameVars, RenameInv, PlanTypes, Progress, AllParked, RowIsThere, PlaceOf,
                Pending, Staged, Changing
  <2> QED
    BY <2>1, Parking, Renaming, Stepping DEF RenameNext
<1>3. RenameInv => FilesAreWhereItSays
  <2> SUFFICES ASSUME RenameInv, failed \cap Changing \subseteq Pending, phase = "finished",
                      NEW i \in Rows
               PROVE  /\ i \in renamed => folder[to[i]] = Entries[i]
                      /\ i \in failed => Entries[i] \in {folder[PlaceOf(i)], folder[to[i]]}
                      /\ i \notin Changing => folder[Entries[i]] = Entries[i]
    BY DEF FilesAreWhereItSays
  <2>1. RowIsThere(i)
    BY DEF RenameInv, AllParked
  <2>2. i \notin Changing => PlaceOf(i) = Entries[i] /\ i \notin renamed \cup failed
    BY DEF RenameInv, PlanTypes, PlaceOf
  <2> QED
    BY <2>1, <2>2 DEF RowIsThere
<1> QED
  BY <1>1, <1>2, <1>3, PTL DEF RenameSpec
=============================================================================
