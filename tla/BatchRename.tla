----------------------------- MODULE BatchRename -----------------------------
(***************************************************************************)
(* Renaming a selection of files (BatchRenameModal.tsx): the checks of the *)
(* plan, and the requests, one awaited after the other, which park every   *)
(* file under a temporary name first when a target is a current name.      *)
(*                                                                         *)
(* The host renames as rename(2) does: what has the target's name is gone. *)
(* Any request may fail, and the reply of one that was carried out may get *)
(* lost.  Left out: how a pattern expands to a name, the order of the rows *)
(* before they are sent, and other programs at work in the folder.         *)
(***************************************************************************)
EXTENDS Naturals, Sequences

CONSTANTS
  FileNames,  \* names in the folder, those of the plan included
  Entries,    \* the current names of the selection, in the order of the rows
  NoFile

Rows == DOMAIN Entries

\* The selection is one of files of one folder.
ASSUME RenameAssumption ==
  /\ Entries \in Seq(FileNames)
  /\ \A i, j \in Rows : Entries[i] = Entries[j] => i = j
  /\ FileNames \cap Rows = {}

Sources == {Entries[i] : i \in Rows}

\* A file is known by the name it had; the name a row is parked under, by
\* the number of the row.
Places == FileNames \cup Rows

VARIABLES
  to,       \* the plan
  folder,   \* the file at each place
  phase,    \* "ready", "parking", "renaming" or "finished"
  next,     \* the row whose request is sent next
  parked,   \* the rows that sit under their temporary name
  renamed,  \* what the caller will be told got renamed
  failed    \* what the dialog says could not be renamed

renameVars == <<to, folder, phase, next, parked, renamed, failed>>

RenameTypeOK ==
  /\ to \in [Rows -> FileNames]
  /\ folder \in [Places -> FileNames \cup {NoFile}]
  /\ phase \in {"ready", "parking", "renaming", "finished"}
  /\ next \in 1 .. Len(Entries) + 1
  /\ parked \subseteq Rows /\ renamed \subseteq Rows /\ failed \subseteq Rows

-----------------------------------------------------------------------------

\* No row of the plan has a problem: no name is given twice or taken by a
\* file outside the selection.
Acceptable(plan, others) ==
  /\ \A i, j \in Rows : plan[i] = plan[j] => i = j
  /\ \A i \in Rows : plan[i] \notin others
  /\ \E i \in Rows : plan[i] # Entries[i]

RenameInit ==
  /\ to \in [Rows -> FileNames]
  /\ \E others \in SUBSET (FileNames \ Sources) :
       /\ Acceptable(to, others)
       /\ folder = [p \in Places |-> IF p \in Sources \cup others THEN p ELSE NoFile]
  /\ phase = "ready" /\ next = 1
  /\ parked = {} /\ renamed = {} /\ failed = {}

Changing == {i \in Rows : to[i] # Entries[i]}

\* Variant: only a target that another row leaves behind needs the detour.
Staged_Later == \E i, j \in Changing : i > j /\ to[i] = Entries[j]

\* `staged`: the batch lands on one of its own current names.
Staged == \E i \in Changing : to[i] \in Sources

\* rename(2) on the host.
Moved(from, target) == [folder EXCEPT ![target] = folder[from], ![from] = NoFile]

\* What a request from `from` to `target` leaves; `ok`: its reply arrives.
Request(from, target, ok) ==
  \/ folder' = Moved(from, target)
  \/ ~ok /\ UNCHANGED folder

StartRename ==
  /\ phase = "ready"
  /\ phase' = IF Staged THEN "parking" ELSE "renaming"
  /\ UNCHANGED <<to, folder, next, parked, renamed, failed>>

\* The first loop: a row that failed to park is dropped.
Park(ok) ==
  /\ phase = "parking" /\ next \in Changing
  /\ Request(Entries[next], next, ok)
  /\ IF ok THEN parked' = parked \cup {next} /\ UNCHANGED failed
           ELSE failed' = failed \cup {next} /\ UNCHANGED parked
  /\ next' = next + 1
  /\ UNCHANGED <<to, phase, renamed>>

\* The rows the second loop goes through.
Pending == IF Staged THEN parked ELSE Changing

\* Where such a row sits.
PlaceOf(i) == IF i \in parked THEN i ELSE Entries[i]

\* The second loop.
Rename(ok) ==
  /\ phase = "renaming" /\ next \in Pending
  /\ Request(PlaceOf(next), to[next], ok)
  /\ IF ok THEN renamed' = renamed \cup {next} /\ UNCHANGED failed
           ELSE failed' = failed \cup {next} /\ UNCHANGED renamed
  /\ next' = next + 1
  /\ UNCHANGED <<to, phase, parked>>

\* On to the next row of a loop, or to what follows it.
Skip ==
  /\ \/ phase = "parking" /\ next \in Rows \ Changing
     \/ phase = "renaming" /\ next \in Rows \ Pending
  /\ next' = next + 1
  /\ UNCHANGED <<to, folder, phase, parked, renamed, failed>>

LoopEnds ==
  /\ phase \in {"parking", "renaming"} /\ next = Len(Entries) + 1
  /\ phase' = IF phase = "parking" THEN "renaming" ELSE "finished"
  /\ next' = 1
  /\ UNCHANGED <<to, folder, parked, renamed, failed>>

RenameNext ==
  \/ StartRename
  \/ \E ok \in BOOLEAN : Park(ok) \/ Rename(ok)
  \/ Skip
  \/ LoopEnds

RenameSpec == RenameInit /\ [][RenameNext]_renameVars

-----------------------------------------------------------------------------

Survives(file) == \E p \in Places : folder[p] = file

(* A batch whose rows could all be parked, or need not be, finds every     *)
(* file again, whichever of its requests fail then or lose their replies:  *)
(* what is reported as renamed has its new name, what is reported as left  *)
(* somewhere is there or has its new name, and the rest has not moved      *)
(* (rename: "renamed", "left as").                                         *)
FilesAreWhereItSays ==
  phase = "finished" /\ failed \cap Changing \subseteq Pending =>
    \A i \in Rows :
      /\ i \in renamed => folder[to[i]] = Entries[i]
      /\ i \in failed => Entries[i] \in {folder[PlaceOf(i)], folder[to[i]]}
      /\ i \notin Changing => folder[Entries[i]] = Entries[i]

(* "So the batch never overwrites one of its own sources", and a row that  *)
(* failed to park "keeps its original name rather than being renamed over  *)
(* by phase two" (the plan's comment and rename's).                        *)
SourcesSurvive == \A i \in Rows : Survives(Entries[i])
=============================================================================
