---------------------------- MODULE ComposeStacks ----------------------------
(* The registry of compose stacks of one host (features/compose/store.ts), *)
(* the compose verbs that go with a removal (features/docker/docker.ts)    *)
(* and the dialogs that call them.                                         *)
(*                                                                         *)
(* A stack is registered when it is created or imported, and adopted when  *)
(* a read of the host's section finds containers of a project that has no  *)
(* record.  Every call awaits the host several times, the browsers poll,   *)
(* and people start and delete things on the host meanwhile.  The records  *)
(* of other hosts are apart throughout: each function filters by host.     *)
(* Names, manifests and the contents of files are left out, since nothing  *)
(* decides by them.                                                        *)
EXTENDS Naturals, FiniteSets, SequencesExt

CONSTANTS
  Folders,      \* directories of the host that may hold a stack
  NoFolder,     \* a config_files label that names no directory
  Projects,     \* compose project names
  Predicted,    \* [Folders -> Projects]: predictProjectName
  StackIds,
  NoStack,      \* none of them
  StackCalls    \* calls that browsers may have in flight

ASSUME StacksAssumption ==
  /\ Predicted \in [Folders -> Projects]
  /\ NoFolder \notin Folders

VARIABLES
  registry,     \* ComposeStackStore.stacks: id -> [project, dir, adopted]
  stackFile,    \* what the stored file holds
  snapshot,     \* call -> what it is writing to the file
  work,         \* call -> where it is and its locals
  folder,       \* directory -> "none", "empty", or "stack": with a compose file
  containers,   \* project -> "none", "running", "exited"
  label,        \* project -> the directory its containers name
  orphans,      \* project -> whether it has containers of services that its
                \*   compose file no longer names
  removed       \* project -> whether its stack was removed and nobody has
                \*   started it since: "no", "left" when the removal left
                \*   containers behind, "raced" when other calls ran, "alone"

hostVars == <<folder, containers, label, orphans>>
stackVars == <<registry, stackFile, snapshot, work, hostVars, removed>>

NoStackCall == [op |-> "none", at |-> "idle", id |-> NoStack, dir |-> NoFolder, project |-> NoStack,
         down |-> FALSE, deleteDir |-> FALSE, seen |-> {},
         alone |-> FALSE,   \* history: no other call has overlapped it
         quiet |-> FALSE,   \* history: nobody has started the project meanwhile
         left |-> FALSE]    \* history: it went on though it left containers

Nothing == [i \in {} |-> i]

StackInit ==
  /\ registry = Nothing
  /\ stackFile = Nothing
  /\ snapshot = [c \in StackCalls |-> Nothing]
  /\ work = [c \in StackCalls |-> NoStackCall]
  /\ folder \in [Folders -> {"none", "stack"}]
  /\ containers = [p \in Projects |-> "none"]
  /\ label = [p \in Projects |-> NoFolder]
  /\ orphans = [p \in Projects |-> FALSE]
  /\ removed = [p \in Projects |-> "no"]

-----------------------------------------------------------------------------
(* Helpers.                                                                *)

\* randomUUID: an id that nothing refers to.
FreeIds ==
  StackIds \ UNION ({DOMAIN registry, DOMAIN stackFile, {work[c].id : c \in StackCalls}}
                      \cup {DOMAIN snapshot[c] : c \in StackCalls})

Registered == {registry[i].project : i \in DOMAIN registry}

\* A call begins; a removal that is in flight is no longer alone.
BeginStackCall(c, locals) ==
  /\ work[c] = NoStackCall
  /\ work' = [d \in StackCalls |->
                IF d # c THEN [work[d] EXCEPT !.alone = FALSE]
                ELSE [locals EXCEPT !.alone = /\ locals.op = "remove"
                                              /\ \A e \in StackCalls \ {c} : work[e] = NoStackCall]]

Goes(c, at) == work' = [work EXCEPT ![c].at = at]
Ends(c) == work' = [work EXCEPT ![c] = NoStackCall]

\* The map is changed and, in the same turn, its copy begins to be written.
Persist(c) ==
  /\ snapshot' = [snapshot EXCEPT ![c] = registry']
  /\ work' = [work EXCEPT ![c] = [NoStackCall EXCEPT !.op = work[c].op, !.at = "saving",
                                               !.project = work[c].project]]

-----------------------------------------------------------------------------
(* listForHost: docker ps on the host, then syncHost.                      *)

ListForHost(c) ==
  /\ BeginStackCall(c, [NoStackCall EXCEPT !.op = "read", !.at = "asking"])
  /\ UNCHANGED <<registry, stackFile, snapshot, hostVars, removed>>

\* The host answers with the projects of all its containers, exited ones too.
DockerStacks(c) ==
  /\ work[c].at = "asking"
  /\ work' = [work EXCEPT ![c].at = "seen",
                          ![c].seen = {[project |-> p, dir |-> label[p]] :
                                         p \in {q \in Projects : containers[q] # "none"}}]
  /\ UNCHANGED <<registry, stackFile, snapshot, hostVars, removed>>

\* Variant: the registry is not asked again.
Adoptable_All(seen) == {o \in seen : o.dir # NoFolder}

\* What syncHost adopts: projects that name a directory and have no record.
Adoptable(seen) == {o \in seen : o.dir # NoFolder /\ o.project \notin Registered}

SyncHost(c) ==
  /\ work[c].at = "seen"
  /\ LET new == Adoptable(work[c].seen)
     IN \/ /\ new = {}
           /\ Ends(c)
           /\ UNCHANGED <<registry, snapshot>>
        \/ /\ new # {}
           /\ \E ids \in {s \in [new -> FreeIds] : IsInjective(s)} :
                registry' = [i \in DOMAIN registry \cup Range(ids) |->
                               IF i \in DOMAIN registry THEN registry[i]
                               ELSE LET o == CHOOSE q \in new : ids[q] = i
                                    IN [project |-> o.project, dir |-> o.dir, adopted |-> TRUE]]
           /\ Persist(c)
  /\ UNCHANGED <<stackFile, hostVars, removed>>

-----------------------------------------------------------------------------
(* create and import.                                                      *)

Create(c, i, d) ==
  /\ i \in FreeIds
  /\ BeginStackCall(c, [NoStackCall EXCEPT !.op = "create", !.at = "mkdir", !.id = i, !.dir = d,
                           !.project = Predicted[d]])
  /\ UNCHANGED <<registry, stackFile, snapshot, hostVars, removed>>

\* createDir, which is content with a directory that exists.
MakeFolder(c) ==
  /\ work[c].at = "mkdir"
  /\ folder' = [folder EXCEPT ![work[c].dir] = IF @ = "none" THEN "empty" ELSE @]
  /\ Goes(c, "compose")
  /\ UNCHANGED <<registry, stackFile, snapshot, containers, label, orphans, removed>>

\* writeFile of compose.yaml: it needs the directory.
WriteCompose(c) ==
  /\ work[c].at = "compose"
  /\ folder[work[c].dir] # "none"
  /\ folder' = [folder EXCEPT ![work[c].dir] = "stack"]
  /\ Goes(c, "manifest")
  /\ UNCHANGED <<registry, stackFile, snapshot, containers, label, orphans, removed>>

\* import: listDir has found a compose file.  Whether the directory, or its
\* project, has a record already is not asked.
Import(c, i, d) ==
  /\ i \in FreeIds
  /\ folder[d] = "stack"
  /\ BeginStackCall(c, [NoStackCall EXCEPT !.op = "import", !.at = "manifest", !.id = i, !.dir = d,
                           !.project = Predicted[d]])
  /\ UNCHANGED <<registry, stackFile, snapshot, hostVars, removed>>

\* writeFile of the manifest is acknowledged: the stack is registered.
Register(c) ==
  /\ work[c].at = "manifest"
  /\ folder[work[c].dir] # "none"
  /\ registry' = [i \in DOMAIN registry \cup {work[c].id} |->
                    IF i = work[c].id
                    THEN [project |-> work[c].project, dir |-> work[c].dir, adopted |-> FALSE]
                    ELSE registry[i]]
  /\ Persist(c)
  /\ removed' = [removed EXCEPT ![work[c].project] = "no"]
  /\ UNCHANGED <<stackFile, hostVars>>

-----------------------------------------------------------------------------
(* Compose verbs, and the removal dialog: `down` when there are containers,*)
(* then delete.                                                            *)

\* A task of the verb `up`: the project of the record, in its directory.
Up(i) ==
  /\ i \in DOMAIN registry
  /\ LET s == registry[i]
     IN /\ folder[s.dir] = "stack"
        /\ containers' = [containers EXCEPT ![s.project] = "running"]
        /\ label' = [label EXCEPT ![s.project] = s.dir]
        /\ removed' = [removed EXCEPT ![s.project] = "no"]
        /\ work' = [c \in StackCalls |->
                      [work[c] EXCEPT !.quiet = @ /\ work[c].project # s.project]]
  /\ UNCHANGED <<registry, stackFile, snapshot, folder, orphans>>

\* The dialog opens on what the last poll showed; a status that could not
\* be had shows no containers, and the dialog then skips `down`.
OpenDialog(c, i, known) ==
  /\ i \in DOMAIN registry
  /\ LET s == registry[i]
         some == containers[s.project] # "none"
     IN BeginStackCall(c, [NoStackCall EXCEPT
                              !.op = "remove", !.at = "dialog", !.id = i, !.dir = s.dir,
                              !.project = s.project, !.down = known /\ some,
                              !.quiet = TRUE, !.left = some /\ ~known])
  /\ UNCHANGED <<registry, stackFile, snapshot, hostVars, removed>>

\* The operator confirms: the task is started, which needs the record, or
\* there is nothing to take down.
Confirm(c, deleteDir) ==
  /\ work[c].at = "dialog"
  /\ \/ /\ work[c].down /\ work[c].id \notin DOMAIN registry
        /\ Ends(c)
     \/ /\ work[c].down => work[c].id \in DOMAIN registry
        /\ work' = [work EXCEPT ![c].at = IF work[c].down THEN "checking" ELSE "deleting",
                                ![c].deleteDir = deleteDir]
  /\ UNCHANGED <<registry, stackFile, snapshot, hostVars, removed>>

\* dirExists: compose can only be asked from the stack's directory.
DirExists(c) ==
  /\ work[c].at = "checking"
  /\ Goes(c, IF folder[work[c].dir] = "none" THEN "labels" ELSE "composing")
  /\ UNCHANGED <<registry, stackFile, snapshot, hostVars, removed>>

\* No container of the project is left.
Emptied(p) ==
  /\ containers' = [containers EXCEPT ![p] = "none"]
  /\ label' = [label EXCEPT ![p] = NoFolder]
  /\ orphans' = [orphans EXCEPT ![p] = FALSE]
  /\ UNCHANGED folder

\* The removal goes on to the record, and has left containers or not.
GoesToDelete(c, leaves) ==
  work' = [work EXCEPT ![c].at = "deleting", ![c].left = @ \/ leaves]

\* docker compose down, without --remove-orphans: exit 0 also with
\* containers left that the compose file does not name.
ComposeDown(c) ==
  /\ work[c].at = "composing"
  /\ folder[work[c].dir] = "stack"
  /\ LET p == work[c].project
     IN /\ IF orphans[p] THEN UNCHANGED hostVars ELSE Emptied(p)
        /\ GoesToDelete(c, orphans[p])
  /\ UNCHANGED <<registry, stackFile, snapshot, removed>>

\* Variant: only what runs is asked for (docker ps without -a).
DownByLabel_Running(c, lists) ==
  /\ work[c].at = "labels"
  /\ containers' = [containers EXCEPT ![work[c].project] = IF @ = "running" THEN "none" ELSE @]
  /\ GoesToDelete(c, ~lists)
  /\ UNCHANGED <<registry, stackFile, snapshot, folder, label, orphans, removed>>

\* downByLabel: the containers that carry the project's label, exited ones
\* and orphans too.  The exit code of `docker ps -aq` is not looked at: a
\* listing that fails is one of no containers.
DownByLabel(c, lists) ==
  /\ work[c].at = "labels"
  /\ LET p == work[c].project
     IN /\ IF lists THEN Emptied(p) ELSE UNCHANGED hostVars
        /\ GoesToDelete(c, ~lists /\ containers[p] # "none")
  /\ UNCHANGED <<registry, stackFile, snapshot, removed>>

\* store.delete forgets the record and persists, also when somebody else
\* has forgotten it while the directory was being removed.
Unregister(c) ==
  /\ registry' = [i \in DOMAIN registry \ {work[c].id} |-> registry[i]]
  /\ Persist(c)
  /\ removed' =
       [removed EXCEPT ![work[c].project] =
          IF ~work[c].quiet \/ \E i \in DOMAIN registry' : registry'[i].project = work[c].project
          THEN "no" ELSE IF work[c].left THEN "left"
          ELSE IF work[c].alone THEN "alone" ELSE "raced"]

\* delete: the record must be there.
Delete(c) ==
  /\ work[c].at = "deleting"
  /\ \/ /\ work[c].id \notin DOMAIN registry
        /\ Ends(c)
        /\ UNCHANGED <<registry, snapshot, removed>>
     \/ /\ work[c].id \in DOMAIN registry /\ work[c].deleteDir
        /\ Goes(c, "rmdir")
        /\ UNCHANGED <<registry, snapshot, removed>>
     \/ /\ work[c].id \in DOMAIN registry /\ ~work[c].deleteDir
        /\ Unregister(c)
  /\ UNCHANGED <<stackFile, hostVars>>

\* deletePath is best effort.
RemoveFolder(c, works) ==
  /\ work[c].at = "rmdir"
  /\ folder' = [folder EXCEPT ![work[c].dir] = IF works THEN "none" ELSE @]
  /\ Unregister(c)
  /\ UNCHANGED <<stackFile, containers, label, orphans>>

-----------------------------------------------------------------------------

\* What a removal of the project promises before it has returned: nothing.
Unpromised(p) ==
  \E c \in StackCalls : /\ work[c].op = "remove" /\ work[c].at = "saving" /\ work[c].project = p

\* The write is renamed into place and the call returns; or it fails, the
\* call throws, and the map keeps the change that the file does not have.
Saved(c, works) ==
  /\ work[c].at = "saving"
  /\ stackFile' = IF works THEN snapshot[c] ELSE stackFile
  /\ snapshot' = [snapshot EXCEPT ![c] = Nothing]
  /\ removed' = [p \in Projects |->
                   IF ~works /\ work[c].op = "remove" /\ work[c].project = p THEN "no" ELSE removed[p]]
  /\ Ends(c)
  /\ UNCHANGED <<registry, hostVars>>

\* A request to the host fails, or a compose verb does: the call throws.
\* A `down` that failed, or whose answer was lost, may have emptied the project.
HostFails(c) ==
  /\ work[c].at \in {"asking", "mkdir", "compose", "manifest", "checking", "composing", "labels"}
  /\ \/ UNCHANGED hostVars
     \/ work[c].at \in {"composing", "labels"} /\ Emptied(work[c].project)
  /\ Ends(c)
  /\ UNCHANGED <<registry, stackFile, snapshot, removed>>

\* The control plane restarts.
Reboot ==
  /\ registry' = stackFile
  /\ snapshot' = [c \in StackCalls |-> Nothing]
  /\ work' = [c \in StackCalls |-> NoStackCall]
  /\ removed' = [p \in Projects |-> IF Unpromised(p) THEN "no" ELSE removed[p]]
  /\ UNCHANGED <<stackFile, hostVars>>

-----------------------------------------------------------------------------
(* People and containers on the host.                                      *)

\* Somebody starts a project by hand; its label may name no directory.
StartedByHand(p, d) ==
  /\ containers[p] # "running"
  /\ d \in Folders => folder[d] = "stack"
  /\ containers' = [containers EXCEPT ![p] = "running"]
  /\ label' = [label EXCEPT ![p] = d]
  /\ removed' = [removed EXCEPT ![p] = "no"]
  /\ work' = [c \in StackCalls |-> [work[c] EXCEPT !.quiet = @ /\ work[c].project # p]]
  /\ UNCHANGED <<registry, stackFile, snapshot, folder, orphans>>

Exits(p) ==
  /\ containers[p] = "running"
  /\ containers' = [containers EXCEPT ![p] = "exited"]
  /\ UNCHANGED <<registry, stackFile, snapshot, work, folder, label, orphans, removed>>

\* The compose file is edited and no longer names a service that has containers.
ServiceDropped(p) ==
  /\ containers[p] # "none" /\ ~orphans[p]
  /\ orphans' = [orphans EXCEPT ![p] = TRUE]
  /\ UNCHANGED <<registry, stackFile, snapshot, work, folder, containers, label, removed>>

FolderDeleted(d) ==
  /\ folder[d] # "none"
  /\ folder' = [folder EXCEPT ![d] = "none"]
  /\ UNCHANGED <<registry, stackFile, snapshot, work, containers, label, orphans, removed>>

StackNext ==
  \/ \E c \in StackCalls :
       \/ ListForHost(c) \/ DockerStacks(c) \/ SyncHost(c)
       \/ MakeFolder(c) \/ WriteCompose(c) \/ Register(c)
       \/ DirExists(c) \/ ComposeDown(c) \/ Delete(c) \/ HostFails(c)
       \/ \E i \in StackIds, d \in Folders : Create(c, i, d) \/ Import(c, i, d)
       \/ \E i \in StackIds, known \in BOOLEAN : OpenDialog(c, i, known)
       \/ \E yes \in BOOLEAN : Confirm(c, yes) \/ DownByLabel(c, yes) \/ RemoveFolder(c, yes)
                               \/ Saved(c, yes)
  \/ \E i \in StackIds : Up(i)
  \/ \E p \in Projects : Exits(p) \/ ServiceDropped(p)
                        \/ \E d \in Folders \cup {NoFolder} : StartedByHand(p, d)
  \/ \E d \in Folders : FolderDeleted(d)
  \/ Reboot

-----------------------------------------------------------------------------
(* Properties.                                                             *)

(* However many reads of a host's section overlap, with one another and    *)
(* with imports, a project is adopted at most once (syncHost decides on    *)
(* the registry of the moment, not of when it asked the host).             *)
AdoptedOnce ==
  \A i, j \in DOMAIN registry :
    registry[i].adopted /\ registry[j].adopted /\ registry[i].project = registry[j].project
      => i = j

(* A stack whose removal returned and no other call overlapped is not      *)
(* registered again, by a read or by a restart, before somebody starts or  *)
(* registers it: the removal has left no container behind, also when the   *)
(* stack's directory was gone (docker.ts, downByLabel), the containers had *)
(* exited, or calls before it could not write the registry.  Three things  *)
(* it does not notice are excepted ("left"): containers of services that   *)
(* the compose file no longer names, a listing of the containers that      *)
(* failed, and a dialog that did not know of any.                          *)
RemovedStaysRemoved == \A p \in Projects : removed[p] = "alone" => p \notin Registered

=============================================================================
