# server-central: a TLA+ model of the control plane, its agents and its pages

server-central is a control plane for a fleet of Linux hosts. One Bun binary is
either the control plane (`apps/server/src/index.ts`) or a host agent
(`apps/server/src/agent/agent-cli.ts`); a web client (`apps/web`) talks to the
control plane over RPC and one WebSocket. Every process is one JavaScript event
loop: a handler is atomic between its awaits, and what can go wrong lies in the
gaps - an un-awaited promise, a state read before an `await` and used after it,
two processes joined by a socket that dies, a restart.

This directory holds TLA+ modules for the parts that carry the program's own
protocols, TLC runs over small instances, and proofs for every value of the
constants. `PROJECT.json` maps each definition to its source lines and lists,
line by line, the hazards the properties are about.

    tlc -workers 2 -config fleet.cfg MCFleet
    tlapm FleetProofs.tla

## 1. Inventory

Paths are relative to `src/apps/server/src` unless they begin with another root.

| Component | State | Operations and interactions | What makes it correct | Module |
|---|---|---|---|---|
| Fleet registry (`fleet.ts`, `node-server.ts`, `agent/embedded-agent.ts`) | `connections`, `knownAgents`, `active` flags, `NodeServer.agents`; `agents.json` | WebSocket open / identify / close, idle timeout, removal, boot; picks the agent that serves a machine | routing table and fleet agree; one active agent per machine; no stale close evicts a newcomer | `Fleet` |
| Host requests (`host-agent.ts`, `agent/agent.ts`) | `pending`, `execStreams`, timers; the agent's handlers | request, streamed exec, chunk, reply, error, timeout, disconnect | settled once, with all the output, nothing left behind | `HostRequests`, partly |
| Terminal bridge (`http/ws.ts`, `host-agent.ts`, `agent/agent.ts`) | browser socket, two shell tables, the shell process | open, close, exit, lost link, dead agent | each end learns of the other's end | `TerminalBridge` |
| Agent install (`node-server.ts`, `config.ts`, `features/servers`, `agent/agent-cli.ts`) | enrollment and durable tokens, `agent-tokens.json`; unit, `config.json`, processes on the host | mint, install, check, write config, start, step aside, restart of either side | what an agent is configured with is durable; only a reinstall revokes it; a live agent leaves only for a service that runs what was configured | `AgentInstall` |
| Agent update (`features/servers`, `agent/agent-cli.ts`) | the task's before-handle, symlink, exit timer, process | `update_agent`, download, swap, exit, reconnect, poll | the task waits for a restart that is due, and its verdict is right | `UpdateAgent` |
| Tasks, the control plane's own update (`tasks/*`, `server-install.ts`) | run objects, the store's map, `tasks.json`, `pending-update.json`, symlink | start, save, finish, prune, crash, boot, reap | every run is settled, by this process or the next | `Tasks` |
| Chunked upload (`FilesView.tsx`, `host-agent.ts`, `agent/agent.ts`) | requests, the agent's table, handles, temp files, idle timers | slice, chunk, abort, timeout, idle, publish | the target is the old file or the whole new one; nothing stays behind that is not accounted for | `ChunkedUpload` |
| Agent connection loop (`agent/agent-cli.ts`, `node-server.ts`) | address order, watchdog, deadline, `state.json` | connect, identify, beat, hang up, fail over, reprobe | always comes back, and to the primary address | `AgentLink` |
| Accounts (`auth.ts`, `roles.ts`) | users, roles, sessions, login failures and their files | set-up, create, delete, reset, login, log-out, edits; creation, deletion and reset of roles | never without an owner; what is revoked stays revoked; a restart finds every account with its roles | `Accounts`, `Directory`, partly |
| OIDC provider (`features/oidc/*`) | codes, device requests, refresh families, clients, secrets | authorize, approve, poll, redeem, rotate, revoke, regenerate | single use; one token per family; a dead family stays dead | `OidcGrants`, `SsoClients`, partly |
| Applications (`features/apps/*`) | apps and who refers to them | create, delete, link | an app in use is not deleted | `SsoClients`, partly |
| Authorization (`shared/src/permissions.ts`, `http/rpc.ts`) | none: rules | matching, overlap, the two gates | the gates agree | `Permissions`, partly |
| RPC dispatch (`http/rpc.ts`, `http/multipart.ts`) | a cursor over a body | split a body into streams while a handler reads them | the files that were sent are delivered | `Multipart`, partly |
| Event stream (`http/ws.ts` `EventHub`, `apps/web/src/connection.ts`) | subscribers; the page's mirror of servers, tasks and logs | snapshot, broadcast, reconnect, `waitForTask` | the mirror never goes back; a wait ends | `EventStream`, `Replica` |
| Reverse proxy (`features/proxy/*`) | node, routes, `lastApply`; Caddy's configuration | route edits, apply, rejected and late pushes | what is stored can be rendered; an undisturbed push heals | `ProxyRoutes`, partly |
| Compose stacks (`features/compose/*`, `features/docker`, `DeleteComposeStackModal.tsx`) | the registry and its file; directories, containers and labels of a host | create, import, adopt on a read, up, down, removal | a project is adopted once; what is removed stays away | `ComposeStacks`, partly |
| Dashboard (`apps/web/src/dashboard/useHostPoll.ts`) | polling cache, timers, subscribers | mount, unmount, hide, answer, fail | polled exactly while somebody watches | `HostPoll`, partly |
| Batch rename (`BatchRenameModal.tsx`) | rows, files of a folder | check, park, rename | a file is where the dialog says | `BatchRename` |
| Atomic files, configuration (`fs-atomic.ts`, `config.ts`) | files, temp files | `writeFileAtomic`, read-modify-write setters | a reader sees one whole write | where used, partly |
| Binaries (`binary-store.ts`, `agent/self-install.ts`) | cache, downloads, versioned files, symlink | resolve, download, verify, prune | only verified files are served | in `UpdateAgent`, partly |
| Host features (docker, zfs, systemd, users, files, processes, network), TLS, STUN, client address, CORS, static files, web interface | the host's own state, or none | one request each | parsing and rendering | not modelled |

Behaviours that are hard here:

- **Un-awaited or overlapping writes.** No store serialises its writes: each call
  renames its own snapshot into place, so an older one can land last.
- **Stale handles and stale observations.** A `HostAgent` outlives its connection
  in the hands of callers; a close may be handled after the same agent's next
  connection; what a host or a page showed is acted on one await later.
- **Half-open links.** Either end may be gone without the other knowing; the
  idle timeout and the agent's watchdog find out later.
- **Two processes and one machine**, and restarts inside an operation: install,
  update, tasks.
- **Check, await, act**: upload offsets, set-up, names and addresses, secrets,
  rotation of refresh tokens, polls of a device code.

## 2. How the modules fit together

| Module | Composition |
|---|---|
| `UpdateAgent` | `EXTENDS Fleet`: the update task reads the fleet's choice while connections come and go |
| `OidcGrants` | `EXTENDS Accounts`: deleting or resetting an account ends in the callback that revokes its tokens |
| `HostRequests` | implements `CallLedger` (`INSTANCE CallLedger WITH ...`): a call is open, settled once, or settled by the disconnect |
| `EventStream` | implements `Replica`: what a page shows was said by the server, and it never shows an older version afterwards |
| `MCHostWork` | `EXTENDS TerminalBridge, Tasks, ChunkedUpload` and instantiates `AgentLink`; they share nothing here: one part per behaviour, so the states add up and do not multiply |
| `MCParts` | `EXTENDS ProxyRoutes, Permissions, Directory, HostPoll, BatchRename, Multipart, AgentInstall`, likewise |
| `MCFleet`, `MCAccounts` | likewise: the registry alone or updates over it; accounts or compose stacks |

An MC module that extends its parts checks the very definitions the theorems are about;
where parts would clash, their names carry the part's (`TasksInit`, `UploadInit`,
`InstallInit`). The proofs are in eight modules: `FleetProofs` (with `UpdateAgent`),
`HostRequestsProofs`, `HostStateProofs` (`AgentInstall`, `ComposeStacks`),
`HostWorkProofs` (`Tasks`, `ChunkedUpload`, `TerminalBridge`), `AccountsProofs`
(`Accounts`, `OidcGrants`), `EventProofs`, `MultipartProofs`, and `PartsProofs`
(`ProxyRoutes`, `Permissions`, `Directory`, `HostPoll`, `BatchRename`).

A definition named `X_Something` and marked `Variant:` is `X` with a plausible
bug; it shows that a property notices it and is never part of a specification.

## 3. Modules, runs and what they show

### fleet: `Fleet`, `UpdateAgent`

One action per handler of `node-server.ts` (`Open`, `Identify`, `Close`) with the
whole of `registerAgent` / `deregisterAgent` / `reconcile` inside, removal of a
machine, the landing of a snapshot of `agents.json`, and a restart. In
`UpdateAgent` the task remembers a handle and polls for another; the agent's
process exits by its timer or a crash and the supervisor executes what the symlink
points at. `RoutesAgree`: the socket table, the lists per machine and the records
agree. `NoUsurper`: no agent is displaced by one that ranks below it or was there
before. `PollingMeansSwapped`: the task only waits for a restart that is due.
`RightAboutLivePeers`: a verdict on a live connection of the installed agent is
right.

Bounds: the local machine and a remote one, three remote connections that open
again and again (enough for a stale close, an upgrade from live to installed and a
standby), two in updates.

### requests: `HostRequests`

`HostAgent.request`, `streamExec`, `receive`, `disconnect` on one side, the agent's
un-awaited handlers on the other, a FIFO wire that may fade. Timers fire at any
time while armed, so what holds does so however slow the host is. `NothingLeaks`
(entries, timers and sinks exist for exactly the calls that wait), `OutputComplete`
(an exit code never overtakes output), `ImplementsLedger`, and `EveryCallSettles`.
Bounds: one request, two streams of up to two chunks; a command that prints for
ever is never timed out, as the code intends.

### hostwork: `TerminalBridge`, `Tasks`, `ChunkedUpload`, `AgentLink`

- **Terminals** (three): a session in its four places - browser socket,
  `HostAgent.shells`, `Agent.shells`, process. While the link lives the surviving
  end is about to be told (`NoOrphanOnLiveLink`, `ExitIsOnItsWay`), and a terminal
  whose shell is gone closes (`TerminalEnds`).
- **Tasks** (a run and an update, a history of one, three crashes or failed writes):
  a save is three steps - members listed, contents serialised, file renamed; the
  update writes a marker, moves the symlink and exits, and the next process gives
  the verdict. `SucceededMeansUp`, `SwapIsMarked`, `EveryRunSettles`.
- **Upload** (a file of three chunks in two requests, the first of which is repeated
  once, at any moment): the agent's handler is cut at `fs.open`, the write, the close
  and rename, and the removal. Hang-ups, timeouts, aborts, the idle timer, short and
  failing writes, a close or rename that fails with the temp file there or gone, and a
  lost link fall anywhere. One repeat is enough for each way two handlers can meet: two
  opens, two writes, a write or an open behind a final chunk. `UploadIsAtomic`: the
  target is the previous file or the whole new one, and the new one once the browser is
  told so; it excepts files that a write cut short, or two at once, went to (`torn`).
  `NothingLeftBehind`: no temp file stays; it excepts those that nobody will remove
  (`stray`), because their entry gave way to another's, or their own close or rename
  failed after the entry was deleted. Section 6 has both.
- **Link** (two addresses, a reprobe every third attempt, one restart): the network
  answers, refuses, swallows, cuts and goes silent at will. `ComesBack`: while some
  address keeps working the agent gets connected again; `FindsPrimary`: an agent
  that fell back to the other address returns to the primary one.

### accounts: `Accounts`, `ComposeStacks`

- **Accounts** (two users, two sessions, two calls; the first
  failed login blocks, for no property depends on how many it takes): `AuthStore`
  cut at the hash, the mkdir ahead of a write, the write and the revocation
  callback, with failing writes and restarts anywhere. `NeverLockedOut`: neither
  memory nor `users.json` ever hold accounts without an owner. `RevokedStaysRevoked`:
  what an acknowledged call revoked is not accepted again; it excepts a file last
  written by one of two overlapping writes (section 6).
- **Compose stacks** (one directory and project, two records, two calls, any
  number of restarts): reads that adopt, creation, import, `up`, the removal dialog with both
  ways of taking a project down, failing writes of the registry, and what people do on
  the host meanwhile: start, stop, delete, and drop a service from a compose file
  (`orphans`). `docker compose down` goes without `--remove-orphans`, and a
  `docker ps -aq` that fails lists nothing; both then count as done. `AdoptedOnce`:
  overlapping reads adopt a project once. `RemovedStaysRemoved`: a removal that no
  other call overlapped lasts, until somebody starts or registers the project again,
  also when the directory was gone, containers had exited, or calls before it could not
  write. It excepts a removal that left containers without noticing (`left`; section 6).

Deadlock is checked: some call is always possible.

### oidc: `OidcGrants`

Codes, device requests and rotating refresh families, over the accounts.
`OneTokenPerFamily`: however many requests present the tokens of a chain, at most one
is good, in memory and in every file. `DeadFamiliesStayDead`: a family whose revocation
was acknowledged (reuse, client, account, new password) has no good token again, unless
overlapping writes left an older file. `GrantsAreSingleUse`: a code or an approved
device request starts at most one chain. Bounds: one user, two clients, one code, one
device, two tokens, two requests at the token endpoint.

### events: `EventStream`

`EventHub` and the page's `ConnectionManager`: snapshot and broadcast, reconnects,
log-outs, the buffer of a run's log, `waitForTask`. `MirrorIsCurrent`: when nothing
is on the wire of an open socket, the page shows the server's state, apart from
changes whose save is under way or failed.
`LiveLinesOnce`: no broadcast of a log line is
applied twice, whichever sockets are still open.
`MirrorsFaithfully`: the refinement to `Replica`. `WaitEnds`: a page that waits for a
run hears of its end; it excepts a run that is pruned, or whose last save failed,
before the page has seen it. Bounds: one run, two sockets (a stale one and the next),
two log lines, two states of the fleet, one fault.

### parts: seven small protocols

- **Proxy** (two nodes, two routes, two calls, three edits): `NoStrandedRoute`, what
  is stored can be rendered as a whole; `ApplyHeals`, a push with nothing else in
  progress leaves Caddy with what is stored, whatever overlapping pushes did before.
- **Permissions** (two segments, depth two, every set of grants): `OverlapIsShared`,
  comparing two patterns in both directions answers whether some node matches both;
  `GatesAgreeOnNodes`, the two gates agree on concrete nodes.
- **Directory** (an account, an address, a seeded and a custom role, two writes in
  progress at once): memory, `users.json` and `roles.json`, each written as a whole -
  the directory is awaited, the table serialised, the file renamed - with writes in
  any order, failing ones, and restarts that read both files and seed an empty table of
  roles. `AccessIsDurable`: when the writes of both files are done, they hold every
  account, and give each the roles it has. It excepts a file that an older table was
  renamed over or a write of which failed, until the next table has landed (`stale`),
  and an account with an id of a role that is gone. Accounts do not meet here but at
  names and addresses, which run `emails` has two of.
- **Poll** (two widgets): `PollsForViewers`, a value is being fetched or has its
  timer armed exactly while a visible widget shows it.
- **Rename** (three files, four names): `FilesAreWhereItSays`, when every row could
  be parked, the files are where the dialog reports them.
- **Multipart** (two parts, five payloads, a delimiter of three symbols, chunks of up
  to three, a limit of six): `PartsGoThrough`, however the body is cut, a stream
  delivers its own part in order, ends well only with all of it, and badly only if the
  client hung up or declared another size; no more is buffered than the code says.
  The body is given by its positions and sums by cardinalities, so that the same
  definitions serve the proof for any number of parts.
- **Install** (two machines, two tokens, two calls at once): `installService` and
  `installSelf` cut at their awaits - the table is serialised, the file renamed, and on
  the host the check, `config.json`, the unit, `enable --now`, the restart, and the
  manifest with the exit timer; links drop, any step throws and leaves what was done
  before it, both sides restart. `ConfiguredIsDurable`, an accepted token in a host's
  `config.json` is in `agent-tokens.json`; `OnlyReinstallRevokes`; both except a token
  whose file an older table was renamed over (`overwritten`). `HandedOver`: as long as
  a live agent is about to exit, the service runs, with what is in `config.json`; it
  excepts an agent that took on an install while it was at work on another one or about
  to leave (`overlapped`). Two calls are enough for the writes and the jobs of one
  machine to overlap and for those of two machines to share a file.

### Runs that end in a counterexample

`install_refused`, `emails`, `secrets`, `rename` and `ghost`: section 6.

## 4. Fairness

| Part | Assumed | Why the code justifies it |
|---|---|---|
| `HostRequests` | an armed timer fires | `setTimeout`; nothing is assumed of host or link |
| `TerminalBridge` | live messages are delivered, a closed socket gets its close event, a dead link is noticed; no shell has to exit | TCP and the event loop; Bun's `idleTimeout` |
| `Tasks` | started runs go on, writes return, the exit timer fires, the process is restarted and boots | every request a handler awaits settles (`EveryCallSettles`); `Restart=always` in the unit |
| `ChunkedUpload` | the agent's file operations return and its timers fire | nothing is assumed of browser, control plane or link |
| `AgentLink` | weakly: the agent's loop and timers, the heartbeat; strongly, per address: an attempt on an address that works again and again is answered | `setTimeout`; strong because addresses come and go, and an attempt on one that stays bad is never answered |
| `EventStream` | a run goes on and is announced, the page's handlers and poll run, it reconnects, a socket it gave up closes | timers and the event loop; nothing is assumed of the socket in use |

All else is safety only. `CHECK_DEADLOCK FALSE` is given where the modelled activity
is finite: each call, session, run or upload is used once.

## 5. Proofs

| Theorem | Property of a run | Argument |
|---|---|---|
| `FleetProofs!Consistency` | `RoutesAgree` | with types, one active agent per machine, records for all that is connected, and "the embedded agent is listed under the local machine" it is inductive; `ReconcileOne` says what reconciling one list does, `AppendHandle` / `RemoveHandle` what arrival and departure do |
| `FleetProofs!LocalServed` | - | from the same invariant: the embedded rank is the highest, and no other handle has it |
| `FleetProofs!NoUsurpation` | `NoUsurper` | a lemma per action: the active handle is the only one that beats every other |
| `FleetProofs!WaitsForARestart`, `VerdictIsRight` | `PollingMeansSwapped`, `RightAboutLivePeers` | the registry's invariant, with one connection at most behind the installed process (`OneProcess`), an asked agent that is still connected and, while the old process lives, no other connection of it (`NoOtherWay`); the verdict step then follows from what the polled connection was built from |
| `HostRequestsProofs!Bookkeeping` | `NothingLeaks` | inductive with the types of calls and messages; a settling step clears all three tables of its own call only |
| `HostRequestsProofs!Settlement`, `DisconnectionIsHeard` | - | action properties from that invariant: what is pending is waiting, so what is settled is not touched |
| `HostRequestsProofs!Refinement` | `ImplementsLedger` | each action opens a call, settles one, loses the link or stutters in `CallLedger`, given the invariant |
| `HostRequestsProofs!NothingUnheard` | `OutputComplete` | strengthened by `OutInv`: a reply is the last of its handler's messages, a request on the wire has done nothing yet, and what a waiting caller has heard plus the chunks on the wire ahead of the reply are what was sent; `CountTail` and `CountAppend` say how a chunk leaves and enters that count |
| `HostWorkProofs!SessionTable` | - | part of the invariant below |
| `HostWorkProofs!NoOrphan`, `ExitReported` | `NoOrphanOnLiveLink`, `ExitIsOnItsWay` | strengthened by the order of the wire (behind each openShell of a closed terminal comes its closeShell), by whom the wire belongs to, by what the agent can kill, and by what is over when the link is down |
| `AccountsProofs!NeverLocked` | `NeverLockedOut` | the tables alone are not inductive: every snapshot on its way to `users.json` must be good too (`GoodWrites`), and a creation in progress is either a set-up's or happens beside an owner (`Newborns`) |
| `AccountsProofs!Revocation` | `RevokedStaysRevoked` | strengthened by what is on its way: a revoked id is in no table and nobody creates it again (`Barred`), in no snapshot that is written alone (`OnItsWay`), and of two writes of a file in progress both are marked (`Marked`), so a stale snapshot never lands unmarked |
| `AccountsProofs!OneGoodToken`, `RevokedForGood`, `OneChainPerGrant` | `OneTokenPerFamily`, `DeadFamiliesStayDead`, `GrantsAreSingleUse` | one invariant: the table, the file and every snapshot on its way to it are sound (one good token to a chain, one user and one client to a chain); a grant a request will issue for is gone from the store and on no other request; what a request revokes, or has revoked, is alive in no table, and two writes in progress know of each other (`Revocations`) |
| `PartsProofs!AccessSurvives` | `AccessIsDurable` | per file (`OnFile`): when no write is still to be serialised, the newest in progress holds the table, and without one, and without a failed or overtaken write, the file does; writes of one file leave the other's bookkeeping alone (`OtherFile`) |
| `PartsProofs!Overlap`, `Gates` | `OverlapIsShared`, `GatesAgreeOnNodes` | two prefixes of one name are comparable, and the longer pattern yields the shared node |
| `PartsProofs!AlwaysRenderable` | `NoStrandedRoute` | inductive with "every snapshot a call holds is renderable" |
| `PartsProofs!PushesHeal` | `ApplyHeals` | strengthened by `SoloIsCurrent`: a push with nothing else in progress carries the store as it is |
| `PartsProofs!ClockRunsForViewers` | `PollsForViewers` | inductive with the types |
| `PartsProofs!NothingGetsLost` | `FilesAreWhereItSays` | as long as every row could be parked, each row's file is where its state says (`RowIsThere`); rows are parked under names of their own, and without the detour no target is a source, so a move touches nobody else's place (`PlacesApart`) |
| `MultipartProofs!StreamsDeliver` | `PartsGoThrough` | behind each step of the parser the buffer begins at a known place of the body (`ReaderInv`), and what is buffered and yet to arrive is the body from there on (`Behind`); so the search, wherever it resumes, finds a delimiter where the body has it and nowhere before (`NeedleAhead`), what is handed on is the part's next symbols, and the request's limit cannot be reached within the declared sizes (`RoomForTheRest`). The layout of a body with any number of parts comes from `TotalWithRoom` and `TotalWithOneMore`, facts about cardinalities that need no induction |
| `HostWorkProofs!UpdateIsUp`, `SwapsAreMarked` | `SucceededMeansUp`, `SwapIsMarked` | strengthened by what may become true later: no file and no snapshot on its way to it claims a success that is not up (`Truthful`), a process that is not up runs nothing, and who is about to move the symlink has put the marker down |
| `HostWorkProofs!BoundedHistory` | - (`HistoryIsBounded`) | the map, the members each save has listed, what it has serialised and the file are all short and without duplicates; `PuttingKeeps`: what comes in pushes at most one run out |
| `HostWorkProofs!UploadPublishesTheWhole` | `UploadIsAtomic` | per temp file (`TempFits`): one whose writes were neither short nor overlapping has each chunk in its place (`InPlace`) and one writer at most, which is where the file ends (`OneWriter`); the name of a temp file is a request's that creates it once (`Fresh`, `Untouched`), and one that is being published is no entry any more, has its full length and no writer (`Closing`), so it is the file (`WholeFile`) |
| `HostWorkProofs!EntriesAreLive`, `FilesAreOwned` | - (`EntryIsLive`, `FilesHaveOwners`) | from the same invariant, with each other: who displaces or deletes an entry counts its file as stray, and who discards one counts it as doomed. The second is the safety half of `NothingLeftBehind` |
| `HostStateProofs!HandsOver` | `HandedOver` | of a machine whose agent takes on one install at a time (`InHand`): at each stage the job knows whether a service was there, and what it runs (`JobFits`); who is about to leave has no job at work and a service that is ready |
| `HostStateProofs!ConfiguredStaysOnFile`, `RevokedByReinstall` | `ConfiguredIsDurable`, `OnlyReinstallRevokes` | a table on its way to the file has the token it is written for, unless that was replaced since (`MintInv`); once a host has been told its machine's current token, the file has it, or had it and was overwritten (`FileInv`) |
| `HostStateProofs!AdoptsOnce`, `StaysRemoved` | `AdoptedOnce`, `RemovedStaysRemoved` | the registry, the file and every snapshot on its way to it know a project once (`OnceInv`); of a project that was removed alone, with nothing left, there is no record, copy, container or observation, and a file that still knows it belongs to a removal that has not returned (`GoneInv`) |
| `EventProofs!InOrderOnTheWire` | - | every wire carries the fleet, a run's states and its lines in the order they came about |
| `EventProofs!NoLineTwice` | `LiveLinesOnce` | about the lines that the socket delivers, not those of a `getLogs` (section 6); strengthened by: what is on the wire of the current socket is ahead of what the page shows (`AheadInv`) |
| `EventProofs!Mirroring` | `MirrorsFaithfully` | each step maps to a step of `Replica` or a stutter, given that what the wires carry was said (`Known`) and that the page is never ahead of the server (`PageInv`) |
| `EventProofs!Currency` | `MirrorIsCurrent` | what is said last on the current socket, or shown if nothing more is said, is the truth of the fleet and of each run that has been announced (`ArrivalInv`) |

No theorem has a hypothesis about the schedule: what calls, writes, failures and restarts
overlap is as free as in the modules. Where the code goes wrong under some schedule, the
property itself names what it excepts, by a history variable that the steps of the code set
(`torn`, `stray`, `overwritten`, `overlapped`, `stale`, `removed`), and section 6 says what
happens then.

The assumptions are the named ones of the modules. Most say that a marker value is none of the
things it stands beside (`AccountsAssumption`, `OidcAssumption`, `StacksAssumption`,
`EventsAssumption`, ...), that the local machine is a machine and the embedded agent not a
remote connection (`FleetAssumption`), that streams are calls (`RequestsAssumption`). Beyond
that: a directory predicts one project (`StacksAssumption`), updates are runs and the history
holds at least one (`TasksAssumption`), a file has a chunk and a request carries one
(`UploadAssumption`), the selected files have different names (`RenameAssumption`), a boundary
was drawn that no part contains, nor begins to contain right before its end, and a header does
not begin with a CRLF (`MultipartAssumption`). TLC
evaluates each of them in a run. No proof needs a bound: the number of faults, edits, lines,
tokens, sockets, restarts is arbitrary.

Only model-checked:

- Liveness (`EveryCallSettles`, `TerminalEnds`, `EveryRunSettles`, `NothingLeftBehind`,
  `ComesBack`, `FindsPrimary`, `WaitEnds`): fairness and ENABLED are outside what the proof
  system does. `AgentLink` promises nothing else.

All other properties of the passing runs are theorems.

## 6. Where code and comments disagree

Shown by a run:

| Run | What happens | What the source says |
|---|---|---|
| `install_refused` (1 machine, 3 tokens, 1 call) | the machine's durable token is replaced before the agent has agreed; an install that is refused, lost, or never asked for because the tokens' file could not be written, locks out the service that is there (`features/servers/feature.ts:91`) | `node-server.ts:178`: durable tokens never expire |
| `emails` (2 accounts, 1 address) | two creations at once, or one and a `setEmail`, give two accounts one address (`auth.ts:507`); names and role ids are the same | `auth.ts:361-364` |
| `secrets` (1 client, 3 records, 3 secrets, 2 calls) | `regenerateSecret` writes into a record that an edit has replaced: the old secret stays valid and the new one never is (`features/oidc/store.ts:162`) | `features/oidc/store.ts:153-154` |
| `rename` (2 files) | a row that could not be parked is renamed over by the row whose target is its name (`BatchRenameModal.tsx:186`) | `BatchRenameModal.tsx:79`, `:168-169` |
| `ghost` (1 directory, 2 records, 2 calls) | a read that asked the host before a removal reaches `syncHost` after it and registers the removed stack again | `features/docker/docker.ts:409-411`: "what stops a removed stack coming straight back" |

Met while modelling, stated by definitions or contained in the modules, without a run
of their own:

- **Fleet, update.** A mismatch is not final (`features/servers/feature.ts:170`, against
  166-168): the connection found may belong to another agent of the machine
  (`MismatchIsFinal`); under `force` a promoted standby passes for the restarted agent.
  Two snapshots of `agents.json` may be renamed in the wrong order (`fleet.ts:95`), and
  a record is lost at the next restart. `updateService` has the general 30 s timeout while the agent downloads.
- **Tasks.** Overlapping saves may land in the wrong order, and the next boot fails a run
  that had succeeded (`tasks/store.ts:105`, against 35-36; `ReapedWasMidFlight`). A run
  that is pruned while it executes comes back as the newest entry (`:95`, against 16).
- **Install.** Two snapshots of `agent-tokens.json` may be renamed in the wrong order
  (`node-server.ts:83`): the token an agent was configured with leaves the file, and is
  not accepted after the next restart (against 77, "Persisted so it survives restarts"). An
  agent that takes on a second install before the first one is done may exit for a
  service that does not run what is in `config.json`: the first install starts it, the second
  one, which had found nothing installed, writes another configuration, and its
  `enable --now` leaves the service as it is (`agent/agent-cli.ts:334`, against 335-336). A
  later step that throws leaves a service that was installed and started, though the
  operator is told that the install failed.
- **Upload.** The number of bytes a write returns is not looked at (`agent/agent.ts:811`),
  so one that is short leaves a file with a hole or an end missing, and it is published. A
  chunk that arrives during the write of the same one passes the offset check and is
  written twice (804, against `host-agent.ts:75-76`). The final chunk deletes the entry
  before the close and the rename (819-822), and when one of these fails the error's
  `discardUpload` finds nothing: the temp file stays (against 400-402, "the temp file
  goes"). So does one whose entry is replaced by that of a repeated first chunk (793), with
  its handle open, and one whose entry the final chunk of a displaced upload deletes (820).
- **Terminals.** Shells outlive a broken link (`agent/agent-cli.ts:482`, against
  `next.md:241-243`; `ShellDiesWithTerminal`). A shell that cannot be spawned is reported
  by an error that names no session (`agent/agent.ts:450`).
- **Link.** A connection that goes silent before its first ping has no watchdog, which
  `agent-cli.ts:472-474` accepts; `ComesBack` excepts it.
- **Accounts.** Two set-ups at once may both make an owner (`auth.ts:174`, against 263). A
  login that checked the old password before a reset gets its session after it
  (`:188`); codes and device grants outlive a reset (`:448-450`; `NothingIssuedBeforeWorks`).
  A role id checked before the hash may be gone when the account is stored
  (`HeldRolesExist`, against 301-302), and a seeded role that is restored later, by a
  reset or because a restart found the table empty, then counts again. Two tables of
  `users.json` or `roles.json` may be renamed in the wrong order, or the write of one
  fail when memory has changed (`auth.ts:541`, `roles.ts:122`): the next restart may lose
  an account, the roles it was given, or a role that accounts hold, of which
  `roles.ts:87-89` says that dropping it under its holders is refused.
- **OIDC, apps.** A refresh token may be issued after its account's were revoked, because
  the account is looked up before an await (`features/oidc/feature.ts:433`). A client may
  be linked to an app that is deleted meanwhile (`LinkedAppsExist`, against
  `features/apps/store.ts:91-95`).
- **Events.** A page that reloads a log while lines arrive shows some twice
  (`connection.ts:213`, against 20; `LogLinesOnce`).
- **Proxy.** With overlapping pushes `lastApply` may be that of another push than the one
  Caddy loaded last (`features/proxy/manager.ts:126`).
- **Rename.** A park whose reply is lost leaves the file under a temporary name that
  nobody reports.
- **Compose.** An import does not ask whether the project has a record, so there may be
  two (the page merges by project). A status that cannot be read counts as "no
  containers", and the removal then skips `down` (`ComposeStackView.tsx:220`). `down`
  without `--remove-orphans` succeeds although containers of services that the compose
  file no longer names survive (`features/docker/docker.ts:386`), and where the directory
  is gone a failing `docker ps -aq` counts as no containers (416): in each case the record
  is deleted and the next read adopts the stack again (against 409-412). A registry that
  cannot be written has changed in memory, and a restart brings back what was removed.
- **Configuration.** The setters of `config.json` read, change one field and write all
  back (`config.ts:193`): of two at once one is lost. No document promises otherwise.

## 7. Abstractions and what is not modelled

Ids are UUIDs: an id that nothing refers to may be drawn again. Payloads, keystrokes,
metrics, most texts and versions beyond "old" and "new" are left out. Time is order: a
timeout may fire whenever it is armed. A write is renamed whole or not at all
(`writeFileAtomic`); a crash never tears a file. One connection of a host is modelled at
a time in `HostRequests`, `TerminalBridge` and `ChunkedUpload`; how several share a
machine is `Fleet`, how one comes about is `AgentLink`.

Not modelled, and why:

- The host features (docker but for the verbs of a removal, zfs, systemd, users, files,
  processes, network, debug) run commands on a host and parse what they print; their state
  is the host's. The transport of their requests is `HostRequests`.
- Rendering: Caddy's JSON, compose files and their editor, settings, charts, the pages of
  the web interface. They are forms over one request each, without a protocol.
- TLS, STUN, client addresses, CORS, static files: I/O, or functions of one request.
- OIDC's signing, claims, scopes, PKCE and redirects: cryptography and parsing.
- The registry that says which permission an operation needs: data.
- The single flight of `binary-store.ts`, the pruning of old binaries, the sweep of
  temporary files, and the setters of `config.ts`: a few lines each, with no state that
  other parts read between their steps.
- Stored lists that are one write each (default directories, dashboard layouts,
  preferences): nothing happens between their steps but what is said above of writes.
