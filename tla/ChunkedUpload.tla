--------------------------- MODULE ChunkedUpload ---------------------------
(***************************************************************************)
(* The upload of one file: the browser's requests, HostAgent.uploadFile    *)
(* (host-agent.ts) and the agent's runUploadChunk and discardUpload        *)
(* (agent/agent.ts).                                                       *)
(*                                                                         *)
(* The browser sends the file as slices, one request each; the control     *)
(* plane passes a slice on in chunks, each acknowledged before the next;   *)
(* the agent appends them to a temp file that the final chunk renames onto *)
(* the target.  Every await of the agent is a place where a timeout, an    *)
(* abort, the idle timer or a repeated request can fall.                   *)
(*                                                                         *)
(* Abstractions.  A chunk is its offset.  Messages of one link arrive in   *)
(* order and have no effect before they do: sending and arriving are one   *)
(* step.  Closing a handle and renaming or removing its file are one step, *)
(* and so are the end of a write and what the handler does then: a chunk   *)
(* that comes in between finds what it would have found before.  On a new  *)
(* link the agent's table is a new one, without the upload.  The timer of  *)
(* an entry another one displaced is not armed anew once it has fired: it  *)
(* discards what is under the id, as the entry's own timer does.           *)
(***************************************************************************)
EXTENDS Naturals, Sequences, FiniteSets

CONSTANTS
  Size,      \* chunks of the file
  PerCall,   \* chunks of one request's slice
  Repeated, \* where the slices begin that are sent again
  Copies,   \* the repeats of each
  NoFile

VARIABLES
  route,     \* the connection the upload began on: "up" or "down"
  call,      \* the requests
  next,      \* the offset uploadFile sends next
  job,       \* the agent's handler of each request's last chunk
  using,     \* the ActiveUpload that handler works on
  upload,    \* the entry of Agent.uploads
  temps,     \* the temp files on disk
  handles,   \* those that are open
  timers,    \* those whose idle timer is armed
  doomed,    \* those discardUpload is removing
  offset,    \* ActiveUpload.bytesWritten
  data,      \* what is in them
  target,    \* the temp file that became the file itself, if one did
  torn,      \* (history) those a write cut short, or two at once, went to
  stray      \* (history) those nobody will remove

caller == <<route, call, next>>
history == <<torn, stray>>
uploadVars ==
  <<route, call, next, job, using, upload, temps, handles, timers, doomed, offset, data, target,
    torn, stray>>

-----------------------------------------------------------------------------

Starts == {s \in 0..(Size - 1) : s % PerCall = 0}

Calls == [first : Starts, copy : {0}] \cup [first : Repeated, copy : Copies]

Original(c) == [c EXCEPT !.copy = 0]

ASSUME UploadAssumption ==
  /\ Size \in Nat \ {0} /\ PerCall \in Nat \ {0}
  /\ Repeated \subseteq Starts /\ 0 \notin Copies
  /\ NoFile \notin Calls

\* A temp file is named by the request whose first chunk creates it.
Temps == {c \in Calls : c.first = 0}

Ends(c) == IF c.first + PerCall < Size THEN c.first + PerCall ELSE Size

IsFinal(c) == Ends(c) = Size

\* The chunk `next[c]` of request `c` completes the file.
LastChunk(c) == IsFinal(c) /\ next[c] + 1 = Ends(c)

Whole == [i \in 1..Size |-> i - 1]

\* What is in a file in place of a chunk of which only a part was written.
Piece == Size

UploadInit ==
  /\ route = "up"
  /\ call = [c \in Calls |-> "idle"]
  /\ next = [c \in Calls |-> c.first]
  /\ job = [c \in Calls |-> "none"]
  /\ using = [c \in Calls |-> NoFile]
  /\ upload = NoFile
  /\ temps = {}
  /\ handles = {}
  /\ timers = {}
  /\ doomed = {}
  /\ offset = [t \in Temps |-> 0]
  /\ data = [t \in Temps |-> <<>>]
  /\ target = NoFile
  /\ torn = {} /\ stray = {}

\* discardUpload, up to its first await: the entry under the upload's id.
Discard ==
  /\ upload' = NoFile
  /\ timers' = timers \ {upload}
  /\ doomed' = IF upload = NoFile THEN doomed ELSE doomed \cup {upload}

\* uploadFile's catch: the request fails, and the agent is told.
Fails(c) ==
  /\ call' = [call EXCEPT ![c] = "failed"]
  /\ IF route = "up" THEN Discard ELSE UNCHANGED <<upload, timers, doomed>>

-----------------------------------------------------------------------------
(* The browser and the control plane.                                      *)

\* One request at a time, the next one after a success; or a repeat, which
\* may come while others are handled.
Begin(c) ==
  /\ route = "up"
  /\ call[c] = "idle"
  /\ \/ c.copy = 0 /\ \A d \in Calls : d.first + PerCall = c.first /\ d.copy = 0 => call[d] = "ok"
     \/ c.copy # 0 /\ call[Original(c)] # "idle"
  /\ call' = [call EXCEPT ![c] = "sending"]
  /\ UNCHANGED <<route, next, job, using, upload, temps, handles, timers, doomed, offset, data, target,
                 history>>

\* The browser hangs up, and the read of its request's body throws.
HangUp(c) ==
  /\ call[c] = "sending"
  /\ job[c] = "none"
  /\ Fails(c)
  /\ UNCHANGED <<route, next, job, using, temps, handles, offset, data, target, history>>

\* UPLOAD_CHUNK_TIMEOUT_MS, or the link's end, rejects a chunk's request.
ChunkTimeout(c) ==
  /\ call[c] = "sending"
  /\ job[c] # "none"
  /\ Fails(c)
  /\ UNCHANGED <<route, next, job, using, temps, handles, offset, data, target, history>>

\* The link goes down: every request waiting on it is rejected.
LinkDrops ==
  /\ route = "up"
  /\ route' = "down"
  /\ call' = [c \in Calls |-> IF call[c] = "sending" THEN "failed" ELSE call[c]]
  /\ UNCHANGED <<next, job, using, upload, temps, handles, timers, doomed, offset, data, target,
                 history>>

\* The agent's reply: the request goes on to its next chunk, succeeds or
\* fails.  After a timeout or on a dead link nobody hears it.
Heard(c) == call[c] = "sending" /\ route = "up"

Acknowledged(c) ==
  /\ call' = [call EXCEPT ![c] = IF Heard(c) /\ next[c] + 1 = Ends(c) THEN "ok" ELSE @]
  /\ next' = [next EXCEPT ![c] = IF Heard(c) THEN @ + 1 ELSE @]
  /\ job' = [job EXCEPT ![c] = "none"]
  /\ using' = [using EXCEPT ![c] = NoFile]

-----------------------------------------------------------------------------
(* The agent: runUploadChunk.                                              *)

IsWriting(c, t) == job[c] = "writing" /\ using[c] = t

\* Variant: the offset is taken on trust.
Accepts_AnyOffset(c, t) == t # NoFile

\* The checks that precede a write to the upload `t`: there is one, and the
\* chunk belongs where it has got to.
Accepts(c, t) == t # NoFile /\ offset[t] = next[c]

(* A chunk arrives.  The first one creates the upload, after an await; the *)
(* others are checked at once, against an offset that moves only when a    *)
(* write is done, and a chunk that is refused ends the upload.             *)
SendChunk(c) ==
  /\ route = "up"
  /\ call[c] = "sending"
  /\ job[c] = "none"
  /\ \/ /\ next[c] = 0 /\ upload = NoFile
        /\ job' = [job EXCEPT ![c] = "opening"]
        /\ UNCHANGED <<using, upload, timers, doomed, torn>>
     \/ /\ next[c] # 0 \/ upload # NoFile
        /\ Accepts(c, upload)
        /\ job' = [job EXCEPT ![c] = "writing"]
        /\ using' = [using EXCEPT ![c] = upload]
        /\ torn' = torn \cup {t \in {upload} : \E d \in Calls : IsWriting(d, t)}
        /\ UNCHANGED <<upload, timers, doomed>>
     \/ /\ next[c] # 0 \/ upload # NoFile
        /\ ~Accepts(c, upload)
        /\ job' = [job EXCEPT ![c] = "failing"]
        /\ using' = [using EXCEPT ![c] = upload]
        /\ Discard
        /\ UNCHANGED torn
  /\ UNCHANGED <<caller, temps, handles, offset, data, target, stray>>

\* Variant: the entry gets no idle timer.
Opened_NoTimer(c) ==
  /\ job[c] = "opening"
  /\ temps' = temps \cup {c}
  /\ handles' = handles \cup {c}
  /\ upload' = c
  /\ job' = [job EXCEPT ![c] = "writing"]
  /\ using' = [using EXCEPT ![c] = c]
  /\ stray' = stray \cup ({upload} \ {NoFile})
  /\ UNCHANGED <<caller, timers, doomed, offset, data, target, torn>>

\* fs.open is done: the entry is set, and one that was set meanwhile is no
\* longer in the map.
Opened(c) ==
  /\ job[c] = "opening"
  /\ temps' = temps \cup {c}
  /\ handles' = handles \cup {c}
  /\ timers' = timers \cup {c}
  /\ upload' = c
  /\ job' = [job EXCEPT ![c] = "writing"]
  /\ using' = [using EXCEPT ![c] = c]
  /\ stray' = stray \cup ({upload} \ {NoFile})
  /\ UNCHANGED <<caller, doomed, offset, data, target, torn>>

\* fs.open fails.
OpenFails(c) ==
  /\ job[c] = "opening"
  /\ job' = [job EXCEPT ![c] = "failing"]
  /\ using' = [using EXCEPT ![c] = upload]
  /\ Discard
  /\ UNCHANGED <<caller, temps, handles, offset, data, target, history>>

\* The write is done, and the number of bytes it returns is not looked at:
\* the offset moves by the whole chunk.  One that is not the last is
\* acknowledged; the last one takes out the entry that is under the upload's
\* id, whosever it is, and goes on to publish its own file.
Written(c) ==
  /\ job[c] = "writing"
  /\ using[c] \in handles
  /\ \/ /\ data' = [data EXCEPT ![using[c]] = Append(@, next[c])]
        /\ UNCHANGED torn
     \/ /\ data' = [data EXCEPT ![using[c]] = Append(@, Piece)]
        /\ torn' = torn \cup {using[c]}
  /\ offset' = [offset EXCEPT ![using[c]] = @ + 1]
  /\ \/ /\ ~LastChunk(c)
        /\ Acknowledged(c)
        /\ UNCHANGED <<upload, timers, stray>>
     \/ /\ LastChunk(c)
        /\ upload' = NoFile
        /\ timers' = timers \ {using[c]}
        /\ stray' = stray \cup ({upload} \ {using[c], NoFile})
        /\ job' = [job EXCEPT ![c] = "publishing"]
        /\ UNCHANGED <<call, next, using>>
  /\ UNCHANGED <<route, temps, handles, doomed, target>>

\* The write fails: the handle is closed, or the disk is full.
WriteFails(c) ==
  /\ job[c] = "writing"
  /\ job' = [job EXCEPT ![c] = "failing"]
  /\ using' = [using EXCEPT ![c] = upload]
  /\ Discard
  /\ UNCHANGED <<caller, temps, handles, offset, data, target, history>>

\* Close and rename: the temp file becomes the target.
Publish(c) ==
  /\ job[c] = "publishing"
  /\ using[c] \in temps
  /\ target' = using[c]
  /\ temps' = temps \ {using[c]}
  /\ handles' = handles \ {using[c]}
  /\ Acknowledged(c)
  /\ UNCHANGED <<route, upload, timers, doomed, offset, data, history>>

\* The close or the rename fails, the temp file being gone or not.  The error
\* discards what is under the upload's id, where this upload is no longer:
\* nobody removes the file, unless somebody was about to.
PublishFails(c) ==
  /\ job[c] = "publishing"
  /\ handles' = handles \ {using[c]}
  /\ stray' = stray \cup (({using[c]} \cap temps) \ doomed)
  /\ job' = [job EXCEPT ![c] = "failing"]
  /\ using' = [using EXCEPT ![c] = upload]
  /\ Discard
  /\ UNCHANGED <<caller, temps, offset, data, target, torn>>

\* What was discarded is gone, and the error is sent.
ReplyError(c) ==
  /\ job[c] = "failing"
  /\ using[c] \notin doomed
  /\ IF Heard(c) THEN Fails(c) ELSE UNCHANGED <<call, upload, timers, doomed>>
  /\ job' = [job EXCEPT ![c] = "none"]
  /\ using' = [using EXCEPT ![c] = NoFile]
  /\ UNCHANGED <<route, next, temps, handles, offset, data, target, history>>

\* UPLOAD_IDLE_TIMEOUT_MS after the last chunk: discardUpload, by the id.
IdleTimeout(t) ==
  /\ t \in timers
  /\ upload' = NoFile
  /\ timers' = timers \ {t, upload}
  /\ doomed' = IF upload = NoFile THEN doomed ELSE doomed \cup {upload}
  /\ UNCHANGED <<caller, job, using, temps, handles, offset, data, target, history>>

\* discardUpload, after its awaits: the handle is closed, the file removed.
Removed(t) ==
  /\ t \in doomed
  /\ doomed' = doomed \ {t}
  /\ temps' = temps \ {t}
  /\ handles' = handles \ {t}
  /\ UNCHANGED <<caller, job, using, upload, timers, offset, data, target, history>>

AgentNext(c) ==
  \/ Opened(c) \/ OpenFails(c) \/ Written(c) \/ WriteFails(c)
  \/ Publish(c) \/ PublishFails(c) \/ ReplyError(c)

UploadNext ==
  \/ \E c \in Calls :
       Begin(c) \/ HangUp(c) \/ ChunkTimeout(c) \/ SendChunk(c) \/ AgentNext(c)
  \/ LinkDrops
  \/ \E t \in Temps : IdleTimeout(t) \/ Removed(t)

UploadSpec == UploadInit /\ [][UploadNext]_uploadVars

\* On the host, file operations return and timers fire.  Nobody else owes
\* anything: the browser, the control plane and the link may be gone.
UploadFairness ==
  /\ \A c \in Calls : WF_uploadVars(AgentNext(c))
  /\ \A t \in Temps : WF_uploadVars(IdleTimeout(t)) /\ WF_uploadVars(Removed(t))

UploadFairSpec == UploadSpec /\ UploadFairness
-----------------------------------------------------------------------------

UploadTypeOK ==
  /\ route \in {"up", "down"}
  /\ call \in [Calls -> {"idle", "sending", "ok", "failed"}]
  /\ next \in [Calls -> 0..Size]
  /\ job \in [Calls -> {"none", "opening", "writing", "publishing", "failing"}]
  /\ using \in [Calls -> Temps \cup {NoFile}]
  /\ upload \in Temps \cup {NoFile}
  /\ temps \subseteq Temps /\ handles \subseteq temps
  /\ timers \subseteq Temps /\ doomed \subseteq Temps
  /\ offset \in [Temps -> Nat]
  /\ data \in [Temps -> Seq(0..Size)]
  /\ target \in Temps \cup {NoFile}
  /\ torn \subseteq Temps /\ stray \subseteq Temps

(* UploadSession: "a dropped or repeated request fails rather than         *)
(* corrupting the file": whatever is lost, aborted, timed out or repeated, *)
(* while other requests are handled too, what is renamed onto the file is  *)
(* all of the upload, in order, and it has been once the browser is told   *)
(* of success.  Two things the code does not look at are excepted: a write *)
(* the disk cut short, and a chunk that was let in while another was being *)
(* written to the same file.                                               *)
UploadIsAtomic ==
  /\ target \notin torn \cup {NoFile} => data[target] = Whole
  /\ \A c \in Calls : IsFinal(c) /\ call[c] = "ok" => target # NoFile

(* The map's comment: "Entries are removed by the final chunk, by an abort,*)
(* or by their own idle timer - never left behind".  No temp file stays,   *)
(* and so no entry, unless it is a stray that is not in the map: its entry *)
(* gave way to that of a repeat, or was deleted by the final chunk of      *)
(* another file, or its own close or rename failed.                        *)
NothingLeftBehind ==
  \A t \in Temps : t \in temps ~> t \notin temps \/ t \in stray \ {upload}

(* An entry that is in the map can still be written to and cleaned up: its *)
(* file is there and open, and its idle timer is armed.                    *)
EntryIsLive ==
  upload # NoFile => upload \in handles /\ upload \in timers /\ upload \notin doomed

(* What "never left behind" rests on: a temp file on the disk is that of   *)
(* the entry, is being published, is being removed, or is a stray.         *)
FilesHaveOwners ==
  \A t \in temps :
    \/ t = upload \/ t \in doomed \/ t \in stray
    \/ \E c \in Calls : job[c] = "publishing" /\ using[c] = t
=============================================================================
