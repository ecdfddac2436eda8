------------------------------ MODULE Accounts ------------------------------
(***************************************************************************)
(* AuthStore (auth.ts): accounts and browser sessions, and the two files   *)
(* they are kept in.  Each call is cut where the code awaits: the password *)
(* hash, the mkdir ahead of a write (the map is serialised after it), the  *)
(* write itself, and the callback that revokes what other stores hold.     *)
(*                                                                         *)
(* Left out: names, addresses, roles and permissions of an account (edits  *)
(* of them are one action, EditUser), and the contents of a password: what *)
(* a verification finds is left open.                                      *)
(***************************************************************************)
EXTENDS Naturals, FiniteSets

CONSTANTS
    Users,            \* account ids, drawn with randomUUID
    Sessions,         \* session tokens
    Calls,            \* calls that may be in progress at once
    MaxLoginFailures, \* MAX_LOGIN_FAILURES
    None

ASSUME AccountsAssumption ==
    /\ None \notin Users \cup Sessions \cup {"owner", "member"}
    /\ Users \cap Sessions = {}
    /\ MaxLoginFailures \in Nat \ {0}

VARIABLES
    users,        \* this.users: who has an account, and which is the owner's
    sessions,     \* this.sessions: whose session a token is
    usersFile,    \* users.json
    sessionsFile, \* sessions.json
    call,         \* the calls in progress
    failures,     \* loginFailures of the one source that tries: count, blocked
    drawn,        \* ids and tokens that have been drawn
    revoked,      \* those an acknowledged call has revoked
    disordered    \* which file was last written by one of two overlapping writes

accountVars == <<users, sessions, usersFile, sessionsFile, call, failures,
                 drawn, revoked, disordered>>

UserTable == [Users -> {"owner", "member", None}]
SessionTable == [Sessions -> Users \cup {None}]

\* at: the await the call is suspended in; gone: what it has revoked;
\* snap: what it is writing; overlap: another write of the file is under way.
CallRecord == [op      : {"none", "setup", "add", "edit", "delete", "reset",
                          "login", "end", "touch"},
               at      : {"idle", "hash", "rehash", "verify", "saveUsers",
                          "writeUsers", "saveSessions", "writeSessions", "revoke"},
               user    : Users \cup {None},
               gone    : SUBSET (Users \cup Sessions),
               snap    : UserTable \cup SessionTable \cup {None},
               overlap : BOOLEAN]

NoCall == [op |-> "none", at |-> "idle", user |-> None, gone |-> {},
           snap |-> None, overlap |-> FALSE]

Known(u) == users[u] # None
Live(t) == sessions[t] # None
At(c, step) == call[c].at = step

\* Enters a call at its first await.
Begin(c, op, step, u, gone) ==
    /\ At(c, "idle")
    /\ call' = [call EXCEPT ![c] = [NoCall EXCEPT !.op = op, !.at = step,
                                                  !.user = u, !.gone = gone]]

Goto(c, step) == call' = [call EXCEPT ![c].at = step]
End(c) == call' = [call EXCEPT ![c] = NoCall]

NoFailures == [count |-> 0, blocked |-> FALSE]

NeedsSetup == \A u \in Users : ~Known(u)

AccountsInit ==
    /\ users = [u \in Users |-> None]
    /\ sessions = [t \in Sessions |-> None]
    /\ usersFile = users
    /\ sessionsFile = sessions
    /\ call = [c \in Calls |-> NoCall]
    /\ failures = NoFailures
    /\ drawn = {}
    /\ revoked = {}
    /\ disordered = {}

----------------------------------------------------------------------------
(* Accounts.                                                               *)

Draw(id) == /\ id \notin drawn
            /\ drawn' = drawn \cup {id}

files == <<usersFile, sessionsFile, disordered>>

\* setupOwner: whoever asks, while there is no account.
SetupOwner(c, u) ==
    /\ NeedsSetup
    /\ Draw(u)
    /\ Begin(c, "setup", "hash", u, {})
    /\ UNCHANGED <<users, sessions, files, failures, revoked>>

\* addUser: the caller is logged in, so there is an account.
AddUser(c, u) ==
    /\ ~NeedsSetup
    /\ Draw(u)
    /\ Begin(c, "add", "hash", u, {})
    /\ UNCHANGED <<users, sessions, files, failures, revoked>>

\* createUser, once the password is hashed.
CreateUser(c) ==
    /\ At(c, "hash")
    /\ users' = [users EXCEPT ![call[c].user] =
                    IF call[c].op = "setup" THEN "owner" ELSE "member"]
    /\ Goto(c, "saveUsers")
    /\ UNCHANGED <<sessions, files, failures, drawn, revoked>>

\* setUserRoles, setPermissions, setSystemUser, setEmail.
EditUser(c, u) ==
    /\ Known(u)
    /\ Begin(c, "edit", "saveUsers", u, {})
    /\ UNCHANGED <<users, sessions, files, failures, drawn, revoked>>

\* Variant: the owner's account may be deleted.
X_DeleteUser(c, u) ==
    /\ Known(u)
    /\ users' = [users EXCEPT ![u] = None]
    /\ Begin(c, "delete", "saveUsers", u, {u})
    /\ UNCHANGED <<sessions, files, failures, drawn, revoked>>

DeleteUser(c, u) ==
    /\ users[u] = "member"
    /\ users' = [users EXCEPT ![u] = None]
    /\ Begin(c, "delete", "saveUsers", u, {u})
    /\ UNCHANGED <<sessions, files, failures, drawn, revoked>>

AdminSetPassword(c, u) ==
    /\ Known(u)
    /\ Begin(c, "reset", "rehash", u, {})
    /\ UNCHANGED <<users, sessions, files, failures, drawn, revoked>>

\* The hash is ready; it goes into the record that was looked up before.
PasswordHashed(c) ==
    /\ At(c, "rehash")
    /\ Goto(c, "saveUsers")
    /\ UNCHANGED <<users, sessions, files, failures, drawn, revoked>>

----------------------------------------------------------------------------
(* Writing a file.                                                         *)

Writing(step) == {d \in Calls : At(d, step)}

\* writeJson after its mkdir: the map as it is now is what will be written.
Serialise(c, saving, writing, table) ==
    /\ At(c, saving)
    /\ call' = [d \in Calls |->
                  IF d = c THEN [call[c] EXCEPT !.at = writing, !.snap = table,
                                                !.overlap = Writing(writing) # {}]
                  ELSE IF At(d, writing) THEN [call[d] EXCEPT !.overlap = TRUE]
                  ELSE call[d]]

SerialiseUsers(c) ==
    /\ Serialise(c, "saveUsers", "writeUsers", users)
    /\ UNCHANGED <<users, sessions, files, failures, drawn, revoked>>

SerialiseSessions(c) ==
    /\ Serialise(c, "saveSessions", "writeSessions", sessions)
    /\ UNCHANGED <<users, sessions, files, failures, drawn, revoked>>

Disordered(c, file) == IF call[c].overlap THEN disordered \cup {file}
                                          ELSE disordered \ {file}

\* The rename of users.json, and what the call does until its next await.
UsersLand(c) ==
    /\ At(c, "writeUsers")
    /\ usersFile' = call[c].snap
    /\ disordered' = Disordered(c, "users")
    /\ UNCHANGED <<sessionsFile, users, failures>>

\* addUser and the edits return.
AccountSaved(c) ==
    /\ UsersLand(c)
    /\ call[c].op \in {"add", "edit"}
    /\ End(c)
    /\ UNCHANGED <<sessions, drawn, revoked>>

\* setupOwner goes on to createSession.
OwnerSaved(c, t) ==
    /\ UsersLand(c)
    /\ call[c].op = "setup"
    /\ Draw(t)
    /\ sessions' = [sessions EXCEPT ![t] = call[c].user]
    /\ Goto(c, "saveSessions")
    /\ UNCHANGED revoked

SessionsOf(u) == {t \in Sessions : sessions[t] = u}

\* deleteUser and adminSetPassword go on to deleteSessionsForUser, which writes
\* the file only if there were sessions.
\* Variant: deleteSessionsForUser does not write the file.
X_DeleteSessionsForUser(c) ==
    /\ UsersLand(c)
    /\ call[c].op \in {"delete", "reset"}
    /\ LET mine == SessionsOf(call[c].user) IN
         /\ sessions' = [t \in Sessions |-> IF t \in mine THEN None ELSE sessions[t]]
         /\ call' = [call EXCEPT ![c].gone = @ \cup mine, ![c].at = "revoke"]
    /\ UNCHANGED <<drawn, revoked>>

DeleteSessionsForUser(c) ==
    /\ UsersLand(c)
    /\ call[c].op \in {"delete", "reset"}
    /\ LET mine == SessionsOf(call[c].user) IN
         /\ sessions' = [t \in Sessions |-> IF t \in mine THEN None ELSE sessions[t]]
         /\ call' = [call EXCEPT ![c].gone = @ \cup mine,
                                 ![c].at = IF mine = {} THEN "revoke" ELSE "saveSessions"]
    /\ UNCHANGED <<drawn, revoked>>

\* The rename of sessions.json: delete and reset go on to the callback, the
\* others return.
SessionsLand(c) ==
    /\ At(c, "writeSessions")
    /\ sessionsFile' = call[c].snap
    /\ disordered' = Disordered(c, "sessions")
    /\ IF call[c].op \in {"delete", "reset"}
       THEN Goto(c, "revoke") /\ UNCHANGED revoked
       ELSE End(c) /\ revoked' = revoked \cup call[c].gone
    /\ UNCHANGED <<usersFile, users, sessions, failures, drawn>>

\* onCredentialsRevoked has returned: the caller is told.
CredentialsRevoked(c) ==
    /\ At(c, "revoke")
    /\ revoked' = revoked \cup call[c].gone
    /\ End(c)
    /\ UNCHANGED <<users, sessions, files, failures, drawn>>

\* A write throws: the call fails and what it changed in memory stays.
WriteFails(c) ==
    /\ call[c].at \in {"writeUsers", "writeSessions"}
    /\ End(c)
    /\ UNCHANGED <<users, sessions, files, failures, drawn, revoked>>

----------------------------------------------------------------------------
(* Sessions.                                                               *)

\* login looks the account up (None: there is none of that name) and awaits
\* the verification.
Login(c, u) ==
    /\ ~failures.blocked
    /\ u # None => Known(u)
    /\ Begin(c, "login", "verify", u, {})
    /\ UNCHANGED <<users, sessions, files, failures, drawn, revoked>>

LoginAccepted(c, t) ==
    /\ At(c, "verify")
    /\ call[c].user # None
    /\ failures' = NoFailures
    /\ Draw(t)
    /\ sessions' = [sessions EXCEPT ![t] = call[c].user]
    /\ Goto(c, "saveSessions")
    /\ UNCHANGED <<users, files, revoked>>

\* recordLoginFailure.
LoginRefused(c) ==
    /\ At(c, "verify")
    /\ failures' = IF failures.count + 1 >= MaxLoginFailures
                   THEN [count |-> 0, blocked |-> TRUE]
                   ELSE [failures EXCEPT !.count = @ + 1]
    /\ End(c)
    /\ UNCHANGED <<users, sessions, files, drawn, revoked>>

\* LOGIN_BLOCK_MS have passed.
BlockEnds ==
    /\ failures.blocked
    /\ failures' = [failures EXCEPT !.blocked = FALSE]
    /\ UNCHANGED <<users, sessions, files, call, drawn, revoked>>

EndSession(c, t) ==
    /\ Live(t)
    /\ sessions' = [sessions EXCEPT ![t] = None]
    /\ Begin(c, "end", "saveSessions", None, {t})
    /\ UNCHANGED <<users, files, failures, drawn, revoked>>

Logout(c, t) == EndSession(c, t)

\* Somebody else's session, or another one of the caller's own.
RevokeSession(c, t) ==
    /\ \E mine \in Sessions \ {t} : Live(mine)
    /\ EndSession(c, t)

\* authenticate: an old session is dropped; a good one is refreshed, and the
\* file written without waiting for it.
Expire(c, t) == EndSession(c, t)

Authenticate(c, t) ==
    /\ Live(t)
    /\ Known(sessions[t])
    /\ Begin(c, "touch", "saveSessions", None, {})
    /\ UNCHANGED <<users, sessions, files, failures, drawn, revoked>>

----------------------------------------------------------------------------
\* The process dies and init reads the files; sessions without an account are
\* pruned, and the file is written again before anybody is served.
Restart ==
    LET kept == [t \in Sessions |->
                   IF sessionsFile[t] # None /\ usersFile[sessionsFile[t]] # None
                   THEN sessionsFile[t] ELSE None] IN
    /\ users' = usersFile
    /\ sessions' = kept
    /\ sessionsFile' = kept
    /\ call' = [c \in Calls |-> NoCall]
    /\ failures' = NoFailures
    /\ disordered' = {}
    /\ revoked' = revoked \
         (   (IF "users" \in disordered THEN {u \in Users : usersFile[u] # None} ELSE {})
        \cup (IF "sessions" \in disordered THEN {t \in Sessions : kept[t] # None} ELSE {}))
    /\ UNCHANGED <<usersFile, drawn>>

\* Everything but the callback and the restart, which concern other stores too.
AccountStep ==
    \/ \E c \in Calls :
         \/ \E u \in Users : \/ SetupOwner(c, u) \/ AddUser(c, u) \/ EditUser(c, u)
                             \/ DeleteUser(c, u) \/ AdminSetPassword(c, u)
         \/ \E u \in Users \cup {None} : Login(c, u)
         \/ \E t \in Sessions : \/ OwnerSaved(c, t) \/ LoginAccepted(c, t)
                                \/ Logout(c, t) \/ RevokeSession(c, t)
                                \/ Expire(c, t) \/ Authenticate(c, t)
         \/ CreateUser(c) \/ PasswordHashed(c) \/ LoginRefused(c)
         \/ SerialiseUsers(c) \/ AccountSaved(c) \/ DeleteSessionsForUser(c)
         \/ SerialiseSessions(c) \/ SessionsLand(c) \/ WriteFails(c)
    \/ BlockEnds

AccountsNext == AccountStep \/ (\E c \in Calls : CredentialsRevoked(c)) \/ Restart

AccountsSpec == AccountsInit /\ [][AccountsNext]_accountVars

----------------------------------------------------------------------------
\* Types of the variables of AuthStore and of what its calls remember.
AccountsTypeOK ==
    /\ users \in UserTable
    /\ usersFile \in UserTable
    /\ sessions \in SessionTable
    /\ sessionsFile \in SessionTable
    /\ call \in [Calls -> CallRecord]
    /\ failures \in [count : 0 .. MaxLoginFailures - 1, blocked : BOOLEAN]
    /\ drawn \subseteq Users \cup Sessions
    /\ revoked \subseteq drawn
    /\ disordered \subseteq {"users", "sessions"}

\* A table without an account, or with an owner's.
HasOwner(table) == (\E u \in Users : table[u] # None) => \E u \in Users : table[u] = "owner"

\* Neither in memory nor in the file is there ever an account without an
\* owner's: setupOwner refuses as soon as there is any account, and nobody but
\* the owner can always administer accounts, so such a table would lock
\* everybody out for good (auth.ts, needsSetup, deleteUser, and the order in
\* which createUser and persistUsers work while set-ups overlap).
NeverLockedOut == HasOwner(users) /\ HasOwner(usersFile)

\* What a call has revoked and acknowledged is revoked, now and in what the
\* next process would read, unless two writes of that file overlapped and no
\* write alone has followed (auth.ts, logout, revokeSession, deleteUser,
\* adminSetPassword, deleteSessionsForUser; writeJson is not serialised).
RevokedStaysRevoked ==
    /\ \A t \in revoked \cap Sessions :
         /\ ~Live(t)
         /\ "sessions" \notin disordered => sessionsFile[t] = None
    /\ \A u \in revoked \cap Users :
         /\ ~Known(u)
         /\ "users" \notin disordered => usersFile[u] = None
=============================================================================
