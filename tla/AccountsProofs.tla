---------------------------- MODULE AccountsProofs ----------------------------
(***************************************************************************)
(* Nobody is ever locked out of the control plane, and what was revoked    *)
(* stays so, for any accounts, sessions and calls; and the chains of       *)
(* refresh tokens of the OIDC provider, for any clients, codes, device     *)
(* requests, tokens and requests at once: one good token to a chain, one   *)
(* chain to a code, and no good token in a chain that was revoked.         *)
(***************************************************************************)
EXTENDS OidcGrants, TLAPS

(***************************************************************************)
(* Accounts and sessions.                                                  *)
(***************************************************************************)

\* Types of what the argument is about.
Types ==
    /\ users \in UserTable /\ usersFile \in UserTable
    /\ sessions \in SessionTable /\ sessionsFile \in SessionTable
    /\ call \in [Calls -> CallRecord]
    /\ \A c \in Calls : At(c, "writeSessions") => call[c].snap \in SessionTable

\* Every account has an id that was drawn.
AllDrawn(table) == \A u \in Users : table[u] # None => u \in drawn

Good(table) == table \in UserTable /\ HasOwner(table) /\ AllDrawn(table)

\* A write of users.json carries a good table.
GoodWrites == \A c \in Calls : At(c, "writeUsers") => Good(call[c].snap)

\* An account that waits for its password has an id of its own, and is
\* the first one unless there is an owner.
Newborn(c) ==
    /\ call[c].user \in Users
    /\ users[call[c].user] = None
    /\ call[c].user \in drawn
    /\ call[c].op # "setup" => \E u \in Users : users[u] = "owner"

Newborns ==
    /\ \A c \in Calls : At(c, "hash") => Newborn(c)
    /\ \A c, d \in Calls : At(c, "hash") /\ At(d, "hash") /\ c # d => call[c].user # call[d].user

(* The inductive invariant.  That an owner stays one until a restart, and  *)
(* that ids are never drawn twice, is what keeps an owner's record from    *)
(* being overwritten by a member's.                                        *)
AccountsInv ==
    /\ Types
    /\ Good(users) /\ Good(usersFile)
    /\ GoodWrites
    /\ Newborns

-----------------------------------------------------------------------------
(* How calls change.                                                       *)

Steps == {"idle", "hash", "rehash", "verify", "saveUsers",
          "writeUsers", "saveSessions", "writeSessions", "revoke"}

LEMMA Beginning ==
    ASSUME Types, NEW c \in Calls, NEW step \in Steps, NEW u \in Users \cup {None},
           NEW op \in {"setup", "add", "edit", "delete", "reset", "login", "end", "touch"},
           NEW gone \in SUBSET (Users \cup Sessions), Begin(c, op, step, u, gone)
    PROVE  /\ call' \in [Calls -> CallRecord]
           /\ call'[c].at = step /\ call'[c].user = u /\ call'[c].op = op
           /\ call'[c].gone = gone
           /\ \A d \in Calls \ {c} : call'[d] = call[d]
  <1> DEFINE rec == [NoCall EXCEPT !.op = op, !.at = step, !.user = u, !.gone = gone]
  <1>1. /\ rec \in CallRecord /\ rec.at = step /\ rec.user = u /\ rec.op = op
        /\ rec.gone = gone
    BY DEF NoCall, CallRecord, Steps
  <1>2. call' = [call EXCEPT ![c] = rec]
    BY DEF Begin
  <1> HIDE DEF rec
  <1> QED
    BY <1>1, <1>2 DEF Types

LEMMA GoingOn ==
    ASSUME Types, NEW c \in Calls, NEW step \in Steps, Goto(c, step)
    PROVE  /\ call' \in [Calls -> CallRecord]
           /\ call'[c].at = step /\ call'[c].op = call[c].op
           /\ call'[c].user = call[c].user /\ call'[c].gone = call[c].gone
           /\ \A d \in Calls \ {c} : call'[d] = call[d]
  BY DEF Types, Goto, CallRecord, Steps

LEMMA Ending ==
    ASSUME Types, NEW c \in Calls, End(c)
    PROVE  /\ call' \in [Calls -> CallRecord]
           /\ call'[c].at = "idle" /\ call'[c].gone = {} /\ call'[c].op = "none"
           /\ \A d \in Calls \ {c} : call'[d] = call[d]
  <1>1. NoCall \in CallRecord /\ NoCall.at = "idle" /\ NoCall.gone = {} /\ NoCall.op = "none"
    BY DEF NoCall, CallRecord
  <1> QED
    BY <1>1 DEF Types, End

\* Serialising a table marks the writes it overlaps.
LEMMA Serialising ==
    ASSUME Types, NEW c \in Calls, NEW saving \in Steps, NEW writing \in Steps,
           NEW table \in UserTable \cup SessionTable, Serialise(c, saving, writing, table)
    PROVE  /\ call' \in [Calls -> CallRecord]
           /\ call'[c].at = writing /\ call'[c].snap = table
           /\ \A d \in Calls \ {c} :
                 /\ call'[d].at = call[d].at /\ call'[d].op = call[d].op
                 /\ call'[d].user = call[d].user /\ call'[d].snap = call[d].snap
  <1> DEFINE mine   == [call[c] EXCEPT !.at = writing, !.snap = table,
                                       !.overlap = (Writing(writing) # {})]
             its(d) == [call[d] EXCEPT !.overlap = TRUE]
  <1>1. mine \in CallRecord /\ mine.at = writing /\ mine.snap = table
    <2>1. ASSUME NEW r \in CallRecord, NEW b \in BOOLEAN
          PROVE  LET w == [r EXCEPT !.at = writing, !.snap = table, !.overlap = b]
                 IN  w \in CallRecord /\ w.at = writing /\ w.snap = table
      BY DEF CallRecord, Steps
    <2>2. call[c] \in CallRecord /\ (Writing(writing) # {}) \in BOOLEAN
      BY DEF Types
    <2> QED
      BY <2>1, <2>2, Zenon
  <1>2. ASSUME NEW d \in Calls
        PROVE  /\ its(d) \in CallRecord
               /\ its(d).at = call[d].at /\ its(d).op = call[d].op
               /\ its(d).user = call[d].user /\ its(d).snap = call[d].snap
    BY DEF Types, CallRecord
  <1>3. call' = [d \in Calls |-> IF d = c THEN mine ELSE IF At(d, writing) THEN its(d) ELSE call[d]]
    BY DEF Serialise
  <1>4. \A d \in Calls : call[d] \in CallRecord
    BY DEF Types
  <1> HIDE DEF mine, its
  <1> QED
    BY <1>1, <1>2, <1>3, <1>4

-----------------------------------------------------------------------------

\* A step that leaves the accounts alone, and has nobody begin to hash a
\* password or to write the accounts.
LEMMA Quiet ==
    ASSUME AccountsInv, Types', users' = users, drawn \subseteq drawn', Good(usersFile)',
           \A d \in Calls : call'[d].at \in {"hash", "writeUsers"} =>
               /\ call'[d].at = call[d].at /\ call'[d].op = call[d].op
               /\ call'[d].user = call[d].user /\ call'[d].snap = call[d].snap
    PROVE  AccountsInv'
  <1>1. Good(users)'
    BY DEF AccountsInv, Good, AllDrawn, HasOwner
  <1>2. GoodWrites'
    <2> SUFFICES ASSUME NEW c \in Calls, call'[c].at = "writeUsers"
                 PROVE  Good(call[c].snap)'
      BY DEF GoodWrites, At
    <2>1. call'[c].snap = call[c].snap /\ Good(call[c].snap)
      BY DEF AccountsInv, GoodWrites, At
    <2> QED
      BY <2>1 DEF Good, AllDrawn, HasOwner
  <1>3. Newborns'
    BY DEF AccountsInv, Newborns, Newborn, At
  <1> QED
    BY <1>1, <1>2, <1>3 DEF AccountsInv

LEMMA Initially == AccountsInit => AccountsInv
  <1> SUFFICES ASSUME AccountsInit
               PROVE  AccountsInv
    OBVIOUS
  <1>1. NoCall \in CallRecord /\ NoCall.at = "idle"
    BY DEF NoCall, CallRecord
  <1>2. Good(users) /\ Good(usersFile)
    BY DEF AccountsInit, Good, UserTable, HasOwner, AllDrawn
  <1>3. \A c \in Calls : call[c].at = "idle"
    BY <1>1 DEF AccountsInit
  <1>4. Types
    BY <1>1, <1>2, <1>3 DEF Types, AccountsInit, SessionTable, Good, At
  <1> QED
    BY <1>2, <1>3, <1>4 DEF AccountsInv, GoodWrites, Newborns, At

\* A call that begins to hash a password has an id nobody has.
LEMMA Bearing ==
    ASSUME AccountsInv, NEW c \in Calls, NEW u \in Users, NEW op \in {"setup", "add"},
           op = "add" => \E v \in Users : users[v] # None,
           Draw(u), Begin(c, op, "hash", u, {}), UNCHANGED <<users, sessions, files>>
    PROVE  AccountsInv'
  <1>0. Types /\ u \notin drawn /\ drawn' = drawn \cup {u}
    BY DEF AccountsInv, Draw
  <1>1. /\ call' \in [Calls -> CallRecord]
        /\ call'[c].at = "hash" /\ call'[c].user = u /\ call'[c].op = op
        /\ \A d \in Calls \ {c} : call'[d] = call[d]
    BY <1>0, Beginning DEF Steps
  <1>2. Types'
    BY <1>0, <1>1 DEF Types, At, files
  <1>3. Good(users)' /\ Good(usersFile)'
    BY <1>0 DEF AccountsInv, Good, AllDrawn, HasOwner, files
  <1>4. GoodWrites'
    <2> SUFFICES ASSUME NEW d \in Calls, call'[d].at = "writeUsers"
                 PROVE  Good(call[d].snap)'
      BY DEF GoodWrites, At
    <2>1. call'[d] = call[d] /\ Good(call[d].snap)
      BY <1>1 DEF AccountsInv, GoodWrites, At
    <2> QED
      BY <2>1, <1>0 DEF Good, AllDrawn, HasOwner
  <1>5. Newborn(c)'
    <2>1. users[u] = None
      BY <1>0 DEF AccountsInv, Good, AllDrawn
    <2>2. op # "setup" => \E v \in Users : users[v] = "owner"
      BY DEF AccountsInv, Good, HasOwner
    <2> QED
      BY <1>0, <1>1, <2>1, <2>2 DEF Newborn
  <1>6. ASSUME NEW d \in Calls \ {c}, At(d, "hash")'
        PROVE  Newborn(d)' /\ call'[d].user # u
    BY <1>6, <1>0, <1>1 DEF AccountsInv, Newborns, Newborn, At
  <1>7. ASSUME NEW d \in Calls, NEW e \in Calls, d # e, At(d, "hash")', At(e, "hash")'
        PROVE  call'[d].user # call'[e].user
    <2>1. CASE d = c \/ e = c
      BY <2>1, <1>1, <1>6, <1>7
    <2>2. CASE d # c /\ e # c
      BY <2>2, <1>1, <1>7 DEF AccountsInv, Newborns, At
    <2> QED
      BY <2>1, <2>2
  <1>8. \A d \in Calls : At(d, "hash")' => Newborn(d)'
    BY <1>5, <1>6
  <1>9. Newborns'
    BY <1>7, <1>8 DEF Newborns
  <1> QED
    BY <1>2, <1>3, <1>4, <1>9 DEF AccountsInv

\* createUser enters an owner, or a member beside an owner.
LEMMA Creating ==
    ASSUME AccountsInv, NEW c \in Calls, CreateUser(c)
    PROVE  AccountsInv'
  <1> DEFINE u == call[c].user
             kind == IF call[c].op = "setup" THEN "owner" ELSE "member"
  <1>0. /\ Types /\ Newborn(c)
        /\ users' = [users EXCEPT ![u] = kind]
        /\ UNCHANGED <<sessions, usersFile, sessionsFile, drawn>>
    BY DEF AccountsInv, Newborns, CreateUser, files
  <1>1. /\ call' \in [Calls -> CallRecord]
        /\ call'[c].at = "saveUsers"
        /\ \A d \in Calls \ {c} : call'[d] = call[d]
    BY <1>0, GoingOn DEF Steps, CreateUser
  <1>2. users' \in UserTable
    BY <1>0 DEF Types, UserTable
  <1>3. Types'
    BY <1>0, <1>1, <1>2 DEF Types, At
  <1>4. /\ users'[u] = kind
        /\ \A v \in Users \ {u} : users'[v] = users[v]
    BY <1>0 DEF Types, UserTable, Newborn
  <1>5. \E v \in Users : users'[v] = "owner"
    <2>1. CASE call[c].op = "setup"
      BY <2>1, <1>0, <1>4 DEF Newborn
    <2>2. CASE call[c].op # "setup"
      <3>1. PICK v \in Users : users[v] = "owner"
        BY <2>2, <1>0 DEF Newborn
      <3>2. v # u
        BY <3>1, <1>0, AccountsAssumption DEF Newborn
      <3> QED
        BY <3>1, <3>2, <1>4
    <2> QED
      BY <2>1, <2>2
  <1>6. AllDrawn(users)'
    BY <1>0, <1>4 DEF AllDrawn, Newborn, AccountsInv, Good
  <1>7. Good(users)' /\ Good(usersFile)'
    BY <1>0, <1>2, <1>5, <1>6 DEF Good, AccountsInv, HasOwner, AllDrawn
  <1>8. GoodWrites'
    <2> SUFFICES ASSUME NEW d \in Calls, call'[d].at = "writeUsers"
                 PROVE  Good(call[d].snap)'
      BY DEF GoodWrites, At
    <2>1. call'[d] = call[d] /\ Good(call[d].snap)
      BY <1>1 DEF AccountsInv, GoodWrites, At
    <2> QED
      BY <2>1, <1>0 DEF Good, AllDrawn, HasOwner
  <1>9. ASSUME NEW d \in Calls, At(d, "hash")'
        PROVE  Newborn(d)'
    <2>1. d # c /\ call'[d] = call[d] /\ At(d, "hash")
      BY <1>9, <1>1 DEF At
    <2>2. Newborn(d) /\ call[d].user # u
      BY <2>1, <1>0 DEF AccountsInv, Newborns, At, CreateUser
    <2> QED
      BY <2>1, <2>2, <1>0, <1>4, <1>5 DEF Newborn
  <1>10. Newborns'
    BY <1>1, <1>9 DEF Newborns, At, AccountsInv
  <1> QED
    BY <1>3, <1>7, <1>8, <1>10 DEF AccountsInv

\* deleteUser takes a member's account.
LEMMA Deleting ==
    ASSUME AccountsInv, NEW c \in Calls, NEW u \in Users, DeleteUser(c, u)
    PROVE  AccountsInv'
  <1>0. /\ Types /\ users[u] = "member" /\ users' = [users EXCEPT ![u] = None]
        /\ UNCHANGED <<sessions, usersFile, sessionsFile, drawn>>
    BY DEF AccountsInv, DeleteUser, files
  <1>1. /\ call' \in [Calls -> CallRecord]
        /\ call'[c].at = "saveUsers"
        /\ \A d \in Calls \ {c} : call'[d] = call[d]
    <2>1. {u} \in SUBSET (Users \cup Sessions)
      OBVIOUS
    <2>2. Begin(c, "delete", "saveUsers", u, {u})
      BY DEF DeleteUser
    <2> QED
      BY <2>1, <2>2, <1>0, Beginning DEF Steps
  <1>2. users' \in UserTable
    BY <1>0 DEF Types, UserTable
  <1>3. Types'
    BY <1>0, <1>1, <1>2 DEF Types, At
  <1>4. /\ users'[u] = None
        /\ \A v \in Users \ {u} : users'[v] = users[v]
    BY <1>0 DEF Types, UserTable
  <1>5. \A v \in Users : users[v] = "owner" => users'[v] = "owner"
    BY <1>0, <1>4
  <1>6. Good(users)' /\ Good(usersFile)'
    BY <1>0, <1>2, <1>4, <1>5 DEF Good, AccountsInv, HasOwner, AllDrawn
  <1>7. GoodWrites'
    <2> SUFFICES ASSUME NEW d \in Calls, call'[d].at = "writeUsers"
                 PROVE  Good(call[d].snap)'
      BY DEF GoodWrites, At
    <2>1. call'[d] = call[d] /\ Good(call[d].snap)
      BY <1>1 DEF AccountsInv, GoodWrites, At
    <2> QED
      BY <2>1, <1>0 DEF Good, AllDrawn, HasOwner
  <1>8. ASSUME NEW d \in Calls, At(d, "hash")'
        PROVE  Newborn(d)'
    <2>1. d # c /\ call'[d] = call[d] /\ Newborn(d)
      BY <1>8, <1>1 DEF At, AccountsInv, Newborns
    <2> QED
      BY <2>1, <1>0, <1>4, <1>5 DEF Newborn
  <1>9. Newborns'
    BY <1>1, <1>8 DEF Newborns, At, AccountsInv
  <1> QED
    BY <1>3, <1>6, <1>7, <1>9 DEF AccountsInv

\* The rename of users.json puts a good table on disk.
LEMMA Landing ==
    ASSUME AccountsInv, NEW c \in Calls, UsersLand(c)
    PROVE  /\ Types /\ users' = users /\ sessionsFile' = sessionsFile
           /\ Good(usersFile')
  BY DEF AccountsInv, UsersLand, GoodWrites

LEMMA Step == AccountsInv /\ [AccountsNext]_accountVars => AccountsInv'
  <1> SUFFICES ASSUME AccountsInv, [AccountsNext]_accountVars
               PROVE  AccountsInv'
    OBVIOUS
  <1>0. Types
    BY DEF AccountsInv
  <1>1. ASSUME NEW c \in Calls, NEW u \in Users, SetupOwner(c, u)
        PROVE  AccountsInv'
    BY <1>1, Bearing DEF SetupOwner
  <1>2. ASSUME NEW c \in Calls, NEW u \in Users, AddUser(c, u)
        PROVE  AccountsInv'
    BY <1>2, Bearing DEF AddUser, NeedsSetup, Known
  <1>3. ASSUME NEW c \in Calls, CreateUser(c)
        PROVE  AccountsInv'
    BY <1>3, Creating
  <1>4. ASSUME NEW c \in Calls, NEW u \in Users, DeleteUser(c, u)
        PROVE  AccountsInv'
    BY <1>4, Deleting
  <1>5. ASSUME NEW c \in Calls,
               NEW op \in {"edit", "reset", "login", "end", "touch"},
               NEW step \in Steps \ {"hash", "writeUsers", "writeSessions"},
               NEW u \in Users \cup {None}, NEW gone \in SUBSET (Users \cup Sessions),
               Begin(c, op, step, u, gone), sessions' \in SessionTable,
               UNCHANGED <<users, files, drawn>>
        PROVE  AccountsInv'
    <2>1. /\ call' \in [Calls -> CallRecord]
          /\ call'[c].at = step
          /\ \A d \in Calls \ {c} : call'[d] = call[d]
      BY <1>0, <1>5, Beginning
    <2>2. Types'
      BY <1>0, <1>5, <2>1 DEF Types, At, files
    <2>3. Good(usersFile)'
      BY <1>5 DEF AccountsInv, Good, AllDrawn, HasOwner, files
    <2> QED
      BY <1>5, <2>1, <2>2, <2>3, Quiet
  <1>6. ASSUME NEW c \in Calls,
               NEW step \in Steps \ {"hash", "writeUsers", "writeSessions"},
               Goto(c, step) \/ End(c), sessions' \in SessionTable,
               sessionsFile' \in SessionTable, drawn \subseteq drawn',
               Good(usersFile'), users' = users
        PROVE  AccountsInv'
    <2>1. /\ call' \in [Calls -> CallRecord]
          /\ call'[c].at \in {step, "idle"}
          /\ \A d \in Calls \ {c} : call'[d] = call[d]
      BY <1>0, <1>6, GoingOn, Ending
    <2>2. Good(usersFile)'
      BY <1>6 DEF Good, AllDrawn, HasOwner
    <2>3. Types'
      BY <1>0, <1>6, <2>1, <2>2 DEF Types, At, Good
    <2> QED
      BY <1>6, <2>1, <2>2, <2>3, Quiet
  <1>7. Good(usersFile)
    BY DEF AccountsInv
  <1>8. ASSUME NEW c \in Calls, NEW u \in Users, EditUser(c, u) \/ AdminSetPassword(c, u)
        PROVE  AccountsInv'
    <2>1. sessions' \in SessionTable /\ UNCHANGED <<users, files, drawn>>
      BY <1>0, <1>8 DEF Types, EditUser, AdminSetPassword
    <2>2. \/ Begin(c, "edit", "saveUsers", u, {})
          \/ Begin(c, "reset", "rehash", u, {})
      BY <1>8 DEF EditUser, AdminSetPassword
    <2> QED
      BY <2>1, <2>2, <1>5 DEF Steps
  <1>9. ASSUME NEW c \in Calls, NEW u \in Users \cup {None}, Login(c, u)
        PROVE  AccountsInv'
    <2>1. /\ sessions' \in SessionTable /\ UNCHANGED <<users, files, drawn>>
          /\ Begin(c, "login", "verify", u, {})
      BY <1>0, <1>9 DEF Types, Login
    <2> QED
      BY <2>1, <1>5 DEF Steps
  <1>10. ASSUME NEW c \in Calls, NEW t \in Sessions, EndSession(c, t)
         PROVE  AccountsInv'
    <2>1. /\ sessions' \in SessionTable /\ UNCHANGED <<users, files, drawn>>
          /\ Begin(c, "end", "saveSessions", None, {t})
      BY <1>0, <1>10 DEF Types, SessionTable, EndSession
    <2> QED
      BY <2>1, <1>5 DEF Steps
  <1>11. ASSUME NEW c \in Calls, NEW t \in Sessions, Authenticate(c, t)
         PROVE  AccountsInv'
    <2>1. /\ sessions' \in SessionTable /\ UNCHANGED <<users, files, drawn>>
          /\ Begin(c, "touch", "saveSessions", None, {})
      BY <1>0, <1>11 DEF Types, Authenticate
    <2> QED
      BY <2>1, <1>5 DEF Steps
  <1>12. ASSUME NEW c \in Calls, PasswordHashed(c) \/ LoginRefused(c)
                                  \/ WriteFails(c) \/ CredentialsRevoked(c)
         PROVE  AccountsInv'
    <2>1. /\ sessions' \in SessionTable /\ sessionsFile' \in SessionTable
          /\ drawn \subseteq drawn' /\ Good(usersFile') /\ users' = users
          /\ Goto(c, "saveUsers") \/ End(c)
      BY <1>0, <1>7, <1>12
         DEF Types, files, PasswordHashed, LoginRefused, WriteFails, CredentialsRevoked
    <2> QED
      BY <2>1, <1>6 DEF Steps
  <1>13. ASSUME NEW c \in Calls, NEW t \in Sessions, LoginAccepted(c, t)
         PROVE  AccountsInv'
    <2>1. call[c].user \in Users \cup {None}
      BY <1>0 DEF Types, CallRecord
    <2>2. /\ sessions' \in SessionTable /\ sessionsFile' \in SessionTable
          /\ drawn \subseteq drawn' /\ Good(usersFile') /\ users' = users
          /\ Goto(c, "saveSessions")
      BY <1>0, <1>7, <1>13, <2>1 DEF Types, files, LoginAccepted, Draw, SessionTable
    <2> QED
      BY <2>2, <1>6 DEF Steps
  <1>14. ASSUME NEW c \in Calls, NEW t \in Sessions, OwnerSaved(c, t)
         PROVE  AccountsInv'
    <2>1. /\ call[c].user \in Users \cup {None}
          /\ users' = users /\ sessionsFile' = sessionsFile /\ Good(usersFile')
      BY <1>0, <1>14, Landing DEF Types, CallRecord, OwnerSaved
    <2>2. /\ sessions' \in SessionTable /\ sessionsFile' \in SessionTable
          /\ drawn \subseteq drawn' /\ Goto(c, "saveSessions")
      BY <1>0, <1>14, <2>1 DEF Types, OwnerSaved, Draw, SessionTable
    <2> QED
      BY <2>1, <2>2, <1>6 DEF Steps
  <1>15. ASSUME NEW c \in Calls, AccountSaved(c)
         PROVE  AccountsInv'
    <2>1. users' = users /\ sessionsFile' = sessionsFile /\ Good(usersFile')
      BY <1>15, Landing DEF AccountSaved
    <2>2. /\ sessions' \in SessionTable /\ sessionsFile' \in SessionTable
          /\ drawn \subseteq drawn' /\ End(c)
      BY <1>0, <1>15, <2>1 DEF Types, AccountSaved
    <2> QED
      BY <2>1, <2>2, <1>6 DEF Steps
  <1>16. ASSUME NEW c \in Calls, DeleteSessionsForUser(c)
         PROVE  AccountsInv'
    <2> DEFINE mine == SessionsOf(call[c].user)
               next == IF mine = {} THEN "revoke" ELSE "saveSessions"
               rec  == [call[c] EXCEPT !.gone = @ \cup mine, !.at = next]
    <2>1. users' = users /\ sessionsFile' = sessionsFile /\ Good(usersFile')
      BY <1>16, Landing DEF DeleteSessionsForUser
    <2>2. rec \in CallRecord /\ rec.at \in {"revoke", "saveSessions"}
      BY <1>0 DEF Types, CallRecord, SessionsOf
    <2>3. /\ call' = [call EXCEPT ![c] = rec]
          /\ sessions' = [t \in Sessions |-> IF t \in mine THEN None ELSE sessions[t]]
          /\ drawn' = drawn
      BY <1>16 DEF DeleteSessionsForUser
    <2>4. sessions' \in SessionTable
      BY <1>0, <2>3 DEF Types, SessionTable
    <2> HIDE DEF rec, mine, next
    <2>5. /\ call' \in [Calls -> CallRecord]
          /\ call'[c].at \in {"revoke", "saveSessions"}
          /\ \A d \in Calls \ {c} : call'[d] = call[d]
      BY <1>0, <2>2, <2>3 DEF Types
    <2>6. Good(usersFile)'
      BY <2>1, <2>3 DEF Good, AllDrawn, HasOwner
    <2>7. Types'
      BY <1>0, <2>1, <2>4, <2>5, <2>6 DEF Types, At, Good
    <2> QED
      BY <2>1, <2>3, <2>5, <2>6, <2>7, Quiet
  <1>17. ASSUME NEW c \in Calls, SerialiseUsers(c)
         PROVE  AccountsInv'
    <2>1. Serialise(c, "saveUsers", "writeUsers", users)
      BY <1>17 DEF SerialiseUsers
    <2>2. UNCHANGED <<users, sessions, usersFile, sessionsFile, drawn>>
      BY <1>17 DEF SerialiseUsers, files
    <2>3. users \in UserTable \cup SessionTable
      BY <1>0 DEF Types
    <2>4. /\ call' \in [Calls -> CallRecord]
          /\ call'[c].at = "writeUsers" /\ call'[c].snap = users
          /\ \A d \in Calls \ {c} :
                 /\ call'[d].at = call[d].at /\ call'[d].op = call[d].op
                 /\ call'[d].user = call[d].user /\ call'[d].snap = call[d].snap
      BY <1>0, <2>1, <2>3, Serialising DEF Steps
    <2>5. Types'
      BY <1>0, <2>2, <2>4 DEF Types, At
    <2>6. GoodWrites'
      BY <2>2, <2>4 DEF AccountsInv, GoodWrites, Good, AllDrawn, HasOwner, At
    <2>7. Good(users)' /\ Good(usersFile)'
      BY <2>2 DEF AccountsInv, Good, AllDrawn, HasOwner
    <2>8. Newborns'
      BY <2>2, <2>4 DEF AccountsInv, Newborns, Newborn, At
    <2> QED
      BY <2>5, <2>6, <2>7, <2>8 DEF AccountsInv
  <1>18. ASSUME NEW c \in Calls, SerialiseSessions(c)
         PROVE  AccountsInv'
    <2>1. Serialise(c, "saveSessions", "writeSessions", sessions)
      BY <1>18 DEF SerialiseSessions
    <2>2. UNCHANGED <<users, sessions, usersFile, sessionsFile, drawn>>
      BY <1>18 DEF SerialiseSessions, files
    <2>3. sessions \in UserTable \cup SessionTable
      BY <1>0 DEF Types
    <2>4. /\ call' \in [Calls -> CallRecord]
          /\ call'[c].at = "writeSessions" /\ call'[c].snap = sessions
          /\ \A d \in Calls \ {c} :
                 /\ call'[d].at = call[d].at /\ call'[d].op = call[d].op
                 /\ call'[d].user = call[d].user /\ call'[d].snap = call[d].snap
      BY <1>0, <2>1, <2>3, Serialising DEF Steps
    <2>5. Types'
      BY <1>0, <2>2, <2>4 DEF Types, At
    <2>6. Good(usersFile)'
      BY <2>2 DEF AccountsInv, Good, AllDrawn, HasOwner
    <2> QED
      BY <2>2, <2>4, <2>5, <2>6, Quiet
  <1>19. ASSUME NEW c \in Calls, SessionsLand(c)
         PROVE  AccountsInv'
    <2>1. /\ sessions' \in SessionTable /\ sessionsFile' \in SessionTable
          /\ drawn \subseteq drawn' /\ Good(usersFile') /\ users' = users
          /\ Goto(c, "revoke") \/ End(c)
      BY <1>0, <1>7, <1>19 DEF Types, SessionsLand
    <2> QED
      BY <2>1, <1>6 DEF Steps
  <1>20. ASSUME BlockEnds \/ UNCHANGED accountVars
         PROVE  AccountsInv'
    BY <1>20 DEF BlockEnds, accountVars, files, AccountsInv, Types, Good, AllDrawn,
                 HasOwner, GoodWrites, Newborns, Newborn, At
  <1>21. ASSUME Restart
         PROVE  AccountsInv'
    <2>1. NoCall \in CallRecord /\ NoCall.at = "idle"
      BY DEF NoCall, CallRecord
    <2>2. /\ call' \in [Calls -> CallRecord] /\ \A c \in Calls : call'[c].at = "idle"
          /\ users' = usersFile /\ usersFile' = usersFile /\ drawn' = drawn
      BY <1>21, <2>1 DEF Restart
    <2>3. sessions' \in SessionTable /\ sessionsFile' \in SessionTable
      BY <1>0, <1>21 DEF Restart, Types, SessionTable
    <2>4. Types'
      BY <1>0, <2>2, <2>3 DEF Types, At
    <2>5. Good(users)' /\ Good(usersFile)'
      BY <1>7, <2>2 DEF Good, AllDrawn, HasOwner
    <2> QED
      BY <2>2, <2>4, <2>5 DEF AccountsInv, GoodWrites, Newborns, At
  <1> QED
    BY <1>1, <1>2, <1>3, <1>4, <1>8, <1>9, <1>10, <1>11, <1>12, <1>13, <1>14, <1>15,
       <1>16, <1>17, <1>18, <1>19, <1>20, <1>21
       DEF AccountsNext, AccountStep, Logout, RevokeSession, Expire

\* Neither the accounts in memory nor users.json ever hold an account without
\* an owner's, whatever set-ups, deletions, overlapping writes, failed writes
\* and restarts there are (auth.ts, createUser, deleteUser, persistUsers, init).
THEOREM NeverLocked == AccountsSpec => []NeverLockedOut
  <1>1. AccountsInv => NeverLockedOut
    BY DEF AccountsInv, Good, NeverLockedOut
  <1> QED
    BY Initially, Step, <1>1, PTL DEF AccountsSpec

-----------------------------------------------------------------------------
(* What was revoked stays revoked                                          *)

\* What a call has revoked, acknowledged or not.
Voided(id) == id \in revoked \/ \E c \in Calls : id \in call[c].gone

\* The call c has written what it says of id.
Filed(c, id) == /\ id \in call[c].gone
                /\ \/ At(c, "revoke")
                   \/ id \in Users /\ call[c].at \in {"saveSessions", "writeSessions"}
Written(id) == id \in revoked \/ \E c \in Calls : Filed(c, id)

\* Which calls revoke what, and when.
Bystanders ==
    \A c \in Calls :
        /\ call[c].gone # {} => call[c].op \in {"delete", "reset", "end"}
        /\ call[c].at \in {"hash", "rehash", "verify"} => call[c].gone = {}
        /\ call[c].at \in {"saveUsers", "writeUsers"} => call[c].gone \subseteq Users
        /\ call[c].op \in {"delete", "reset"} => call[c].user \in Users

\* A revoked id is in no table, and no call is about to bring it back: it was
\* drawn before, and is not drawn again.
Barred ==
    /\ \A id \in Users \cup Sessions : Voided(id) => id \in drawn
    /\ \A u \in Users : Voided(u) =>
          users[u] = None /\ \A c \in Calls : At(c, "hash") => call[c].user # u
    /\ \A t \in Sessions : Voided(t) => sessions[t] = None
    /\ \A t \in Sessions : sessions[t] # None \/ sessionsFile[t] # None => t \in drawn
    /\ \A c \in Calls : At(c, "writeSessions") =>
          \A t \in Sessions : call[c].snap[t] # None => t \in drawn

\* Nor is it in the file, unless the last two writes of it overlapped.
OnFile ==
    /\ "users" \notin disordered => \A u \in Users : Written(u) => usersFile[u] = None
    /\ "sessions" \notin disordered => \A t \in Sessions : Written(t) => sessionsFile[t] = None

\* Nor on its way there, but in a write that overlaps another one.
OnItsWay ==
    \A c \in Calls :
        /\ At(c, "writeUsers") => \A u \in Users :
              u \in call[c].gone \/ (~call[c].overlap /\ Written(u)) => call[c].snap[u] = None
        /\ At(c, "writeSessions") => \A t \in Sessions :
              t \in call[c].gone \/ (~call[c].overlap /\ Written(t)) => call[c].snap[t] = None

\* Two writes of a file in progress are both marked.
Marked ==
    \A c, d \in Calls :
        c # d /\ call[c].at \in {"writeUsers", "writeSessions"} /\ call[d].at = call[c].at
            => call[c].overlap

RevokedInv ==
    /\ AccountsInv /\ revoked \subseteq Users \cup Sessions
    /\ Bystanders /\ Barred /\ OnFile /\ OnItsWay /\ Marked

LEMMA RevokedInitially == AccountsInit => RevokedInv
  <1> SUFFICES ASSUME AccountsInit
               PROVE  RevokedInv
    OBVIOUS
  <1>1. NoCall.at = "idle" /\ NoCall.gone = {} /\ NoCall.op = "none"
    BY DEF NoCall
  <1>2. /\ \A c \in Calls : call[c].at = "idle" /\ call[c].gone = {} /\ call[c].op = "none"
        /\ revoked = {}
    BY <1>1 DEF AccountsInit
  <1>3. \A id : ~Voided(id) /\ ~Written(id)
    BY <1>2 DEF Voided, Written, Filed
  <1>4. \A t \in Sessions : sessions[t] = None /\ sessionsFile[t] = None
    BY DEF AccountsInit
  <1> QED
    BY <1>2, <1>3, <1>4, Initially
       DEF RevokedInv, Bystanders, Barred, OnFile, OnItsWay, Marked, At

\* A step of one call that begins no write and has nothing new on file leaves
\* the files and the writes as they are.
LEMMA FilesKept ==
    ASSUME RevokedInv, NEW c \in Calls,
           \A d \in Calls \ {c} : call'[d] = call[d],
           call'[c].at \notin {"writeUsers", "writeSessions"},
           UNCHANGED files, \A id \in Users \cup Sessions : Written(id)' => Written(id)
    PROVE  OnFile' /\ OnItsWay' /\ Marked'
  <1>1. OnFile'
    BY DEF RevokedInv, OnFile, files
  <1>2. OnItsWay'
    BY DEF RevokedInv, OnItsWay, At
  <1>3. Marked'
    BY DEF RevokedInv, Marked
  <1> QED
    BY <1>1, <1>2, <1>3

\* A step that revokes nothing new and enters nobody.
LEMMA Harmless ==
    ASSUME RevokedInv, AccountsInv', NEW c \in Calls,
           \A d \in Calls \ {c} : call'[d] = call[d],
           call'[c].at \notin {"hash", "writeUsers", "writeSessions"},
           call'[c].gone # {} => call'[c].gone = call[c].gone /\ call'[c].op = call[c].op,
           call'[c].at \in {"rehash", "verify"} => call'[c].gone = {},
           call'[c].at = "saveUsers" => call'[c].gone \subseteq Users,
           call'[c].at \in {"saveSessions", "revoke"} => call'[c].gone = {},
           call'[c].op \in {"delete", "reset"} => call'[c].user \in Users,
           revoked' = revoked \/ (At(c, "revoke") /\ revoked' = revoked \cup call[c].gone),
           UNCHANGED <<users, sessions, files, drawn>>
    PROVE  RevokedInv'
  <1>1. \A id : Voided(id)' => Voided(id)
    BY DEF Voided
  <1>2. \A id : Written(id)' => Written(id)
    BY DEF Written, Filed, At
  <1>3. OnFile' /\ OnItsWay' /\ Marked'
    BY <1>2, FilesKept
  <1>4. Bystanders'
    BY DEF RevokedInv, Bystanders
  <1>5. Barred'
    BY <1>1 DEF RevokedInv, Barred, At, files
  <1>6. revoked' \subseteq Users \cup Sessions
    BY DEF RevokedInv, AccountsInv, Types, CallRecord
  <1> QED
    BY <1>3, <1>4, <1>5, <1>6 DEF RevokedInv

\* users.json lands: what its call revokes is on file now.
LEMMA UsersFiled ==
    ASSUME RevokedInv, NEW c \in Calls, UsersLand(c),
           \A d \in Calls \ {c} : call'[d] = call[d],
           call'[c].at \notin {"writeUsers", "writeSessions"},
           call'[c].gone \subseteq call[c].gone \cup Sessions,
           call'[c].at = "revoke" => call'[c].gone = call[c].gone,
           revoked' = revoked
    PROVE  OnFile' /\ OnItsWay' /\ Marked'
  <1>1. /\ At(c, "writeUsers") /\ usersFile' = call[c].snap /\ sessionsFile' = sessionsFile
        /\ disordered' = IF call[c].overlap THEN disordered \cup {"users"}
                                            ELSE disordered \ {"users"}
        /\ call[c].gone \subseteq Users
    BY DEF UsersLand, Disordered, RevokedInv, Bystanders, At
  <1>2. \A u \in Users : Written(u)' => Written(u) \/ u \in call[c].gone
    BY AccountsAssumption DEF Written, Filed, At
  <1>3. \A t \in Sessions : Written(t)' => Written(t)
    BY <1>1, AccountsAssumption DEF Written, Filed, At
  <1>4. OnFile'
    BY <1>1, <1>2, <1>3 DEF RevokedInv, OnFile, OnItsWay
  <1>5. \A d \in Calls \ {c} : At(d, "writeUsers") => call[d].overlap
    BY <1>1 DEF RevokedInv, Marked, At
  <1>6. OnItsWay'
    BY <1>2, <1>3, <1>5 DEF RevokedInv, OnItsWay, At
  <1>7. Marked'
    BY DEF RevokedInv, Marked
  <1> QED
    BY <1>4, <1>6, <1>7

\* sessions.json lands, and so is what its call revokes.
LEMMA SessionsFiled ==
    ASSUME RevokedInv, NEW c \in Calls, SessionsLand(c),
           \A d \in Calls \ {c} : call'[d] = call[d],
           call'[c].at \in {"revoke", "idle"}, call'[c].gone \subseteq call[c].gone
    PROVE  OnFile' /\ OnItsWay' /\ Marked'
  <1>1. /\ At(c, "writeSessions") /\ sessionsFile' = call[c].snap /\ usersFile' = usersFile
        /\ disordered' = IF call[c].overlap THEN disordered \cup {"sessions"}
                                            ELSE disordered \ {"sessions"}
        /\ revoked' \subseteq revoked \cup call[c].gone
    BY DEF SessionsLand, Disordered
  <1>2. \A u \in Users : Written(u)' => Written(u)
    BY <1>1 DEF Written, Filed, At
  <1>3. \A t \in Sessions : Written(t)' => Written(t) \/ t \in call[c].gone
    BY <1>1 DEF Written, Filed, At
  <1>4. OnFile'
    BY <1>1, <1>2, <1>3 DEF RevokedInv, OnFile, OnItsWay
  <1>5. \A d \in Calls \ {c} : At(d, "writeSessions") => call[d].overlap
    BY <1>1 DEF RevokedInv, Marked, At
  <1>6. OnItsWay'
    BY <1>2, <1>3, <1>5 DEF RevokedInv, OnItsWay, At
  <1>7. Marked'
    BY DEF RevokedInv, Marked
  <1> QED
    BY <1>4, <1>6, <1>7

\* A call whose write begins, and one whose write gets company.
Begun(r, writing, table, company) ==
    [r EXCEPT !.at = writing, !.snap = table, !.overlap = company]
Joined(r) == [r EXCEPT !.overlap = TRUE]

LEMMA BeginsToWrite ==
    ASSUME NEW r \in CallRecord, NEW writing \in Steps, NEW table, NEW company \in BOOLEAN
    PROVE  /\ Begun(r, writing, table, company).at = writing
           /\ Begun(r, writing, table, company).snap = table
           /\ Begun(r, writing, table, company).gone = r.gone
           /\ Begun(r, writing, table, company).op = r.op
           /\ Begun(r, writing, table, company).user = r.user
           /\ Begun(r, writing, table, company).overlap = company
  <1>1. /\ Begun(r, writing, table, company).at = writing
        /\ Begun(r, writing, table, company).snap = table
        /\ Begun(r, writing, table, company).gone = r.gone
        /\ Begun(r, writing, table, company).op = r.op
        /\ Begun(r, writing, table, company).user = r.user
    BY DEF CallRecord, Begun
  <1>2. Begun(r, writing, table, company).overlap = company
    BY DEF CallRecord, Begun
  <1> QED
    BY <1>1, <1>2

LEMMA GetsCompany ==
    ASSUME NEW r \in CallRecord
    PROVE  /\ Joined(r).at = r.at /\ Joined(r).op = r.op /\ Joined(r).user = r.user
           /\ Joined(r).gone = r.gone /\ Joined(r).snap = r.snap
           /\ Joined(r).overlap
  <1>1. /\ Joined(r).at = r.at /\ Joined(r).op = r.op /\ Joined(r).user = r.user
        /\ Joined(r).gone = r.gone /\ Joined(r).snap = r.snap
    BY DEF CallRecord, Joined
  <1>2. Joined(r).overlap
    BY DEF CallRecord, Joined
  <1> QED
    BY <1>1, <1>2

\* What is serialised has nothing in it that was revoked.
LEMMA Serialised ==
    ASSUME RevokedInv, AccountsInv', NEW c \in Calls,
           NEW saving, NEW writing, NEW table,
           \/ saving = "saveUsers" /\ writing = "writeUsers" /\ table = users
           \/ saving = "saveSessions" /\ writing = "writeSessions" /\ table = sessions,
           Serialise(c, saving, writing, table),
           UNCHANGED <<users, sessions, files, drawn, revoked>>
    PROVE  RevokedInv'
  <1> DEFINE company == Writing(writing) # {}
             begun == Begun(call[c], writing, table, company)
  <1>1. /\ At(c, saving)
        /\ call' = [d \in Calls |-> IF d = c THEN begun
                                    ELSE IF At(d, writing) THEN Joined(call[d]) ELSE call[d]]
    BY Zenon DEF Serialise, Begun, Joined
  <1>2. company <=> \E d \in Calls : At(d, writing)
    BY DEF Writing
  <1>3. company \in BOOLEAN
    OBVIOUS
  <1> HIDE DEF company
  <1>4. \A d \in Calls : call[d] \in CallRecord
    BY DEF RevokedInv, AccountsInv, Types
  <1>5. /\ begun.at = writing /\ begun.snap = table /\ begun.gone = call[c].gone
        /\ begun.op = call[c].op /\ begun.user = call[c].user /\ begun.overlap = company
    <2>1. call[c] \in CallRecord /\ writing \in Steps
      BY <1>4 DEF Steps
    <2> QED
      BY <1>3, <2>1, BeginsToWrite
  <1>6. \A d \in Calls :
          /\ Joined(call[d]).at = call[d].at /\ Joined(call[d]).op = call[d].op
          /\ Joined(call[d]).user = call[d].user /\ Joined(call[d]).gone = call[d].gone
          /\ Joined(call[d]).snap = call[d].snap /\ Joined(call[d]).overlap
    BY <1>4, GetsCompany, Zenon
  <1> HIDE DEF begun
  <1>7. /\ call'[c] = begun
        /\ \A d \in Calls \ {c} :
             /\ call'[d].at = call[d].at /\ call'[d].op = call[d].op
             /\ call'[d].user = call[d].user /\ call'[d].gone = call[d].gone
             /\ call'[d].snap = call[d].snap
             /\ ~At(d, writing) => call'[d].overlap = call[d].overlap
             /\ At(d, writing) => call'[d].overlap
    BY <1>1, <1>6
  <1>8. \A d \in Calls : /\ call'[d].gone = call[d].gone /\ call'[d].op = call[d].op
                         /\ call'[d].user = call[d].user
    BY <1>5, <1>7
  <1>9. \A id : Voided(id)' => Voided(id)
    BY <1>8 DEF Voided
  <1>10. \A id : Written(id)' => Written(id)
    BY <1>1, <1>5, <1>7, <1>8 DEF Written, Filed, At
  <1>11. Bystanders'
    BY <1>1, <1>5, <1>7, <1>8 DEF RevokedInv, Bystanders, At
  <1>12. Barred'
    BY <1>5, <1>7, <1>9 DEF RevokedInv, Barred, At, files
  <1>13. OnFile'
    BY <1>10 DEF RevokedInv, OnFile, files
  <1>14. OnItsWay'
    <2>1. ASSUME NEW d \in Calls, At(d, "writeUsers")', NEW u \in Users,
                 u \in call'[d].gone \/ (~call'[d].overlap /\ Written(u)')
          PROVE  call'[d].snap[u] = None
      <3>1. CASE d = c
        <4>1. Voided(u) /\ call'[d].snap = users
          BY <1>5, <1>7, <1>8, <1>10, <2>1, <3>1 DEF Voided, Written, Filed, At
        <4> QED
          BY <4>1 DEF RevokedInv, Barred
      <3>2. CASE d # c
        <4>1. /\ At(d, "writeUsers") /\ call'[d].snap = call[d].snap
              /\ u \in call[d].gone \/ (~call[d].overlap /\ Written(u))
          BY <1>7, <1>8, <1>10, <2>1, <3>2 DEF At
        <4> QED
          BY <4>1 DEF RevokedInv, OnItsWay
      <3> QED
        BY <3>1, <3>2
    <2>2. ASSUME NEW d \in Calls, At(d, "writeSessions")', NEW t \in Sessions,
                 t \in call'[d].gone \/ (~call'[d].overlap /\ Written(t)')
          PROVE  call'[d].snap[t] = None
      <3>1. CASE d = c
        <4>1. Voided(t) /\ call'[d].snap = sessions
          BY <1>5, <1>7, <1>8, <1>10, <2>2, <3>1 DEF Voided, Written, Filed, At
        <4> QED
          BY <4>1 DEF RevokedInv, Barred
      <3>2. CASE d # c
        <4>1. /\ At(d, "writeSessions") /\ call'[d].snap = call[d].snap
              /\ t \in call[d].gone \/ (~call[d].overlap /\ Written(t))
          BY <1>7, <1>8, <1>10, <2>2, <3>2 DEF At
        <4> QED
          BY <4>1 DEF RevokedInv, OnItsWay
      <3> QED
        BY <3>1, <3>2
    <2> QED
      BY <2>1, <2>2 DEF OnItsWay
  <1>15. Marked'
    BY <1>1, <1>2, <1>5, <1>7 DEF RevokedInv, Marked, At
  <1> QED
    BY <1>11, <1>12, <1>13, <1>14, <1>15 DEF RevokedInv

LEMMA RevokedStep == RevokedInv /\ [AccountsNext]_accountVars => RevokedInv'
  <1> SUFFICES ASSUME RevokedInv, [AccountsNext]_accountVars
               PROVE  RevokedInv'
    OBVIOUS
  <1>0. /\ AccountsInv /\ AccountsInv' /\ Types
        /\ \A c \in Calls : call[c] \in CallRecord
    BY Step DEF RevokedInv, AccountsInv, Types
  \* Accounts that are made.
  <1>1. ASSUME NEW c \in Calls, NEW u \in Users, SetupOwner(c, u) \/ AddUser(c, u)
        PROVE  RevokedInv'
    <2>1. /\ u \notin drawn /\ drawn' = drawn \cup {u}
          /\ UNCHANGED <<users, sessions, files, revoked>>
      BY <1>1 DEF SetupOwner, AddUser, Draw
    <2>2. /\ call'[c].at = "hash" /\ call'[c].user = u /\ call'[c].gone = {}
          /\ call'[c].op \in {"setup", "add"}
          /\ \A d \in Calls \ {c} : call'[d] = call[d]
      BY <1>0, <1>1, Beginning DEF SetupOwner, AddUser, Steps
    <2>3. \A id : (Voided(id)' => Voided(id)) /\ (Written(id)' => Written(id))
      BY <2>1, <2>2 DEF Voided, Written, Filed, At
    <2>4. Barred'
      BY <2>1, <2>2, <2>3 DEF RevokedInv, Barred, At, files
    <2>5. Bystanders' /\ revoked' \subseteq Users \cup Sessions
      BY <2>1, <2>2 DEF RevokedInv, Bystanders
    <2> QED
      BY <1>0, <2>1, <2>2, <2>3, <2>4, <2>5, FilesKept DEF RevokedInv
  <1>2. ASSUME NEW c \in Calls, CreateUser(c)
        PROVE  RevokedInv'
    <2>1. /\ At(c, "hash") /\ call[c].user \in Users /\ call[c].gone = {}
          /\ \A v \in Users : v # call[c].user => users'[v] = users[v]
          /\ UNCHANGED <<sessions, files, drawn, revoked>>
      BY <1>0, <1>2
         DEF CreateUser, RevokedInv, Bystanders, At, AccountsInv, Newborns, Newborn, Types, UserTable
    <2>2. /\ call'[c].at = "saveUsers" /\ call'[c].gone = {}
          /\ call'[c].op = call[c].op /\ call'[c].user = call[c].user
          /\ \A d \in Calls \ {c} : call'[d] = call[d]
      BY <1>0, <1>2, <2>1, GoingOn DEF CreateUser, Steps
    <2>3. \A id : (Voided(id)' => Voided(id)) /\ (Written(id)' => Written(id))
      BY <2>1, <2>2 DEF Voided, Written, Filed, At
    <2>4. Barred'
      BY <2>1, <2>2, <2>3 DEF RevokedInv, Barred, At, files
    <2>5. Bystanders' /\ revoked' \subseteq Users \cup Sessions
      BY <2>1, <2>2 DEF RevokedInv, Bystanders
    <2> QED
      BY <1>0, <2>1, <2>2, <2>3, <2>4, <2>5, FilesKept DEF RevokedInv
  \* Accounts and sessions that go.
  <1>3. ASSUME NEW c \in Calls, NEW u \in Users, DeleteUser(c, u)
        PROVE  RevokedInv'
    <2>1. /\ users[u] # None /\ users'[u] = None
          /\ \A v \in Users : v # u => users'[v] = users[v]
          /\ UNCHANGED <<sessions, files, drawn, revoked>>
      BY <1>0, <1>3, AccountsAssumption DEF DeleteUser, Types, UserTable
    <2>2. /\ call'[c].at = "saveUsers" /\ call'[c].gone = {u} /\ call'[c].op = "delete"
          /\ call'[c].user = u
          /\ \A d \in Calls \ {c} : call'[d] = call[d]
      <3>1. Begin(c, "delete", "saveUsers", u, {u}) /\ {u} \in SUBSET (Users \cup Sessions)
        BY <1>3 DEF DeleteUser
      <3> QED
        BY <1>0, <3>1, Beginning DEF Steps
    <2>3. \A id : (Voided(id)' => Voided(id) \/ id = u) /\ (Written(id)' => Written(id))
      BY <2>1, <2>2 DEF Voided, Written, Filed, At
    <2>4. u \in drawn /\ \A d \in Calls : At(d, "hash") => call[d].user # u
      BY <1>0, <2>1 DEF AccountsInv, Good, AllDrawn, Newborns, Newborn
    <2>5. Barred'
      BY <2>1, <2>2, <2>3, <2>4, AccountsAssumption DEF RevokedInv, Barred, At, files
    <2>6. Bystanders' /\ revoked' \subseteq Users \cup Sessions
      BY <2>1, <2>2 DEF RevokedInv, Bystanders
    <2> QED
      BY <1>0, <2>1, <2>2, <2>3, <2>5, <2>6, FilesKept DEF RevokedInv
  <1>4. ASSUME NEW c \in Calls, NEW t \in Sessions, EndSession(c, t)
        PROVE  RevokedInv'
    <2>1. /\ sessions[t] # None /\ sessions'[t] = None
          /\ \A x \in Sessions : x # t => sessions'[x] = sessions[x]
          /\ UNCHANGED <<users, files, drawn, revoked>>
      BY <1>0, <1>4 DEF EndSession, Live, Types, SessionTable
    <2>2. /\ call'[c].at = "saveSessions" /\ call'[c].gone = {t} /\ call'[c].op = "end"
          /\ \A d \in Calls \ {c} : call'[d] = call[d]
      <3>1. Begin(c, "end", "saveSessions", None, {t}) /\ {t} \in SUBSET (Users \cup Sessions)
        BY <1>4 DEF EndSession
      <3> QED
        BY <1>0, <3>1, Beginning DEF Steps
    <2>3. \A id : Voided(id)' => Voided(id) \/ id = t
      BY <2>1, <2>2 DEF Voided
    <2>4. \A id : Written(id)' => Written(id)
      BY <2>1, <2>2, AccountsAssumption DEF Written, Filed, At
    <2>5. t \in drawn /\ t \notin Users
      BY <2>1, AccountsAssumption DEF RevokedInv, Barred
    <2>6. Barred'
      BY <2>1, <2>2, <2>3, <2>5 DEF RevokedInv, Barred, At, files
    <2>7. Bystanders' /\ revoked' \subseteq Users \cup Sessions
      BY <2>1, <2>2 DEF RevokedInv, Bystanders
    <2> QED
      BY <1>0, <2>1, <2>2, <2>4, <2>6, <2>7, FilesKept DEF RevokedInv
  \* Calls that revoke nothing.
  <1>5. ASSUME NEW c \in Calls, NEW u \in Users \cup {None},
               (u \in Users /\ (EditUser(c, u) \/ AdminSetPassword(c, u))) \/ Login(c, u)
        PROVE  RevokedInv'
    <2>1. /\ call'[c].at \in {"saveUsers", "rehash", "verify"} /\ call'[c].gone = {}
          /\ call'[c].op \in {"delete", "reset"} => call'[c].user \in Users
          /\ \A d \in Calls \ {c} : call'[d] = call[d]
      BY <1>0, <1>5, Beginning DEF EditUser, AdminSetPassword, Login, Steps
    <2>2. UNCHANGED <<users, sessions, files, drawn, revoked>>
      BY <1>5 DEF EditUser, AdminSetPassword, Login
    <2> QED
      BY <1>0, <2>1, <2>2, Harmless
  <1>6. ASSUME NEW c \in Calls, NEW t \in Sessions, Authenticate(c, t)
        PROVE  RevokedInv'
    <2>1. /\ call'[c].at = "saveSessions" /\ call'[c].gone = {} /\ call'[c].op = "touch"
          /\ \A d \in Calls \ {c} : call'[d] = call[d]
      BY <1>0, <1>6, Beginning DEF Authenticate, Steps
    <2>2. UNCHANGED <<users, sessions, files, drawn, revoked>>
      BY <1>6 DEF Authenticate
    <2> QED
      BY <1>0, <2>1, <2>2, Harmless
  <1>7. ASSUME NEW c \in Calls, LoginRefused(c) \/ WriteFails(c) \/ CredentialsRevoked(c)
        PROVE  RevokedInv'
    <2>1. /\ call'[c].at = "idle" /\ call'[c].gone = {} /\ call'[c].op = "none"
          /\ \A d \in Calls \ {c} : call'[d] = call[d]
      BY <1>0, <1>7, Ending DEF LoginRefused, WriteFails, CredentialsRevoked
    <2>2. /\ UNCHANGED <<users, sessions, files, drawn>>
          /\ revoked' = revoked \/ (At(c, "revoke") /\ revoked' = revoked \cup call[c].gone)
      BY <1>7 DEF LoginRefused, WriteFails, CredentialsRevoked
    <2> QED
      BY <1>0, <2>1, <2>2, Harmless
  <1>8. ASSUME NEW c \in Calls, PasswordHashed(c)
        PROVE  RevokedInv'
    <2>1. /\ call'[c].at = "saveUsers" /\ call'[c].gone = {}
          /\ call'[c].op = call[c].op /\ call'[c].user = call[c].user
          /\ \A d \in Calls \ {c} : call'[d] = call[d]
      BY <1>0, <1>8, GoingOn DEF PasswordHashed, Steps, RevokedInv, Bystanders, At
    <2>2. UNCHANGED <<users, sessions, files, drawn, revoked>>
      BY <1>8 DEF PasswordHashed
    <2>3. call[c].op \in {"delete", "reset"} => call[c].user \in Users
      BY DEF RevokedInv, Bystanders
    <2> QED
      BY <1>0, <2>1, <2>2, <2>3, Harmless
  \* Sessions that are made.
  <1>9. ASSUME NEW c \in Calls, NEW t \in Sessions, LoginAccepted(c, t)
        PROVE  RevokedInv'
    <2>1. /\ At(c, "verify") /\ call[c].gone = {}
          /\ t \notin drawn /\ drawn' = drawn \cup {t}
          /\ \A x \in Sessions : x # t => sessions'[x] = sessions[x]
          /\ UNCHANGED <<users, files, revoked>>
      BY <1>0, <1>9
         DEF LoginAccepted, Draw, RevokedInv, Bystanders, At, Types, SessionTable
    <2>2. /\ call'[c].at = "saveSessions" /\ call'[c].gone = {}
          /\ call'[c].op = call[c].op /\ call'[c].user = call[c].user
          /\ \A d \in Calls \ {c} : call'[d] = call[d]
      BY <1>0, <1>9, <2>1, GoingOn DEF LoginAccepted, Steps
    <2>3. \A id : (Voided(id)' => Voided(id)) /\ (Written(id)' => Written(id))
      BY <2>1, <2>2 DEF Voided, Written, Filed, At
    <2>4. Barred'
      BY <2>1, <2>2, <2>3 DEF RevokedInv, Barred, At, files
    <2>5. Bystanders' /\ revoked' \subseteq Users \cup Sessions
      BY <2>1, <2>2 DEF RevokedInv, Bystanders
    <2> QED
      BY <1>0, <2>1, <2>2, <2>3, <2>4, <2>5, FilesKept DEF RevokedInv
  <1>10. ASSUME NEW c \in Calls, NEW t \in Sessions, OwnerSaved(c, t)
         PROVE  RevokedInv'
    <2>1. /\ UsersLand(c) /\ call[c].gone = {}
          /\ t \notin drawn /\ drawn' = drawn \cup {t}
          /\ \A x \in Sessions : x # t => sessions'[x] = sessions[x]
          /\ UNCHANGED <<users, sessionsFile, revoked>>
      BY <1>0, <1>10
         DEF OwnerSaved, UsersLand, Draw, RevokedInv, Bystanders, Types, SessionTable
    <2>2. /\ call'[c].at = "saveSessions" /\ call'[c].gone = {}
          /\ call'[c].op = call[c].op /\ call'[c].user = call[c].user
          /\ \A d \in Calls \ {c} : call'[d] = call[d]
      BY <1>0, <1>10, <2>1, GoingOn DEF OwnerSaved, Steps
    <2>3. \A id : Voided(id)' => Voided(id)
      BY <2>1, <2>2 DEF Voided
    <2>4. Barred'
      BY <2>1, <2>2, <2>3 DEF RevokedInv, Barred, At
    <2>5. Bystanders' /\ revoked' \subseteq Users \cup Sessions
      BY <2>1, <2>2 DEF RevokedInv, Bystanders
    <2> QED
      BY <1>0, <2>1, <2>2, <2>4, <2>5, UsersFiled DEF RevokedInv
  \* Writes that land, and go on.
  <1>11. ASSUME NEW c \in Calls, AccountSaved(c)
         PROVE  RevokedInv'
    <2>1. UsersLand(c) /\ UNCHANGED <<users, sessions, sessionsFile, drawn, revoked>>
      BY <1>11 DEF AccountSaved, UsersLand
    <2>2. /\ call'[c].at = "idle" /\ call'[c].gone = {} /\ call'[c].op = "none"
          /\ \A d \in Calls \ {c} : call'[d] = call[d]
      BY <1>0, <1>11, Ending DEF AccountSaved
    <2>3. \A id : Voided(id)' => Voided(id)
      BY <2>1, <2>2 DEF Voided
    <2>4. Barred'
      BY <2>1, <2>2, <2>3 DEF RevokedInv, Barred, At
    <2>5. Bystanders' /\ revoked' \subseteq Users \cup Sessions
      BY <2>1, <2>2 DEF RevokedInv, Bystanders
    <2> QED
      BY <1>0, <2>1, <2>2, <2>4, <2>5, UsersFiled DEF RevokedInv
  <1>12. ASSUME NEW c \in Calls, DeleteSessionsForUser(c)
         PROVE  RevokedInv'
    <2> DEFINE mine == SessionsOf(call[c].user)
               next == IF mine = {} THEN "revoke" ELSE "saveSessions"
               rec  == [call[c] EXCEPT !.gone = @ \cup mine, !.at = next]
    <2>1. /\ rec.at = next /\ rec.op = call[c].op /\ rec.gone = call[c].gone \cup mine
      BY <1>0 DEF CallRecord
    <2>2. /\ UsersLand(c) /\ call[c].op \in {"delete", "reset"}
          /\ call' = [call EXCEPT ![c] = rec]
          /\ sessions' = [t \in Sessions |-> IF t \in mine THEN None ELSE sessions[t]]
          /\ UNCHANGED <<users, sessionsFile, drawn, revoked>>
      BY <1>12 DEF DeleteSessionsForUser, UsersLand
    <2>3. next \in {"revoke", "saveSessions"} /\ (next = "revoke" => mine = {})
      OBVIOUS
    <2>4. /\ mine \subseteq Sessions
          /\ \A t \in mine : t \in drawn
      <3>1. call[c].user # None
        BY <2>2, AccountsAssumption DEF RevokedInv, Bystanders
      <3> QED
        BY <3>1 DEF SessionsOf, RevokedInv, Barred
    <2>5. rec.user = call[c].user
      BY <1>0 DEF CallRecord
    <2> HIDE DEF rec, next, mine
    <2>6. /\ call'[c] = rec
          /\ \A d \in Calls \ {c} : call'[d] = call[d]
      BY <1>0, <2>2 DEF Types
    <2>7. \A id : Voided(id)' => Voided(id) \/ id \in mine
      BY <2>1, <2>2, <2>6 DEF Voided
    <2>8. Barred'
      <3>1. \A d \in Calls : At(d, "hash")' => At(d, "hash") /\ call'[d].user = call[d].user
        BY <2>1, <2>3, <2>6 DEF At
      <3>2. \A t \in Sessions : sessions'[t] = IF t \in mine THEN None ELSE sessions[t]
        BY <2>2
      <3>3. \A id \in Users : id \notin mine
        BY <2>4, AccountsAssumption
      <3>4. \A d \in Calls : At(d, "writeSessions")' => At(d, "writeSessions") /\ call'[d].snap = call[d].snap
        BY <2>1, <2>3, <2>6 DEF At
      <3> QED
        BY <2>2, <2>4, <2>7, <3>1, <3>2, <3>3, <3>4 DEF RevokedInv, Barred
    <2>9. Bystanders' /\ revoked' \subseteq Users \cup Sessions
      BY <2>1, <2>2, <2>3, <2>5, <2>6 DEF RevokedInv, Bystanders
    <2>10. /\ call'[c].at \notin {"writeUsers", "writeSessions"}
           /\ call'[c].gone \subseteq call[c].gone \cup Sessions
           /\ call'[c].at = "revoke" => call'[c].gone = call[c].gone
      BY <2>1, <2>3, <2>4, <2>6
    <2> QED
      BY <1>0, <2>2, <2>6, <2>8, <2>9, <2>10, UsersFiled DEF RevokedInv
  <1>13. ASSUME NEW c \in Calls, SessionsLand(c)
         PROVE  RevokedInv'
    <2>1. /\ UNCHANGED <<users, sessions, drawn>> /\ At(c, "writeSessions")
          /\ sessionsFile' = call[c].snap
          /\ revoked' \subseteq revoked \cup call[c].gone
      BY <1>13 DEF SessionsLand
    <2>2. /\ call'[c].at \in {"revoke", "idle"}
          /\ \/ call'[c].gone = {} /\ call'[c].op = "none"
             \/ /\ call'[c].gone = call[c].gone
                /\ call'[c].op = call[c].op /\ call'[c].user = call[c].user
          /\ \A d \in Calls \ {c} : call'[d] = call[d]
      BY <1>0, <1>13, GoingOn, Ending DEF SessionsLand, Steps
    <2>3. \A id : Voided(id)' => Voided(id)
      BY <2>1, <2>2 DEF Voided
    <2>4. Barred'
      BY <2>1, <2>2, <2>3 DEF RevokedInv, Barred, At
    <2>5. Bystanders' /\ revoked' \subseteq Users \cup Sessions
      BY <1>0, <2>1, <2>2 DEF RevokedInv, Bystanders, CallRecord
    <2> QED
      BY <1>0, <1>13, <2>2, <2>4, <2>5, SessionsFiled DEF RevokedInv
  <1>14. ASSUME NEW c \in Calls, SerialiseUsers(c) \/ SerialiseSessions(c)
         PROVE  RevokedInv'
    BY <1>0, <1>14, Serialised DEF SerialiseUsers, SerialiseSessions
  \* Nothing happens to accounts, or everything ends.
  <1>15. ASSUME BlockEnds \/ UNCHANGED accountVars
         PROVE  RevokedInv'
    <2>1. UNCHANGED <<users, sessions, files, call, drawn, revoked>>
      BY <1>15 DEF BlockEnds, accountVars, files
    <2>2. \A id : (Voided(id)' <=> Voided(id)) /\ (Written(id)' <=> Written(id))
      BY <2>1 DEF Voided, Written, Filed, At
    <2> QED
      BY <1>0, <2>1, <2>2
         DEF files, RevokedInv, Bystanders, Barred, OnFile, OnItsWay, Marked, At
  <1>16. ASSUME Restart
         PROVE  RevokedInv'
    <2>1. NoCall.at = "idle" /\ NoCall.gone = {} /\ NoCall.op = "none"
      BY DEF NoCall
    <2>2. /\ \A c \in Calls : call'[c].at = "idle" /\ call'[c].gone = {} /\ call'[c].op = "none"
          /\ users' = usersFile /\ usersFile' = usersFile /\ drawn' = drawn /\ disordered' = {}
          /\ sessionsFile' = sessions'
          /\ revoked' \subseteq revoked
          /\ "users" \in disordered => \A u \in Users : usersFile[u] # None => u \notin revoked'
          /\ "sessions" \in disordered => \A t \in Sessions : sessions'[t] # None => t \notin revoked'
      BY <1>16, <2>1 DEF Restart
    <2>3. \A t \in Sessions : sessions'[t] # None => sessionsFile[t] # None
      BY <1>16 DEF Restart
    <2>4. \A id : (Voided(id)' <=> id \in revoked') /\ (Written(id)' <=> id \in revoked')
      BY <2>2 DEF Voided, Written, Filed
    <2>5. /\ \A u \in Users : u \in revoked' => usersFile[u] = None
          /\ \A t \in Sessions : t \in revoked' => sessions'[t] = None
      BY <2>2, <2>3 DEF RevokedInv, OnFile, Written
    <2>6. Barred'
      BY <2>2, <2>3, <2>4, <2>5 DEF RevokedInv, Barred, At, Voided
    <2>7. OnFile'
      BY <2>2, <2>4, <2>5 DEF OnFile
    <2>8. Bystanders' /\ OnItsWay' /\ Marked' /\ revoked' \subseteq Users \cup Sessions
      BY <2>2 DEF RevokedInv, Bystanders, OnItsWay, Marked, At
    <2> QED
      BY <1>0, <2>6, <2>7, <2>8 DEF RevokedInv
  <1> QED
    BY <1>1, <1>2, <1>3, <1>4, <1>5, <1>6, <1>7, <1>8, <1>9, <1>10, <1>11, <1>12,
       <1>13, <1>14, <1>15, <1>16
       DEF AccountsNext, AccountStep, Logout, RevokeSession, Expire

\* What an acknowledged logout, revocation, deletion or reset has taken away is
\* in no table, and in no file the next process could read, whatever other
\* calls, failed writes and restarts there are, unless two writes of that file
\* overlapped and none alone has followed (auth.ts, logout, revokeSession,
\* deleteUser, adminSetPassword, deleteSessionsForUser; writeJson).
THEOREM Revocation == AccountsSpec => []RevokedStaysRevoked
  <1>1. RevokedInv => RevokedStaysRevoked
    BY DEF RevokedInv, Barred, OnFile, Voided, Written, RevokedStaysRevoked, Live, Known
  <1> QED
    BY RevokedInitially, RevokedStep, <1>1, PTL DEF AccountsSpec

(***************************************************************************)
(* Refresh tokens.                                                         *)
(***************************************************************************)

(* Types of what the argument is about.  Whose a row is matters only where *)
(* rows of one chain are compared.                                         *)
RowType == [family : Tokens, user : Users \cup {None}, client : Clients \cup {None},
            used : BOOLEAN]
Table == [Tokens -> RowType \cup {None}]

Request == [op : {"none", "code", "device", "refresh", "revoke",
                  "expire", "user", "client"},
            at : {"idle", "config", "save", "write"},
            client : Clients \cup {None}, user : Users \cup {None},
            cred : Grants \cup Tokens \cup {None},
            token : Tokens \cup {None}, family : Tokens \cup {None},
            own : BOOLEAN, gone : SUBSET Tokens,
            acct : Calls \cup {None},
            snap : Table \cup {None}, overlap : BOOLEAN]

Typed ==
    /\ grant \in [Grants -> GrantRecord]
    /\ refresh \in Table /\ refreshFile \in Table
    /\ req \in [Reqs -> Request]
    /\ minted \subseteq Tokens
    /\ origin \in [Tokens -> Grants \cup {None}]
    /\ dead \subseteq minted
    /\ shuffled \in BOOLEAN

\* Rows are of tokens that were drawn, and a chain has one user and one client.
Kept(table) == \A t \in Tokens : table[t] # None => t \in minted /\ table[t].family \in minted

Uniform(table) ==
    \A t1, t2 \in Tokens :
        /\ table[t1] # None /\ table[t2] # None
        /\ table[t1].family = table[t2].family
        => table[t1].user = table[t2].user /\ table[t1].client = table[t2].client

\* What is true of the table, of the file, and of every table on its way to it.
Sound(table) == table \in Table /\ OneLive(table) /\ Kept(table) /\ Uniform(table)

Chains ==
    /\ Sound(refresh) /\ Sound(refreshFile)
    /\ \A g \in Reqs : ReqAt(g, "write") => Sound(req[g].snap)

\* A request that is about to issue a first token.
Issuing(g) == ReqAt(g, "config") /\ req[g].op \in {"code", "device"}

\* A grant is taken from the store by the one request that may issue for it.
Consumptions ==
    /\ \A g \in Reqs : Issuing(g) =>
          /\ req[g].cred \in Grants
          /\ grant[req[g].cred].st = "gone"
          /\ \A t \in Tokens : origin[t] # req[g].cred
    /\ \A g, h \in Reqs : Issuing(g) /\ Issuing(h) /\ req[g].cred = req[h].cred => g = h
    /\ \A t \in Tokens : origin[t] # None => grant[origin[t]].st = "gone"

(* Chains that are being revoked, or were, have no good token; nor has any *)
(* table that a write carries, unless another write is under way.          *)
Revocations ==
    /\ dead \cap LiveFamilies(refresh) = {}
    /\ ~shuffled => dead \cap LiveFamilies(refreshFile) = {}
    /\ \A g \in Reqs :
          /\ req[g].gone \subseteq minted
          /\ req[g].gone \cap LiveFamilies(refresh) = {}
          /\ ReqAt(g, "write") =>
               /\ req[g].gone \cap LiveFamilies(req[g].snap) = {}
               /\ ~req[g].overlap => dead \cap LiveFamilies(req[g].snap) = {}
    /\ \A g, h \in Reqs :
          g # h /\ ReqAt(g, "write") /\ ReqAt(h, "write") => req[g].overlap

OidcInv == Typed /\ Chains /\ Consumptions /\ GrantsAreSingleUse /\ Revocations

-----------------------------------------------------------------------------
(* Tables of refresh tokens.                                               *)

LEMMA NoReqTyped ==
    /\ NoReq \in Request /\ NoReq.at = "idle" /\ NoReq.gone = {} /\ NoReq.op = "none"
    /\ Gone \in GrantRecord /\ Unborn \in GrantRecord /\ Gone.st = "gone" /\ Unborn.st = "unborn"
  BY DEF NoReq, Request, Gone, Unborn, GrantRecord

\* What is removed from a sound table leaves a sound one, with no new good token.
LEMMA Removing ==
    ASSUME Typed, Sound(refresh), NEW rows \in SUBSET Tokens
    PROVE  /\ Sound(Without(rows))
           /\ LiveFamilies(Without(rows)) \subseteq LiveFamilies(refresh)
           /\ Without({}) = refresh
  <1>1. /\ Without(rows) \in Table
        /\ \A t \in Tokens : Without(rows)[t] # None =>
             t \notin rows /\ Without(rows)[t] = refresh[t] /\ refresh[t] # None
    BY DEF Typed, Without, Table
  <1>2. Without({}) = refresh
    BY DEF Typed, Without, Table
  <1> QED
    BY <1>1, <1>2 DEF Sound, OneLive, Kept, Uniform, LiveFamilies

\* Removing a family, or all of a user or a client, leaves no good token of the
\* families removed: a chain has one user and one client.
LEMMA Revoked ==
    ASSUME Typed, Sound(refresh)
    PROVE  /\ \A f \in Tokens : f \notin LiveFamilies(Without(OfFamily(f)))
           /\ \A u : /\ Families(OfUser(u)) \cap LiveFamilies(Without(OfUser(u))) = {}
                    /\ Families(OfUser(u)) \subseteq minted
           /\ \A cl \in Clients : /\ Families(OfClient(cl)) \cap LiveFamilies(Without(OfClient(cl))) = {}
                                  /\ Families(OfClient(cl)) \subseteq minted
  <1>1. ASSUME NEW rows \in SUBSET Tokens, NEW t \in Tokens, Without(rows)[t] # None
        PROVE  t \notin rows /\ Without(rows)[t] = refresh[t] /\ refresh[t] # None
    BY <1>1 DEF Without
  <1>2. ASSUME NEW f \in Tokens, f \in LiveFamilies(Without(OfFamily(f)))
        PROVE  FALSE
    <2>1. OfFamily(f) \in SUBSET Tokens
      BY DEF OfFamily
    <2>2. PICK t \in Tokens : /\ Without(OfFamily(f))[t] # None
                              /\ Without(OfFamily(f))[t].family = f
      BY <1>2 DEF LiveFamilies
    <2>3. t \notin OfFamily(f) /\ refresh[t].family = f /\ refresh[t] # None
      BY <1>1, <2>1, <2>2
    <2> QED
      BY <2>3 DEF OfFamily, Row
  <1>3. ASSUME NEW rows \in SUBSET Tokens,
               \A t1, t2 \in Tokens : /\ t1 \in rows /\ refresh[t2] # None
                                      /\ refresh[t1].family = refresh[t2].family
                                      => t2 \in rows,
               \A t \in rows : refresh[t] # None
        PROVE  /\ Families(rows) \cap LiveFamilies(Without(rows)) = {}
               /\ Families(rows) \subseteq minted
    <2>1. ASSUME NEW f \in Families(rows), f \in LiveFamilies(Without(rows)) PROVE FALSE
      <3>1. PICK t1 \in rows : f = refresh[t1].family
        BY <2>1 DEF Families
      <3>2. PICK t2 \in Tokens : Without(rows)[t2] # None /\ Without(rows)[t2].family = f
        BY <2>1 DEF LiveFamilies
      <3>3. t2 \notin rows /\ refresh[t2].family = f /\ refresh[t2] # None
        BY <1>1, <3>2
      <3> QED
        BY <1>3, <3>1, <3>3
    <2>2. Families(rows) \subseteq minted
      BY <1>3 DEF Families, Sound, Kept
    <2> QED
      BY <2>1, <2>2
  <1>4. ASSUME NEW u
        PROVE  /\ Families(OfUser(u)) \cap LiveFamilies(Without(OfUser(u))) = {}
               /\ Families(OfUser(u)) \subseteq minted
    <2>1. /\ OfUser(u) \in SUBSET Tokens
          /\ \A t1, t2 \in Tokens : /\ t1 \in OfUser(u) /\ refresh[t2] # None
                                    /\ refresh[t1].family = refresh[t2].family
                                    => t2 \in OfUser(u)
          /\ \A t \in OfUser(u) : refresh[t] # None
      BY DEF OfUser, Row, Sound, Uniform
    <2> QED
      BY <1>3, <2>1
  <1>5. ASSUME NEW cl \in Clients
        PROVE  /\ Families(OfClient(cl)) \cap LiveFamilies(Without(OfClient(cl))) = {}
               /\ Families(OfClient(cl)) \subseteq minted
    <2>1. /\ OfClient(cl) \in SUBSET Tokens
          /\ \A t1, t2 \in Tokens : /\ t1 \in OfClient(cl) /\ refresh[t2] # None
                                    /\ refresh[t1].family = refresh[t2].family
                                    => t2 \in OfClient(cl)
          /\ \A t \in OfClient(cl) : refresh[t] # None
      BY DEF OfClient, Row, Sound, Uniform
    <2> QED
      BY <1>3, <2>1
  <1> QED
    BY <1>2, <1>4, <1>5

\* A new token joins a chain that has no good one.
LEMMA Appending ==
    ASSUME Typed, NEW table, Sound(table), NEW t, NEW f \in Tokens,
           NEW u \in Users \cup {None}, NEW cl \in Clients \cup {None},
           Append(t, table, f, u, cl),
           f \in minted \cup {t}, f \notin LiveFamilies(table),
           \A x \in Tokens : table[x] # None /\ table[x].family = f
                               => table[x].user = u /\ table[x].client = cl
    PROVE  /\ t \in Tokens \ minted /\ minted' = minted \cup {t}
           /\ refresh' \in Table /\ OneLive(refresh') /\ Uniform(refresh')
           /\ \A x \in Tokens : refresh'[x] # None => x \in minted' /\ refresh'[x].family \in minted'
           /\ LiveFamilies(refresh') \subseteq LiveFamilies(table) \cup {f}
  <1> DEFINE row == [family |-> f, user |-> u, client |-> cl, used |-> FALSE]
  <1>1. t \in Tokens \ minted /\ minted' = minted \cup {t}
    BY DEF Append
  <1>2. PICK old \in SUBSET Tokens :
          refresh' = [x \in Tokens |-> IF x = t THEN row
                                       ELSE IF x \in old THEN None ELSE table[x]]
    BY DEF Append
  <1>3. row \in RowType /\ row.family = f /\ row.user = u /\ row.client = cl
    BY DEF RowType
  <1> HIDE DEF row
  <1>4. /\ refresh' \in Table
        /\ refresh'[t] = row
        /\ \A x \in Tokens : x # t /\ refresh'[x] # None =>
             refresh'[x] = table[x] /\ table[x] # None
    BY <1>1, <1>2, <1>3 DEF Table, Sound
  <1>5. table[t] = None
    BY <1>1 DEF Sound, Kept
  <1>6. \A x \in Tokens : table[x] # None /\ table[x].family = f => table[x].used
    BY DEF LiveFamilies, Sound, Table, RowType
  <1>7. OneLive(refresh')
    BY <1>1, <1>3, <1>4, <1>6 DEF OneLive, Sound
  <1>8. Uniform(refresh')
    BY <1>1, <1>3, <1>4 DEF Uniform, Sound
  <1>9. \A x \in Tokens : refresh'[x] # None => x \in minted' /\ refresh'[x].family \in minted'
    BY <1>1, <1>3, <1>4 DEF Kept, Sound
  <1>10. LiveFamilies(refresh') \subseteq LiveFamilies(table) \cup {f}
    BY <1>1, <1>3, <1>4 DEF LiveFamilies
  <1> QED
    BY <1>1, <1>4, <1>7, <1>8, <1>9, <1>10

\* Spending a good token leaves its chain without one.
LEMMA Spending ==
    ASSUME Typed, Sound(refresh), NEW k \in Tokens, Row(k), ~refresh[k].used
    PROVE  LET table == [refresh EXCEPT ![k].used = TRUE]
               f == refresh[k].family
           IN  /\ Sound(table)
               /\ f \in Tokens /\ f \in LiveFamilies(refresh) /\ f \notin LiveFamilies(table)
               /\ LiveFamilies(table) \subseteq LiveFamilies(refresh)
               /\ \A x \in Tokens : table[x] # None /\ table[x].family = f
                     => table[x].user = refresh[k].user /\ table[x].client = refresh[k].client
  <1> DEFINE table == [refresh EXCEPT ![k].used = TRUE]
             spent == [refresh[k] EXCEPT !.used = TRUE]
             f == refresh[k].family
  <1>1. refresh[k] \in RowType /\ refresh[k] # None
    BY DEF Typed, Table, Row
  <1>2. /\ spent \in RowType /\ spent.used
        /\ spent.family = f /\ spent.user = refresh[k].user /\ spent.client = refresh[k].client
    BY <1>1 DEF RowType
  <1>3. table = [refresh EXCEPT ![k] = spent]
    BY DEF Typed, Table
  <1>4. /\ table \in Table /\ table[k] = spent
        /\ \A x \in Tokens : x # k => table[x] = refresh[x]
    BY <1>2, <1>3 DEF Typed, Table
  <1>5. f \in Tokens /\ f \in LiveFamilies(refresh)
    BY <1>1 DEF RowType, LiveFamilies
  <1> HIDE DEF table, spent
  <1>6. OneLive(table) /\ Kept(table) /\ Uniform(table)
    BY <1>1, <1>2, <1>4 DEF Sound, OneLive, Kept, Uniform
  <1>7. f \notin LiveFamilies(table) /\ LiveFamilies(table) \subseteq LiveFamilies(refresh)
    BY <1>1, <1>2, <1>4 DEF LiveFamilies, Sound, OneLive
  <1>8. \A x \in Tokens : table[x] # None /\ table[x].family = f
                     => table[x].user = refresh[k].user /\ table[x].client = refresh[k].client
    BY <1>1, <1>2, <1>4 DEF Sound, Uniform
  <1> QED
    BY <1>4, <1>5, <1>6, <1>7, <1>8 DEF Sound, table

-----------------------------------------------------------------------------
(* How the invariant survives a step.                                      *)

\* Only grants change, and what is gone stays gone.
LEMMA GrantsOnly ==
    ASSUME OidcInv,
           UNCHANGED <<refresh, refreshFile, req, minted, origin, dead, shuffled>>,
           grant' \in [Grants -> GrantRecord],
           \A x \in Grants : grant[x].st = "gone" => grant'[x].st = "gone"
    PROVE  OidcInv'
  <1>1. Typed'
    BY DEF OidcInv, Typed
  <1>2. Chains' /\ GrantsAreSingleUse'
    BY DEF OidcInv, Chains, Sound, OneLive, Kept, Uniform, ReqAt, GrantsAreSingleUse
  <1>3. \A t \in Tokens : origin[t] # None => origin[t] \in Grants
    BY DEF OidcInv, Typed
  <1>4. Consumptions'
    BY <1>3 DEF OidcInv, Consumptions, Issuing, ReqAt
  <1>5. Revocations'
    BY DEF OidcInv, Revocations, ReqAt, LiveFamilies
  <1> QED
    BY <1>1, <1>2, <1>4, <1>5 DEF OidcInv

\* A request moves on or ends, rows may be removed, and its write may land: it
\* reaches the file, and what it revoked may count as dead.
LEMMA Moving ==
    ASSUME OidcInv, NEW g \in Reqs, NEW rec \in Request, NEW rows \in SUBSET Tokens,
           req' = [req EXCEPT ![g] = rec], refresh' = Without(rows),
           rec.at # "write",
           ~(rec.at = "config" /\ rec.op \in {"code", "device"}),
           rec.gone \subseteq minted, rec.gone \cap LiveFamilies(Without(rows)) = {},
           UNCHANGED <<grant, origin, minted>>,
           \/ UNCHANGED <<refreshFile, shuffled, dead>>
           \/ RefreshLands(g) /\ dead' \in {dead, dead \cup req[g].gone}
    PROVE  OidcInv'
  <1>1. /\ Sound(refresh') /\ refresh' \in Table
        /\ LiveFamilies(refresh') \subseteq LiveFamilies(refresh)
    BY Removing DEF OidcInv, Chains, Sound
  <1>2. /\ req' \in [Reqs -> Request] /\ req'[g] = rec
        /\ \A h \in Reqs : h # g => req'[h] = req[h]
    BY DEF OidcInv, Typed
  <1>3. \/ UNCHANGED <<refreshFile, shuffled, dead>>
        \/ /\ ReqAt(g, "write") /\ refreshFile' = req[g].snap /\ shuffled' = req[g].overlap
           /\ dead' \in {dead, dead \cup req[g].gone}
    BY DEF RefreshLands
  <1>4. Sound(refreshFile')
    BY <1>3 DEF OidcInv, Chains
  <1>5. Typed'
    <2>1. dead' \subseteq minted /\ shuffled' \in BOOLEAN
      BY <1>3 DEF OidcInv, Typed, Revocations, Request
    <2> QED
      BY <1>1, <1>2, <1>4, <2>1 DEF OidcInv, Typed, Sound
  <1>6. Chains'
    BY <1>1, <1>2, <1>4 DEF OidcInv, Chains, ReqAt, Sound, Kept, OneLive, Uniform
  <1>7. Consumptions' /\ GrantsAreSingleUse'
    BY <1>2 DEF OidcInv, Consumptions, Issuing, ReqAt, GrantsAreSingleUse
  <1>8. dead' \cap LiveFamilies(refresh') = {}
    BY <1>1, <1>3 DEF OidcInv, Revocations
  <1>9. ~shuffled' => dead' \cap LiveFamilies(refreshFile') = {}
    BY <1>3 DEF OidcInv, Revocations
  <1>10. \A h \in Reqs : /\ req'[h].gone \subseteq minted'
                         /\ req'[h].gone \cap LiveFamilies(refresh') = {}
    BY <1>1, <1>2 DEF OidcInv, Revocations
  <1>11. \A h \in Reqs : req'[h].at = "write" =>
            /\ req'[h].gone \cap LiveFamilies(req'[h].snap) = {}
            /\ ~req'[h].overlap => dead' \cap LiveFamilies(req'[h].snap) = {}
    BY <1>2, <1>3 DEF OidcInv, Revocations, ReqAt
  <1>12. \A h, i \in Reqs :
            h # i /\ req'[h].at = "write" /\ req'[i].at = "write" => req'[h].overlap
    BY <1>2 DEF OidcInv, Revocations, ReqAt
  <1>13. Revocations'
    BY <1>8, <1>9, <1>10, <1>11, <1>12 DEF Revocations, ReqAt, LiveFamilies
  <1> QED
    BY <1>5, <1>6, <1>7, <1>13 DEF OidcInv

\* Rows go, and the request that removed them has its families on it.
LEMMA Revoking ==
    ASSUME OidcInv, NEW g \in Reqs, NEW rows \in SUBSET Tokens,
           NEW op \in {"expire", "revoke", "client", "user"},
           NEW families \in SUBSET minted, NEW c \in Calls \cup {None},
           Revoke(g, op, rows, families, c),
           families \cap LiveFamilies(Without(rows)) = {}
    PROVE  OidcInv'
  <1> DEFINE rec == [NoReq EXCEPT !.op = op, !.at = "save", !.gone = families, !.acct = c]
  <1>1. rec \in Request /\ rec.at = "save" /\ rec.gone = families
    BY DEF NoReq, Request, OidcInv, Typed
  <1>2. /\ req' = [req EXCEPT ![g] = rec] /\ refresh' = Without(rows)
        /\ UNCHANGED <<grant, origin, minted, refreshFile, shuffled, dead>>
    BY DEF Revoke
  <1> HIDE DEF rec
  <1> QED
    BY <1>1, <1>2, Moving

\* A request ends, with its write or without.
LEMMA Finishing ==
    ASSUME OidcInv, NEW g \in Reqs, Finish(g), UNCHANGED <<grant, refresh, origin, minted>>,
           \/ UNCHANGED <<refreshFile, shuffled, dead>>
           \/ RefreshLands(g) /\ dead' \in {dead, dead \cup req[g].gone}
    PROVE  OidcInv'
  <1>1. refresh' = Without({})
    BY Removing DEF OidcInv, Chains
  <1>2. req' = [req EXCEPT ![g] = NoReq]
    BY DEF Finish
  <1> QED
    BY <1>1, <1>2, NoReqTyped, Moving

\* A request consumes its grant, and may go on with it.
LEMMA Consuming ==
    ASSUME OidcInv, NEW g \in Reqs, NEW op \in {"code", "device"}, NEW x \in Grants,
           NEW cl \in Clients, Idle(g), Consumed(x),
           grant[x].st = "gone" => UNCHANGED req,
           Proceed(g, op, x, cl) \/ UNCHANGED req,
           UNCHANGED <<refresh, refreshFile, minted, origin, dead, shuffled>>
    PROVE  OidcInv'
  <1> DEFINE rec == [NoReq EXCEPT !.op = op, !.at = "config", !.client = cl,
                                  !.user = grant[x].user, !.cred = x]
  <1>1. /\ grant' \in [Grants -> GrantRecord]
        /\ grant'[x].st = "gone"
        /\ \A y \in Grants : y # x => grant'[y] = grant[y]
    BY NoReqTyped DEF Consumed, OidcInv, Typed
  <1>2. CASE UNCHANGED req
    BY <1>1, <1>2, GrantsOnly
  <1>3. CASE Proceed(g, op, x, cl) /\ grant[x].st # "gone"
    <2>1. grant[x].user \in Users \cup {None}
      BY DEF OidcInv, Typed, GrantRecord
    <2>2. /\ rec \in Request /\ rec.at = "config" /\ rec.gone = {} /\ rec.cred = x
      BY <2>1 DEF NoReq, Request
    <2>3. req' = [req EXCEPT ![g] = rec]
      BY <1>3 DEF Proceed
    <2> HIDE DEF rec
    <2>4. /\ req' \in [Reqs -> Request] /\ req'[g] = rec
          /\ \A h \in Reqs : h # g => req'[h] = req[h]
      BY <2>2, <2>3 DEF OidcInv, Typed
    <2>5. Typed' /\ GrantsAreSingleUse'
      BY <1>1, <2>4 DEF OidcInv, Typed, GrantsAreSingleUse
    <2>6. Chains'
      BY <2>2, <2>4 DEF OidcInv, Chains, ReqAt, Sound, Kept, OneLive, Uniform
    <2>7. \A t \in Tokens : origin[t] # None => origin[t] \in Grants
      BY DEF OidcInv, Typed
    <2>8. \A t \in Tokens : origin[t] # x
      BY <1>3, OidcAssumption DEF OidcInv, Consumptions, Grants
    <2>9. \A h \in Reqs : Issuing(h) => req[h].cred # x
      BY <1>3 DEF OidcInv, Consumptions
    <2>10. \A h \in Reqs : h # g => Issuing(h)' = Issuing(h)
      BY <2>4 DEF Issuing, ReqAt
    <2>11. Consumptions'
      BY <1>1, <2>2, <2>4, <2>7, <2>8, <2>9, <2>10 DEF OidcInv, Consumptions
    <2>12. Revocations'
      BY <2>2, <2>4 DEF OidcInv, Revocations, ReqAt, LiveFamilies
    <2> QED
      BY <2>5, <2>6, <2>11, <2>12 DEF OidcInv
  <1> QED
    BY <1>2, <1>3

\* A request adds a token to a chain that was alive, or starts a new one.
LEMMA Adding ==
    ASSUME OidcInv, NEW g \in Reqs, NEW rec \in Request, NEW t \in Tokens \ minted,
           req' = [req EXCEPT ![g] = rec], rec.at = "save",
           rec.gone \subseteq minted, rec.gone \cap LiveFamilies(refresh) = {},
           minted' = minted \cup {t}, refresh' \in Table,
           OneLive(refresh'), Uniform(refresh'),
           \A x \in Tokens : refresh'[x] # None => x \in minted' /\ refresh'[x].family \in minted',
           LiveFamilies(refresh') \subseteq LiveFamilies(refresh) \cup {t},
           UNCHANGED <<grant, refreshFile, dead, shuffled>>,
           \/ UNCHANGED origin
           \/ Issuing(g) /\ origin' = [origin EXCEPT ![t] = req[g].cred]
    PROVE  OidcInv'
  <1>1. /\ req' \in [Reqs -> Request] /\ req'[g] = rec
        /\ \A h \in Reqs : h # g => req'[h] = req[h]
    BY DEF OidcInv, Typed
  <1>2. Typed'
    BY <1>1 DEF OidcInv, Typed, Consumptions
  <1>3. Chains'
    <2>1. Sound(refresh)' /\ Sound(refreshFile)'
      BY DEF OidcInv, Chains, Sound, Kept, OneLive, Uniform
    <2> QED
      BY <1>1, <2>1 DEF OidcInv, Chains, ReqAt, Sound, Kept, OneLive, Uniform
  <1>4. \A h \in Reqs : Issuing(h)' => h # g /\ Issuing(h)
    BY <1>1 DEF Issuing, ReqAt
  <1>5. \A x \in Tokens : \/ origin'[x] = origin[x]
                          \/ x = t /\ Issuing(g) /\ origin'[x] = req[g].cred
    BY DEF OidcInv, Typed
  <1>6. GrantsAreSingleUse'
    BY <1>5 DEF OidcInv, GrantsAreSingleUse, Consumptions
  <1>7. Consumptions'
    <2>1. \A h \in Reqs : Issuing(h)' =>
            /\ req'[h].cred \in Grants
            /\ grant'[req'[h].cred].st = "gone"
            /\ \A x \in Tokens : origin'[x] # req'[h].cred
      BY <1>1, <1>4, <1>5 DEF OidcInv, Consumptions
    <2>2. \A h, i \in Reqs : Issuing(h)' /\ Issuing(i)' /\ req'[h].cred = req'[i].cred => h = i
      BY <1>1, <1>4 DEF OidcInv, Consumptions
    <2>3. \A x \in Tokens : origin'[x] # None => grant'[origin'[x]].st = "gone"
      BY <1>5 DEF OidcInv, Consumptions
    <2> QED
      BY <2>1, <2>2, <2>3 DEF Consumptions
  <1>8. Revocations'
    <2>1. dead' \cap LiveFamilies(refresh') = {}
      BY DEF OidcInv, Revocations, Typed
    <2>2. \A h \in Reqs : /\ req'[h].gone \subseteq minted'
                          /\ req'[h].gone \cap LiveFamilies(refresh') = {}
      BY <1>1 DEF OidcInv, Revocations
    <2>3. \A h \in Reqs : req'[h].at = "write" =>
            /\ req'[h].gone \cap LiveFamilies(req'[h].snap) = {}
            /\ ~req'[h].overlap => dead' \cap LiveFamilies(req'[h].snap) = {}
      BY <1>1 DEF OidcInv, Revocations, ReqAt
    <2>4. \A h, i \in Reqs :
            h # i /\ req'[h].at = "write" /\ req'[i].at = "write" => req'[h].overlap
      BY <1>1 DEF OidcInv, Revocations, ReqAt
    <2> QED
      BY <2>1, <2>2, <2>3, <2>4 DEF OidcInv, Revocations, ReqAt, LiveFamilies
  <1> QED
    BY <1>2, <1>3, <1>6, <1>7, <1>8 DEF OidcInv

\* The first token of an account.
LEMMA Issued ==
    ASSUME OidcInv, NEW g \in Reqs, NEW t \in Tokens, Issue(g, t)
    PROVE  OidcInv'
  <1> DEFINE rec == [req[g] EXCEPT !.at = "save", !.token = t]
  <1>1. req[g] \in Request /\ req[g].user \in Users \cup {None} /\ req[g].client \in Clients \cup {None}
    BY DEF OidcInv, Typed, Request
  <1>2. rec \in Request /\ rec.at = "save" /\ rec.gone = req[g].gone
    BY <1>1 DEF Request
  <1>3. req' = [req EXCEPT ![g] = rec]
    BY DEF Issue, OidcInv, Typed
  <1> HIDE DEF rec
  <1>4. /\ Issuing(g) /\ origin' = [origin EXCEPT ![t] = req[g].cred]
        /\ Append(t, refresh, t, req[g].user, req[g].client)
        /\ UNCHANGED <<grant, refreshFile, dead, shuffled>>
    BY DEF Issue, Issuing
  <1>5. t \in Tokens \ minted
    BY <1>4 DEF Append
  <1>6. /\ t \notin LiveFamilies(refresh)
        /\ \A x \in Tokens : refresh[x] # None => refresh[x].family # t
    BY <1>5 DEF OidcInv, Chains, Sound, Kept, LiveFamilies
  <1>7. Typed /\ Sound(refresh)
    BY DEF OidcInv, Chains
  <1>8. /\ minted' = minted \cup {t} /\ refresh' \in Table /\ OneLive(refresh') /\ Uniform(refresh')
        /\ \A x \in Tokens : refresh'[x] # None => x \in minted' /\ refresh'[x].family \in minted'
        /\ LiveFamilies(refresh') \subseteq LiveFamilies(refresh) \cup {t}
    BY <1>1, <1>4, <1>5, <1>6, <1>7, Appending
  <1>9. rec.gone \subseteq minted /\ rec.gone \cap LiveFamilies(refresh) = {}
    BY <1>2 DEF OidcInv, Revocations
  <1> QED
    BY <1>2, <1>3, <1>4, <1>5, <1>8, <1>9, Adding

\* A rotation.
LEMMA Rotating ==
    ASSUME OidcInv, NEW g \in Reqs, NEW t \in Tokens, NEW k \in Tokens, NEW cl \in Clients,
           Rotate(g, t, k, cl)
    PROVE  OidcInv'
  <1> DEFINE table == [refresh EXCEPT ![k].used = TRUE]
             f == refresh[k].family
             rec == [NoReq EXCEPT !.op = "refresh", !.at = "save", !.token = t, !.family = f,
                                  !.user = refresh[k].user, !.own = (refresh[k].client = cl)]
  <1>1. Typed /\ Sound(refresh)
    BY DEF OidcInv, Chains
  <1>2. /\ Row(k) /\ ~refresh[k].used
        /\ Append(t, table, f, refresh[k].user, refresh[k].client)
        /\ req' = [req EXCEPT ![g] = rec]
        /\ UNCHANGED <<grant, origin, refreshFile, dead, shuffled>>
    BY DEF Rotate, Rotated
  <1>3. /\ f \in minted
        /\ refresh[k].user \in Users \cup {None} /\ refresh[k].client \in Clients \cup {None}
    BY <1>1, <1>2 DEF Row, Sound, Kept, Table, RowType
  <1>4. f \in Tokens
    BY <1>1, <1>3 DEF Typed
  <1>5. rec \in Request /\ rec.at = "save" /\ rec.gone = {}
    BY <1>3, <1>4 DEF NoReq, Request
  <1>6. /\ Sound(table) /\ f \in LiveFamilies(refresh) /\ f \notin LiveFamilies(table)
        /\ LiveFamilies(table) \subseteq LiveFamilies(refresh)
        /\ \A x \in Tokens : table[x] # None /\ table[x].family = f
              => table[x].user = refresh[k].user /\ table[x].client = refresh[k].client
    BY <1>1, <1>2, Spending
  <1> HIDE DEF rec, table, f
  <1>7. /\ t \in Tokens \ minted /\ minted' = minted \cup {t}
        /\ refresh' \in Table /\ OneLive(refresh') /\ Uniform(refresh')
        /\ \A x \in Tokens : refresh'[x] # None => x \in minted' /\ refresh'[x].family \in minted'
        /\ LiveFamilies(refresh') \subseteq LiveFamilies(table) \cup {f}
    BY <1>1, <1>2, <1>3, <1>4, <1>6, Appending
  <1>8. LiveFamilies(refresh') \subseteq LiveFamilies(refresh) \cup {t}
    BY <1>6, <1>7
  <1> QED
    BY <1>2, <1>5, <1>7, <1>8, Adding

\* A record whose write begins, and one whose write gets company.
BegunReq(r, table, company) ==
    [r EXCEPT !.at = "write", !.snap = table, !.overlap = company]
JoinedReq(r) == [r EXCEPT !.overlap = TRUE]

LEMMA RequestWrites ==
    ASSUME NEW r \in Request, NEW table \in Table, NEW company \in BOOLEAN
    PROVE  /\ BegunReq(r, table, company) \in Request
           /\ BegunReq(r, table, company).at = "write"
           /\ BegunReq(r, table, company).snap = table
           /\ BegunReq(r, table, company).gone = r.gone
           /\ BegunReq(r, table, company).overlap = company
  <1>1. BegunReq(r, table, company) \in Request
    <2> DEFINE marked == [r EXCEPT !.at = "write"]
               filled == [marked EXCEPT !.snap = table]
    <2>1. marked \in Request
      BY DEF Request
    <2> HIDE DEF marked
    <2>2. filled \in Request
      BY <2>1 DEF Request
    <2> HIDE DEF filled
    <2>3. [filled EXCEPT !.overlap = company] \in Request
      BY <2>2 DEF Request
    <2> QED
      BY <2>3, Zenon DEF BegunReq, filled, marked
  <1>2. /\ BegunReq(r, table, company).at = "write" /\ BegunReq(r, table, company).snap = table
        /\ BegunReq(r, table, company).gone = r.gone
    BY DEF Request, BegunReq
  <1>3. BegunReq(r, table, company).overlap = company
    BY DEF Request, BegunReq
  <1> QED
    BY <1>1, <1>2, <1>3

LEMMA Joining ==
    ASSUME NEW r \in Request
    PROVE  /\ JoinedReq(r) \in Request /\ JoinedReq(r).at = r.at /\ JoinedReq(r).op = r.op
           /\ JoinedReq(r).cred = r.cred /\ JoinedReq(r).gone = r.gone /\ JoinedReq(r).snap = r.snap
           /\ JoinedReq(r).overlap
  <1>1. JoinedReq(r) \in Request
    BY DEF Request, JoinedReq
  <1>2. /\ JoinedReq(r).at = r.at /\ JoinedReq(r).op = r.op /\ JoinedReq(r).cred = r.cred
        /\ JoinedReq(r).gone = r.gone /\ JoinedReq(r).snap = r.snap
    BY DEF Request, JoinedReq
  <1>3. JoinedReq(r).overlap
    BY DEF Request, JoinedReq
  <1> QED
    BY <1>1, <1>2, <1>3

\* A request serialises the table as it is; every write under way is marked.
LEMMA SerialisingRefresh ==
    ASSUME OidcInv, NEW g \in Reqs, SerialiseRefresh(g)
    PROVE  OidcInv'
  <1> DEFINE company == RefreshWriting # {}
             begun == BegunReq(req[g], refresh, company)
  <1>1. /\ ReqAt(g, "save")
        /\ req' = [h \in Reqs |-> IF h = g THEN begun
                                  ELSE IF ReqAt(h, "write") THEN JoinedReq(req[h]) ELSE req[h]]
        /\ UNCHANGED <<grant, refresh, refreshFile, minted, origin, dead, shuffled>>
    BY Zenon DEF SerialiseRefresh, store, BegunReq, JoinedReq
  <1>2. \A h \in Reqs : req[h] \in Request
    BY DEF OidcInv, Typed
  <1>3. company \in BOOLEAN /\ refresh \in Table
    BY DEF OidcInv, Typed
  <1>4. company <=> \E h \in Reqs : ReqAt(h, "write")
    BY DEF RefreshWriting
  <1> HIDE DEF company
  <1>5. /\ begun \in Request /\ begun.at = "write" /\ begun.snap = refresh
        /\ begun.gone = req[g].gone /\ begun.overlap = company
    <2>1. req[g] \in Request
      BY <1>2
    <2>2. /\ BegunReq(req[g], refresh, company) \in Request
          /\ BegunReq(req[g], refresh, company).at = "write"
          /\ BegunReq(req[g], refresh, company).snap = refresh
          /\ BegunReq(req[g], refresh, company).gone = req[g].gone
          /\ BegunReq(req[g], refresh, company).overlap = company
      BY <2>1, <1>3, RequestWrites, Zenon
    <2> QED
      BY <2>2, Zenon
  <1>6. \A h \in Reqs :
          /\ JoinedReq(req[h]) \in Request /\ JoinedReq(req[h]).at = req[h].at
          /\ JoinedReq(req[h]).op = req[h].op /\ JoinedReq(req[h]).cred = req[h].cred
          /\ JoinedReq(req[h]).gone = req[h].gone /\ JoinedReq(req[h]).snap = req[h].snap
          /\ JoinedReq(req[h]).overlap
    BY <1>2, Joining, Zenon
  <1> HIDE DEF begun
  <1>7. /\ req'[g] = begun
        /\ \A h \in Reqs : h # g =>
             /\ req'[h].at = req[h].at /\ req'[h].op = req[h].op /\ req'[h].cred = req[h].cred
             /\ req'[h].gone = req[h].gone /\ req'[h].snap = req[h].snap
             /\ ReqAt(h, "write") => req'[h].overlap
    BY <1>1, <1>6
  <1>8. req' \in [Reqs -> Request]
    BY <1>1, <1>2, <1>5, <1>6
  <1>9. Typed' /\ GrantsAreSingleUse'
    BY <1>1, <1>8 DEF OidcInv, Typed, GrantsAreSingleUse
  <1>10. \A h \in Reqs : ReqAt(h, "write")' =>
          \/ ReqAt(h, "write") /\ req'[h].snap = req[h].snap
          \/ h = g /\ req'[h].snap = refresh
    BY <1>5, <1>7 DEF ReqAt
  <1>11. Chains'
    BY <1>1, <1>10 DEF OidcInv, Chains, Sound, Kept, OneLive, Uniform
  <1>12. \A h \in Reqs : Issuing(h)' => Issuing(h) /\ req'[h].cred = req[h].cred
    BY <1>5, <1>7 DEF Issuing, ReqAt
  <1>13. Consumptions'
    BY <1>1, <1>12 DEF OidcInv, Consumptions
  <1>14. Revocations'
    <2>1. dead' \cap LiveFamilies(refresh') = {}
      BY <1>1 DEF OidcInv, Revocations
    <2>2. ~shuffled' => dead' \cap LiveFamilies(refreshFile') = {}
      BY <1>1 DEF OidcInv, Revocations
    <2>3. \A h \in Reqs : /\ req'[h].gone \subseteq minted'
                          /\ req'[h].gone \cap LiveFamilies(refresh') = {}
      BY <1>1, <1>5, <1>7 DEF OidcInv, Revocations
    <2>4. ASSUME NEW h \in Reqs, req'[h].at = "write"
          PROVE  /\ req'[h].gone \cap LiveFamilies(req'[h].snap) = {}
                 /\ ~req'[h].overlap => dead' \cap LiveFamilies(req'[h].snap) = {}
      <3>1. CASE h = g
        BY <1>1, <1>5, <1>7, <3>1 DEF OidcInv, Revocations
      <3>2. CASE h # g
        BY <1>1, <1>7, <2>4, <3>2 DEF OidcInv, Revocations, ReqAt
      <3> QED
        BY <3>1, <3>2
    <2>5. \A h, i \in Reqs :
            h # i /\ req'[h].at = "write" /\ req'[i].at = "write" => req'[h].overlap
      BY <1>4, <1>5, <1>7 DEF ReqAt
    <2> QED
      BY <2>1, <2>2, <2>3, <2>4, <2>5 DEF Revocations, ReqAt, LiveFamilies
  <1> QED
    BY <1>9, <1>11, <1>13, <1>14 DEF OidcInv

\* What a landed rotation finds decides how its request goes on.
LEMMA RotationLands ==
    ASSUME OidcInv, NEW g \in Reqs, RotateLands(g)
    PROVE  OidcInv'
  <1> DEFINE f == req[g].family
             onward == [req[g] EXCEPT !.at = "config", !.snap = None]
             reuse == [NoReq EXCEPT !.op = "revoke", !.at = "save", !.gone = {f}]
  <1>1. /\ req[g].op = "refresh" /\ RefreshLands(g)
        /\ UNCHANGED <<grant, minted, origin, dead>>
    BY DEF RotateLands
  <1>2. CASE req[g].own /\ Known(req[g].user)
    <2>1. req[g] \in Request
      BY DEF OidcInv, Typed
    <2>2. /\ onward \in Request /\ onward.at = "config" /\ onward.op = "refresh"
          /\ onward.gone = req[g].gone
      <3>1. ASSUME NEW r \in Request
            PROVE  [r EXCEPT !.at = "config", !.snap = None] \in Request
        BY DEF Request
      <3>2. onward \in Request
        BY <2>1, <3>1
      <3>3. onward.at = "config" /\ onward.op = req[g].op /\ onward.gone = req[g].gone
        BY <2>1 DEF Request
      <3> QED
        BY <1>1, <3>2, <3>3
    <2>3. req' = [req EXCEPT ![g] = onward] /\ UNCHANGED refresh
      BY <1>2, <2>1 DEF RotateLands, OidcInv, Typed
    <2> HIDE DEF onward
    <2>4. refresh' = Without({}) /\ Without({}) = refresh
      BY <2>3, Removing DEF OidcInv, Chains
    <2>5. onward.gone \subseteq minted /\ onward.gone \cap LiveFamilies(Without({})) = {}
      BY <2>2, <2>4 DEF OidcInv, Revocations
    <2> QED
      BY <1>1, <2>2, <2>3, <2>4, <2>5, Moving
  <1>3. CASE ~(req[g].own /\ Known(req[g].user)) /\ OfFamily(f) = {}
    BY <1>1, <1>3, Finishing DEF RotateLands
  <1>4. CASE ~(req[g].own /\ Known(req[g].user)) /\ OfFamily(f) # {}
    <2>1. f \in minted /\ f \in Tokens
      BY <1>4 DEF OfFamily, Row, OidcInv, Chains, Sound, Kept, Typed
    <2>2. reuse \in Request /\ reuse.at = "save" /\ reuse.gone = {f}
      BY <2>1 DEF NoReq, Request
    <2>3. req' = [req EXCEPT ![g] = reuse] /\ refresh' = Without(OfFamily(f))
      BY <1>4 DEF RotateLands
    <2> HIDE DEF reuse
    <2>4. OfFamily(f) \in SUBSET Tokens /\ f \notin LiveFamilies(Without(OfFamily(f)))
      BY <2>1, Revoked DEF OidcInv, Chains, OfFamily
    <2> QED
      BY <1>1, <2>1, <2>2, <2>3, <2>4, Moving
  <1> QED
    BY <1>2, <1>3, <1>4

\* The process dies: the file is the table, and nothing is in progress.
LEMMA Restarting ==
    ASSUME OidcInv, RestartAll
    PROVE  OidcInv'
  <1>1. /\ refresh' = refreshFile /\ refreshFile' = refreshFile
        /\ minted' = minted /\ origin' = origin /\ shuffled' = FALSE
        /\ req' = [g \in Reqs |-> NoReq]
        /\ grant' = [x \in Grants |-> IF grant[x].st = "unborn" THEN Unborn ELSE Gone]
    BY DEF RestartAll
  <1>2. /\ dead' \subseteq dead
        /\ shuffled => \A x \in Tokens : refreshFile[x] # None => refreshFile[x].family \notin dead'
        /\ ~shuffled => dead' = dead
    BY DEF RestartAll
  <1>3. \A g \in Reqs : req'[g].at = "idle" /\ req'[g].gone = {}
    BY <1>1, NoReqTyped
  <1>4. Typed'
    BY <1>1, <1>2, NoReqTyped DEF OidcInv, Typed
  <1>5. Chains' /\ GrantsAreSingleUse'
    BY <1>1, <1>3 DEF OidcInv, Chains, Sound, Kept, OneLive, Uniform, ReqAt, GrantsAreSingleUse
  <1>6. \A t \in Tokens : origin[t] # None => origin[t] \in Grants
    BY DEF OidcInv, Typed
  <1>7. Consumptions'
    BY <1>1, <1>3, <1>6, NoReqTyped DEF OidcInv, Consumptions, Issuing, ReqAt
  <1>8. dead' \cap LiveFamilies(refreshFile) = {}
    BY <1>2 DEF OidcInv, Revocations, LiveFamilies
  <1>9. Revocations'
    BY <1>1, <1>3, <1>8 DEF Revocations, ReqAt, LiveFamilies
  <1> QED
    BY <1>4, <1>5, <1>7, <1>9 DEF OidcInv

LEMMA InitOidcInv == OidcInit => OidcInv
  <1> SUFFICES ASSUME OidcInit PROVE OidcInv
    OBVIOUS
  <1>1. /\ \A t \in Tokens : refresh[t] = None /\ refreshFile[t] = None /\ origin[t] = None
        /\ \A g \in Reqs : req[g].at = "idle" /\ req[g].gone = {}
        /\ dead = {} /\ LiveFamilies(refresh) = {}
    BY NoReqTyped DEF OidcInit, LiveFamilies
  <1>2. Typed
    BY NoReqTyped DEF OidcInit, Typed, Table
  <1>3. Chains
    BY <1>1, <1>2 DEF Typed, Chains, Sound, OneLive, Kept, Uniform, ReqAt
  <1>4. Consumptions /\ GrantsAreSingleUse /\ Revocations
    BY <1>1 DEF Consumptions, Issuing, ReqAt, GrantsAreSingleUse, Revocations
  <1> QED
    BY <1>2, <1>3, <1>4 DEF OidcInv

LEMMA NextOidcInv == OidcInv /\ [OidcNext]_allVars => OidcInv'
  <1> SUFFICES ASSUME OidcInv, [OidcNext]_allVars PROVE OidcInv'
    OBVIOUS
  <1>1. Typed /\ Sound(refresh) /\ grant \in [Grants -> GrantRecord]
    BY DEF OidcInv, Chains, Typed
  <1>2. \A x \in Grants : grant[x] \in GrantRecord
    BY <1>1
  <1>3. ASSUME UNCHANGED <<grant, refresh, refreshFile, req, minted, origin, dead, shuffled>>
        PROVE  OidcInv'
    BY <1>1, <1>3, GrantsOnly
  <1>4. ASSUME NEW u \in Users, NEW k \in Codes, NEW cl \in Clients, CompleteAuthorize(k, u, cl)
        PROVE  OidcInv'
    BY <1>1, <1>4, GrantsOnly DEF CompleteAuthorize, store, Grants, GrantRecord
  <1>5. ASSUME NEW u \in Users, NEW d \in Devices, ApproveDevice(d, u)
        PROVE  OidcInv'
    <2>1. d \in Grants /\ grant[d] \in GrantRecord /\ grant[d].st = "pending"
      BY <1>2, <1>5 DEF ApproveDevice, Grants
    <2> DEFINE half == [grant EXCEPT ![d].st = "granted"]
    <2>2. /\ half \in [Grants -> GrantRecord]
          /\ \A x \in Grants : x # d => half[x] = grant[x]
      BY <1>1, <2>1 DEF GrantRecord
    <2>3. /\ grant' = [half EXCEPT ![d].user = u]
          /\ UNCHANGED <<refresh, refreshFile, req, minted, origin, dead, shuffled>>
      BY <1>5 DEF ApproveDevice, store
    <2> HIDE DEF half
    <2>4. /\ grant' \in [Grants -> GrantRecord]
          /\ \A x \in Grants : x # d => grant'[x] = grant[x]
      BY <2>1, <2>2, <2>3 DEF GrantRecord
    <2> QED
      BY <2>1, <2>3, <2>4, GrantsOnly
  <1>6. ASSUME NEW u \in Users, NEW d \in Devices, DenyDevice(d, u)
        PROVE  OidcInv'
    <2>1. d \in Grants /\ grant[d] \in GrantRecord /\ grant[d].st = "pending"
      BY <1>2, <1>6 DEF DenyDevice, Grants
    <2>2. /\ grant' = [grant EXCEPT ![d].st = "denied"]
          /\ UNCHANGED <<refresh, refreshFile, req, minted, origin, dead, shuffled>>
      BY <1>6 DEF DenyDevice, store
    <2>3. /\ grant' \in [Grants -> GrantRecord]
          /\ \A x \in Grants : x # d => grant'[x] = grant[x]
      BY <1>1, <2>1, <2>2 DEF GrantRecord
    <2> QED
      BY <2>1, <2>2, <2>3, GrantsOnly
  <1>7. ASSUME NEW x \in Grants, ExpireGrant(x)
        PROVE  OidcInv'
    BY <1>1, <1>7, NoReqTyped, GrantsOnly DEF ExpireGrant, store
  <1>8. ASSUME NEW cl \in Clients, DeleteClient(cl)
        PROVE  OidcInv'
    BY <1>3, <1>8 DEF DeleteClient, store
  <1>9. ASSUME NEW cl \in Clients, NEW d \in Devices, Pair(d, cl)
        PROVE  OidcInv'
    BY <1>1, <1>9, GrantsOnly DEF Pair, store, Grants, GrantRecord
  <1>10. ASSUME NEW g \in Reqs, NEW cl \in Clients, NEW k \in Codes, ConsumeCode(g, k, cl)
         PROVE  OidcInv'
    <2>1. /\ k \in Grants /\ Idle(g) /\ Consumed(k)
          /\ Proceed(g, "code", k, cl) \/ UNCHANGED req
          /\ UNCHANGED <<refresh, refreshFile, minted, origin, dead, shuffled>>
      BY <1>10 DEF ConsumeCode, store, Grants
    <2>2. Proceed(g, "code", k, cl) => grant[k].st # "gone"
      BY DEF Proceed
    <2> QED
      BY <2>1, <2>2, Consuming
  <1>11. ASSUME NEW g \in Reqs, NEW cl \in Clients, NEW d \in Devices, PollDevice(g, d, cl)
         PROVE  OidcInv'
    <2>1. /\ d \in Grants /\ Idle(g) /\ Consumed(d) /\ grant[d].st # "gone"
          /\ Proceed(g, "device", d, cl) \/ UNCHANGED req
          /\ UNCHANGED <<refresh, refreshFile, minted, origin, dead, shuffled>>
      BY <1>11 DEF PollDevice, store, Grants
    <2> QED
      BY <2>1, Consuming
  <1>12. ASSUME NEW g \in Reqs, NEW cl \in Clients, RevokeForClient(g, cl)
         PROVE  OidcInv'
    <2>1. /\ OfClient(cl) \in SUBSET Tokens /\ Families(OfClient(cl)) \in SUBSET minted
          /\ Families(OfClient(cl)) \cap LiveFamilies(Without(OfClient(cl))) = {}
      BY <1>1, Revoked DEF OfClient
    <2> QED
      BY <1>12, <2>1, Revoking DEF RevokeForClient
  <1>13. ASSUME NEW g \in Reqs, NEW k \in Tokens, RotateExpired(g, k)
         PROVE  OidcInv'
    <2>1. Revoke(g, "expire", {k}, {}, None)
      BY <1>13 DEF RotateExpired
    <2>2. {k} \in SUBSET Tokens /\ {} \in SUBSET minted
          /\ {} \cap LiveFamilies(Without({k})) = {}
      OBVIOUS
    <2> QED
      BY <2>1, <2>2, Revoking
  <1>14. ASSUME NEW g \in Reqs, NEW k \in Tokens, RevokeFamily(g, k)
         PROVE  OidcInv'
    <2> DEFINE f == refresh[k].family
    <2>1. f \in minted /\ f \in Tokens
      BY <1>1, <1>14 DEF RevokeFamily, Row, Sound, Kept, Typed
    <2>2. OfFamily(f) \in SUBSET Tokens /\ {f} \cap LiveFamilies(Without(OfFamily(f))) = {}
      BY <1>1, <2>1, Revoked DEF OfFamily
    <2>3. Revoke(g, "revoke", OfFamily(f), {f}, None)
      BY <1>14 DEF RevokeFamily
    <2> QED
      BY <2>1, <2>2, <2>3, Revoking
  <1>15. ASSUME NEW g \in Reqs, NEW c \in Calls, RevokeForUser(g, c)
         PROVE  OidcInv'
    <2> DEFINE u == call[c].user
    <2>1. CASE OfUser(u) = {}
      <3>1. dead' = dead
        BY <1>15, <2>1 DEF RevokeForUser, Acknowledge
      <3> QED
        BY <1>3, <1>15, <2>1, <3>1 DEF RevokeForUser
    <2>2. CASE OfUser(u) # {}
      <3>1. OfUser(u) \in SUBSET Tokens /\ Revoke(g, "user", OfUser(u), Families(OfUser(u)), c)
        BY <1>15, <2>2 DEF RevokeForUser, OfUser
      <3>2. /\ Families(OfUser(u)) \in SUBSET minted
            /\ Families(OfUser(u)) \cap LiveFamilies(Without(OfUser(u))) = {}
        BY <1>1, Revoked
      <3> QED
        BY <3>1, <3>2, Revoking
    <2> QED
      BY <2>1, <2>2
  <1>16. ASSUME NEW g \in Reqs, Answer(g) PROVE OidcInv'
    BY <1>16, Finishing DEF Answer, store
  <1>17. ASSUME NEW g \in Reqs, IssueLands(g) PROVE OidcInv'
    BY <1>17, Finishing DEF IssueLands
  <1>18. ASSUME NEW g \in Reqs, RevocationLands(g) PROVE OidcInv'
    BY <1>18, Finishing DEF RevocationLands, Acknowledge
  <1>19. ASSUME NEW g \in Reqs, RefreshWriteFails(g) PROVE OidcInv'
    BY <1>19, Finishing DEF RefreshWriteFails, store
  <1>20. CASE UNCHANGED oidcVars
    BY <1>3, <1>20 DEF oidcVars
  <1>21. CASE OidcStep
    BY <1>4, <1>5, <1>6, <1>7, <1>8, <1>9, <1>10, <1>11, <1>12, <1>13, <1>14, <1>15, <1>16,
       <1>17, <1>18, <1>19, <1>21, Issued, Rotating, SerialisingRefresh, RotationLands DEF OidcStep
  <1> QED
    BY <1>20, <1>21, Restarting DEF OidcNext, allVars

-----------------------------------------------------------------------------
(* RefreshTokenStore.rotate (refresh.ts:105-135): however many requests    *)
(* present the tokens of a chain at once, one token of it is good at most, *)
(* in memory and in every file the next process could read.                *)
THEOREM OneGoodToken == OidcSpec => []OneTokenPerFamily
  <1>1. OidcInv => OneTokenPerFamily
    BY DEF OidcInv, Chains, Sound, OneTokenPerFamily
  <1> QED
    BY InitOidcInv, NextOidcInv, <1>1, PTL DEF OidcSpec

(* revokeFamily, revokeForUser, revokeForClient (refresh.ts:137-187): no   *)
(* request that was in progress brings an acknowledged revocation back to  *)
(* life, in memory or in the file, unless writes of the file overlapped.   *)
THEOREM RevokedForGood == OidcSpec => []DeadFamiliesStayDead
  <1>1. OidcInv => DeadFamiliesStayDead
    BY DEF OidcInv, Revocations, DeadFamiliesStayDead
  <1> QED
    BY InitOidcInv, NextOidcInv, <1>1, PTL DEF OidcSpec

(* OidcStore.consumeCode (store.ts:215), DeviceCodeStore.poll (device.ts:  *)
(* 235): a grant starts one chain at most, as it is taken before any await.*)
THEOREM OneChainPerGrant == OidcSpec => []GrantsAreSingleUse
  <1>1. OidcInv => GrantsAreSingleUse
    BY DEF OidcInv
  <1> QED
    BY InitOidcInv, NextOidcInv, <1>1, PTL DEF OidcSpec
===============================================================================
