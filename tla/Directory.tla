------------------------------ MODULE Directory ------------------------------
(***************************************************************************)
(* What accounts refer to (auth.ts) and the roles they may hold (roles.ts):*)
(* the names and addresses that relying parties and logins find an account *)
(* by, and role ids, which point into another store.  In memory everything *)
(* happens between two awaits except the creation of an account, whose     *)
(* checks come before its password is hashed and whose record is stored    *)
(* after.  Then each store writes its whole table to its own file: it      *)
(* awaits the directory, serialises the table, and renames what it wrote   *)
(* over the file.  Nothing orders the writes of one file or of the two, and*)
(* a restart reads both.                                                   *)
(*                                                                         *)
(* Left out: passwords, sessions and the owner (module Accounts; the owner *)
(* holds no roles), and what a role permits.  Account and role ids are     *)
(* random: one that is mentioned nowhere any more stands for a new one.    *)
(***************************************************************************)
CONSTANTS
  People,     \* account ids
  Usernames,  \* user names, normalised
  Emails,     \* addresses, normalised
  Roles,      \* role ids
  Seeds,      \* those of SEED_ROLES
  Saves,      \* writes of a file that can be in progress at once
  Absent      \* no account, no address, nothing yet

VARIABLES
  account,  \* AuthStore.users
  hashing,  \* the accounts whose creation awaits the hash
  known,    \* RoleStore.roles
  disk,     \* users.json and roles.json
  saving,   \* the writes in progress
  newest,   \* (history) those that hold all that a later one would
  stale     \* (history) files with a write that failed or was overtaken

memoryVars == <<account, hashing, known>>
fileVars == <<disk, saving, newest, stale>>
directoryVars == <<account, hashing, known, disk, saving, newest, stale>>

Record == [name : Usernames, email : Emails \cup {Absent}, roles : SUBSET Roles]

Tables == [People -> Record \cup {Absent}]

Memory == [users |-> account, roles |-> known]

NoSave == [file |-> "none", written |-> FALSE, copy |-> Absent]

InProgress(f) == {s \in Saves : saving[s].file = f}

DirectoryTypeOK ==
  /\ account \in Tables
  /\ hashing \in Tables
  /\ known \subseteq Roles
  /\ disk \in [users : Tables, roles : SUBSET Roles]
  /\ saving \in [Saves -> {NoSave}
                   \cup [file : {"users"}, written : BOOLEAN, copy : Tables \cup {Absent}]
                   \cup [file : {"roles"}, written : BOOLEAN, copy : (SUBSET Roles) \cup {Absent}]]
  /\ newest \subseteq Saves
  /\ stale \subseteq {"users", "roles"}

Exists(p) == account[p] # Absent

\* The first start writes the seeds.
DirectoryInit ==
  /\ account = [p \in People |-> Absent]
  /\ hashing = account
  /\ known = Seeds
  /\ disk = [users |-> account, roles |-> Seeds]
  /\ saving = [s \in Saves |-> NoSave]
  /\ newest = {}
  /\ stale = {}

-----------------------------------------------------------------------------
(* The files: persistUsers and persist, with writeFileAtomic.              *)

\* The operation goes on to write its file.
Persist(f) ==
  /\ \E s \in Saves : /\ saving[s] = NoSave
                      /\ saving' = [saving EXCEPT ![s] = [NoSave EXCEPT !.file = f]]
  /\ UNCHANGED <<disk, newest, stale>>

\* The directory is there, and the table of this moment is serialised.
Serialises(s) ==
  LET f == saving[s].file IN
  /\ saving[s] # NoSave /\ ~saving[s].written
  /\ saving' = [saving EXCEPT ![s] = [file |-> f, written |-> TRUE, copy |-> Memory[f]]]
  /\ newest' = (newest \ InProgress(f)) \cup {s}
  /\ UNCHANGED <<memoryVars, disk, stale>>

\* What was written is renamed over the file.
Lands(s) ==
  LET f == saving[s].file IN
  /\ saving[s].written
  /\ disk' = [disk EXCEPT ![f] = saving[s].copy]
  /\ saving' = [saving EXCEPT ![s] = NoSave]
  /\ newest' = newest \ {s}
  /\ stale' = IF s \in newest THEN stale \ {f} ELSE stale \cup {f}
  /\ UNCHANGED memoryVars

\* The write fails, and the operation with it; the table stays as it is.
PersistFails(s) ==
  LET f == saving[s].file
      missed == s \in newest \/ ~saving[s].written
  IN
  /\ saving[s] # NoSave
  /\ saving' = [saving EXCEPT ![s] = NoSave]
  /\ newest' = IF missed THEN newest \ InProgress(f) ELSE newest
  /\ stale' = IF missed THEN stale \cup {f} ELSE stale
  /\ UNCHANGED <<memoryVars, disk>>

\* RoleStore.init: no roles at all are none yet.
RolesRead == IF disk.roles = {} THEN Seeds ELSE disk.roles

\* The control plane ends, at any time, and starts again.
StoresRestart ==
  /\ account' = disk.users
  /\ known' = RolesRead
  /\ disk' = [disk EXCEPT !.roles = RolesRead]
  /\ hashing' = [p \in People |-> Absent]
  /\ saving' = [s \in Saves |-> NoSave]
  /\ newest' = {}
  /\ stale' = {}

-----------------------------------------------------------------------------

\* The tables that may mention an account or a role.
UserTables ==
  {account, hashing, disk.users}
    \cup {saving[s].copy : s \in {t \in InProgress("users") : saving[t].written}}

RoleTables ==
  {known, disk.roles}
    \cup {saving[s].copy : s \in {t \in InProgress("roles") : saving[t].written}}

\* assertEmailAvailable.
EmailAvailable(email, except) ==
  \A p \in People \ except : Exists(p) => account[p].email # email

\* knownRoleIds: ids that don't exist are rejected.
KnownRoleIds(roles) == roles \subseteq known

\* addUser, up to the hash: roles that exist, a name and an address that are
\* free.
AddUser(p, name, email, roles) ==
  /\ \A table \in UserTables : table[p] = Absent
  /\ KnownRoleIds(roles)
  /\ \A q \in People : Exists(q) => account[q].name # name
  /\ email # Absent => EmailAvailable(email, {})
  /\ hashing' = [hashing EXCEPT ![p] = [name |-> name, email |-> email, roles |-> roles]]
  /\ UNCHANGED <<account, known, fileVars>>

\* createUser, once the password is hashed.
CreateUser(p) ==
  /\ hashing[p] # Absent
  /\ account' = [account EXCEPT ![p] = hashing[p]]
  /\ hashing' = [hashing EXCEPT ![p] = Absent]
  /\ Persist("users")
  /\ UNCHANGED known

DeleteUser(p) ==
  /\ Exists(p)
  /\ account' = [account EXCEPT ![p] = Absent]
  /\ Persist("users")
  /\ UNCHANGED <<hashing, known>>

SetEmail(p, email) ==
  /\ Exists(p)
  /\ email # Absent => EmailAvailable(email, {p})
  /\ account' = [account EXCEPT ![p].email = email]
  /\ Persist("users")
  /\ UNCHANGED <<hashing, known>>

\* setUserRoles, with knownRoleIds.
SetUserRoles(p, roles) ==
  /\ Exists(p)
  /\ KnownRoleIds(roles)
  /\ account' = [account EXCEPT ![p].roles = roles]
  /\ Persist("users")
  /\ UNCHANGED <<hashing, known>>

-----------------------------------------------------------------------------

Holders(r) == {p \in People : Exists(p) /\ r \in account[p].roles}

\* randomUUID: an id that is mentioned nowhere.
IsNewRole(r) ==
  /\ r \notin Seeds
  /\ \A table \in RoleTables : r \notin table
  /\ \A table \in UserTables, p \in People : table[p] # Absent => r \notin table[p].roles

\* Variant: the new role is not written.
CreateRole_Unsaved(r) ==
  /\ IsNewRole(r)
  /\ known' = known \cup {r}
  /\ UNCHANGED <<account, hashing, fileVars>>

\* RoleStore.create, under a new id.
CreateRole(r) ==
  /\ IsNewRole(r)
  /\ known' = known \cup {r}
  /\ Persist("roles")
  /\ UNCHANGED <<account, hashing>>

\* deleteRole, with countRoleHolders.
DeleteRole(r) ==
  /\ r \in known
  /\ Holders(r) = {}
  /\ known' = known \ {r}
  /\ Persist("roles")
  /\ UNCHANGED <<account, hashing>>

\* RoleStore.resetToSeed, which also brings back a seed that was deleted.
ResetToSeed(r) ==
  /\ r \in Seeds
  /\ known' = known \cup {r}
  /\ Persist("roles")
  /\ UNCHANGED <<account, hashing>>

DirectoryNext ==
  \/ \E p \in People :
       \/ \E name \in Usernames, email \in Emails \cup {Absent}, roles \in SUBSET Roles :
            AddUser(p, name, email, roles)
       \/ CreateUser(p)
       \/ DeleteUser(p)
       \/ \E email \in Emails \cup {Absent} : SetEmail(p, email)
       \/ \E roles \in SUBSET Roles : SetUserRoles(p, roles)
  \/ \E r \in Roles : CreateRole(r) \/ DeleteRole(r) \/ ResetToSeed(r)
  \/ \E s \in Saves : Serialises(s) \/ Lands(s) \/ PersistFails(s)
  \/ StoresRestart

DirectorySpec == DirectoryInit /\ [][DirectoryNext]_directoryVars

-----------------------------------------------------------------------------

\* RoleStore.resolve: ids of roles that are gone grant nothing.
Resolve(record, roles) == record.roles \cap roles

\* Every write of the file is done, and none was lost on the way.
AllLanded(f) == InProgress(f) = {} /\ f \notin stale

(* What a role or an account was given is given for good: when the writes  *)
(* of both files are done, in whatever order they were serialised and      *)
(* renamed, a restart finds every account, and each resolves to the roles  *)
(* it has now.  Two things are excepted: a file some write of which failed *)
(* or was overtaken by an older one, until one that holds everything has   *)
(* landed; and an account that holds an id of a role that was deleted while*)
(* its password was hashed, which the seeding of an empty table revives.   *)
AccessIsDurable ==
  AllLanded("users") /\ AllLanded("roles") =>
    \A p \in People :
      /\ disk.users[p] = account[p]
      /\ Exists(p) /\ account[p].roles \subseteq known =>
           Resolve(disk.users[p], RolesRead) = Resolve(account[p], known)

(* setEmail: addresses are "unique across accounts", since two accounts    *)
(* with one address "collapse into a single account" at a relying party.   *)
EmailsAreUnique ==
  \A p, q \in People :
    Exists(p) /\ Exists(q) /\ account[p].email = account[q].email /\ account[p].email # Absent
      => p = q

(* knownRoleIds: role ids that don't exist are rejected "rather than       *)
(* storing a dangling reference that silently grants nothing".             *)
HeldRolesExist == \A p \in People : Exists(p) => account[p].roles \subseteq known
=============================================================================
