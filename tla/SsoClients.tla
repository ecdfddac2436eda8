----------------------------- MODULE SsoClients -----------------------------
(***************************************************************************)
(* The SSO clients of OidcStore (features/oidc/store.ts) and the apps they *)
(* are linked to (features/apps).  A client's record is an object: an edit *)
(* replaces it in the table, a new secret is written into it.  Hashing a   *)
(* secret is the one await that matters; the rest of a call is one step.   *)
(*                                                                         *)
(* Left out: names, slugs, redirect URIs and role names, and apps.json and *)
(* apps-registry.json, which are written after the tables change and read  *)
(* by the next process.  What no table or call refers to any more stands   *)
(* for something new.                                                      *)
(***************************************************************************)
CONSTANTS
  Clients,   \* client ids
  Apps,      \* app ids
  Objects,   \* client records in memory
  Secrets,   \* client secrets
  Calls,     \* calls that may be in progress at once
  None

VARIABLES
  apps,      \* AppStore.apps
  clients,   \* OidcStore.apps: the record of each client
  heap,      \* what the records hold: a secret's hash and the linked app
  call,      \* the calls that await a hash
  told       \* the last secret that was handed out for each client

ssoVars == <<apps, clients, heap, call, told>>

RecordOf == [secret : Secrets \cup {None}, app : Apps \cup {None}]

NoCall == [client |-> None, object |-> None, secret |-> None, app |-> None]

SsoTypeOK ==
  /\ apps \subseteq Apps
  /\ clients \in [Clients -> Objects \cup {None}]
  /\ heap \in [Objects -> RecordOf]
  /\ call \in [Calls -> [client : Clients \cup {None}, object : Objects \cup {None},
                         secret : Secrets \cup {None}, app : Apps \cup {None}]]
  /\ told \in [Clients -> Secrets \cup {None}]

SsoInit ==
  /\ apps = {}
  /\ clients = [c \in Clients |-> None]
  /\ heap = [o \in Objects |-> [secret |-> None, app |-> None]]
  /\ call = [k \in Calls |-> NoCall]
  /\ told = [c \in Clients |-> None]

Registered(c) == clients[c] # None

\* A new record, and a new secret.
NewObject(o) == (\A c \in Clients : clients[c] # o) /\ (\A k \in Calls : call[k].object # o)

NewSecret(s) ==
  /\ \A o \in Objects : heap[o].secret # s
  /\ \A k \in Calls : call[k].secret # s
  /\ \A c \in Clients : told[c] # s

-----------------------------------------------------------------------------

\* createClient, up to the hash.  Nobody looks whether the app exists.
BeginCreate(k, c, s, a) ==
  /\ call[k] = NoCall
  /\ ~Registered(c) /\ \A j \in Calls : call[j].client # c
  /\ NewSecret(s)
  /\ call' = [call EXCEPT ![k] = [client |-> c, object |-> None, secret |-> s, app |-> a]]
  /\ UNCHANGED <<apps, clients, heap, told>>

\* createClient, once the secret is hashed.
Created(k, o) ==
  /\ call[k].client # None /\ call[k].object = None
  /\ NewObject(o)
  /\ heap' = [heap EXCEPT ![o] = [secret |-> call[k].secret, app |-> call[k].app]]
  /\ clients' = [clients EXCEPT ![call[k].client] = o]
  /\ told' = [told EXCEPT ![call[k].client] = call[k].secret]
  /\ call' = [call EXCEPT ![k] = NoCall]
  /\ UNCHANGED apps

\* updateClient: a new record with the old one's secret takes its place.
UpdateClient(c, o, a) ==
  /\ Registered(c)
  /\ NewObject(o)
  /\ heap' = [heap EXCEPT ![o] = [secret |-> heap[clients[c]].secret, app |-> a]]
  /\ clients' = [clients EXCEPT ![c] = o]
  /\ UNCHANGED <<apps, call, told>>

\* regenerateSecret looks the record up and awaits the hash.
BeginRegenerate(k, c, s) ==
  /\ call[k] = NoCall
  /\ Registered(c)
  /\ NewSecret(s)
  /\ call' = [call EXCEPT ![k] = [client |-> c, object |-> clients[c], secret |-> s,
                                  app |-> None]]
  /\ UNCHANGED <<apps, clients, heap, told>>

\* The hash goes into that record, and the secret to the caller.
Regenerated(k) ==
  /\ call[k].object # None
  /\ heap' = [heap EXCEPT ![call[k].object].secret = call[k].secret]
  /\ told' = [told EXCEPT ![call[k].client] = call[k].secret]
  /\ call' = [call EXCEPT ![k] = NoCall]
  /\ UNCHANGED <<apps, clients>>

DeleteClient(c) ==
  /\ Registered(c)
  /\ clients' = [clients EXCEPT ![c] = None]
  /\ UNCHANGED <<apps, heap, call, told>>

\* AppStore.create, under a new id.
CreateApp(a) ==
  /\ a \notin apps
  /\ \A c \in Clients : Registered(c) => heap[clients[c]].app # a
  /\ \A k \in Calls : call[k].app # a
  /\ apps' = apps \cup {a}
  /\ UNCHANGED <<clients, heap, call, told>>

\* AppStore.delete, with the count of the clients that reference the app.
DeleteApp(a) ==
  /\ a \in apps
  /\ \A c \in Clients : Registered(c) => heap[clients[c]].app # a
  /\ apps' = apps \ {a}
  /\ UNCHANGED <<clients, heap, call, told>>

SsoNext ==
  \/ \E k \in Calls :
       \/ \E c \in Clients, s \in Secrets :
            \/ \E a \in Apps \cup {None} : BeginCreate(k, c, s, a)
            \/ BeginRegenerate(k, c, s)
       \/ \E o \in Objects : Created(k, o)
       \/ Regenerated(k)
  \/ \E c \in Clients :
       \/ \E o \in Objects, a \in Apps \cup {None} : UpdateClient(c, o, a)
       \/ DeleteClient(c)
  \/ \E a \in Apps : CreateApp(a) \/ DeleteApp(a)

SsoSpec == SsoInit /\ [][SsoNext]_ssoVars

-----------------------------------------------------------------------------

(* regenerateSecret: the new secret is returned, and "every token exchange *)
(* using the old secret fails immediately": the one secret that a client's *)
(* record accepts is the last one that was handed out for it.              *)
OldSecretFails == \A c \in Clients : Registered(c) => heap[clients[c]].secret = told[c]

(* apps/store.ts: an app that clients reference is not deleted, since that *)
(* "would widen what they are told about each user": no client is linked   *)
(* to an app that does not exist.                                          *)
LinkedAppsExist ==
  \A c \in Clients : Registered(c) => heap[clients[c]].app \in apps \cup {None}
=============================================================================
