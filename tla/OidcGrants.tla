----------------------------- MODULE OidcGrants -----------------------------
(***************************************************************************)
(* The OIDC provider (features/oidc): authorization codes, device requests *)
(* and rotating refresh tokens, composed with the accounts they belong to: *)
(* deleting an account or resetting its password ends in the callback that *)
(* revokes its refresh tokens (index.ts).  Requests to the token endpoint  *)
(* are cut at the client's secret, the configuration and the write of the  *)
(* token file.                                                             *)
(*                                                                         *)
(* Left out: scopes, claims, PKCE, redirect URIs and the role gate of an   *)
(* App (a request may be refused wherever one of them can refuse it), the  *)
(* signing key, and times: what expires may do so whenever it exists.      *)
(***************************************************************************)
EXTENDS Accounts

CONSTANTS
    Clients,    \* registrations that may exist
    Codes,      \* authorization codes
    Devices,    \* device codes
    Tokens,     \* refresh tokens
    Reqs,       \* requests that may be in progress at once
    MaxPending  \* MAX_PENDING

ASSUME OidcAssumption ==
    /\ None \notin Clients \cup Codes \cup Devices \cup Tokens \cup Calls
    /\ Codes \cap Devices = {}
    /\ (Codes \cup Devices) \cap Tokens = {}

VARIABLES
    clients,      \* OidcStore.apps: who is registered
    grant,        \* codes and device requests
    refresh,      \* RefreshTokenStore.tokens
    refreshFile,  \* oidc-refresh-tokens.json
    req,          \* the requests in progress
    minted,       \* refresh tokens that have been drawn
    origin,       \* which code or device request a family was issued for
    dead,         \* families whose revocation was acknowledged
    superseded,   \* codes and requests of an account that were outstanding when
                  \* a deletion or a reset of that account was acknowledged
    shuffled      \* the token file was last written by one of two overlapping writes

oidcVars == <<clients, grant, refresh, refreshFile, req, minted, origin, dead,
              superseded, shuffled>>
allVars == <<accountVars, oidcVars>>

Grants == Codes \cup Devices
GrantRecord == [st : {"unborn", "pending", "granted", "denied", "gone"},
                client : Clients \cup {None}, user : Users \cup {None}]
Unborn == [st |-> "unborn", client |-> None, user |-> None]
Gone == [Unborn EXCEPT !.st = "gone"]

RefreshRecord == [family : Tokens, user : Users, client : Clients, used : BOOLEAN]
RefreshTable == [Tokens -> RefreshRecord \cup {None}]

\* token: the one being issued; family and own: the chain a rotation is of, and
\* whether it is the client's own; gone: families being revoked; acct: the
\* account call that waits for this revocation.
ReqRecord == [op : {"none", "code", "device", "refresh", "revoke",
                    "expire", "user", "client"},
              at : {"idle", "config", "save", "write"},
              client : Clients \cup {None}, user : Users \cup {None},
              cred : Grants \cup Tokens \cup {None},
              token : Tokens \cup {None}, family : Tokens \cup {None},
              own : BOOLEAN, gone : SUBSET Tokens,
              acct : Calls \cup {None},
              snap : RefreshTable \cup {None}, overlap : BOOLEAN]
NoReq == [op |-> "none", at |-> "idle", client |-> None, user |-> None,
          cred |-> None, token |-> None, family |-> None, own |-> FALSE,
          gone |-> {}, acct |-> None,
          snap |-> None, overlap |-> FALSE]

Row(t) == refresh[t] # None
Spent == {t \in Tokens : Row(t) /\ refresh[t].used}
ReqAt(g, step) == req[g].at = step
Finish(g) == req' = [req EXCEPT ![g] = NoReq]

\* An installation that has been set up. Users are the accounts that sign in to
\* other programs; the owner may be one of them.
OidcInit ==
    /\ users \in [Users -> {"owner", "member"}]
    /\ \A u1, u2 \in Users : users[u1] = "owner" /\ users[u2] = "owner" => u1 = u2
    /\ sessions = [t \in Sessions |-> None]
    /\ usersFile = users
    /\ sessionsFile = sessions
    /\ call = [c \in Calls |-> NoCall]
    /\ failures = NoFailures
    /\ drawn = Users
    /\ revoked = {}
    /\ disordered = {}
    /\ clients = Clients
    /\ grant = [x \in Grants |-> Unborn]
    /\ refresh = [t \in Tokens |-> None]
    /\ refreshFile = refresh
    /\ req = [g \in Reqs |-> NoReq]
    /\ minted = {}
    /\ origin = [t \in Tokens |-> None]
    /\ dead = {}
    /\ superseded = {}
    /\ shuffled = FALSE

----------------------------------------------------------------------------
(* Codes and device requests: what happens between two awaits.             *)

store == <<refresh, refreshFile, minted, origin, dead, superseded, shuffled>>

\* completeAuthorize: a logged-in user confirms, and a code is minted.
CompleteAuthorize(k, u, cl) ==
    /\ grant[k].st = "unborn"
    /\ Known(u) /\ cl \in clients
    /\ grant' = [grant EXCEPT ![k] = [st |-> "granted", client |-> cl, user |-> u]]
    /\ UNCHANGED <<accountVars, clients, req, store>>

Pending == {d \in Devices : grant[d].st = "pending"}

\* approveDevice and denyDevice answer a pending request.
ApproveDevice(d, u) ==
    /\ grant[d].st = "pending"
    /\ Known(u) /\ grant[d].client \in clients
    /\ grant' = [grant EXCEPT ![d].st = "granted", ![d].user = u]
    /\ UNCHANGED <<accountVars, clients, req, store>>

DenyDevice(d, u) ==
    /\ grant[d].st = "pending"
    /\ Known(u)
    /\ grant' = [grant EXCEPT ![d].st = "denied"]
    /\ UNCHANGED <<accountVars, clients, req, store>>

\* CODE_TTL_MS or DEVICE_TTL_MS have passed.
ExpireGrant(x) ==
    /\ grant[x].st \in {"pending", "granted", "denied"}
    /\ grant' = [grant EXCEPT ![x] = Gone]
    /\ UNCHANGED <<accountVars, clients, req, store>>

----------------------------------------------------------------------------
(* Requests of clients.                                                    *)
(*                                                                         *)
(* An action is what the handler does once verifyClientSecret has returned. *)
(* That await may take as long as it likes and only the request is carried *)
(* across it, so a client whose registration is deleted meanwhile is still *)
(* here: cl ranges over Clients, not over clients.                         *)

Idle(g) == ReqAt(g, "idle")

\* POST /oidc/device_authorization: DeviceCodeStore.request.
Pair(d, cl) ==
    /\ grant[d].st = "unborn"
    /\ Cardinality(Pending) < MaxPending
    /\ grant' = [grant EXCEPT ![d] = [st |-> "pending", client |-> cl, user |-> None]]
    /\ UNCHANGED <<accountVars, clients, req, store>>

\* The grant was good and its account exists: on to readConfig.
Proceed(g, op, x, cl) ==
    /\ grant[x].st = "granted" /\ grant[x].client = cl /\ Known(grant[x].user)
    /\ req' = [req EXCEPT ![g] = [NoReq EXCEPT !.op = op, !.at = "config", !.client = cl,
                                               !.user = grant[x].user, !.cred = x]]

Consumed(x) == grant' = [grant EXCEPT ![x] = Gone]

\* Variant: the code is looked up, and deleted by nobody.
X_ConsumeCode(g, k, cl) ==
    /\ Idle(g)
    /\ grant[k].st # "unborn"
    /\ UNCHANGED grant
    /\ Proceed(g, "code", k, cl) \/ UNCHANGED req
    /\ UNCHANGED <<accountVars, clients, store>>

\* grant_type=authorization_code: consumeCode; client, redirect URI and PKCE are
\* compared when the code is gone already.
ConsumeCode(g, k, cl) ==
    /\ Idle(g)
    /\ grant[k].st # "unborn"
    /\ Consumed(k)
    /\ Proceed(g, "code", k, cl) \/ UNCHANGED req
    /\ UNCHANGED <<accountVars, clients, store>>

\* grant_type=device_code: poll. Its other answers (slow_down, pending, another
\* client's code) change nothing.
PollDevice(g, d, cl) ==
    /\ Idle(g)
    /\ grant[d].client = cl
    /\ grant[d].st \in {"granted", "denied"}
    /\ Consumed(d)
    /\ Proceed(g, "device", d, cl)
       \/ /\ grant[d].st = "granted" => ~Known(grant[d].user)
          /\ UNCHANGED req
    /\ UNCHANGED <<accountVars, clients, store>>

----------------------------------------------------------------------------
(* The refresh-token store.                                                *)

\* append: stale tombstones go, and the new token of a family is added.
Append(t, table, family, user, client) ==
    /\ t \in Tokens \ minted
    /\ minted' = minted \cup {t}
    /\ \E old \in SUBSET {x \in Tokens : table[x] # None /\ table[x].used} :
         refresh' = [x \in Tokens |->
                       IF x = t THEN [family |-> family, user |-> user,
                                      client |-> client, used |-> FALSE]
                       ELSE IF x \in old THEN None ELSE table[x]]

\* The configuration is read and the account's first token issued.
Issue(g, t) ==
    /\ ReqAt(g, "config") /\ req[g].op \in {"code", "device"}
    /\ Append(t, refresh, t, req[g].user, req[g].client)
    /\ origin' = [origin EXCEPT ![t] = req[g].cred]
    /\ req' = [req EXCEPT ![g].at = "save", ![g].token = t]
    /\ UNCHANGED <<accountVars, clients, grant, refreshFile, dead, superseded, shuffled>>

\* No primary URL, no offline_access, or a refresh that is answered now.
Answer(g) ==
    /\ ReqAt(g, "config")
    /\ Finish(g)
    /\ UNCHANGED <<accountVars, clients, grant, store>>

Without(rows) == [t \in Tokens |-> IF t \in rows THEN None ELSE refresh[t]]
OfFamily(f) == {t \in Tokens : Row(t) /\ refresh[t].family = f}
OfUser(u) == {t \in Tokens : Row(t) /\ refresh[t].user = u}
OfClient(cl) == {t \in Tokens : Row(t) /\ refresh[t].client = cl}
Families(rows) == {refresh[t].family : t \in rows}

Rotated(g, t, k, cl, table) ==
    /\ Append(t, table, refresh[k].family, refresh[k].user, refresh[k].client)
    /\ req' = [req EXCEPT ![g] = [NoReq EXCEPT
                  !.op = "refresh", !.at = "save", !.token = t, !.family = refresh[k].family,
                  !.user = refresh[k].user, !.own = (refresh[k].client = cl)]]

\* Variant: the presented token is not marked as spent.
X_Rotate(g, t, k, cl) ==
    /\ Idle(g)
    /\ Row(k) /\ ~refresh[k].used
    /\ Rotated(g, t, k, cl, refresh)
    /\ UNCHANGED <<accountVars, clients, grant, origin, refreshFile, dead, superseded, shuffled>>

\* grant_type=refresh_token: rotate spends the token and adds its replacement.
Rotate(g, t, k, cl) ==
    /\ Idle(g)
    /\ Row(k) /\ ~refresh[k].used
    /\ Rotated(g, t, k, cl, [refresh EXCEPT ![k].used = TRUE])
    /\ UNCHANGED <<accountVars, clients, grant, origin, refreshFile, dead, superseded, shuffled>>

\* Removes rows and writes the file; their families are dead once that lands.
Revoke(g, op, rows, families, c) ==
    /\ refresh' = Without(rows)
    /\ req' = [req EXCEPT ![g] = [NoReq EXCEPT !.op = op, !.at = "save",
                                               !.gone = families, !.acct = c]]
    /\ UNCHANGED <<grant, origin, minted, refreshFile, dead, superseded, shuffled>>

\* rotate: REFRESH_TTL_MS have passed.
RotateExpired(g, k) ==
    /\ Idle(g)
    /\ Row(k) /\ ~refresh[k].used
    /\ Revoke(g, "expire", {k}, {}, None)
    /\ UNCHANGED <<accountVars, clients>>

\* Variant: only the presented token is dropped, not its family.
X_RevokeFamily(g, k) ==
    /\ Idle(g)
    /\ Row(k)
    /\ Revoke(g, "revoke", {k}, {refresh[k].family}, None)
    /\ UNCHANGED <<accountVars, clients>>

\* revokeFamily: a spent token is presented to rotate, a client revokes one
\* (POST /oidc/revoke), or an administrator the grant (revokeGrant).
RevokeFamily(g, k) ==
    /\ Idle(g)
    /\ Row(k)
    /\ Revoke(g, "revoke", OfFamily(refresh[k].family), {refresh[k].family}, None)
    /\ UNCHANGED <<accountVars, clients>>

\* deleteClient: the registration goes; its own write is left out.
DeleteClient(cl) ==
    /\ cl \in clients
    /\ clients' = clients \ {cl}
    /\ UNCHANGED <<accountVars, grant, req, store>>

\* ... and then the grants made under it.
RevokeForClient(g, cl) ==
    /\ Idle(g)
    /\ cl \notin clients
    /\ OfClient(cl) # {}
    /\ Revoke(g, "client", OfClient(cl), Families(OfClient(cl)), None)
    /\ UNCHANGED <<accountVars, clients>>

\* What an account had outstanding when its credentials were revoked.
Outstanding(u) ==
    {x \in Grants : grant[x].st = "granted" /\ grant[x].user = u}

Acknowledge(c, families) ==
    /\ CredentialsRevoked(c)
    /\ dead' = dead \cup families
    /\ superseded' = superseded \cup Outstanding(call[c].user)

\* revokeForUser, called back from deleteSessionsForUser.
RevokeForUser(g, c) ==
    LET u == call[c].user IN
    /\ Idle(g)
    /\ At(c, "revoke")
    /\ \A h \in Reqs : req[h].acct # c
    /\ IF OfUser(u) = {}
       THEN /\ Acknowledge(c, {})
            /\ UNCHANGED <<clients, grant, refresh, refreshFile, req, minted, origin, shuffled>>
       ELSE /\ Revoke(g, "user", OfUser(u), Families(OfUser(u)), c)
            /\ UNCHANGED <<accountVars, clients>>

RefreshWriting == {h \in Reqs : ReqAt(h, "write")}

\* persist, after its mkdir.
SerialiseRefresh(g) ==
    /\ ReqAt(g, "save")
    /\ req' = [h \in Reqs |->
                 IF h = g THEN [req[g] EXCEPT !.at = "write", !.snap = refresh,
                                              !.overlap = RefreshWriting # {}]
                 ELSE IF ReqAt(h, "write") THEN [req[h] EXCEPT !.overlap = TRUE]
                 ELSE req[h]]
    /\ UNCHANGED <<accountVars, clients, grant, store>>

RefreshLands(g) ==
    /\ ReqAt(g, "write")
    /\ refreshFile' = req[g].snap
    /\ shuffled' = req[g].overlap

\* A first token is answered.
IssueLands(g) ==
    /\ RefreshLands(g)
    /\ req[g].op \in {"code", "device", "expire"}
    /\ Finish(g)
    /\ UNCHANGED <<accountVars, clients, grant, refresh, minted, origin, dead, superseded>>

\* A rotation goes on: another client's token, or an account that is gone,
\* costs the family; otherwise the configuration is read.
RotateLands(g) ==
    LET f == req[g].family IN
    /\ ReqAt(g, "write") /\ req[g].op = "refresh"
    /\ RefreshLands(g)
    /\ IF req[g].own /\ Known(req[g].user)
       THEN /\ req' = [req EXCEPT ![g].at = "config", ![g].snap = None]
            /\ UNCHANGED refresh
       ELSE IF OfFamily(f) = {}
            THEN Finish(g) /\ UNCHANGED refresh
            ELSE /\ refresh' = Without(OfFamily(f))
                 /\ req' = [req EXCEPT ![g] = [NoReq EXCEPT !.op = "revoke", !.at = "save",
                                                            !.gone = {f}]]
    /\ UNCHANGED <<accountVars, clients, grant, minted, origin, dead, superseded>>

\* A revocation is acknowledged.
RevocationLands(g) ==
    /\ RefreshLands(g)
    /\ Finish(g)
    /\ \/ /\ req[g].op \in {"revoke", "client"}
          /\ dead' = dead \cup req[g].gone
          /\ UNCHANGED <<accountVars, superseded>>
       \/ /\ req[g].op = "user"
          /\ Acknowledge(req[g].acct, req[g].gone)
    /\ UNCHANGED <<clients, grant, refresh, minted, origin>>

\* The write throws, and with it the request, or the account call that waits.
RefreshWriteFails(g) ==
    /\ ReqAt(g, "write")
    /\ Finish(g)
    /\ call' = IF req[g].acct = None THEN call ELSE [call EXCEPT ![req[g].acct] = NoCall]
    /\ UNCHANGED <<users, sessions, usersFile, sessionsFile, failures, drawn, revoked,
                   disordered, clients, grant, store>>

\* The process dies: codes and device requests are forgotten.
RestartAll ==
    /\ Restart
    /\ refresh' = refreshFile
    /\ req' = [g \in Reqs |-> NoReq]
    /\ grant' = [x \in Grants |-> IF grant[x].st = "unborn" THEN Unborn
                                                            ELSE Gone]
    /\ dead' = IF shuffled
               THEN dead \ {refreshFile[t].family : t \in {x \in Tokens : refreshFile[x] # None}}
               ELSE dead
    /\ shuffled' = FALSE
    /\ UNCHANGED <<clients, refreshFile, minted, origin, superseded>>

OidcStep ==
    \/ \E u \in Users :
         \/ \E k \in Codes, cl \in Clients : CompleteAuthorize(k, u, cl)
         \/ \E d \in Devices : ApproveDevice(d, u) \/ DenyDevice(d, u)
    \/ \E x \in Grants : ExpireGrant(x)
    \/ \E cl \in Clients : DeleteClient(cl) \/ \E d \in Devices : Pair(d, cl)
    \/ \E g \in Reqs :
         \/ \E cl \in Clients :
              \/ \E k \in Codes : ConsumeCode(g, k, cl)
              \/ \E d \in Devices : PollDevice(g, d, cl)
              \/ \E t, k \in Tokens : Rotate(g, t, k, cl)
              \/ RevokeForClient(g, cl)
         \/ \E t \in Tokens : Issue(g, t) \/ RotateExpired(g, t) \/ RevokeFamily(g, t)
         \/ \E c \in Calls : RevokeForUser(g, c)
         \/ Answer(g) \/ SerialiseRefresh(g) \/ IssueLands(g) \/ RotateLands(g)
         \/ RevocationLands(g) \/ RefreshWriteFails(g)

\* The account calls that end in a revocation; the others share nothing with
\* the provider. Browser sessions are left to Accounts: there are none here, so
\* deleteSessionsForUser goes on to the callback at once.
RevokingCall ==
    \/ \E c \in Calls :
         \/ \E u \in Users : DeleteUser(c, u) \/ AdminSetPassword(c, u)
         \/ PasswordHashed(c) \/ SerialiseUsers(c) \/ DeleteSessionsForUser(c)
         \/ WriteFails(c)

OidcNext == \/ OidcStep
            \/ RevokingCall /\ UNCHANGED oidcVars
            \/ RestartAll

OidcSpec == OidcInit /\ [][OidcNext]_allVars

----------------------------------------------------------------------------
\* Types of the provider's variables.
OidcTypeOK ==
    /\ clients \subseteq Clients
    /\ grant \in [Grants -> GrantRecord]
    /\ refresh \in RefreshTable
    /\ refreshFile \in RefreshTable
    /\ req \in [Reqs -> ReqRecord]
    /\ minted \subseteq Tokens
    /\ origin \in [Tokens -> Grants \cup {None}]
    /\ dead \subseteq Tokens
    /\ superseded \subseteq Grants
    /\ shuffled \in BOOLEAN

OneLive(table) ==
    \A t1, t2 \in Tokens :
        /\ table[t1] # None /\ table[t2] # None
        /\ ~table[t1].used /\ ~table[t2].used
        /\ table[t1].family = table[t2].family
        => t1 = t2

\* However many requests present the tokens of a chain at once, at most one of
\* them is good, in memory and in every file the next process could read
\* (refresh.ts, rotate: the token is spent and replaced between two awaits).
OneTokenPerFamily == OneLive(refresh) /\ OneLive(refreshFile)

LiveFamilies(table) == {table[t].family : t \in {x \in Tokens : table[x] # None /\ ~table[x].used}}

\* A family whose revocation was acknowledged - a replay, a client's or an
\* administrator's revocation, a deleted client, a deleted account or one with a
\* new password - has no good token again, whatever rotations were in progress
\* (refresh.ts, rotate, revokeFamily, revokeForUser, revokeForClient; auth.ts,
\* deleteSessionsForUser), unless overlapping writes left an older file behind.
DeadFamiliesStayDead ==
    /\ dead \cap LiveFamilies(refresh) = {}
    /\ ~shuffled => dead \cap LiveFamilies(refreshFile) = {}

\* A code or an approved device request starts at most one chain (store.ts,
\* consumeCode; device.ts, poll), however often and by however many requests at
\* once it is presented.
GrantsAreSingleUse ==
    \A t1, t2 \in Tokens : origin[t1] # None /\ origin[t1] = origin[t2] => t1 = t2

\* auth.ts:448-450 of a deletion or a password reset: "nothing issued before now
\* should still work".
NothingIssuedBeforeWorks ==
    \A f \in LiveFamilies(refresh) : origin[f] \notin superseded
=============================================================================
