----------------------------- MODULE ProxyRoutes -----------------------------
(***************************************************************************)
(* The managed reverse proxy: ProxyStore (features/proxy/store.ts), which  *)
(* keeps its node, routes and last outcome in proxy.json, and ProxyManager *)
(* (manager.ts), which renders them and pushes them to Caddy on that node. *)
(* A call is cut at its awaits: the mkdir ahead of a write (the state is   *)
(* serialised after it), the write, and the push.  Pushes are not queued,  *)
(* and a push that the control plane gave up may still be loaded.          *)
(*                                                                         *)
(* A route is what decides where it may be rendered: a host port, which    *)
(* may be anywhere, or a container on a node.  Left out: host names, paths *)
(* and ports, disabled routes, and the container's own life (deploy and    *)
(* remove change nothing here: Caddy resumes its last configuration).      *)
(***************************************************************************)
EXTENDS Naturals, FiniteSets

CONSTANTS
    Nodes, Routes,
    Calls,     \* calls that may be in progress at once
    HostPort,
    MaxEdits,  \* bound on edits and explicit applies
    None

ASSUME ProxyAssumption ==
    /\ HostPort \notin Nodes
    /\ None \notin Nodes \cup {HostPort}
    /\ MaxEdits \in Nat

VARIABLES
    proxy,   \* ProxyStore.state: config, routes, lastApply
    file,    \* proxy.json
    call,    \* the calls in progress
    late,    \* pushes given up by their calls and not loaded yet
    caddy,   \* the routes that each node's Caddy serves
    edits    \* edits and applies so far

proxyVars == <<proxy, file, call, late, caddy, edits>>

RouteTable == [Routes -> Nodes \cup {HostPort, None}]

\* ok: lastApply, the outcome of an attempt to push.
State == [config : Nodes \cup {None}, routes : RouteTable, ok : BOOLEAN]

Empty == [config |-> None, routes |-> [r \in Routes |-> None], ok |-> FALSE]

\* alone: nothing else has been in progress since the push began.
NoCall == [at |-> "idle", op |-> "none", snap |-> Empty, node |-> None,
           body |-> Empty.routes, alone |-> FALSE]

ProxyInit ==
    /\ proxy = Empty /\ file = Empty
    /\ call = [c \in Calls |-> NoCall]
    /\ late = {}
    /\ caddy = [n \in Nodes |-> Empty.routes]
    /\ edits = 0

At(c, step) == call[c].at = step
Goto(c, step) == call' = [call EXCEPT ![c].at = step]

\* A call that begins is company for every other one.
Begin(c, op) ==
    /\ At(c, "idle") /\ edits < MaxEdits
    /\ edits' = edits + 1
    /\ call' = [d \in Calls |-> IF d = c THEN [NoCall EXCEPT !.at = "mkdir", !.op = op]
                                         ELSE [call[d] EXCEPT !.alone = FALSE]]

(***************************************************************************)
(* The store's operations, up to their first await.                        *)
(***************************************************************************)
\* The container routes that a proxy on node n could not render.
Stranded(n) == {r \in Routes : proxy.routes[r] \in Nodes \ {n}}

\* Variant: moving the proxy does not look at the routes.
X_SetConfig(c, n) ==
    /\ Begin(c, "config")
    /\ proxy' = [proxy EXCEPT !.config = n]
    /\ UNCHANGED <<file, late, caddy>>

\* setConfig: the proxy's node, or None to clear it.
SetConfig(c, n) ==
    /\ n # None => Stranded(n) = {}
    /\ Begin(c, "config")
    /\ proxy' = [proxy EXCEPT !.config = n]
    /\ UNCHANGED <<file, late, caddy>>

\* validateRoute: a container is to be on the proxy's node, if there is one.
Valid(target) == target \in Nodes /\ proxy.config # None => target = proxy.config

\* createRoute and updateRoute.
SaveRoute(c, r, target) ==
    /\ Valid(target)
    /\ Begin(c, "route")
    /\ proxy' = [proxy EXCEPT !.routes[r] = target]
    /\ UNCHANGED <<file, late, caddy>>

DeleteRoute(c, r) ==
    /\ proxy.routes[r] # None
    /\ Begin(c, "route")
    /\ proxy' = [proxy EXCEPT !.routes[r] = None]
    /\ UNCHANGED <<file, late, caddy>>

(***************************************************************************)
(* persist.                                                                *)
(***************************************************************************)
Serialise(c) ==
    /\ At(c, "mkdir")
    /\ call' = [call EXCEPT ![c].at = "write", ![c].snap = proxy]
    /\ UNCHANGED <<proxy, file, late, caddy, edits>>

(***************************************************************************)
(* apply.                                                                  *)
(***************************************************************************)
\* setLastApply, up to its first await.
Outcome(c, ok) ==
    /\ proxy' = [proxy EXCEPT !.ok = ok]
    /\ call'[c].at = "mkdir"

(* From the call to the request: the routes are rendered and pushed to the *)
(* node; or there is no proxy, its host is away or an address is not known *)
(* and the attempt has failed.  Beginning it breaks every other push's     *)
(* solitude.                                                               *)
Push(c) ==
    LET others == {d \in Calls \ {c} : ~At(d, "idle")}
        pushed == [NoCall EXCEPT !.op = "push"]
        with(rec) == [d \in Calls |-> IF d = c THEN rec
                                               ELSE [call[d] EXCEPT !.alone = FALSE]]
    IN  \/ /\ proxy.config # None
           /\ Stranded(proxy.config) = {}
           /\ call' = with([pushed EXCEPT !.at = "push", !.node = proxy.config,
                                          !.body = proxy.routes,
                                          !.alone = others = {} /\ late = {}])
           /\ UNCHANGED proxy
        \/ /\ call' = with([pushed EXCEPT !.at = "mkdir"])
           /\ Outcome(c, FALSE)

\* The write is renamed over the file; a route mutation then applies.
Saved(c) ==
    /\ At(c, "write")
    /\ file' = call[c].snap
    /\ \/ call[c].op = "route" /\ Push(c)
       \/ /\ call[c].op # "route"
          /\ call' = [call EXCEPT ![c] = NoCall]
          /\ UNCHANGED proxy
    /\ UNCHANGED <<late, caddy, edits>>

\* The write fails: the call is rejected, its change stays in memory.
SaveFails(c) ==
    /\ At(c, "mkdir") \/ At(c, "write")
    /\ call' = [call EXCEPT ![c] = NoCall]
    /\ UNCHANGED <<proxy, file, late, caddy, edits>>

\* The applyConfig operation.
Apply(c) ==
    /\ At(c, "idle") /\ edits < MaxEdits
    /\ edits' = edits + 1
    /\ Push(c)
    /\ UNCHANGED <<file, late, caddy>>

\* POST /load replaces Caddy's configuration, or is rejected as a whole.
Load(c) ==
    /\ At(c, "push")
    /\ \/ /\ caddy' = [caddy EXCEPT ![call[c].node] = call[c].body]
          /\ Goto(c, "loaded")
       \/ Goto(c, "rejected") /\ UNCHANGED caddy
    /\ UNCHANGED <<proxy, file, late, edits>>

\* Variant: any answer of Caddy counts as success.
X_Answered(c) ==
    /\ At(c, "loaded") \/ At(c, "rejected")
    /\ Goto(c, "mkdir")
    /\ Outcome(c, TRUE)
    /\ UNCHANGED <<file, late, caddy, edits>>

\* Caddy's answer arrives.
Answered(c) ==
    /\ At(c, "loaded") \/ At(c, "rejected")
    /\ Goto(c, "mkdir")
    /\ Outcome(c, At(c, "loaded"))
    /\ UNCHANGED <<file, late, caddy, edits>>

\* The request times out or its link is lost; it may have arrived.
GivenUp(c) ==
    /\ At(c, "push") \/ At(c, "loaded") \/ At(c, "rejected")
    /\ late' = IF At(c, "push") THEN late \cup {[node |-> call[c].node, body |-> call[c].body]}
                                ELSE late
    /\ Goto(c, "mkdir")
    /\ Outcome(c, FALSE)
    /\ UNCHANGED <<file, caddy, edits>>

\* A push that was given up is loaded after all, or lost.
LoadLate ==
    \E p \in late :
        /\ late' = late \ {p}
        /\ \/ caddy' = [caddy EXCEPT ![p.node] = p.body]
           \/ UNCHANGED caddy
        /\ UNCHANGED <<proxy, file, call, edits>>

\* The control plane restarts (init reads the file); pushes under way remain.
Restart ==
    /\ proxy' = file
    /\ late' = late \cup {[node |-> call[c].node, body |-> call[c].body] :
                          c \in {d \in Calls : At(d, "push")}}
    /\ call' = [c \in Calls |-> NoCall]
    /\ UNCHANGED <<file, caddy, edits>>

ProxyNext ==
    \/ \E c \in Calls :
        \/ \E n \in Nodes \cup {None} : SetConfig(c, n)
        \/ \E r \in Routes, target \in Nodes \cup {HostPort} : SaveRoute(c, r, target)
        \/ \E r \in Routes : DeleteRoute(c, r)
        \/ Apply(c)
        \/ Serialise(c) \/ Saved(c) \/ SaveFails(c)
        \/ Load(c) \/ Answered(c) \/ GivenUp(c)
    \/ LoadLate \/ Restart

ProxySpec == ProxyInit /\ [][ProxyNext]_proxyVars

-----------------------------------------------------------------------------

Renderable(s) ==
    s.config # None => \A r \in Routes : s.routes[r] \in {s.config, HostPort, None}

(* store.ts:26-30: one route that cannot be rendered would take every      *)
(* other one down with it.  The two rules that keep such a route out, one  *)
(* from each side, hold together in whatever order calls and restarts come *)
(* and clearing the proxy's node in between does not open a way around.    *)
NoStrandedRoute == Renderable(proxy) /\ Renderable(file)

(* manager.ts:106-110.  A push that succeeds, with nothing else in         *)
(* progress, leaves Caddy on the proxy's node serving the present routes,  *)
(* whatever pushes were lost, rejected, given up or overtaken before.      *)
ApplyHeals ==
    [][\A c \in Calls :
        call[c].alone /\ call[c].at \in {"loaded", "rejected"} /\ call'[c].at = "mkdir"
        /\ proxy'.ok
        => caddy[proxy.config] = proxy.routes]_proxyVars
=============================================================================
