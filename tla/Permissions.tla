----------------------------- MODULE Permissions -----------------------------
(***************************************************************************)
(* The authorization rules (shared/src/permissions.ts and the gate of the  *)
(* RPC surface, http/rpc.ts).                                              *)
(*                                                                         *)
(* A permission is a dotted name, or a prefix followed by a wildcard:      *)
(* "panel.files.read", "panel.files.*", "*".  A name is kept here as the   *)
(* sequence of its segments, which is what startsWith on a prefix that     *)
(* ends in a dot compares.  Left out: which node gates which operation     *)
(* (the registry is data) and the spelling of segments.                    *)
(***************************************************************************)
EXTENDS Naturals, Sequences, SequencesExt

CONSTANTS
    Segments,   \* what stands between two dots
    Depth,      \* bound on the length of a name that is held or asked for
    Sensitive   \* SENSITIVE_PERMISSIONS

\* Names of at most n segments.
Names(n) == BoundedSeq(Segments, n)

\* A node that is neither a prefix nor "*": what an operation requires.
Node(n) == [path : Names(n) \ {<<>>}, wild : {FALSE}]

\* isValidPermission: a node, or any prefix - the empty one too - and "*".
Permission == Node(Depth) \cup [path : Names(Depth), wild : {TRUE}]

ASSUME PermissionsAssumption ==
    /\ Segments # {}
    /\ Depth \in Nat
    /\ Sensitive \subseteq Node(Depth)

VARIABLES
    grants,   \* the permissions of an account
    need      \* what it is asked for

\* permissionMatches.  The prefix ends in a dot: it is not below itself.
PermissionMatches(held, required) ==
    \/ held = required
    \/ /\ held.wild
       /\ IF required.wild THEN IsPrefix(held.path, required.path)
                           ELSE IsStrictPrefix(held.path, required.path)

HasPermission(held, required) ==
    IF required \in Sensitive THEN required \in held
    ELSE \E h \in held : PermissionMatches(h, required)

\* Variant: one direction, as for an operation.
X_PermissionOverlaps(a, b) == PermissionMatches(a, b)

\* permissionOverlaps: the question of the proxy's gate.
PermissionOverlaps(a, b) == PermissionMatches(a, b) \/ PermissionMatches(b, a)

\* Variant: sensitive nodes are matched like any other.
X_HasAnyPermission(held, required) ==
    \/ required = {}
    \/ \E r \in required, h \in held : PermissionOverlaps(h, r)

\* hasAnyPermission: a gate that names nothing is open.
HasAnyPermission(held, required) ==
    \/ required = {}
    \/ \E r \in required : IF r \in Sensitive THEN r \in held
                           ELSE \E h \in held : PermissionOverlaps(h, r)

\* userCan: the owner's bypass is nowhere else.
UserCan(user, required) == user.isOwner \/ HasPermission(user.permissions, required)

-----------------------------------------------------------------------------

(* One question, of any kind, put to what any account may hold.            *)
QuestionInit == grants \in SUBSET Permission /\ need \in Permission

QuestionSpec == QuestionInit /\ [][FALSE]_<<grants, need>>

(* permissions.ts:522-524: two permissions overlap if and only if some     *)
(* concrete node exists that both would match.  The rule compares prefixes *)
(* in both directions and never looks at a node; one more segment than the *)
(* longer of the two is enough to find the node.                           *)
OverlapIsShared ==
    \A h \in grants :
        PermissionOverlaps(h, need) <=>
            \E n \in Node(Depth + 1) : PermissionMatches(h, n) /\ PermissionMatches(need, n)

(* permissions.ts:528-538: the gate of an operation looks one way, the     *)
(* proxy's gate both ways, because it is asked about patterns.  Asked      *)
(* about a concrete node they agree: nobody comes through the proxy's gate *)
(* on a node, a sensitive one above all, whose operations are closed to    *)
(* them, and what opens the operations opens the gate.                     *)
GatesAgreeOnNodes ==
    need \in Node(Depth) =>
        (UserCan([isOwner |-> FALSE, permissions |-> grants], need)
            <=> HasAnyPermission(grants, {need}))
=============================================================================
