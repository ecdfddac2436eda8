------------------------------- MODULE MCParts -------------------------------
(* Parts of the system that do not interact, on small instances: the       *)
(* managed reverse proxy, the authorization rules, accounts with their     *)
(* roles, the dashboard's polling cache, the renaming of a selection, the  *)
(* reader of bodies that carry files, and the installation of agents.  A   *)
(* behaviour is one of a single part, and the others stand still, so that  *)
(* their states add up instead of multiplying.                             *)
EXTENDS ProxyRoutes, Permissions, Directory, HostPoll, BatchRename, Multipart,
        AgentInstall, TLC

CONSTANTS n1, n2, r1, r2, p1, p2, hostPort, none, x, y,
          ann, mail, viewer, custom, s1, s2, w1, w2,
          f1, f2, f3, f4, crlf, dash, other,
          t1, t2, o1, o2

MCSensitive == {[path |-> <<x>>, wild |-> FALSE], [path |-> <<x, y>>, wild |-> FALSE]}

MCEntries == <<f1, f2, f3>>

MCSymbols == {crlf, dash, other}

MCDelimiter == <<crlf, dash, other>>

\* Contents that begin, or end, like the delimiter, and others.
MCPayloads ==
  {<<>>, <<crlf>>, <<crlf, dash>>, <<dash, crlf, dash>>, <<crlf, crlf, dash>>}

\* Tokens are random UUIDs; installs, and writes of a file, are told apart by
\* what they do.
Symmetry == Permutations(Tokens) \cup Permutations(Ops) \cup Permutations(Saves)

VARIABLE part

questionVars == <<grants, need>>

partsVars == <<part, proxyVars, questionVars, directoryVars, pollVars, renameVars, multipartVars,
               installVars>>

\* Every part but the one in question starts, and stays, in one state.
MCInit ==
    /\ part \in {"proxy", "permissions", "directory", "dashboard", "rename", "multipart",
                "install"}
    /\ ProxyInit
    /\ DirectoryInit
    /\ PollInit
    /\ IF part = "permissions" THEN QuestionInit
       ELSE grants = {} /\ need = [path |-> <<>>, wild |-> TRUE]
    /\ part = "rename" \/ to = [MCEntries EXCEPT ![1] = f4]
    /\ RenameInit
    /\ part = "multipart" \/ (content = [i \in Parts |-> <<>>] /\ size = [i \in Parts |-> 0])
    /\ MultipartInit
    /\ InstallInit

MCNext ==
    \/ part = "proxy" /\ ProxyNext
       /\ UNCHANGED <<part, questionVars, directoryVars, pollVars, renameVars, multipartVars,
                      installVars>>
    \/ part = "directory" /\ DirectoryNext
       /\ UNCHANGED <<part, proxyVars, questionVars, pollVars, renameVars, multipartVars,
                      installVars>>
    \/ part = "dashboard" /\ PollNext
       /\ UNCHANGED <<part, proxyVars, questionVars, directoryVars, renameVars, multipartVars,
                      installVars>>
    \/ part = "rename" /\ RenameNext
       /\ UNCHANGED <<part, proxyVars, questionVars, directoryVars, pollVars, multipartVars,
                      installVars>>
    \/ part = "multipart" /\ MultipartNext
       /\ UNCHANGED <<part, proxyVars, questionVars, directoryVars, pollVars, renameVars,
                      installVars>>
    \/ part = "install" /\ InstallNext
       /\ UNCHANGED <<part, proxyVars, questionVars, directoryVars, pollVars, renameVars,
                      multipartVars>>

MCSpec == MCInit /\ [][MCNext]_partsVars
=============================================================================
