--------------------------- MODULE HostStateProofs ---------------------------
(***************************************************************************)
(* Proofs about what the control plane has on file of a host against what  *)
(* is on the host: the tokens of installed agents (AgentInstall) and the   *)
(* registry of compose stacks (ComposeStacks).  The theorems hold of every *)
(* behaviour of the two, whichever operations overlap and fail.            *)
(***************************************************************************)
EXTENDS AgentInstall, ComposeStacks, TLAPS

(***************************************************************************)
(* Installation of agents.                                                 *)
(***************************************************************************)

(* The inductive invariant.                                                *)

\* The machine an idle operation's record names is never looked at.
Operation == [st : {"idle", "minting", "writing"}, m : Machines \cup {Idle.m},
              tok : Tokens \cup {NoToken}, snap : Registry, force : BOOLEAN, link : BOOLEAN]

Busy(o) == ops[o].st # "idle"

TypeInv ==
  /\ durable \in Registry /\ tokenFile \in Registry /\ config \in Registry /\ held \in Registry
  /\ ops \in [Ops -> Operation]
  /\ service \in [Machines -> Process]
  /\ leaving \subseteq Machines /\ jobs \subseteq Jobs
  /\ \A o \in Ops : Busy(o) => ops[o].m \in Machines /\ ops[o].tok \in Tokens

\* The service runs with what is in its config.json.
Ready(m) == service[m] # "off" /\ held[m] = config[m]

\* What a job that has passed its check may count on, while it is the only one.
JobFits(j) ==
  /\ j.st \in {"approved", "configured"} /\ ~j.again => j.m \notin installed
  /\ j.st = "unit" /\ ~j.again /\ service[j.m] # "off" => Ready(j.m)
  /\ j.st = "enabled" /\ ~j.again => Ready(j.m)
  /\ j.st = "restarted" => Ready(j.m)

\* The jobs of `m` that have passed their check.
AtWork(m) == {j \in jobs : j.m = m /\ j.st # "asked"}

InHand(m) ==
  /\ m \in leaving => Ready(m) /\ AtWork(m) = {}
  /\ \A j \in AtWork(m) : JobFits(j) /\ AtWork(m) = {j}

StartInv ==
  /\ \A m \in Machines : service[m] # "off" => m \in installed
  /\ \A j \in jobs : j.st \in {"unit", "enabled"} => j.m \in installed
  /\ \A m \in Machines \ overlapped : InHand(m)

\* What is about to be written has the token it is written for, unless that was
\* replaced since.
MintInv ==
  \A o \in Ops : ops[o].st = "writing" =>
    \/ ops[o].snap[ops[o].m] = ops[o].tok
    \/ durable[ops[o].m] # ops[o].tok

\* The host has been told the machine's current token.
Sent(m) == config[m] = durable[m] \/ \E j \in jobs : j.m = m /\ j.tok = durable[m]

FileInv == \A m \in Machines \ overwritten : Sent(m) => tokenFile[m] = durable[m]

-----------------------------------------------------------------------------
(* The records that steps make of others.                                  *)

LEMMA OperationFields ==
  ASSUME NEW r \in Operation, NEW b \in BOOLEAN, NEW table \in Registry
  PROVE  /\ [r EXCEPT !.link = b] \in Operation
         /\ [r EXCEPT !.link = b].st = r.st /\ [r EXCEPT !.link = b].m = r.m
         /\ [r EXCEPT !.link = b].tok = r.tok /\ [r EXCEPT !.link = b].snap = r.snap
         /\ [r EXCEPT !.st = "writing", !.snap = table] \in Operation
         /\ [r EXCEPT !.st = "writing", !.snap = table].st = "writing"
         /\ [r EXCEPT !.st = "writing", !.snap = table].m = r.m
         /\ [r EXCEPT !.st = "writing", !.snap = table].tok = r.tok
         /\ [r EXCEPT !.st = "writing", !.snap = table].snap = table
BY DEF Operation

LEMMA IdleType == Idle \in Operation /\ Idle.st = "idle" /\ NoTokens \in Registry
<1>1. NoTokens \in Registry
  BY DEF NoTokens, Registry
<1>. QED BY <1>1 DEF Idle, Operation

(* Links that break change nothing else of an operation.                   *)
LEMMA HungUpKeeps ==
  ASSUME ops \in [Ops -> Operation], NEW ms
  PROVE  /\ HungUp(ms) \in [Ops -> Operation]
         /\ \A o \in Ops : /\ HungUp(ms)[o].st = ops[o].st /\ HungUp(ms)[o].m = ops[o].m
                           /\ HungUp(ms)[o].tok = ops[o].tok /\ HungUp(ms)[o].snap = ops[o].snap
<1>. DEFINE cut(o) == [ops[o] EXCEPT !.link = @ /\ ops[o].m \notin ms]
<1>1. ASSUME NEW o \in Ops
      PROVE  /\ cut(o) \in Operation /\ cut(o).st = ops[o].st /\ cut(o).m = ops[o].m
             /\ cut(o).tok = ops[o].tok /\ cut(o).snap = ops[o].snap
  <2>1. ops[o] \in Operation
    OBVIOUS
  <2>2. (ops[o].link /\ ops[o].m \notin ms) \in BOOLEAN
    OBVIOUS
  <2>3. cut(o) = [ops[o] EXCEPT !.link = (ops[o].link /\ ops[o].m \notin ms)]
    OBVIOUS
  <2>4. ops[o].snap \in Registry
    BY <2>1 DEF Operation
  <2>. DEFINE b == ops[o].link /\ ops[o].m \notin ms
  <2>5. ASSUME NEW x \in BOOLEAN
        PROVE  /\ [ops[o] EXCEPT !.link = x] \in Operation
               /\ [ops[o] EXCEPT !.link = x].st = ops[o].st
               /\ [ops[o] EXCEPT !.link = x].m = ops[o].m
               /\ [ops[o] EXCEPT !.link = x].tok = ops[o].tok
               /\ [ops[o] EXCEPT !.link = x].snap = ops[o].snap
    <3>. HIDE DEF b, cut
    <3>. QED BY <2>1 DEF Operation
  <2>6. b \in BOOLEAN /\ cut(o) = [ops[o] EXCEPT !.link = b]
    BY <2>2, <2>3
  <2>. HIDE DEF cut, b
  <2>. QED BY <2>5, <2>6
<1>2. HungUp(ms) = [o \in Ops |-> cut(o)]
  BY DEF HungUp
<1>. HIDE DEF cut
<1>. QED BY <1>1, <1>2

LEMMA JobFields ==
  ASSUME NEW j \in Jobs, NEW b \in BOOLEAN
  PROVE  /\ [j EXCEPT !.st = "approved", !.again = b] \in Jobs
         /\ [j EXCEPT !.st = "approved", !.again = b].m = j.m
         /\ [j EXCEPT !.st = "approved", !.again = b].tok = j.tok
         /\ \A st \in {"configured", "unit", "enabled", "restarted"} :
              /\ [j EXCEPT !.st = st] \in Jobs
              /\ [j EXCEPT !.st = st].m = j.m /\ [j EXCEPT !.st = st].tok = j.tok
BY DEF Jobs

(* Whatever a job does, the jobs there are go on for the machine and with  *)
(* the token they were asked for.                                          *)
LEMMA JobsAfter ==
  ASSUME NEW j \in jobs, j \in Jobs,
         \/ CheckInstalled(j) \/ WriteConfig(j) \/ WriteUnit(j) \/ EnableNow(j)
         \/ RestartAgain(j) \/ StepAside(j) \/ InstallFails(j)
  PROVE  \A i \in jobs' : i \in jobs \/ (i \in Jobs /\ i.tok = j.tok /\ i.m = j.m)
<1>1. CASE CheckInstalled(j)
  <2>. DEFINE b == j.m \in installed
              checked == [j EXCEPT !.st = "approved", !.again = b]
  <2>1. jobs' \subseteq jobs \cup {checked} /\ b \in BOOLEAN
    BY <1>1 DEF CheckInstalled
  <2>2. checked \in Jobs /\ checked.tok = j.tok /\ checked.m = j.m
    <3>. HIDE DEF b
    <3>. QED BY <2>1, JobFields
  <2>. HIDE DEF checked
  <2>. QED BY <2>1, <2>2
<1>2. CASE WriteConfig(j) \/ WriteUnit(j) \/ EnableNow(j) \/ RestartAgain(j)
  <2>1. PICK st \in {"configured", "unit", "enabled", "restarted"} : JobGoes(j, st)
    BY <1>2 DEF WriteConfig, WriteUnit, EnableNow, RestartAgain
  <2>. DEFINE k == [j EXCEPT !.st = st]
  <2>2. jobs' \subseteq jobs \cup {k}
    BY <2>1 DEF JobGoes
  <2>3. k \in Jobs /\ k.tok = j.tok /\ k.m = j.m
    BY <2>1, JobFields
  <2>. HIDE DEF k
  <2>. QED BY <2>2, <2>3
<1>3. CASE StepAside(j) \/ InstallFails(j)
  BY <1>3 DEF StepAside, InstallFails
<1>. QED BY <1>1, <1>2, <1>3

-----------------------------------------------------------------------------
(* The types.                                                              *)

LEMMA TypeInit == InstallInit => TypeInv
BY IdleType DEF InstallInit, TypeInv, NoTokens, Registry, Process, Busy

LEMMA TypeNext ==
  ASSUME TypeInv, [InstallNext]_installVars PROVE TypeInv'
<1>1. ASSUME UNCHANGED <<durable, tokenFile, config, held, ops, service, leaving, jobs>> PROVE TypeInv'
  BY <1>1 DEF TypeInv, Busy
<1>2. ASSUME NEW m \in Machines, MintToken(m) \/ ExpireToken(m) \/ StartLive(m) \/ ConnectLive(m)
      PROVE  TypeInv'
  BY <1>1, <1>2 DEF MintToken, ExpireToken, StartLive, ConnectLive, host, control
<1>3. ASSUME NEW m \in Machines, DropLive(m) \/ StopLive(m) PROVE TypeInv'
  <2>1. ops' = HungUp({m}) /\ jobs' \subseteq jobs /\ leaving' \subseteq leaving
          /\ UNCHANGED <<durable, tokenFile, config, held, service>>
    BY <1>3 DEF DropLive, StopLive
  <2>2. /\ HungUp({m}) \in [Ops -> Operation]
        /\ \A o \in Ops : /\ HungUp({m})[o].st = ops[o].st /\ HungUp({m})[o].m = ops[o].m
                          /\ HungUp({m})[o].tok = ops[o].tok
    BY HungUpKeeps DEF TypeInv
  <2>. QED BY <2>1, <2>2 DEF TypeInv, Busy
<1>4. ASSUME NEW m \in Machines, ConnectService(m) \/ DropService(m) \/ RestartService(m)
      PROVE  TypeInv'
  <2>1. UNCHANGED <<durable, tokenFile, config, ops, leaving, jobs>>
    BY <1>4 DEF ConnectService, DropService, RestartService, control
  <2>2. service' \in [Machines -> Process] /\ held' \in Registry
    BY <1>4 DEF TypeInv, Registry, Process, ConnectService, DropService, RestartService
  <2>. QED BY <2>1, <2>2 DEF TypeInv, Busy
<1>5. ASSUME NEW o \in Ops, NEW m \in Machines, NEW t \in Tokens, NEW force \in BOOLEAN,
             InstallService(o, m, t, force)
      PROVE  TypeInv'
  <2>. DEFINE begun == [st |-> "minting", m |-> m, tok |-> t, snap |-> NoTokens,
                        force |-> force, link |-> TRUE]
  <2>1. begun \in Operation /\ begun.m = m /\ begun.tok = t
    BY IdleType DEF Operation
  <2>2. ops' = [ops EXCEPT ![o] = begun]
    BY <1>5 DEF InstallService
  <2>3. durable' \in Registry /\ UNCHANGED <<tokenFile, config, held, service, leaving, jobs>>
    BY <1>5 DEF InstallService, TypeInv, Registry, host
  <2>. HIDE DEF begun
  <2>. QED BY <2>1, <2>2, <2>3 DEF TypeInv, Busy
<1>6. ASSUME NEW o \in Ops, SerialiseTokens(o) PROVE TypeInv'
  <2>. DEFINE cut == [ops[o] EXCEPT !.st = "writing", !.snap = durable]
  <2>1. /\ ops' = [ops EXCEPT ![o] = cut]
        /\ UNCHANGED <<durable, tokenFile, config, held, service, leaving, jobs>>
    BY <1>6 DEF SerialiseTokens, TypeInv, host
  <2>2. cut \in Operation /\ cut.m = ops[o].m /\ cut.tok = ops[o].tok
    BY OperationFields DEF TypeInv
  <2>3. Busy(o)
    BY <1>6 DEF SerialiseTokens, Busy
  <2>. HIDE DEF cut
  <2>. QED BY <2>1, <2>2, <2>3 DEF TypeInv, Busy
<1>10. ASSUME NEW o \in Ops, MintFails(o) PROVE TypeInv'
  <2>1. /\ ops' = [ops EXCEPT ![o] = Idle]
        /\ UNCHANGED <<durable, tokenFile, config, held, service, leaving, jobs>>
    BY <1>10 DEF MintFails, host
  <2>. QED BY <2>1, IdleType DEF TypeInv, Busy
<1>7. ASSUME NEW o \in Ops, TokenWritten(o) PROVE TypeInv'
  <2>1. ops[o] \in Operation /\ ops[o].m \in Machines /\ ops[o].tok \in Tokens
    BY <1>7 DEF TypeInv, Busy, TokenWritten
  <2>2. ops[o].snap \in Registry /\ ops[o].force \in BOOLEAN
    BY <2>1 DEF Operation
  <2>. DEFINE asked == [m |-> ops[o].m, tok |-> ops[o].tok, force |-> ops[o].force,
                        again |-> FALSE, st |-> "asked"]
  <2>3. asked \in Jobs
    BY <2>1, <2>2 DEF Jobs
  <2>4. /\ tokenFile' = ops[o].snap /\ ops' = [ops EXCEPT ![o] = Idle] /\ jobs' \subseteq jobs \cup {asked}
        /\ UNCHANGED <<durable, config, held, service, leaving>>
    BY <1>7 DEF TokenWritten
  <2>. HIDE DEF asked
  <2>. QED BY <2>1, <2>2, <2>3, <2>4, IdleType DEF TypeInv, Busy
<1>8. CASE RestartControl
  <2>1. /\ durable' = tokenFile /\ ops' = [o \in Ops |-> Idle] /\ UNCHANGED <<tokenFile, leaving, jobs, config, held>>
        /\ service' \in [Machines -> Process]
    BY <1>8 DEF RestartControl, TypeInv, Process
  <2>. QED BY <2>1, IdleType DEF TypeInv, Busy
<1>9. ASSUME NEW j \in jobs,
             \/ CheckInstalled(j) \/ WriteConfig(j) \/ WriteUnit(j) \/ EnableNow(j)
             \/ RestartAgain(j) \/ StepAside(j) \/ InstallFails(j)
      PROVE  TypeInv'
  <2>1. j \in Jobs /\ j.m \in Machines /\ j.tok \in Tokens
    BY DEF TypeInv, Jobs
  <2>2. UNCHANGED <<durable, tokenFile, ops>> /\ leaving' \subseteq Machines
    BY <1>9, <2>1 DEF CheckInstalled, WriteConfig, WriteUnit, EnableNow, RestartAgain, StepAside,
                      InstallFails, control, TypeInv
  <2>3. jobs' \subseteq Jobs
    BY <1>9, <2>1, JobsAfter DEF TypeInv
  <2>4. config' \in Registry
    BY <1>9, <2>1 DEF CheckInstalled, WriteConfig, WriteUnit, EnableNow, RestartAgain, StepAside,
                      InstallFails, TypeInv, Registry
  <2>5. held' \in Registry /\ service' \in [Machines -> Process]
    BY <1>9, <2>1 DEF CheckInstalled, WriteConfig, WriteUnit, EnableNow, RestartAgain, StepAside,
                      InstallFails, TypeInv, Registry, Process
  <2>. QED BY <2>2, <2>3, <2>4, <2>5 DEF TypeInv, Busy
<1>. QED BY <1>1, <1>2, <1>3, <1>4, <1>5, <1>6, <1>7, <1>8, <1>9, <1>10 DEF InstallNext, installVars

-----------------------------------------------------------------------------
(* The live agent and the service it hands over to.                        *)

LEMMA StartInit == InstallInit => StartInv
BY DEF InstallInit, StartInv, InHand, AtWork

(* What a step leaves of a machine it does no job of: it may end jobs or   *)
(* take an exit back, and the service may be started with what is in its   *)
(* config.json.                                                            *)
LEMMA InHandKept ==
  ASSUME NEW m \in Machines, InHand(m),
         m \in leaving' => m \in leaving,
         m \in installed' => m \in installed,
         config'[m] = config[m],
         \/ held'[m] = held[m] /\ (service'[m] = "off" <=> service[m] = "off")
         \/ held'[m] = config[m] /\ service'[m] # "off",
         AtWork(m)' \subseteq AtWork(m)
  PROVE  InHand(m)'
<1>1. Ready(m) => Ready(m)'
  BY DEF Ready
<1>2. ASSUME NEW j \in AtWork(m)' PROVE JobFits(j)' /\ AtWork(m)' = {j}
  <2>1. j \in AtWork(m) /\ j.m = m /\ JobFits(j) /\ AtWork(m) = {j}
    BY <1>2 DEF InHand, AtWork
  <2>2. AtWork(m)' = {j}
    BY <2>1
  <2>3. JobFits(j)'
    BY <1>1, <2>1 DEF JobFits, Ready
  <2>. QED BY <2>2, <2>3
<1>3. m \in leaving' => Ready(m)' /\ AtWork(m)' = {}
  BY <1>1 DEF InHand
<1>. QED BY <1>2, <1>3 DEF InHand

LEMMA StartKept ==
  ASSUME StartInv, UNCHANGED <<service, installed, config, held>>,
         leaving' \subseteq leaving, jobs' \subseteq jobs,
         \A m \in overlapped : m \in overlapped' \/ (m \notin leaving' /\ AtWork(m)' = {})
  PROVE  StartInv'
<1>1. ASSUME NEW m \in Machines \ overlapped' PROVE InHand(m)'
  <2>1. CASE m \in overlapped
    BY <1>1, <2>1 DEF InHand
  <2>2. CASE m \notin overlapped
    <3>1. InHand(m) /\ AtWork(m)' \subseteq AtWork(m)
      BY <1>1, <2>2 DEF StartInv, AtWork
    <3>. QED BY <3>1, InHandKept
  <2>. QED BY <2>1, <2>2
<1>. QED BY <1>1 DEF StartInv

(* A job that goes a step further is the only one of its machine at work.  *)
LEMMA JobGoesOn ==
  ASSUME NEW j \in jobs, NEW k, j.m \in Machines, InHand(j.m), j.st # "asked", k.m = j.m,
         k.st # "asked",
         jobs' = (jobs \ {j}) \cup {k}, leaving' = leaving, JobFits(k)'
  PROVE  InHand(j.m)'
<1>1. j \in AtWork(j.m)
  BY DEF AtWork
<1>2. AtWork(j.m) = {j} /\ j.m \notin leaving
  BY <1>1 DEF InHand
<1>3. AtWork(j.m)' = {k}
  BY <1>2 DEF AtWork
<1>. QED BY <1>2, <1>3 DEF InHand

LEMMA StartNext ==
  ASSUME TypeInv, StartInv, [InstallNext]_installVars PROVE StartInv'
<1>1. ASSUME UNCHANGED <<service, installed, config, held, leaving, overlapped>>, jobs' \subseteq jobs
      PROVE  StartInv'
  BY <1>1, StartKept
<1>2. ASSUME NEW m \in Machines, MintToken(m) \/ ExpireToken(m) \/ StartLive(m) \/ ConnectLive(m)
                                   \/ DropLive(m)
      PROVE  StartInv'
  BY <1>1, <1>2 DEF MintToken, ExpireToken, StartLive, ConnectLive, DropLive, host, control
<1>3. ASSUME NEW m \in Machines, StopLive(m) PROVE StartInv'
  <2>1. /\ UNCHANGED <<service, installed, config, held>>
        /\ leaving' = leaving \ {m} /\ overlapped' = overlapped \ {m}
        /\ jobs' = {j \in jobs : j.m # m}
    BY <1>3 DEF StopLive
  <2>2. AtWork(m)' = {} /\ leaving' \subseteq leaving /\ jobs' \subseteq jobs
    BY <2>1 DEF AtWork
  <2>. QED BY <2>1, <2>2, StartKept
<1>4. ASSUME NEW m \in Machines, ConnectService(m) \/ DropService(m) \/ RestartService(m)
      PROVE  StartInv'
  <2>1. UNCHANGED <<installed, config, leaving, jobs, overlapped>>
    BY <1>4 DEF ConnectService, DropService, RestartService
  <2>2. \A x \in Machines : service'[x] # "off" => service[x] # "off" \/ x \in installed
    BY <1>4 DEF ConnectService, DropService, RestartService, TypeInv
  <2>3. ASSUME NEW x \in Machines
        PROVE  \/ held'[x] = held[x] /\ (service'[x] = "off" <=> service[x] = "off")
               \/ held'[x] = config[x] /\ service'[x] # "off"
    BY <1>4 DEF ConnectService, DropService, RestartService, TypeInv, Registry
  <2>4. ASSUME NEW x \in Machines \ overlapped' PROVE InHand(x)'
    <3>1. InHand(x) /\ AtWork(x)' \subseteq AtWork(x)
      BY <2>1, <2>4 DEF StartInv, AtWork
    <3>. QED BY <2>1, <2>3, <3>1, InHandKept
  <2>. QED BY <2>1, <2>2, <2>4 DEF StartInv
<1>5. ASSUME NEW o \in Ops, NEW m \in Machines, NEW t \in Tokens, NEW force \in BOOLEAN,
             InstallService(o, m, t, force)
      PROVE  StartInv'
  BY <1>1, <1>5 DEF InstallService, host
<1>6. ASSUME NEW o \in Ops, SerialiseTokens(o) \/ MintFails(o) PROVE StartInv'
  BY <1>1, <1>6 DEF SerialiseTokens, MintFails, host
<1>7. ASSUME NEW o \in Ops, TokenWritten(o) PROVE StartInv'
  <2>1. UNCHANGED <<service, installed, config, held, leaving, overlapped>>
          /\ \A j \in jobs' : j \in jobs \/ j.st = "asked"
    BY <1>7 DEF TokenWritten
  <2>2. ASSUME NEW m \in Machines \ overlapped' PROVE InHand(m)'
    <3>1. InHand(m) /\ AtWork(m)' \subseteq AtWork(m)
      BY <2>1, <2>2 DEF StartInv, AtWork
    <3>. QED BY <2>1, <3>1, InHandKept
  <2>. QED BY <2>1, <2>2 DEF StartInv
<1>8. CASE RestartControl
  <2>1. UNCHANGED <<installed, config, held, leaving, jobs, overlapped>>
          /\ \A m \in Machines : service'[m] = "off" <=> service[m] = "off"
    BY <1>8 DEF RestartControl
  <2>2. ASSUME NEW m \in Machines \ overlapped' PROVE InHand(m)'
    <3>1. InHand(m) /\ AtWork(m)' \subseteq AtWork(m)
      BY <2>1, <2>2 DEF StartInv, AtWork
    <3>. QED BY <2>1, <3>1, InHandKept
  <2>. QED BY <2>1, <2>2 DEF StartInv
<1>9. ASSUME NEW j \in jobs, CheckInstalled(j) PROVE StartInv'
  <2>1. j \in Jobs /\ j.m \in Machines /\ j.st = "asked"
          /\ UNCHANGED <<service, installed, config, held, leaving>>
    BY <1>9 DEF TypeInv, CheckInstalled, Jobs
  <2>2. CASE jobs' = jobs \ {j} /\ overlapped' = overlapped
    BY <1>1, <2>1, <2>2
  <2>. DEFINE b == j.m \in installed
              checked == [j EXCEPT !.st = "approved", !.again = b]
  <2>3. CASE /\ jobs' = (jobs \ {j}) \cup {checked}
             /\ overlapped' = IF j.m \in leaving \/ \E i \in jobs : i.m = j.m /\ i.st # "asked"
                              THEN overlapped \cup {j.m} ELSE overlapped
    <3>1. b \in BOOLEAN /\ (b <=> j.m \in installed)
      OBVIOUS
    <3>2. checked.m = j.m /\ checked.again = b /\ checked.st = "approved"
      <4>. HIDE DEF b
      <4>. QED BY <2>1, <3>1 DEF Jobs
    <3>5. PICK k : k = checked
      OBVIOUS
    <3>6. k.m = j.m /\ (k.again <=> j.m \in installed) /\ k.st = "approved"
            /\ jobs' = (jobs \ {j}) \cup {k}
      <4>. HIDE DEF checked
      <4>. QED BY <2>3, <3>2, <3>5
    <3>. HIDE DEF checked
    <3>3. ASSUME NEW m \in Machines \ overlapped', m # j.m PROVE InHand(m)'
      <4>1. InHand(m) /\ AtWork(m)' \subseteq AtWork(m)
        BY <2>3, <3>3, <3>6 DEF StartInv, AtWork
      <4>. QED BY <2>1, <4>1, InHandKept
    <3>4. ASSUME j.m \notin overlapped' PROVE InHand(j.m)'
      <4>1. j.m \notin leaving /\ AtWork(j.m) = {}
        BY <2>3, <3>4 DEF AtWork
      <4>2. AtWork(j.m)' = {k}
        BY <3>6, <4>1 DEF AtWork
      <4>3. JobFits(k)'
        BY <2>1, <3>6 DEF JobFits
      <4>. QED BY <2>1, <4>1, <4>2, <4>3 DEF InHand
    <3>. QED BY <2>1, <3>3, <3>4, <3>6 DEF StartInv
  <2>. QED BY <1>9, <2>2, <2>3 DEF CheckInstalled
<1>10. ASSUME NEW j \in jobs, WriteConfig(j) \/ WriteUnit(j) \/ EnableNow(j) \/ RestartAgain(j)
       PROVE  StartInv'
  <2>1. j \in Jobs /\ j.m \in Machines /\ j.st # "asked" /\ j.again \in BOOLEAN
          /\ UNCHANGED <<leaving, overlapped>>
    BY <1>10 DEF TypeInv, Jobs, WriteConfig, WriteUnit, EnableNow, RestartAgain
  <2>. DEFINE to == IF j.st = "approved" THEN "configured" ELSE
                    IF j.st = "configured" THEN "unit" ELSE
                    IF j.st = "unit" THEN "enabled" ELSE "restarted"
              k == [j EXCEPT !.st = to]
  <2>2. jobs' = (jobs \ {j}) \cup {k}
    BY <1>10 DEF WriteConfig, WriteUnit, EnableNow, RestartAgain, JobGoes
  <2>3. /\ k.m = j.m /\ k.again = j.again /\ k.st # "asked"
        /\ j.st = "approved" => k.st = "configured"
        /\ j.st = "configured" => k.st = "unit"
        /\ j.st = "unit" => k.st = "enabled"
        /\ j.st = "enabled" => k.st = "restarted"
    BY <2>1 DEF Jobs
  <2>4. \A x \in Machines : x # j.m => /\ x \in installed' => x \in installed
                                      /\ config'[x] = config[x] /\ held'[x] = held[x]
                                      /\ service'[x] = service[x]
    BY <1>10 DEF WriteConfig, WriteUnit, EnableNow, RestartAgain, TypeInv, Registry
  <2>5. \A x \in Machines : service'[x] # "off" => x \in installed'
    <3>1. \A x \in Machines : x # j.m /\ service'[x] # "off" => x \in installed'
      BY <1>10, <2>4 DEF StartInv, WriteConfig, WriteUnit, EnableNow, RestartAgain
    <3>2. service'[j.m] # "off" => j.m \in installed'
      BY <1>10, <2>1 DEF StartInv, WriteConfig, WriteUnit, EnableNow, RestartAgain
    <3>. QED BY <3>1, <3>2
  <2>8. k.st \in {"unit", "enabled"} => j.m \in installed'
    BY <1>10, <2>1, <2>3 DEF StartInv, WriteConfig, WriteUnit, EnableNow, RestartAgain
  <2>9. installed \subseteq installed'
    BY <1>10 DEF WriteConfig, WriteUnit, EnableNow, RestartAgain
  <2>. HIDE DEF k
  <2>6. ASSUME NEW m \in Machines \ overlapped', m # j.m PROVE InHand(m)'
    <3>1. InHand(m) /\ AtWork(m)' \subseteq AtWork(m)
      BY <2>1, <2>2, <2>3, <2>6 DEF StartInv, AtWork
    <3>. QED BY <2>1, <2>4, <2>6, <3>1, InHandKept
  <2>7. ASSUME j.m \notin overlapped' PROVE InHand(j.m)'
    <3>1. InHand(j.m)
      BY <2>1, <2>7 DEF StartInv
    <3>2. JobFits(j)
      BY <2>1, <3>1 DEF InHand, AtWork
    <3>3. JobFits(k)'
      <4>1. CASE WriteConfig(j)
        BY <2>3, <3>2, <4>1 DEF WriteConfig, JobFits
      <4>2. CASE WriteUnit(j)
        BY <2>1, <2>3, <3>2, <4>2 DEF WriteUnit, JobFits, StartInv
      <4>3. CASE EnableNow(j)
        <5>1. service[j.m] # "off" /\ ~j.again => Ready(j.m)
          BY <3>2, <4>3 DEF EnableNow, JobFits
        <5>2. service[j.m] = "off" => Ready(j.m)'
          BY <2>1, <4>3 DEF EnableNow, Ready, TypeInv, Registry
        <5>3. service[j.m] # "off" => (Ready(j.m)' <=> Ready(j.m))
          BY <4>3 DEF EnableNow, Ready
        <5>4. k.st = "enabled"
          BY <2>3, <4>3 DEF EnableNow
        <5>. QED BY <2>3, <5>1, <5>2, <5>3, <5>4 DEF JobFits
      <4>4. CASE RestartAgain(j)
        <5>1. Ready(j.m)'
          BY <2>1, <4>4 DEF RestartAgain, Ready, TypeInv, Registry
        <5>2. k.st = "restarted"
          BY <2>3, <4>4 DEF RestartAgain
        <5>. QED BY <2>3, <5>1, <5>2 DEF JobFits
      <4>. QED BY <1>10, <4>1, <4>2, <4>3, <4>4
    <3>. QED BY <2>1, <2>2, <2>3, <3>1, <3>3, JobGoesOn
  <2>. QED BY <2>1, <2>2, <2>3, <2>5, <2>6, <2>7, <2>8, <2>9 DEF StartInv
<1>11. ASSUME NEW j \in jobs, StepAside(j) PROVE StartInv'
  <2>1. /\ leaving' = leaving \cup {j.m} /\ jobs' = jobs \ {j} /\ j.m \in Machines
        /\ j.st = (IF j.again THEN "restarted" ELSE "enabled")
        /\ UNCHANGED <<service, installed, config, held, overlapped>>
    BY <1>11 DEF StepAside, TypeInv, Jobs
  <2>2. ASSUME NEW m \in Machines \ overlapped', m # j.m PROVE InHand(m)'
    <3>1. InHand(m) /\ AtWork(m)' \subseteq AtWork(m)
      BY <2>1, <2>2 DEF StartInv, AtWork
    <3>. QED BY <2>1, <2>2, <3>1, InHandKept
  <2>3. ASSUME j.m \notin overlapped' PROVE InHand(j.m)'
    <3>1. InHand(j.m) /\ j \in AtWork(j.m)
      BY <2>1, <2>3 DEF StartInv, AtWork
    <3>2. JobFits(j) /\ AtWork(j.m) = {j}
      BY <3>1 DEF InHand
    <3>3. Ready(j.m)
      BY <2>1, <3>2 DEF JobFits
    <3>4. AtWork(j.m)' = {}
      BY <2>1, <3>2 DEF AtWork
    <3>. QED BY <2>1, <3>3, <3>4 DEF InHand, Ready
  <2>. QED BY <2>1, <2>2, <2>3 DEF StartInv
<1>12. ASSUME NEW j \in jobs, InstallFails(j) PROVE StartInv'
  BY <1>1, <1>12 DEF InstallFails
<1>13. CASE UNCHANGED installVars
  BY <1>1, <1>13 DEF installVars
<1>. QED BY <1>2, <1>3, <1>4, <1>5, <1>6, <1>7, <1>8, <1>9, <1>10, <1>11, <1>12, <1>13 DEF InstallNext

(* HandedOver: while a live agent is about to exit, the service it exits   *)
(* for runs with what is in config.json.  What carries it: only one job of *)
(* a machine is past its check as long as none overlap, and a job that     *)
(* leaves a running service alone after enable --now is one that had found *)
(* nothing installed, or that restarts it (agent-cli.ts, installSelf).     *)
THEOREM HandsOver == InstallSpec => []HandedOver
<1>1. InstallInit => TypeInv /\ StartInv
  BY TypeInit, StartInit
<1>2. TypeInv /\ StartInv /\ [InstallNext]_installVars => (TypeInv /\ StartInv)'
  BY TypeNext, StartNext
<1>3. TypeInv /\ StartInv => HandedOver
  BY DEF TypeInv, StartInv, InHand, HandedOver, Ready
<1>. QED BY <1>1, <1>2, <1>3, PTL DEF InstallSpec

-----------------------------------------------------------------------------
(* The tokens.                                                             *)

LEMMA MintInit == InstallInit => MintInv /\ FileInv
BY IdleType DEF InstallInit, MintInv, FileInv

LEMMA MintKept ==
  ASSUME TypeInv, MintInv, FileInv, UNCHANGED <<durable, tokenFile, overwritten>>,
         \A o \in Ops : \/ ops'[o] = Idle
                        \/ /\ ops'[o].st = ops[o].st /\ ops'[o].m = ops[o].m
                           /\ ops'[o].tok = ops[o].tok /\ ops'[o].snap = ops[o].snap,
         \A m \in Machines : config'[m] = config[m] \/ \E j \in jobs : j.m = m /\ config'[m] = j.tok,
         \A i \in jobs' : \E j \in jobs : i.tok = j.tok /\ i.m = j.m
  PROVE  MintInv' /\ FileInv'
<1>1. MintInv'
  BY IdleType DEF MintInv
<1>2. \A m \in Machines : Sent(m)' => Sent(m)
  BY DEF Sent
<1>3. FileInv'
  BY <1>2 DEF FileInv
<1>. QED BY <1>1, <1>3

LEMMA MintNext ==
  ASSUME TypeInv, MintInv, FileInv, [InstallNext]_installVars
  PROVE  MintInv' /\ FileInv'
<1>1. ASSUME UNCHANGED <<durable, tokenFile, overwritten, ops, config>>, jobs' \subseteq jobs
      PROVE  MintInv' /\ FileInv'
  BY <1>1, MintKept
<1>2. ASSUME NEW m \in Machines,
             \/ MintToken(m) \/ ExpireToken(m) \/ StartLive(m) \/ ConnectLive(m)
             \/ ConnectService(m) \/ DropService(m) \/ RestartService(m)
      PROVE  MintInv' /\ FileInv'
  BY <1>1, <1>2 DEF MintToken, ExpireToken, StartLive, ConnectLive, ConnectService, DropService,
                    RestartService, host, control
<1>3. ASSUME NEW m \in Machines, DropLive(m) \/ StopLive(m) PROVE MintInv' /\ FileInv'
  <2>1. /\ ops' = HungUp({m}) /\ jobs' \subseteq jobs
        /\ UNCHANGED <<durable, tokenFile, overwritten, config>>
    BY <1>3 DEF DropLive, StopLive
  <2>2. \A o \in Ops : /\ HungUp({m})[o].st = ops[o].st /\ HungUp({m})[o].m = ops[o].m
                       /\ HungUp({m})[o].tok = ops[o].tok /\ HungUp({m})[o].snap = ops[o].snap
    BY HungUpKeeps DEF TypeInv
  <2>. QED BY <2>1, <2>2, MintKept
<1>4. ASSUME NEW o \in Ops, NEW m \in Machines, NEW t \in Tokens, NEW force \in BOOLEAN,
             InstallService(o, m, t, force)
      PROVE  MintInv' /\ FileInv'
  <2>. DEFINE begun == [st |-> "minting", m |-> m, tok |-> t, snap |-> NoTokens,
                        force |-> force, link |-> TRUE]
  <2>1. /\ ops' = [ops EXCEPT ![o] = begun] /\ durable' = [durable EXCEPT ![m] = t]
        /\ overwritten' = overwritten \ {m} /\ UNCHANGED <<tokenFile, config, jobs>> /\ Fresh(t)
    BY <1>4 DEF InstallService, host
  <2>2. begun.st = "minting"
    OBVIOUS
  <2>. HIDE DEF begun
  <2>3. durable'[m] = t /\ \A x \in Machines : x # m => durable'[x] = durable[x]
    BY <2>1 DEF TypeInv, Registry
  <2>4. ASSUME NEW p \in Ops, ops'[p].st = "writing"
        PROVE  \/ ops'[p].snap[ops'[p].m] = ops'[p].tok
               \/ durable'[ops'[p].m] # ops'[p].tok
    <3>1. ops'[p] = ops[p] /\ ops[p].st = "writing"
      BY <2>1, <2>2, <2>4 DEF TypeInv
    <3>2. ops[p].m \in Machines /\ t # ops[p].tok
      BY <2>1, <3>1 DEF TypeInv, Busy, Fresh
    <3>3. CASE ops[p].snap[ops[p].m] = ops[p].tok
      BY <3>1, <3>3
    <3>4. CASE durable[ops[p].m] # ops[p].tok
      BY <2>3, <3>1, <3>2, <3>4
    <3>. QED BY <3>1, <3>3, <3>4 DEF MintInv
  <2>5. ASSUME NEW x \in Machines \ overwritten', Sent(x)' PROVE tokenFile'[x] = durable'[x]
    <3>1. x # m
      BY <2>1, <2>3, <2>5 DEF Sent, Fresh
    <3>2. x \notin overwritten /\ Sent(x)
      BY <2>1, <2>3, <2>5, <3>1 DEF Sent
    <3>. QED BY <2>1, <2>3, <3>1, <3>2 DEF FileInv
  <2>. QED BY <2>4, <2>5 DEF MintInv, FileInv
<1>5. ASSUME NEW o \in Ops, SerialiseTokens(o) PROVE MintInv' /\ FileInv'
  <2>. DEFINE cut == [ops[o] EXCEPT !.st = "writing", !.snap = durable]
  <2>1. /\ ops' = [ops EXCEPT ![o] = cut]
        /\ UNCHANGED <<durable, tokenFile, overwritten, config, jobs>>
    BY <1>5 DEF SerialiseTokens, TypeInv, host
  <2>2. cut.m = ops[o].m /\ cut.tok = ops[o].tok /\ cut.snap = durable
    <3>1. ops[o] \in Operation
      BY DEF TypeInv
    <3>. QED BY <3>1 DEF Operation
  <2>. HIDE DEF cut
  <2>3. ops'[o] = cut /\ \A p \in Ops : p # o => ops'[p] = ops[p]
    BY <2>1, <2>2 DEF TypeInv
  <2>4. MintInv'
    BY <2>1, <2>2, <2>3 DEF MintInv
  <2>5. FileInv'
    BY <2>1 DEF FileInv, Sent
  <2>. QED BY <2>4, <2>5
<1>6. ASSUME NEW o \in Ops, MintFails(o) PROVE MintInv' /\ FileInv'
  <2>1. /\ ops' = [ops EXCEPT ![o] = Idle]
        /\ UNCHANGED <<durable, tokenFile, overwritten, config, jobs>>
    BY <1>6 DEF MintFails, host
  <2>2. \A p \in Ops : ops'[p] = Idle \/ ops'[p] = ops[p]
    BY <2>1 DEF TypeInv
  <2>. QED BY <2>1, <2>2, MintKept
<1>7. ASSUME NEW o \in Ops, TokenWritten(o) PROVE MintInv' /\ FileInv'
  <2>1. /\ tokenFile' = ops[o].snap /\ ops' = [ops EXCEPT ![o] = Idle] /\ durable' = durable
        /\ config' = config /\ ops[o].st = "writing" /\ ops[o].m \in Machines
    BY <1>7 DEF TokenWritten, TypeInv, Busy
  <2>2. MintInv'
    BY <2>1, IdleType DEF MintInv, TypeInv
  <2>3. \A i \in jobs' : i \in jobs \/ (i.m = ops[o].m /\ i.tok = ops[o].tok)
    BY <1>7 DEF TokenWritten
  <2>4. ASSUME NEW x \in Machines \ overwritten', Sent(x)' PROVE tokenFile'[x] = durable'[x]
    <3>1. CASE Sent(x)
      <4>1. CASE x \in overwritten
        BY <1>7, <2>1, <2>4, <4>1 DEF TokenWritten
      <4>2. CASE x \notin overwritten
        <5>1. tokenFile[x] = durable[x]
          BY <3>1, <2>4, <4>2 DEF FileInv
        <5>. QED BY <1>7, <2>1, <2>4, <5>1 DEF TokenWritten
      <4>. QED BY <4>1, <4>2
    <3>2. CASE ~Sent(x)
      <4>1. x = ops[o].m /\ ops[o].tok = durable[x]
        BY <2>1, <2>3, <2>4, <3>2 DEF Sent
      <4>. QED BY <2>1, <4>1 DEF MintInv
    <3>. QED BY <3>1, <3>2
  <2>. QED BY <2>2, <2>4 DEF FileInv
<1>8. CASE RestartControl
  <2>1. durable' = tokenFile /\ tokenFile' = tokenFile /\ \A o \in Ops : ops'[o] = Idle
    BY <1>8 DEF RestartControl
  <2>. QED BY <2>1, IdleType DEF MintInv, FileInv
<1>9. ASSUME NEW j \in jobs,
             \/ CheckInstalled(j) \/ WriteConfig(j) \/ WriteUnit(j) \/ EnableNow(j)
             \/ RestartAgain(j) \/ StepAside(j) \/ InstallFails(j)
      PROVE  MintInv' /\ FileInv'
  <2>1. UNCHANGED <<durable, tokenFile, overwritten, ops>> /\ j \in Jobs /\ j.m \in Machines
    BY <1>9 DEF CheckInstalled, WriteConfig, WriteUnit, EnableNow, RestartAgain, StepAside,
                InstallFails, control, TypeInv, Jobs
  <2>2. \A m \in Machines : config'[m] = config[m] \/ (m = j.m /\ config'[m] = j.tok)
    BY <1>9, <2>1 DEF CheckInstalled, WriteConfig, WriteUnit, EnableNow, RestartAgain, StepAside,
                      InstallFails, TypeInv, Registry
  <2>3. \A i \in jobs' : i \in jobs \/ (i.tok = j.tok /\ i.m = j.m)
    BY <1>9, <2>1, JobsAfter
  <2>4. \A i \in jobs' : \E k \in jobs : i.tok = k.tok /\ i.m = k.m
    BY <2>3
  <2>5. \A m \in Machines : config'[m] = config[m] \/ \E k \in jobs : k.m = m /\ config'[m] = k.tok
    BY <2>2
  <2>. QED BY <2>1, <2>4, <2>5, MintKept
<1>10. CASE UNCHANGED installVars
  BY <1>1, <1>10 DEF installVars
<1>. QED BY <1>2, <1>3, <1>4, <1>5, <1>6, <1>7, <1>8, <1>9, <1>10 DEF InstallNext

LEMMA Minted == InstallSpec => [](TypeInv /\ MintInv /\ FileInv)
<1>1. InstallInit => TypeInv /\ MintInv /\ FileInv
  BY TypeInit, MintInit
<1>2. (TypeInv /\ MintInv /\ FileInv) /\ [InstallNext]_installVars
        => (TypeInv /\ MintInv /\ FileInv)'
  BY TypeNext, MintNext
<1>. QED BY <1>1, <1>2, PTL DEF InstallSpec

LEMMA FileHasIt == FileInv => ConfiguredIsDurable
BY DEF FileInv, Sent, ConfiguredIsDurable

(* ConfiguredIsDurable: a token that an agent was configured with and that *)
(* is accepted is in agent-tokens.json, unless an older table was renamed  *)
(* over it: the token is in every table serialised after it was minted,    *)
(* and it is minted and written before the agent hears of it               *)
(* (node-server.ts, mintAgentToken).                                       *)
THEOREM ConfiguredStaysOnFile == InstallSpec => []ConfiguredIsDurable
BY Minted, FileHasIt, PTL

(* OnlyReinstallRevokes: a restart of the control plane takes such a token *)
(* away from no agent, since it loads what is in the file; nothing but     *)
(* another install on the machine does (node-server.ts, init and           *)
(* mintAgentToken).                                                        *)
THEOREM RevokedByReinstall == InstallSpec => OnlyReinstallRevokes
<1>. DEFINE A == \A m \in Machines \ overwritten :
                   config[m] # NoToken /\ config[m] = durable[m] /\ config'[m] = config[m]
                     /\ durable'[m] # durable[m]
                   => \E o \in Ops : ops[o].st = "idle" /\ ops'[o].st = "minting" /\ ops'[o].m = m
<1>1. TypeInv /\ MintInv /\ FileInv /\ [InstallNext]_installVars => [A]_installVars
  <2>. SUFFICES ASSUME TypeInv, ConfiguredIsDurable, InstallNext, NEW m \in Machines \ overwritten,
                       config[m] # NoToken, config[m] = durable[m], durable'[m] # durable[m]
                PROVE  \E o \in Ops : ops[o].st = "idle" /\ ops'[o].st = "minting" /\ ops'[o].m = m
    BY FileHasIt
  <2>1. CASE RestartControl
    BY <2>1 DEF RestartControl, ConfiguredIsDurable
  <2>2. ASSUME NEW o \in Ops, NEW x \in Machines, NEW t \in Tokens, NEW force \in BOOLEAN,
               InstallService(o, x, t, force)
        PROVE  \E p \in Ops : ops[p].st = "idle" /\ ops'[p].st = "minting" /\ ops'[p].m = m
    <3>1. x = m
      BY <2>2 DEF InstallService, TypeInv, Registry
    <3>2. ops[o].st = "idle" /\ ops'[o].st = "minting" /\ ops'[o].m = x
      BY <2>2 DEF InstallService, TypeInv
    <3>. QED BY <3>1, <3>2
  <2>3. ASSUME NEW x \in Machines,
               \/ MintToken(x) \/ ExpireToken(x) \/ StartLive(x) \/ ConnectLive(x)
               \/ DropLive(x) \/ StopLive(x)
               \/ ConnectService(x) \/ DropService(x) \/ RestartService(x)
        PROVE  durable' = durable
    BY <2>3 DEF MintToken, ExpireToken, StartLive, ConnectLive, DropLive, StopLive, ConnectService,
                DropService, RestartService, control
  <2>4. ASSUME NEW o \in Ops, SerialiseTokens(o) \/ MintFails(o) \/ TokenWritten(o)
        PROVE  durable' = durable
    BY <2>4 DEF SerialiseTokens, MintFails, TokenWritten
  <2>5. ASSUME NEW j \in jobs,
               \/ CheckInstalled(j) \/ WriteConfig(j) \/ WriteUnit(j) \/ EnableNow(j)
               \/ RestartAgain(j) \/ StepAside(j) \/ InstallFails(j)
        PROVE  durable' = durable
    BY <2>5 DEF CheckInstalled, WriteConfig, WriteUnit, EnableNow, RestartAgain, StepAside,
                InstallFails, control
  <2>. QED BY <2>1, <2>2, <2>3, <2>4, <2>5 DEF InstallNext
<1>. QED BY <1>1, Minted, PTL DEF InstallSpec, OnlyReinstallRevokes

(***************************************************************************)
(* Compose stacks.                                                         *)
(***************************************************************************)

Stages == {"idle", "asking", "seen", "mkdir", "compose", "manifest", "dialog", "checking",
           "composing", "labels", "deleting", "rmdir", "saving"}
Removing == {"dialog", "checking", "composing", "labels", "deleting", "rmdir"}
Dirs == Folders \cup {NoFolder}
Sighting == [project : Projects, dir : Dirs]

Work == [op : {"none", "read", "create", "import", "remove"}, at : Stages,
         id : StackIds \cup {NoStack}, dir : Dirs, project : Projects \cup {NoStack},
         down : BOOLEAN, deleteDir : BOOLEAN, seen : SUBSET Sighting,
         alone : BOOLEAN, quiet : BOOLEAN, left : BOOLEAN]

\* A record of the registry, and a registry: the one in memory, a copy of it
\* on its way to the file, or what the file holds.
StackRecord == [project : Projects, dir : Dirs, adopted : BOOLEAN]
IsTable(table) == \A i \in DOMAIN table : table[i] \in StackRecord

\* How a removal of a project ended, if it did.
Verdict == {"no", "left", "raced", "alone"}

StackTypes ==
  /\ IsTable(registry) /\ IsTable(stackFile)
  /\ DOMAIN snapshot = StackCalls /\ \A c \in StackCalls : IsTable(snapshot[c])
  /\ work \in [StackCalls -> Work]
  /\ containers \in [Projects -> {"none", "running", "exited"}]
  /\ label \in [Projects -> Dirs]
  /\ removed \in [Projects -> Verdict]

\* What is known of a call from where it is.  A removal that nobody upset and
\* that did not pass over containers has none left when it deletes the record.
CallFits(w, docker) ==
  /\ w.at \notin {"idle", "asking", "seen", "saving"} => w.project \in Projects
  /\ w.alone \/ w.quiet => w.op = "remove" /\ w.at \in Removing
  /\ w.at # "seen" => w.seen = {}
  /\ \A o, q \in w.seen : o.project = q.project => o = q
  /\ w.quiet /\ ~w.left /\ (w.at \in {"deleting", "rmdir"} \/ (w.at = "dialog" /\ ~w.down))
       => docker[w.project] = "none"

Once(table) ==
  \A i, j \in DOMAIN table :
    table[i].adopted /\ table[j].adopted /\ table[i].project = table[j].project => i = j

Knows(table, p) == \E i \in DOMAIN table : table[i].project = p

CallsInv ==
  /\ \A c \in StackCalls : CallFits(work[c], containers)
  /\ \A c \in StackCalls : work[c].at # "saving" => snapshot[c] = Nothing
  /\ \A c, d \in StackCalls : work[c].alone /\ d # c => work[d].at = "idle"

OnceInv == Once(registry) /\ Once(stackFile) /\ \A c \in StackCalls : Once(snapshot[c])

\* What a project leaves behind that was removed alone: no record, no copy
\* of one, no container, and nobody who saw one.
GoneInv ==
  \A p \in Projects : removed[p] = "alone" =>
    /\ ~Knows(registry, p) /\ containers[p] = "none"
    /\ \A c \in StackCalls : ~Knows(snapshot[c], p)
    /\ \A c \in StackCalls : \A o \in work[c].seen : o.project # p
    /\ Knows(stackFile, p) => Unpromised(p)

StackInv == StackTypes /\ CallsInv /\ OnceInv /\ GoneInv

LEMMA NoCallFits ==
  /\ NoStackCall \in Work /\ \A docker : CallFits(NoStackCall, docker)
  /\ NoStackCall.at = "idle" /\ NoStackCall.seen = {} /\ ~NoStackCall.alone /\ ~NoStackCall.quiet
  /\ NoStackCall.op = "none"
BY DEF NoStackCall, Work, Stages, Dirs, CallFits

LEMMA NothingKnown == IsTable(Nothing) /\ Once(Nothing) /\ \A p : ~Knows(Nothing, p)
BY DEF Nothing, IsTable, Once, Knows

LEMMA StackStart == StackInit => StackInv
<1> SUFFICES ASSUME StackInit PROVE StackInv
  OBVIOUS
<1>1. StackTypes
  BY NoCallFits, NothingKnown DEF StackInit, StackTypes, Dirs, Verdict
<1>2. CallsInv
  BY NoCallFits DEF StackInit, CallsInv
<1>3. OnceInv
  BY NothingKnown DEF StackInit, OnceInv
<1>4. GoneInv
  BY DEF StackInit, GoneInv
<1> QED
  BY <1>1, <1>2, <1>3, <1>4 DEF StackInv

\* A call that is not alone, or not quiet, any more is otherwise as it was.
LEMMA NotAlone ==
  ASSUME NEW r \in Work, NEW b \in BOOLEAN, NEW w, w = [r EXCEPT !.alone = b]
  PROVE  /\ w \in Work /\ w.alone = b /\ w.quiet = r.quiet /\ w.left = r.left /\ w.op = r.op
         /\ w.at = r.at
         /\ w.project = r.project /\ w.down = r.down /\ w.seen = r.seen
BY DEF Work

LEMMA NotQuiet ==
  ASSUME NEW r \in Work, NEW b \in BOOLEAN, NEW w, w = [r EXCEPT !.quiet = b]
  PROVE  /\ w \in Work /\ w.quiet = b /\ w.alone = r.alone /\ w.left = r.left /\ w.op = r.op
         /\ w.at = r.at
         /\ w.project = r.project /\ w.down = r.down /\ w.seen = r.seen
BY DEF Work

-----------------------------------------------------------------------------
(* Steps of one call that leave the registry and the containers alone.     *)

\* A call goes on, and does not begin to write.
LEMMA GoesOn ==
  ASSUME StackInv, NEW c \in StackCalls, NEW w \in Work, work' = [work EXCEPT ![c] = w],
         CallFits(w, containers), w.alone => work[c].alone,
         work[c].at \notin {"idle", "saving"}, w.at # "saving",
         \A o \in w.seen : o \in work[c].seen \/ containers[o.project] # "none",
         UNCHANGED <<registry, stackFile, snapshot, containers, label, removed>>
  PROVE  StackInv'
<1>1. /\ work' \in [StackCalls -> Work] /\ work'[c] = w
      /\ \A d \in StackCalls \ {c} : work'[d] = work[d]
  BY DEF StackInv, StackTypes
<1>2. StackTypes'
  BY <1>1 DEF StackInv, StackTypes
<1>3. CallsInv'
  BY <1>1 DEF StackInv, CallsInv
<1>4. OnceInv'
  BY DEF StackInv, OnceInv
<1>5. GoneInv'
  <2>1. \A p \in Projects : Unpromised(p) => Unpromised(p)'
    BY <1>1 DEF Unpromised
  <2>2. \A d \in StackCalls : \A o \in work'[d].seen :
          o \in work[d].seen \/ containers[o.project] # "none"
    BY <1>1
  <2> QED
    BY <2>1, <2>2 DEF StackInv, GoneInv
<1> QED
  BY <1>2, <1>3, <1>4, <1>5 DEF StackInv

\* A call begins: nobody is alone any more, unless it is.
LEMMA Begins ==
  ASSUME StackInv, NEW c \in StackCalls, NEW w \in Work, BeginStackCall(c, w),
         CallFits(w, containers), w.at \notin {"idle", "saving"}, w.seen = {},
         w.op = "remove" => w.at \in Removing,
         UNCHANGED <<registry, stackFile, snapshot, containers, label, removed>>
  PROVE  StackInv'
<1> DEFINE only == /\ w.op = "remove" /\ \A e \in StackCalls \ {c} : work[e] = NoStackCall
           own == [w EXCEPT !.alone = only]
<1>1. /\ own \in Work /\ own.at = w.at /\ own.seen = {} /\ own.op = w.op /\ own.alone = only
      /\ CallFits(own, containers)
  BY DEF Work, CallFits
<1>2. /\ work[c] = NoStackCall /\ work'[c] = own
      /\ \A d \in StackCalls \ {c} : work'[d] = [work[d] EXCEPT !.alone = FALSE]
      /\ DOMAIN work' = StackCalls /\ work' = [d \in StackCalls |-> work'[d]]
  BY DEF BeginStackCall
<1>3. ASSUME NEW d \in StackCalls \ {c}
      PROVE  /\ work'[d] \in Work /\ work'[d].at = work[d].at /\ work'[d].seen = work[d].seen
             /\ work'[d].op = work[d].op /\ work'[d].project = work[d].project
             /\ ~work'[d].alone /\ CallFits(work'[d], containers)
  <2>1. work[d] \in Work /\ CallFits(work[d], containers)
    BY DEF StackInv, StackTypes, CallsInv
  <2> DEFINE r == work'[d]
             b == FALSE
  <2>2. b \in BOOLEAN /\ ~b /\ r = [work[d] EXCEPT !.alone = b]
    BY <1>2
  <2> HIDE DEF r, b
  <2>3. /\ r \in Work /\ r.alone = b /\ r.quiet = work[d].quiet /\ r.left = work[d].left
        /\ r.op = work[d].op /\ r.at = work[d].at /\ r.project = work[d].project
        /\ r.down = work[d].down /\ r.seen = work[d].seen
    BY <2>1, <2>2, NotAlone
  <2>4. ~r.alone
    BY <2>2, <2>3
  <2>5. CallFits(r, containers)
    BY <2>1, <2>3, <2>4 DEF CallFits
  <2> QED
    BY <2>3, <2>4, <2>5 DEF r
<1>4. only => \A d \in StackCalls \ {c} : work'[d].at = "idle"
  BY <1>3, NoCallFits
<1> HIDE DEF own, only
<1>5. StackTypes'
  <2>1. work' \in [StackCalls -> Work]
    BY <1>1, <1>2, <1>3
  <2> QED
    BY <2>1 DEF StackInv, StackTypes
<1>6. CallsInv'
  <2>1. \A d \in StackCalls : CallFits(work'[d], containers')
    BY <1>1, <1>2, <1>3
  <2>2. \A d \in StackCalls : work'[d].at # "saving" => snapshot'[d] = Nothing
    BY <1>1, <1>2, <1>3, NoCallFits DEF StackInv, CallsInv
  <2>3. \A d, e \in StackCalls : work'[d].alone /\ e # d => work'[e].at = "idle"
    BY <1>1, <1>2, <1>3, <1>4
  <2> QED
    BY <2>1, <2>2, <2>3 DEF CallsInv
<1>7. OnceInv'
  BY DEF StackInv, OnceInv
<1>8. GoneInv'
  <2>1. \A p \in Projects : Unpromised(p) => Unpromised(p)'
    BY <1>2, <1>3, NoCallFits DEF Unpromised
  <2>2. work'[c].seen = work[c].seen
    BY <1>1, <1>2, NoCallFits
  <2>3. \A d \in StackCalls : work'[d].seen = work[d].seen
    BY <1>3, <2>2
  <2> QED
    BY <2>1, <2>3 DEF StackInv, GoneInv
<1> QED
  BY <1>5, <1>6, <1>7, <1>8 DEF StackInv

\* A call that ends without having written.
LEMMA EndsEarly ==
  ASSUME StackInv, NEW c \in StackCalls, Ends(c), work[c].at \notin {"idle", "saving"},
         UNCHANGED <<registry, stackFile, snapshot, containers, label, removed>>
  PROVE  StackInv'
<1>1. NoStackCall \in Work /\ CallFits(NoStackCall, containers) /\ NoStackCall.at # "saving"
      /\ ~NoStackCall.alone /\ NoStackCall.seen = {}
  BY NoCallFits
<1>2. work' = [work EXCEPT ![c] = NoStackCall]
  BY DEF Ends
<1> QED
  BY <1>1, <1>2, GoesOn

\* A call that goes to another step, and has seen nothing.
LEMMA GoesTo ==
  ASSUME StackInv, NEW c \in StackCalls, NEW at \in Stages, Goes(c, at),
         work[c].at \notin {"idle", "asking", "seen", "saving"},
         at \notin {"idle", "asking", "seen", "saving"},
         work[c].quiet => at \in {"checking", "composing", "labels"},
         work[c].alone => at \in Removing,
         UNCHANGED <<registry, stackFile, snapshot, containers, label, removed>>
  PROVE  StackInv'
<1> DEFINE w == [work[c] EXCEPT !.at = at]
<1>1. work[c] \in Work /\ CallFits(work[c], containers)
  BY DEF StackInv, StackTypes, CallsInv
<1>2. /\ w \in Work /\ w.at = at /\ w.op = work[c].op /\ w.project = work[c].project
      /\ w.alone = work[c].alone /\ w.quiet = work[c].quiet /\ w.seen = work[c].seen
  BY <1>1 DEF Work
<1>3. work' = [work EXCEPT ![c] = w]
  BY DEF Goes
<1> HIDE DEF w
<1>4. CallFits(w, containers)
  BY <1>1, <1>2 DEF CallFits, Removing
<1> QED
  BY <1>2, <1>3, <1>4, GoesOn

(* A read of the host's section: the question, the answer, and a sync that *)
(* has nothing to adopt.                                                   *)
LEMMA Reading ==
  ASSUME StackInv, NEW c \in StackCalls,
         ListForHost(c) \/ DockerStacks(c) \/ (SyncHost(c) /\ Adoptable(work[c].seen) = {})
  PROVE  StackInv'
<1>1. CASE ListForHost(c)
  <2> DEFINE w == [NoStackCall EXCEPT !.op = "read", !.at = "asking"]
  <2>1. w \in Work /\ CallFits(w, containers)
        /\ w.at \notin {"idle", "saving"} /\ w.seen = {} /\ w.op # "remove"
    BY DEF NoStackCall, Work, Stages, Dirs, CallFits
  <2> QED
    BY <1>1, <2>1, Begins DEF ListForHost, hostVars
<1>2. CASE DockerStacks(c)
  <2> DEFINE seen == {[project |-> p, dir |-> label[p]] :
                        p \in {q \in Projects : containers[q] # "none"}}
             w == [work[c] EXCEPT !.at = "seen", !.seen = seen]
  <2>1. work[c] \in Work /\ CallFits(work[c], containers) /\ work[c].at = "asking"
    BY <1>2 DEF DockerStacks, StackInv, StackTypes, CallsInv
  <2>2. /\ seen \in SUBSET Sighting /\ \A o \in seen : containers[o.project] # "none"
        /\ \A o, q \in seen : o.project = q.project => o = q
    BY DEF StackInv, StackTypes, Sighting
  <2> HIDE DEF seen
  <2>3. /\ w \in Work /\ w.at = "seen" /\ w.seen = seen
        /\ w.alone = work[c].alone /\ w.quiet = work[c].quiet
    BY <2>1, <2>2 DEF Work, Stages
  <2>4. work' = [work EXCEPT ![c] = w]
    BY <1>2 DEF DockerStacks, seen
  <2> HIDE DEF w
  <2>5. CallFits(w, containers)
    BY <2>1, <2>2, <2>3 DEF CallFits, Removing
  <2>6. UNCHANGED <<registry, stackFile, snapshot, containers, label, removed>>
    BY <1>2 DEF DockerStacks, hostVars
  <2> QED
    BY <2>1, <2>2, <2>3, <2>4, <2>5, <2>6, GoesOn
<1>3. CASE SyncHost(c) /\ Adoptable(work[c].seen) = {}
  BY <1>3, EndsEarly DEF SyncHost, hostVars
<1> QED
  BY <1>1, <1>2, <1>3

(* The first steps of create and import, up to the registration.           *)
LEMMA Founding ==
  ASSUME StackInv, NEW c \in StackCalls,
         \/ MakeFolder(c) \/ WriteCompose(c)
         \/ \E i \in StackIds, d \in Folders : Create(c, i, d) \/ Import(c, i, d)
  PROVE  StackInv'
<1>1. CASE MakeFolder(c) \/ WriteCompose(c)
  <2>1. CallFits(work[c], containers)
    BY DEF StackInv, CallsInv
  <2>2. work[c].at \in {"mkdir", "compose"} /\ ~work[c].alone /\ ~work[c].quiet
    BY <1>1, <2>1 DEF MakeFolder, WriteCompose, CallFits, Removing
  <2> QED
    BY <1>1, <2>2, GoesTo DEF MakeFolder, WriteCompose, Stages
<1>2. ASSUME NEW i \in StackIds, NEW d \in Folders, Create(c, i, d) \/ Import(c, i, d)
      PROVE  StackInv'
  <2>1. ASSUME NEW op \in {"create", "import"}, NEW at \in {"mkdir", "manifest"},
               NEW w, w = [NoStackCall EXCEPT !.op = op, !.at = at, !.id = i, !.dir = d,
                                         !.project = Predicted[d]]
        PROVE  /\ w \in Work /\ CallFits(w, containers)
               /\ w.at \notin {"idle", "saving"} /\ w.seen = {} /\ w.op # "remove"
    BY <2>1, StacksAssumption DEF NoStackCall, Work, Stages, Dirs, CallFits
  <2> QED
    BY <1>2, <2>1, Begins DEF Create, Import, hostVars
<1> QED
  BY <1>1, <1>2

(* The removal dialog up to the verb, and a deletion that is refused or    *)
(* goes on to the directory.                                               *)
LEMMA Dialog ==
  ASSUME StackInv, NEW c \in StackCalls,
         \/ \E i \in StackIds, known \in BOOLEAN : OpenDialog(c, i, known)
         \/ \E yes \in BOOLEAN : Confirm(c, yes)
         \/ DirExists(c)
  PROVE  StackInv'
<1>1. ASSUME NEW i \in StackIds, NEW known \in BOOLEAN, OpenDialog(c, i, known)
      PROVE  StackInv'
  <2> DEFINE s == registry[i]
             some == containers[s.project] # "none"
             down == known /\ some
             left == some /\ ~known
             w == [NoStackCall EXCEPT !.op = "remove", !.at = "dialog", !.id = i, !.dir = s.dir,
                                 !.project = s.project, !.down = down, !.quiet = TRUE, !.left = left]
  <2>1. s \in StackRecord
    BY <1>1 DEF OpenDialog, StackInv, StackTypes, IsTable
  <2>2. s.dir \in Dirs /\ s.project \in Projects
    BY <2>1 DEF StackRecord
  <2>3. ~left /\ ~down => containers[s.project] = "none"
    OBVIOUS
  <2> HIDE DEF down, left
  <2>4. /\ w \in Work /\ w.op = "remove" /\ w.at = "dialog" /\ w.seen = {} /\ ~w.alone
        /\ w.project = s.project /\ (w.down <=> down) /\ (w.left <=> left)
    BY <2>2 DEF NoStackCall, Work, Stages, down, left
  <2>5. BeginStackCall(c, w)
    BY <1>1 DEF OpenDialog, down, left
  <2>6. UNCHANGED <<registry, stackFile, snapshot, containers, label, removed>>
    BY <1>1 DEF OpenDialog, hostVars
  <2> HIDE DEF w
  <2>7. CallFits(w, containers)
    BY <2>2, <2>3, <2>4 DEF CallFits, Removing
  <2> QED
    BY <2>4, <2>5, <2>6, <2>7, Begins DEF Removing
<1>2. ASSUME NEW yes \in BOOLEAN, Confirm(c, yes)
      PROVE  StackInv'
  <2>1. work[c] \in Work /\ CallFits(work[c], containers) /\ work[c].at = "dialog"
    BY <1>2 DEF Confirm, StackInv, StackTypes, CallsInv
  <2>2. UNCHANGED <<registry, stackFile, snapshot, containers, label, removed>>
    BY <1>2 DEF Confirm, hostVars
  <2>3. CASE Ends(c)
    BY <2>1, <2>2, <2>3, EndsEarly
  <2>4. CASE ~Ends(c)
    <3> DEFINE at == IF work[c].down THEN "checking" ELSE "deleting"
               w == [work[c] EXCEPT !.at = at, !.deleteDir = yes]
    <3>1. /\ w \in Work /\ w.at = at /\ w.op = work[c].op /\ w.project = work[c].project
          /\ w.alone = work[c].alone /\ w.quiet = work[c].quiet /\ w.left = work[c].left
          /\ w.seen = work[c].seen
      BY <2>1 DEF Work, Stages
    <3>2. work' = [work EXCEPT ![c] = w]
      BY <1>2, <2>4 DEF Confirm
    <3> HIDE DEF w
    <3>3. CallFits(w, containers)
      BY <2>1, <3>1 DEF CallFits, Removing
    <3> QED
      BY <2>1, <2>2, <3>1, <3>2, <3>3, GoesOn
  <2> QED
    BY <2>3, <2>4
<1>3. CASE DirExists(c)
  <2>1. work[c].at = "checking"
        /\ Goes(c, IF folder[work[c].dir] = "none" THEN "labels" ELSE "composing")
        /\ UNCHANGED <<registry, stackFile, snapshot, containers, label, removed>>
    BY <1>3 DEF DirExists, hostVars
  <2> QED
    BY <2>1, GoesTo DEF Stages, Removing
<1> QED
  BY <1>1, <1>2, <1>3

(* Containers go away: after them nobody has to take them down.            *)
LEMMA Emptying ==
  ASSUME StackInv, NEW c \in StackCalls, NEW p \in Projects, Emptied(p),
         NEW w \in Work, work' = [work EXCEPT ![c] = w], CallFits(w, containers'),
         w.alone => work[c].alone, work[c].at \notin {"idle", "saving"}, w.at # "saving", w.seen = {},
         UNCHANGED <<registry, stackFile, snapshot, removed>>
  PROVE  StackInv'
<1>1. /\ work' \in [StackCalls -> Work] /\ work'[c] = w
      /\ \A d \in StackCalls \ {c} : work'[d] = work[d]
  BY DEF StackInv, StackTypes
<1>2. /\ containers' \in [Projects -> {"none", "running", "exited"}]
      /\ label' \in [Projects -> Dirs]
      /\ \A q \in Projects : containers[q] = "none" => containers'[q] = "none"
  BY DEF Emptied, StackInv, StackTypes, Dirs
<1>3. StackTypes'
  BY <1>1, <1>2 DEF StackInv, StackTypes
<1>4. CallsInv'
  <2>1. ASSUME NEW d \in StackCalls PROVE CallFits(work'[d], containers')
    <3>1. CASE d = c
      BY <1>1, <3>1
    <3>2. CASE d # c
      <4>1. CallFits(work[d], containers) /\ work[d] \in Work
        BY DEF StackInv, StackTypes, CallsInv
      <4> QED
        BY <1>1, <1>2, <3>2, <4>1 DEF CallFits, Removing
    <3> QED
      BY <3>1, <3>2
  <2> QED
    BY <1>1, <2>1 DEF StackInv, CallsInv
<1>5. OnceInv'
  BY DEF StackInv, OnceInv
<1>6. GoneInv'
  <2>1. \A q \in Projects : Unpromised(q) => Unpromised(q)'
    BY <1>1 DEF Unpromised
  <2>2. \A d \in StackCalls : work'[d].seen = {} \/ work'[d].seen = work[d].seen
    BY <1>1
  <2> QED
    BY <1>2, <2>1, <2>2 DEF StackInv, GoneInv
<1> QED
  BY <1>3, <1>4, <1>5, <1>6 DEF StackInv

(* `down`, in the directory or by the label: it takes every container with *)
(* it, or the call remembers that it did not.                              *)
LEMMA TakingDown ==
  ASSUME StackInv, NEW c \in StackCalls,
         ComposeDown(c) \/ \E yes \in BOOLEAN : DownByLabel(c, yes)
  PROVE  StackInv'
<1> DEFINE p == work[c].project
<1>1. /\ work[c] \in Work /\ CallFits(work[c], containers) /\ work[c].at \in {"composing", "labels"}
      /\ UNCHANGED <<registry, stackFile, snapshot, removed>>
  BY DEF ComposeDown, DownByLabel, StackInv, StackTypes, CallsInv
<1>2. p \in Projects /\ work[c].seen = {}
  BY <1>1 DEF CallFits
<1>3. PICK leaves \in BOOLEAN :
        /\ GoesToDelete(c, leaves)
        /\ \/ Emptied(p)
           \/ UNCHANGED hostVars /\ (leaves \/ containers[p] = "none")
  <2>1. CASE ComposeDown(c)
    <3>1. CASE orphans[p]
      <4>1. GoesToDelete(c, TRUE) /\ UNCHANGED hostVars
        BY <2>1, <3>1 DEF ComposeDown, GoesToDelete
      <4> QED
        BY <4>1
    <3>2. CASE ~orphans[p]
      <4>1. GoesToDelete(c, FALSE) /\ Emptied(p)
        BY <2>1, <3>2 DEF ComposeDown, GoesToDelete
      <4> QED
        BY <4>1
    <3> QED
      BY <3>1, <3>2
  <2>2. ASSUME NEW yes \in BOOLEAN, DownByLabel(c, yes)
        PROVE  \E leaves \in BOOLEAN :
                 /\ GoesToDelete(c, leaves)
                 /\ \/ Emptied(p)
                    \/ UNCHANGED hostVars /\ (leaves \/ containers[p] = "none")
    BY <2>2 DEF DownByLabel
  <2> QED
    BY <2>1, <2>2
<1> DEFINE b == work[c].left \/ leaves
           w == [work[c] EXCEPT !.at = "deleting", !.left = b]
<1>4. b \in BOOLEAN /\ work' = [work EXCEPT ![c] = w] /\ (~b => ~leaves /\ ~work[c].left)
  BY <1>3 DEF GoesToDelete
<1> HIDE DEF b
<1>5. /\ w \in Work /\ w.at = "deleting" /\ w.op = work[c].op /\ w.project = p
      /\ w.alone = work[c].alone /\ w.quiet = work[c].quiet /\ w.seen = work[c].seen
      /\ w.left = b
  BY <1>1, <1>4 DEF Work, Stages
<1> HIDE DEF w
<1>6. CASE Emptied(p)
  <2>1. containers'[p] = "none"
    BY <1>2, <1>6 DEF Emptied, StackInv, StackTypes
  <2>2. CallFits(w, containers')
    BY <1>1, <1>2, <1>5, <2>1 DEF CallFits, Removing
  <2>3. w.at # "saving" /\ w.seen = {} /\ work[c].at \notin {"idle", "saving"}
    BY <1>1, <1>2, <1>5
  <2> QED
    BY <1>1, <1>2, <1>4, <1>5, <1>6, <2>2, <2>3, Emptying
<1>7. CASE UNCHANGED hostVars /\ (leaves \/ containers[p] = "none")
  <2>1. CallFits(w, containers)
    BY <1>1, <1>2, <1>4, <1>5, <1>7 DEF CallFits, Removing
  <2>2. w.at # "saving" /\ w.seen = {} /\ work[c].at \notin {"idle", "saving"}
    BY <1>1, <1>2, <1>5
  <2>3. UNCHANGED <<registry, stackFile, snapshot, containers, label, removed>>
    BY <1>1, <1>7 DEF hostVars
  <2> QED
    BY <1>4, <1>5, <2>1, <2>2, <2>3, GoesOn
<1> QED
  BY <1>3, <1>6, <1>7

(* A call whose request to the host fails, or is done with its answer lost.*)
LEMMA Failing ==
  ASSUME StackInv, NEW c \in StackCalls, HostFails(c)
  PROVE  StackInv'
<1>1. work[c].at \notin {"idle", "saving"} /\ Ends(c)
        /\ UNCHANGED <<registry, stackFile, snapshot, removed>>
  BY DEF HostFails
<1>2. CASE UNCHANGED hostVars
  BY <1>1, <1>2, EndsEarly DEF hostVars
<1>3. CASE work[c].at \in {"composing", "labels"} /\ Emptied(work[c].project)
  <2>1. work[c].project \in Projects
    BY <1>3 DEF StackInv, CallsInv, CallFits
  <2>2. /\ NoStackCall \in Work /\ CallFits(NoStackCall, containers')
        /\ NoStackCall.at # "saving" /\ ~NoStackCall.alone /\ NoStackCall.seen = {}
    BY NoCallFits
  <2>3. work' = [work EXCEPT ![c] = NoStackCall]
    BY <1>1 DEF Ends
  <2> QED
    BY <1>1, <1>3, <2>1, <2>2, <2>3, Emptying
<1> QED
  BY <1>2, <1>3 DEF HostFails

-----------------------------------------------------------------------------
(* Steps that change the registry.                                         *)

(* What they owe: a well-formed registry without a second adoption, and    *)
(* removals that are remembered for as long as nothing is left of them.    *)
LEMMA Persisting ==
  ASSUME StackInv, NEW c \in StackCalls, work[c].at \notin {"idle", "asking", "saving"}, Persist(c),
         IsTable(registry'), Once(registry'), NEW r \in [Projects -> Verdict],
         removed' = r, UNCHANGED <<stackFile, containers, label>>,
         \A p \in Projects : r[p] = "alone" =>
           \/ /\ removed[p] = "alone"
              /\ Knows(registry', p) => Knows(registry, p) \/ \E o \in work[c].seen : o.project = p
           \/ /\ work[c].alone /\ containers[p] = "none" /\ ~Knows(registry', p)
              /\ work[c].op = "remove" /\ work[c].project = p /\ work[c].seen = {}
  PROVE  StackInv'
<1> DEFINE w == [NoStackCall EXCEPT !.op = work[c].op, !.at = "saving", !.project = work[c].project]
<1>1. work[c] \in Work
  BY DEF StackInv, StackTypes
<1>2. /\ w \in Work /\ w.at = "saving" /\ w.op = work[c].op /\ w.project = work[c].project
      /\ w.seen = {} /\ ~w.alone /\ ~w.quiet
  BY <1>1 DEF NoStackCall, Work, Stages, Dirs
<1>3. work' = [work EXCEPT ![c] = w] /\ snapshot' = [snapshot EXCEPT ![c] = registry']
  BY DEF Persist
<1> HIDE DEF w
<1>4. /\ work' \in [StackCalls -> Work] /\ work'[c] = w
      /\ \A d \in StackCalls \ {c} : work'[d] = work[d]
  BY <1>2, <1>3 DEF StackInv, StackTypes
<1>5. /\ DOMAIN snapshot' = StackCalls /\ snapshot'[c] = registry'
      /\ \A d \in StackCalls \ {c} : snapshot'[d] = snapshot[d]
  BY <1>3 DEF StackInv, StackTypes
<1>6. StackTypes'
  BY <1>4, <1>5 DEF StackInv, StackTypes
<1>7. CallsInv'
  <2>1. CallFits(w, containers)
    BY <1>2 DEF CallFits
  <2> QED
    BY <1>2, <1>4, <1>5, <2>1 DEF StackInv, CallsInv
<1>8. OnceInv'
  BY <1>5 DEF StackInv, OnceInv
<1>9. GoneInv'
  <2> SUFFICES ASSUME NEW p \in Projects, r[p] = "alone"
               PROVE  /\ ~Knows(registry', p) /\ containers[p] = "none"
                      /\ \A d \in StackCalls : ~Knows(snapshot'[d], p)
                      /\ \A d \in StackCalls : \A o \in work'[d].seen : o.project # p
                      /\ Knows(stackFile, p) => Unpromised(p)'
    BY DEF GoneInv
  <2>1. CASE /\ removed[p] = "alone"
             /\ Knows(registry', p) => Knows(registry, p) \/ \E o \in work[c].seen : o.project = p
    <3>1. /\ ~Knows(registry, p) /\ containers[p] = "none"
          /\ \A d \in StackCalls : ~Knows(snapshot[d], p)
          /\ \A d \in StackCalls : \A o \in work[d].seen : o.project # p
          /\ Knows(stackFile, p) => Unpromised(p)
      BY <2>1 DEF StackInv, GoneInv
    <3>2. Unpromised(p) => Unpromised(p)'
      BY <1>4 DEF Unpromised
    <3> QED
      BY <1>2, <1>4, <1>5, <2>1, <3>1, <3>2
  <2>2. CASE /\ work[c].alone /\ containers[p] = "none" /\ ~Knows(registry', p)
             /\ work[c].op = "remove" /\ work[c].project = p /\ work[c].seen = {}
    <3>1. \A d \in StackCalls \ {c} : work[d].at = "idle"
      BY <2>2 DEF StackInv, CallsInv
    <3>2. \A d \in StackCalls \ {c} : snapshot[d] = Nothing /\ work[d].seen = {}
      BY <3>1 DEF StackInv, CallsInv, CallFits
    <3>3. Unpromised(p)'
      BY <1>2, <1>4, <2>2 DEF Unpromised
    <3> QED
      BY <1>2, <1>4, <1>5, <2>2, <3>2, <3>3, NothingKnown
  <2> QED
    BY <2>1, <2>2
<1> QED
  BY <1>6, <1>7, <1>8, <1>9 DEF StackInv

(* syncHost adopts what has no record at the moment.                       *)
LEMMA Adopting ==
  ASSUME StackInv, NEW c \in StackCalls, SyncHost(c), Adoptable(work[c].seen) # {}
  PROVE  StackInv'
<1> DEFINE new == Adoptable(work[c].seen)
<1>1. /\ work[c] \in Work /\ CallFits(work[c], containers) /\ work[c].at = "seen"
      /\ IsTable(registry) /\ Once(registry) /\ removed \in [Projects -> Verdict]
  BY DEF SyncHost, StackInv, StackTypes, CallsInv, OnceInv
<1>2. \A o \in new : o \in work[c].seen /\ o.dir # NoFolder /\ ~Knows(registry, o.project)
  BY DEF Adoptable, Registered, Knows
<1>3. \A o \in new : o \in Sighting
  BY <1>1, <1>2 DEF Work
<1>4. PICK ids \in {s \in [new -> FreeIds] : IsInjective(s)} :
        registry' = [i \in DOMAIN registry \cup Range(ids) |->
                       IF i \in DOMAIN registry THEN registry[i]
                       ELSE LET o == CHOOSE q \in new : ids[q] = i
                            IN [project |-> o.project, dir |-> o.dir, adopted |-> TRUE]]
  BY DEF SyncHost
<1> DEFINE Seen(i) == CHOOSE q \in new : ids[q] = i
<1> HIDE DEF new
<1>5. ASSUME NEW i \in DOMAIN registry', i \notin DOMAIN registry
      PROVE  /\ Seen(i) \in new /\ ids[Seen(i)] = i
             /\ registry'[i] = [project |-> Seen(i).project, dir |-> Seen(i).dir, adopted |-> TRUE]
  <2>1. i \in Range(ids)
    BY <1>4, <1>5
  <2>2. \E q \in new : ids[q] = i
    BY <1>4, <2>1 DEF Range
  <2> QED
    BY <1>4, <1>5, <2>2
<1>6. \A i \in DOMAIN registry : i \in DOMAIN registry' /\ registry'[i] = registry[i]
  BY <1>4
<1> HIDE DEF Seen
<1>7. IsTable(registry')
  <2> SUFFICES ASSUME NEW i \in DOMAIN registry' PROVE registry'[i] \in StackRecord
    BY DEF IsTable
  <2>1. CASE i \in DOMAIN registry
    BY <1>1, <1>6, <2>1 DEF IsTable
  <2>2. CASE i \notin DOMAIN registry
    <3>1. Seen(i) \in Sighting
      BY <1>3, <1>5, <2>2
    <3>2. Seen(i).project \in Projects /\ Seen(i).dir \in Dirs
      BY <3>1 DEF Sighting
    <3>3. [project |-> Seen(i).project, dir |-> Seen(i).dir, adopted |-> TRUE] \in StackRecord
      BY <3>2 DEF StackRecord
    <3> QED
      BY <1>5, <2>2, <3>3
  <2> QED
    BY <2>1, <2>2
<1>8. Once(registry')
  <2> SUFFICES ASSUME NEW i \in DOMAIN registry', NEW j \in DOMAIN registry',
                      registry'[i].adopted, registry'[j].adopted,
                      registry'[i].project = registry'[j].project
               PROVE  i = j
    BY DEF Once
  <2>1. CASE i \in DOMAIN registry /\ j \in DOMAIN registry
    BY <1>1, <1>6, <2>1 DEF Once
  <2>2. CASE i \in DOMAIN registry /\ j \notin DOMAIN registry
    BY <1>2, <1>5, <1>6, <2>2 DEF Knows
  <2>3. CASE i \notin DOMAIN registry /\ j \in DOMAIN registry
    BY <1>2, <1>5, <1>6, <2>3 DEF Knows
  <2>4. CASE i \notin DOMAIN registry /\ j \notin DOMAIN registry
    <3>1. Seen(i) \in work[c].seen /\ Seen(j) \in work[c].seen
      BY <1>2, <1>5, <2>4
    <3>2. Seen(i).project = Seen(j).project
      BY <1>5, <2>4
    <3>3. Seen(i) = Seen(j)
      BY <1>1, <3>1, <3>2 DEF CallFits
    <3> QED
      BY <1>5, <2>4, <3>3
  <2> QED
    BY <2>1, <2>2, <2>3, <2>4
<1>9. \A p \in Projects : Knows(registry', p) =>
        Knows(registry, p) \/ \E o \in work[c].seen : o.project = p
  <2> SUFFICES ASSUME NEW p \in Projects, NEW i \in DOMAIN registry', registry'[i].project = p
               PROVE  Knows(registry, p) \/ \E o \in work[c].seen : o.project = p
    BY DEF Knows
  <2>1. CASE i \in DOMAIN registry
    BY <1>6, <2>1 DEF Knows
  <2>2. CASE i \notin DOMAIN registry
    BY <1>2, <1>5, <2>2
  <2> QED
    BY <2>1, <2>2
<1>10. Persist(c) /\ removed' = removed /\ UNCHANGED <<stackFile, containers, label>>
  BY DEF SyncHost, hostVars
<1> QED
  BY <1>1, <1>7, <1>8, <1>9, <1>10, Persisting

(* A stack that is created or imported is registered, and what was removed *)
(* under its name is wanted again.                                         *)
LEMMA Registering ==
  ASSUME StackInv, NEW c \in StackCalls, Register(c)
  PROVE  StackInv'
<1> DEFINE id == work[c].id
           row == [project |-> work[c].project, dir |-> work[c].dir, adopted |-> FALSE]
           r == [removed EXCEPT ![work[c].project] = "no"]
<1>1. /\ work[c] \in Work /\ CallFits(work[c], containers) /\ work[c].at = "manifest"
      /\ IsTable(registry) /\ Once(registry) /\ removed \in [Projects -> Verdict]
  BY DEF Register, StackInv, StackTypes, CallsInv, OnceInv
<1>2. /\ work[c].project \in Projects /\ row \in StackRecord /\ ~row.adopted
      /\ row.project = work[c].project
  BY <1>1 DEF CallFits, Work, StackRecord
<1>3. /\ registry' = [i \in DOMAIN registry \cup {id} |-> IF i = id THEN row ELSE registry[i]]
      /\ Persist(c) /\ removed' = r /\ UNCHANGED <<stackFile, containers, label>>
  BY DEF Register, hostVars
<1> HIDE DEF row, id
<1>4. IsTable(registry') /\ Once(registry')
  BY <1>1, <1>2, <1>3 DEF IsTable, Once
<1>5. /\ r \in [Projects -> Verdict] /\ r[work[c].project] = "no"
      /\ \A p \in Projects : p # work[c].project => r[p] = removed[p]
  BY <1>1, <1>2 DEF Verdict
<1> HIDE DEF r
<1>6. ASSUME NEW p \in Projects, r[p] = "alone"
      PROVE  removed[p] = "alone" /\ (Knows(registry', p) => Knows(registry, p))
  <2>1. p # work[c].project /\ removed[p] = "alone"
    BY <1>5, <1>6
  <2> QED
    BY <1>2, <1>3, <2>1 DEF Knows
<1> QED
  BY <1>1, <1>3, <1>4, <1>5, <1>6, Persisting

(* The record is deleted.  The removal counts as done alone when nobody    *)
(* upset it, and then it has taken the containers down.                    *)
LEMMA Unregistering ==
  ASSUME StackInv, NEW c \in StackCalls, work[c].at \in {"deleting", "rmdir"}, Unregister(c),
         UNCHANGED <<stackFile, containers, label>>
  PROVE  StackInv'
<1> DEFINE id == work[c].id
           p0 == work[c].project
           verdict == IF ~work[c].quiet \/ \E i \in DOMAIN registry' : registry'[i].project = p0
                      THEN "no" ELSE IF work[c].left THEN "left"
                      ELSE IF work[c].alone THEN "alone" ELSE "raced"
           r == [removed EXCEPT ![p0] = verdict]
<1>1. /\ work[c] \in Work /\ CallFits(work[c], containers)
      /\ IsTable(registry) /\ Once(registry) /\ removed \in [Projects -> Verdict]
  BY DEF StackInv, StackTypes, CallsInv, OnceInv
<1>2. p0 \in Projects /\ work[c].seen = {}
  BY <1>1 DEF CallFits
<1>3. /\ registry' = [i \in DOMAIN registry \ {id} |-> registry[i]] /\ Persist(c) /\ removed' = r
  BY DEF Unregister
<1> HIDE DEF id
<1>4. IsTable(registry') /\ Once(registry') /\ \A p : Knows(registry', p) => Knows(registry, p)
  BY <1>1, <1>3 DEF IsTable, Once, Knows
<1>5. /\ verdict \in Verdict
      /\ verdict = "alone" =>
           work[c].alone /\ work[c].quiet /\ ~work[c].left /\ ~Knows(registry', p0)
  BY DEF Knows, Verdict
<1> HIDE DEF verdict
<1>6. /\ r \in [Projects -> Verdict] /\ r[p0] = verdict
      /\ \A p \in Projects : p # p0 => r[p] = removed[p]
  BY <1>1, <1>2, <1>5
<1> HIDE DEF r
<1>7. ASSUME NEW p \in Projects, r[p] = "alone"
      PROVE  \/ /\ removed[p] = "alone" /\ (Knows(registry', p) => Knows(registry, p))
             \/ /\ work[c].alone /\ containers[p] = "none" /\ ~Knows(registry', p)
                /\ work[c].op = "remove" /\ work[c].project = p /\ work[c].seen = {}
  <2>1. CASE p # p0
    BY <1>4, <1>6, <1>7, <2>1
  <2>2. CASE p = p0
    BY <1>1, <1>2, <1>5, <1>6, <1>7, <2>2 DEF CallFits
  <2> QED
    BY <2>1, <2>2
<1> QED
  BY <1>1, <1>3, <1>4, <1>6, <1>7, Persisting

LEMMA Deleting ==
  ASSUME StackInv, NEW c \in StackCalls, Delete(c) \/ \E yes \in BOOLEAN : RemoveFolder(c, yes)
  PROVE  StackInv'
<1>1. ASSUME Unregister(c), Delete(c) \/ \E yes \in BOOLEAN : RemoveFolder(c, yes)
      PROVE  StackInv'
  <2>1. work[c].at \in {"deleting", "rmdir"} /\ UNCHANGED <<stackFile, containers, label>>
    BY <1>1 DEF Delete, RemoveFolder, hostVars
  <2> QED
    BY <1>1, <2>1, Unregistering
<1>2. ASSUME Delete(c), Ends(c), UNCHANGED <<registry, snapshot, removed>>
      PROVE  StackInv'
  BY <1>2, EndsEarly DEF Delete, hostVars
<1>3. ASSUME Delete(c), Goes(c, "rmdir"), UNCHANGED <<registry, snapshot, removed>>
      PROVE  StackInv'
  <2> DEFINE w == [work[c] EXCEPT !.at = "rmdir"]
  <2>1. work[c] \in Work /\ CallFits(work[c], containers) /\ work[c].at = "deleting"
    BY <1>3 DEF Delete, StackInv, StackTypes, CallsInv
  <2>2. /\ w \in Work /\ w.at = "rmdir" /\ w.op = work[c].op /\ w.project = work[c].project
        /\ w.alone = work[c].alone /\ w.quiet = work[c].quiet /\ w.left = work[c].left
        /\ w.seen = work[c].seen
    BY <2>1 DEF Work, Stages
  <2>3. /\ work' = [work EXCEPT ![c] = w]
        /\ UNCHANGED <<registry, stackFile, snapshot, containers, label, removed>>
    BY <1>3 DEF Goes, Delete, hostVars
  <2> HIDE DEF w
  <2>4. CallFits(w, containers)
    BY <2>1, <2>2 DEF CallFits, Removing
  <2> QED
    BY <2>1, <2>2, <2>3, <2>4, GoesOn
<1> QED
  BY <1>1, <1>2, <1>3 DEF Delete, RemoveFolder

-----------------------------------------------------------------------------
(* The write lands, and what a restart makes of it.                        *)

LEMMA Landing ==
  ASSUME StackInv, NEW c \in StackCalls, NEW works \in BOOLEAN, Saved(c, works)
  PROVE  StackInv'
<1>1. /\ work[c].at = "saving" /\ work' = [work EXCEPT ![c] = NoStackCall]
      /\ stackFile' = (IF works THEN snapshot[c] ELSE stackFile)
      /\ snapshot' = [snapshot EXCEPT ![c] = Nothing]
      /\ UNCHANGED <<registry, containers, label>>
  BY DEF Saved, Ends, hostVars
<1>2. /\ work' \in [StackCalls -> Work] /\ work'[c] = NoStackCall
      /\ \A d \in StackCalls \ {c} : work'[d] = work[d]
  BY <1>1, NoCallFits DEF StackInv, StackTypes
<1>3. /\ DOMAIN snapshot' = StackCalls /\ snapshot'[c] = Nothing
      /\ \A d \in StackCalls \ {c} : snapshot'[d] = snapshot[d]
  BY <1>1 DEF StackInv, StackTypes
<1>4. /\ removed' \in [Projects -> Verdict]
      /\ \A p \in Projects : removed'[p] = "alone" =>
           /\ removed[p] = "alone"
           /\ works \/ ~(work[c].op = "remove" /\ work[c].project = p)
  BY DEF Saved, StackInv, StackTypes, Verdict
<1>5. StackTypes'
  BY <1>1, <1>2, <1>3, <1>4, NothingKnown DEF StackInv, StackTypes
<1>6. CallsInv'
  BY <1>1, <1>2, <1>3, NoCallFits DEF StackInv, CallsInv
<1>7. OnceInv'
  BY <1>1, <1>3, NothingKnown DEF StackInv, OnceInv
<1>8. GoneInv'
  <2> SUFFICES ASSUME NEW p \in Projects, removed'[p] = "alone"
               PROVE  /\ ~Knows(registry', p) /\ containers'[p] = "none"
                      /\ \A d \in StackCalls : ~Knows(snapshot'[d], p)
                      /\ \A d \in StackCalls : \A o \in work'[d].seen : o.project # p
                      /\ Knows(stackFile', p) => Unpromised(p)'
    BY DEF GoneInv
  <2>1. /\ ~Knows(registry, p) /\ containers[p] = "none"
        /\ \A d \in StackCalls : ~Knows(snapshot[d], p)
        /\ \A d \in StackCalls : \A o \in work[d].seen : o.project # p
        /\ Knows(stackFile, p) => Unpromised(p)
    BY <1>4 DEF StackInv, GoneInv
  <2>2. \A d \in StackCalls : work'[d].seen = {} \/ work'[d].seen = work[d].seen
    BY <1>2, NoCallFits
  <2>3. CASE works
    BY <1>1, <1>3, <2>1, <2>2, <2>3, NothingKnown
  <2>4. CASE ~works
    <3>1. Unpromised(p) => Unpromised(p)'
      BY <1>2, <1>4, <2>4 DEF Unpromised
    <3> QED
      BY <1>1, <1>3, <2>1, <2>2, <2>4, <3>1, NothingKnown
  <2> QED
    BY <2>3, <2>4
<1> QED
  BY <1>5, <1>6, <1>7, <1>8 DEF StackInv

\* What the file holds is the registry; a removal that was still being
\* saved promised nothing.
LEMMA Restarting == StackInv /\ Reboot => StackInv'
<1> SUFFICES ASSUME StackInv, Reboot PROVE StackInv'
  OBVIOUS
<1>1. /\ registry' = stackFile /\ snapshot' = [c \in StackCalls |-> Nothing]
      /\ work' = [c \in StackCalls |-> NoStackCall]
      /\ removed' = [p \in Projects |-> IF Unpromised(p) THEN "no" ELSE removed[p]]
      /\ UNCHANGED <<stackFile, containers, label>>
  BY DEF Reboot, hostVars, Unpromised
<1>2. removed' \in [Projects -> Verdict]
  BY <1>1 DEF StackInv, StackTypes, Verdict
<1>3. StackTypes'
  BY <1>1, <1>2, NoCallFits, NothingKnown DEF StackInv, StackTypes
<1>4. CallsInv'
  BY <1>1, NoCallFits DEF CallsInv
<1>5. OnceInv'
  BY <1>1, NothingKnown DEF StackInv, OnceInv
<1>6. GoneInv'
  <2> SUFFICES ASSUME NEW p \in Projects, removed'[p] = "alone"
               PROVE  /\ ~Knows(registry', p) /\ containers'[p] = "none"
                      /\ \A c \in StackCalls : ~Knows(snapshot'[c], p)
                      /\ \A c \in StackCalls : \A o \in work'[c].seen : o.project # p
                      /\ ~Knows(stackFile', p)
    BY DEF GoneInv
  <2>1. removed[p] = "alone" /\ ~Unpromised(p)
    BY <1>1
  <2> QED
    BY <1>1, <2>1, NoCallFits, NothingKnown DEF StackInv, GoneInv
<1> QED
  BY <1>3, <1>4, <1>5, <1>6 DEF StackInv

-----------------------------------------------------------------------------
(* People and containers on the host.                                      *)

Upsets(p) == work' = [c \in StackCalls |-> [work[c] EXCEPT !.quiet = @ /\ work[c].project # p]]

\* A project is started, from the page or by hand: removals of it that are
\* under way are upset, and earlier ones forgotten.
LEMMA Starting ==
  ASSUME StackInv, NEW p \in Projects, NEW d \in Dirs,
         containers' = [containers EXCEPT ![p] = "running"],
         label' = [label EXCEPT ![p] = d], removed' = [removed EXCEPT ![p] = "no"],
         Upsets(p),
         UNCHANGED <<registry, stackFile, snapshot>>
  PROVE  StackInv'
<1>1. ASSUME NEW c \in StackCalls
      PROVE  /\ work'[c] \in Work /\ work'[c].op = work[c].op /\ work'[c].at = work[c].at
             /\ work'[c].project = work[c].project /\ work'[c].down = work[c].down
             /\ work'[c].seen = work[c].seen /\ work'[c].alone = work[c].alone
             /\ work'[c].left = work[c].left
             /\ work'[c].quiet => work[c].quiet /\ work[c].project # p
  <2> DEFINE b == work[c].quiet /\ work[c].project # p
  <2>1. work[c] \in Work
    BY DEF StackInv, StackTypes
  <2>2. (work[c].quiet /\ work[c].project # p) \in BOOLEAN
    BY <2>1 DEF Work
  <2>3. work'[c] = [work[c] EXCEPT !.quiet = b]
    BY DEF Upsets
  <2>4. b \in BOOLEAN
    BY <2>2
  <2>5. b => work[c].quiet /\ work[c].project # p
    OBVIOUS
  <2> HIDE DEF b
  <2> DEFINE w == work'[c]
  <2>6. w = [work[c] EXCEPT !.quiet = b]
    BY <2>3
  <2> HIDE DEF w
  <2>7. /\ w \in Work /\ w.quiet = b /\ w.alone = work[c].alone /\ w.op = work[c].op
        /\ w.at = work[c].at /\ w.project = work[c].project /\ w.down = work[c].down
        /\ w.seen = work[c].seen /\ w.left = work[c].left
    BY <2>1, <2>4, <2>6, NotQuiet
  <2> QED
    BY <2>5, <2>7 DEF w
<1>2. /\ containers' \in [Projects -> {"none", "running", "exited"}]
      /\ label' \in [Projects -> Dirs] /\ removed' \in [Projects -> Verdict]
      /\ removed'[p] = "no"
      /\ \A q \in Projects \ {p} : containers'[q] = containers[q] /\ removed'[q] = removed[q]
  <2>1. /\ containers \in [Projects -> {"none", "running", "exited"}]
        /\ label \in [Projects -> Dirs] /\ removed \in [Projects -> Verdict]
    BY DEF StackInv, StackTypes
  <2> QED
    BY <2>1 DEF Verdict
<1>3. work' \in [StackCalls -> Work]
  <2>1. DOMAIN work' = StackCalls /\ work' = [c \in StackCalls |-> work'[c]]
    BY DEF Upsets
  <2> QED
    BY <1>1, <2>1
<1>4. StackTypes'
  BY <1>2, <1>3 DEF StackInv, StackTypes
<1>5. CallsInv'
  <2>1. ASSUME NEW c \in StackCalls PROVE CallFits(work'[c], containers')
    <3>1. CallFits(work[c], containers)
      BY DEF StackInv, CallsInv
    <3>2. work'[c].quiet /\ work'[c].at \in Removing =>
            /\ work[c].quiet /\ work[c].project \in Projects \ {p}
            /\ containers'[work[c].project] = containers[work[c].project]
      BY <1>1, <1>2, <3>1 DEF CallFits, Removing
    <3>3. /\ work'[c].at = work[c].at /\ work'[c].project = work[c].project
          /\ work'[c].op = work[c].op /\ work'[c].seen = work[c].seen
          /\ work'[c].alone => work[c].alone
          /\ work'[c].quiet => work[c].quiet
          /\ ~work'[c].left => ~work[c].left
          /\ ~work'[c].down => ~work[c].down
      BY <1>1
    <3> QED
      BY <3>1, <3>2, <3>3 DEF CallFits, Removing
  <2> QED
    BY <1>1, <2>1 DEF StackInv, CallsInv
<1>6. OnceInv'
  BY DEF StackInv, OnceInv
<1>7. GoneInv'
  <2>1. \A q \in Projects : Unpromised(q) => Unpromised(q)'
    BY <1>1 DEF Unpromised
  <2> QED
    BY <1>1, <1>2, <2>1 DEF StackInv, GoneInv
<1> QED
  BY <1>4, <1>5, <1>6, <1>7 DEF StackInv

LEMMA OnTheHost ==
  ASSUME StackInv,
         \/ \E i \in StackIds : Up(i)
         \/ \E p \in Projects :
              Exits(p) \/ ServiceDropped(p) \/ \E d \in Folders \cup {NoFolder} : StartedByHand(p, d)
         \/ \E d \in Folders : FolderDeleted(d)
  PROVE  StackInv'
<1>1. ASSUME NEW i \in StackIds, Up(i) PROVE StackInv'
  <2>1. registry[i] \in StackRecord
    BY <1>1 DEF Up, StackInv, StackTypes, IsTable
  <2>2. registry[i].project \in Projects /\ registry[i].dir \in Dirs
    BY <2>1 DEF StackRecord
  <2> QED
    BY <1>1, <2>2, Starting DEF Up, Upsets
<1>2. ASSUME NEW p \in Projects, NEW d \in Dirs, StartedByHand(p, d) PROVE StackInv'
  BY <1>2, Starting DEF StartedByHand, Upsets
<1>3. ASSUME NEW p \in Projects, Exits(p) PROVE StackInv'
  <2>1. /\ containers' \in [Projects -> {"none", "running", "exited"}]
        /\ \A q \in Projects : containers'[q] = "none" <=> containers[q] = "none"
        /\ UNCHANGED <<registry, stackFile, snapshot, work, label, removed>>
    BY <1>3 DEF Exits, StackInv, StackTypes
  <2>2. StackTypes'
    BY <2>1 DEF StackInv, StackTypes
  <2>3. CallsInv'
    <3>1. ASSUME NEW c \in StackCalls PROVE CallFits(work'[c], containers')
      <4>1. CallFits(work[c], containers)
        BY DEF StackInv, CallsInv
      <4> QED
        BY <2>1, <4>1 DEF CallFits, Removing
    <3> QED
      BY <2>1, <3>1 DEF StackInv, CallsInv
  <2>4. OnceInv'
    BY <2>1 DEF StackInv, OnceInv
  <2>5. GoneInv'
    BY <2>1 DEF StackInv, GoneInv, Unpromised
  <2> QED
    BY <2>2, <2>3, <2>4, <2>5 DEF StackInv
<1>4. ASSUME NEW d \in Folders, FolderDeleted(d) PROVE StackInv'
  BY <1>4 DEF FolderDeleted, StackInv, StackTypes, CallsInv, OnceInv, GoneInv, Unpromised
<1>5. ASSUME NEW p \in Projects, ServiceDropped(p) PROVE StackInv'
  BY <1>5 DEF ServiceDropped, StackInv, StackTypes, CallsInv, OnceInv, GoneInv, Unpromised
<1> QED
  BY <1>1, <1>2, <1>3, <1>4, <1>5 DEF Dirs

-----------------------------------------------------------------------------

LEMMA StackStep ==
  ASSUME StackInv, [StackNext]_stackVars
  PROVE  StackInv'
<1>1. ASSUME NEW c \in StackCalls, SyncHost(c) PROVE StackInv'
  BY <1>1, Reading, Adopting
<1>2. CASE UNCHANGED stackVars
  BY <1>2 DEF stackVars, hostVars, StackInv, StackTypes, CallsInv, OnceInv, GoneInv, Unpromised
<1> QED
  BY <1>1, <1>2, Reading, Founding, Dialog, TakingDown, Failing, Registering, Deleting, Landing,
     Restarting, OnTheHost DEF StackNext

(* However many reads of a host's section overlap, with one another, with  *)
(* creations, imports, removals and restarts: a project is adopted at most *)
(* once, for any directories, projects and calls (syncHost decides on the  *)
(* registry of the moment).                                                *)
THEOREM AdoptsOnce == StackInit /\ [][StackNext]_stackVars => []AdoptedOnce
<1>1. StackInv => AdoptedOnce
  BY DEF StackInv, OnceInv, Once, AdoptedOnce
<1>2. StackInv /\ [StackNext]_stackVars => StackInv'
  BY StackStep
<1> QED
  BY <1>1, <1>2, StackStart, PTL

(* A stack whose removal no other call overlapped and that passed over no  *)
(* container is not registered again by a read, another call's late or     *)
(* failed write or a restart before somebody starts or registers it        *)
(* (DeleteComposeStackModal, downByLabel, delete): it left no container,   *)
(* nobody on the way has seen one, and no copy of its record is still to   *)
(* be written.                                                             *)
THEOREM StaysRemoved == StackInit /\ [][StackNext]_stackVars => []RemovedStaysRemoved
<1>1. StackInv => RemovedStaysRemoved
  BY DEF StackInv, GoneInv, Knows, RemovedStaysRemoved, Registered
<1>2. StackInv /\ [StackNext]_stackVars => StackInv'
  BY StackStep
<1> QED
  BY <1>1, <1>2, StackStart, PTL
=============================================================================
