-------------------------- MODULE DeploymentProofs --------------------------
(***************************************************************************)
(* Proofs about module Deployment, for any number of runs of Start.sh and  *)
(* of requests, any contracts and scripts, any values of RUNTIME.          *)
(***************************************************************************)
EXTENDS Deployment, TLAPS

-----------------------------------------------------------------------------
(* The inductive invariant.                                                *)

\* A container of a network has that network's RUNTIME.
Placed == \A n \in Networks : box[n] # None => box[n].env = n

\* What is known of a request at each of its program points.
RequestInv(r) ==
  /\ at[r] = "new" => reply[r] = None
  /\ at[r] # "new" => /\ sentTo[r] \in Boxes /\ rt[r] \in Envs /\ about[r] \in Contracts
                      /\ sentTo[r] \in Networks => rt[r] = sentTo[r]
  /\ at[r] \in {"find", "ins", "tell"} => reply[r] # None
  /\ at[r] \in {"new", "ask"} => reply[r] = None
  /\ told[r] # None <=> at[r] = "done"
  /\ told[r] \in {5, 6} => reply[r] # None
  /\ at[r] = "tell" => Document(r) \in db[DatabaseOf(rt[r])]
  /\ reply[r] # None =>
       LET versions == chains[NodeOf(rt[r])][about[r]] IN
       /\ reply[r].counter + 1 \in DOMAIN versions
       /\ versions[reply[r].counter + 1] = reply[r].script

\* A document is the one its author makes, in the database of its author's
\* RUNTIME, and its author has got past the insert.
RecordInv(n, v) ==
  /\ reply[v.by] # None
  /\ v = Document(v.by)
  /\ DatabaseOf(rt[v.by]) = n
  /\ at[v.by] \in {"tell", "done", "dead"}
  /\ told[v.by] \in {5, None}

\* A run that has not come to its build has made none.
BuiltInv(o) == script[o] = None \/ script[o].next <= 4 => built[o] = None

\* Runs of Start.sh for network n that are past command k - 1, or at it.
Past(n, k) == \E o \in RunsFor(n) : script[o].next >= k
Near(n, k) == \E o \in RunsFor(n) : script[o].next = k

\* Build i was made by one of the runs for network n.
Fresh(n, i) == \E o \in RunsFor(n) : built[o] = i

\* What the runs for network n have brought about so far, unless docker has
\* failed in one of them.
StartInv(n) ==
  (\A o \in RunsFor(n) : ~failed[o]) =>
    /\ box[n] # None /\ box[n].state = "stopped" => Near(n, 2)
    /\ Past(n, 2) /\ Running(n) => Fresh(n, box[n].from)
    /\ Past(n, 3) /\ box[n] # None => Fresh(n, box[n].from)
    /\ Past(n, 5) /\ image[n] = None => Near(n, 4)
    /\ Past(n, 5) /\ image[n] # None => Fresh(n, image[n])
    /\ Past(n, 6) /\ box[n] = None => Near(n, 3) \/ Near(n, 4) \/ Near(n, 5)

DeployInv ==
  /\ Placed
  /\ \A o \in Operators : BuiltInv(o)
  /\ \A n \in Networks : StartInv(n)

RegistryInv ==
  /\ \A r \in Clients : RequestInv(r)
  /\ \A n \in Networks : \A v \in db[n] : RecordInv(n, v)

Inv == TypeOK /\ DeployInv /\ RegistryInv

-----------------------------------------------------------------------------
(* The script.                                                             *)

\* Start.sh, command by command.
LEMMA CommandsAre ==
  /\ Len(Commands) = 5
  /\ Commands[1] = "stop" /\ Commands[2] = "rm" /\ Commands[3] = "rmi"
  /\ Commands[4] = "build" /\ Commands[5] = "run"
BY DEF Commands

\* What a run of Start.sh is: its block names a network, and hands that
\* network to the server as RUNTIME.
LEMMA RunsAre ==
  ASSUME NEW x \in ScriptRuns
  PROVE  /\ x.block \in Blocks /\ x.next \in 1 .. 6
         /\ x.block.name \in Networks /\ x.block.env = x.block.name
BY CommandsAre DEF ScriptRuns, Blocks, Networks

\* One step of Start.sh: docker fails, or performs the command at hand.
LEMMA CommandStep ==
  ASSUME TypeOK, NEW o \in Operators, Command(o)
  PROVE  LET k == script[o].next
             n == script[o].block.name
         IN  /\ script[o] \in ScriptRuns /\ k \in 1 .. 5 /\ n \in Networks
             /\ script' = [script EXCEPT ![o].next = k + 1]
             /\ UNCHANGED <<head, chains, db, requestVars>>
             /\ \/ /\ failed' = [failed EXCEPT ![o] = TRUE]
                   /\ UNCHANGED <<image, box, at, built>>
                \/ /\ UNCHANGED failed
                   /\ \/ k = 1 /\ Stop(n) /\ UNCHANGED built
                      \/ k = 2 /\ Remove(n) /\ UNCHANGED built
                      \/ k = 3 /\ RemoveImage(n) /\ UNCHANGED built
                      \/ k = 4 /\ BuildImage(n) /\ built' = [built EXCEPT ![o] = head]
                      \/ k = 5 /\ Run(n, n, n) /\ UNCHANGED built
<1> DEFINE k == script[o].next
           n == script[o].block.name
<1>1. script[o] \in ScriptRuns /\ k \in 1 .. 5 /\ n \in Networks
      /\ script[o].block.env = n
  BY RunsAre, CommandsAre DEF TypeOK, Command
<1>2. /\ script' = [script EXCEPT ![o].next = k + 1]
      /\ UNCHANGED <<head, chains, db, requestVars>>
  BY DEF Command
<1>3. CASE failed' = [failed EXCEPT ![o] = TRUE] /\ UNCHANGED <<dockerVars, at, built>>
  BY <1>1, <1>2, <1>3 DEF dockerVars
<1>4. CASE /\ Perform(Commands[k], script[o].block)
           /\ built' = IF Commands[k] = "build" THEN [built EXCEPT ![o] = head] ELSE built
           /\ UNCHANGED failed
  <2>1. \/ k = 1 /\ Stop(n) /\ UNCHANGED built
        \/ k = 2 /\ Remove(n) /\ UNCHANGED built
        \/ k = 3 /\ RemoveImage(n) /\ UNCHANGED built
        \/ k = 4 /\ BuildImage(n) /\ built' = [built EXCEPT ![o] = head]
        \/ k = 5 /\ Run(n, n, n) /\ UNCHANGED built
    BY <1>1, <1>4, CommandsAre DEF Perform
  <2> QED BY <1>1, <1>2, <1>4, <2>1
<1> QED BY <1>3, <1>4 DEF Command

-----------------------------------------------------------------------------
(* Type correctness.                                                       *)

\* The operations on containers and images keep them well formed.
LEMMA DockerType ==
  ASSUME TypeOK, NEW n \in Boxes,
         \/ Stop(n)
         \/ Remove(n)
         \/ n \in Networks /\ RemoveImage(n)
         \/ n \in Networks /\ BuildImage(n)
         \/ \E m \in Networks, env \in Envs : Run(n, m, env)
         \/ Running(n) /\ End(n, "exited") /\ UNCHANGED image
  PROVE  /\ image' \in [Networks -> 0 .. MaxHead \cup {None}]
         /\ box' \in [Boxes -> Containers \cup {None}]
         /\ at' \in [Clients -> Live \cup {"new", "done", "dead"}]
<1>1. ASSUME NEW state \in States, Running(n), End(n, state)
      PROVE  /\ box' \in [Boxes -> Containers \cup {None}]
             /\ at' \in [Clients -> Live \cup {"new", "done", "dead"}]
  <2>1. box[n] \in Containers
    BY <1>1 DEF TypeOK, Running
  <2>2. [box[n] EXCEPT !.state = state] \in Containers
    BY <1>1, <2>1 DEF Containers
  <2> QED BY <1>1, <2>2 DEF End, TypeOK
<1>2. CASE Stop(n)
  BY <1>1, <1>2 DEF Stop, Idle, dockerVars, TypeOK, States
<1>3. CASE Remove(n)
  BY <1>3 DEF Remove, Idle, dockerVars, TypeOK
<1>4. CASE n \in Networks /\ RemoveImage(n)
  BY <1>4 DEF RemoveImage, Idle, dockerVars, TypeOK
<1>5. CASE n \in Networks /\ BuildImage(n)
  BY <1>5 DEF BuildImage, TypeOK
<1>6. ASSUME NEW m \in Networks, NEW env \in Envs, Run(n, m, env)
      PROVE  /\ image' \in [Networks -> 0 .. MaxHead \cup {None}]
             /\ box' \in [Boxes -> Containers \cup {None}]
             /\ at' \in [Clients -> Live \cup {"new", "done", "dead"}]
  <2>1. CASE box[n] # None \/ image[m] = None
    BY <1>6, <2>1 DEF Run, Idle, dockerVars, TypeOK
  <2>2. CASE ~ (box[n] # None \/ image[m] = None)
    <3>1. [from |-> image[m], env |-> env, state |-> "running"] \in Containers
      BY <2>2 DEF Containers, States, TypeOK
    <3> QED BY <1>6, <2>2, <3>1 DEF Run, TypeOK
  <2> QED BY <2>1, <2>2
<1>7. CASE Running(n) /\ End(n, "exited") /\ UNCHANGED image
  BY <1>1, <1>7 DEF States, TypeOK
<1> QED BY <1>2, <1>3, <1>4, <1>5, <1>6, <1>7

\* The reply of a node and the document made from it are well formed.
LEMMA ReplyType ==
  ASSUME NEW s \in Seq(Scripts), s # <<>>
  PROVE  /\ [counter |-> Len(s) - 1, script |-> s[Len(s)]] \in Replies
         /\ Len(s) - 1 + 1 \in DOMAIN s /\ Len(s) - 1 + 1 = Len(s)
<1>1. Len(s) \in Nat \ {0} /\ DOMAIN s = 1 .. Len(s)
  OBVIOUS
<1>2. s[Len(s)] \in Scripts /\ Len(s) - 1 \in Nat
  BY <1>1
<1> QED BY <1>1, <1>2 DEF Replies

\* TypeOK holds at the start.
LEMMA TypeOKInit ==
  ASSUME Init PROVE TypeOK
<1>1. 0 \in 0 .. MaxHead /\ 1 \in 0 .. MaxHead
  BY BoundsAssumption
<1>2. \A n \in Served : [from |-> 0, env |-> n, state |-> "running"] \in Containers
  BY <1>1, ServedAssumption DEF Containers, Envs, States
<1>3. image \in [Networks -> 0 .. MaxHead \cup {None}]
      /\ box \in [Boxes -> Containers \cup {None}]
  BY <1>1, <1>2 DEF Init
<1>4. chains \in [Networks -> [Contracts -> Seq(Scripts)]]
  <2> DEFINE First == { <<>> } \cup { <<s>> : s \in Scripts }
  <2>1. First \subseteq Seq(Scripts)
    <3>1. \A s \in Scripts : <<s>> \in Seq(Scripts)
      OBVIOUS
    <3>2. <<>> \in Seq(Scripts)
      OBVIOUS
    <3> QED BY <3>1, <3>2, Zenon
  <2>2. chains \in [Networks -> [Contracts -> First]]
    BY DEF Init
  <2> HIDE DEF First
  <2> QED BY <2>1, <2>2
<1>5. db \in [Networks -> SUBSET Documents]
  BY DEF Init
<1> QED BY <1>1, <1>3, <1>4, <1>5 DEF Init, TypeOK, Live

\* TypeOK is kept by every step.
LEMMA TypeOKStep ==
  ASSUME TypeOK, \A r \in Clients : RequestInv(r), [Next]_vars
  PROVE  TypeOK'
<1>1. CASE UNCHANGED vars
  BY <1>1 DEF TypeOK, vars, dockerVars, scriptVars, requestVars
<1>2. CASE Commit
  BY <1>2, BoundsAssumption DEF Commit, TypeOK, dockerVars, scriptVars, requestVars
<1>3. ASSUME NEW o \in Operators, Command(o) PROVE TypeOK'
  <2> DEFINE k == script[o].next
             n == script[o].block.name
  <2>1. /\ script[o] \in ScriptRuns /\ k \in 1 .. 5 /\ n \in Networks
        /\ script' = [script EXCEPT ![o].next = k + 1]
        /\ UNCHANGED <<head, chains, db, requestVars>>
    BY <1>3, CommandStep
  <2>2. script' \in [Operators -> ScriptRuns \cup {None}]
    <3>1. [script[o] EXCEPT !.next = k + 1] \in ScriptRuns
      BY <2>1, CommandsAre DEF ScriptRuns
    <3> QED BY <2>1, <3>1 DEF TypeOK
  <2>3. n \in Boxes /\ n \in Envs
    BY <2>1 DEF Boxes, Envs
  <2>4. /\ image' \in [Networks -> 0 .. MaxHead \cup {None}]
        /\ box' \in [Boxes -> Containers \cup {None}]
        /\ at' \in [Clients -> Live \cup {"new", "done", "dead"}]
    <3>1. CASE UNCHANGED <<image, box, at, built>>
      BY <3>1 DEF TypeOK
    <3>2. CASE Stop(n) \/ Remove(n) \/ RemoveImage(n) \/ BuildImage(n) \/ Run(n, n, n)
      BY <2>1, <2>3, <3>2, DockerType
    <3> QED BY <1>3, <3>1, <3>2, CommandStep
  <2>5. /\ built' \in [Operators -> 0 .. MaxHead \cup {None}]
        /\ failed' \in [Operators -> BOOLEAN]
    <3>1. built' = built \/ built' = [built EXCEPT ![o] = head]
      BY <1>3, CommandStep
    <3>2. failed' = failed \/ failed' = [failed EXCEPT ![o] = TRUE]
      BY <1>3, CommandStep
    <3>3. failed' \in [Operators -> BOOLEAN]
      BY <3>2, Zenon DEF TypeOK
    <3> QED BY <3>1, <3>3 DEF TypeOK
  <2> QED BY <2>1, <2>2, <2>4, <2>5 DEF TypeOK, requestVars
<1>4. ASSUME NEW o \in Operators, NEW b \in Blocks, Start(o, b) PROVE TypeOK'
  <2>1. [block |-> b, next |-> 1] \in ScriptRuns
    BY CommandsAre DEF ScriptRuns
  <2>2. script' \in [Operators -> ScriptRuns \cup {None}]
    BY <1>4, <2>1 DEF Start, TypeOK
  <2> QED BY <1>4, <2>2 DEF Start, TypeOK, dockerVars, requestVars
<1>5. ASSUME NEW n \in Boxes, Fatal(n) PROVE TypeOK'
  <2>1. /\ image' \in [Networks -> 0 .. MaxHead \cup {None}]
        /\ box' \in [Boxes -> Containers \cup {None}]
        /\ at' \in [Clients -> Live \cup {"new", "done", "dead"}]
    BY <1>5, DockerType DEF Fatal
  <2> QED BY <1>5, <2>1 DEF Fatal, TypeOK, scriptVars, requestVars
<1>6. ASSUME NEW n \in Networks, NEW env \in OtherEnvs, RunByHand(n, env) PROVE TypeOK'
  <2>1. env \in Envs /\ "byhand" \in Boxes
    BY DEF Envs, Boxes
  <2>2. /\ image' \in [Networks -> 0 .. MaxHead \cup {None}]
        /\ box' \in [Boxes -> Containers \cup {None}]
        /\ at' \in [Clients -> Live \cup {"new", "done", "dead"}]
    BY <1>6, <2>1, DockerType DEF RunByHand
  <2> QED BY <1>6, <2>2 DEF RunByHand, TypeOK, scriptVars, requestVars
<1>7. ASSUME NEW n \in Networks, NEW c \in Contracts, NEW s \in Scripts,
             ChainUpdate(n, c, s)
      PROVE  TypeOK'
  <2>1. chains' \in [Networks -> [Contracts -> Seq(Scripts)]]
    <3>1. Append(chains[n][c], s) \in Seq(Scripts)
      BY DEF TypeOK
    <3> QED BY <1>7, <3>1 DEF ChainUpdate, TypeOK
  <2> QED BY <1>7, <2>1 DEF ChainUpdate, TypeOK, dockerVars, scriptVars, requestVars
<1>8. ASSUME NEW r \in Clients, Ask(r) PROVE TypeOK'
  <2> DEFINE versions == chains[NodeOf(rt[r])][about[r]]
  <2>1. at[r] = "ask" /\ about[r] \in Contracts
    BY <1>8 DEF Ask, Move, Tell, RequestInv
  <2>2. versions \in Seq(Scripts)
    BY <2>1 DEF NodeOf, Networks, TypeOK
  <2>3. reply' \in [Clients -> Replies \cup {None}]
    <3>1. CASE /\ versions # <<>>
               /\ reply' = [reply EXCEPT ![r] =
                    [counter |-> Len(versions) - 1, script |-> versions[Len(versions)]]]
      <4>1. [counter |-> Len(versions) - 1, script |-> versions[Len(versions)]] \in Replies
        BY <2>2, <3>1, ReplyType
      <4> QED BY <3>1, <4>1 DEF TypeOK
    <3>2. CASE UNCHANGED reply
      BY <3>2 DEF TypeOK
    <3> QED BY <1>8, <3>1, <3>2 DEF Ask
  <2>4. at' \in [Clients -> Live \cup {"new", "done", "dead"}]
        /\ told' \in [Clients -> {3, 4, 5, 6, 8, None}]
    BY <1>8 DEF Ask, Move, Tell, TypeOK, Live
  <2> QED BY <1>8, <2>3, <2>4 DEF Ask, TypeOK, dockerVars, scriptVars
<1>9. ASSUME NEW r \in Clients, Find(r) PROVE TypeOK'
  BY <1>9 DEF Find, Move, Tell, TypeOK, Live, dockerVars, scriptVars
<1>10. ASSUME NEW r \in Clients, Insert(r) PROVE TypeOK'
  <2>1. about[r] \in Contracts /\ reply[r] \in Replies
    BY <1>10 DEF Insert, Move, RequestInv, TypeOK
  <2>2. Document(r) \in Documents /\ DatabaseOf(rt[r]) \in Networks
    BY <2>1 DEF Document, Documents, Replies, DatabaseOf, Networks
  <2>3. db' \in [Networks -> SUBSET Documents]
    BY <1>10, <2>2 DEF Insert, TypeOK
  <2>4. at' \in [Clients -> Live \cup {"new", "done", "dead"}]
    BY <1>10 DEF Insert, Move, TypeOK, Live
  <2> QED BY <1>10, <2>3, <2>4 DEF Insert, TypeOK, dockerVars, scriptVars, requestVars
<1>11. ASSUME NEW r \in Clients, Finish(r) PROVE TypeOK'
  BY <1>11 DEF Finish, Move, Tell, TypeOK, Live, dockerVars, scriptVars
<1>12. ASSUME NEW r \in Clients, NEW n \in Boxes, NEW c \in Contracts, Send(r, n, c)
       PROVE  TypeOK'
  <2>1. box[n].env \in Envs
    BY <1>12 DEF Send, Running, TypeOK, Containers
  <2> QED BY <1>12, <2>1 DEF Send, Move, TypeOK, Live, dockerVars, scriptVars
<1> QED BY <1>1, <1>2, <1>3, <1>4, <1>5, <1>6, <1>7, <1>8, <1>9, <1>10, <1>11, <1>12
        DEF Next, Serve

-----------------------------------------------------------------------------
(* What Start.sh brings about.                                             *)

\* The services of earlier deployments were brought up by Start.sh, too.
LEMMA DeployInvInit ==
  ASSUME Init PROVE DeployInv
<1>1. \A n \in Networks : RunsFor(n) = {}
  BY DEF Init, RunsFor
<1>2. \A n \in Networks, i \in Nat : ~Past(n, i) /\ ~Near(n, i)
  BY <1>1 DEF Past, Near
<1>3. \A n \in Networks : n \in Boxes /\ (box[n] # None => box[n].env = n /\ box[n].state = "running")
  BY DEF Init, Boxes
<1>4. \A n \in Networks : StartInv(n)
  BY <1>2, <1>3 DEF StartInv
<1>5. \A o \in Operators : BuiltInv(o)
  BY DEF Init, BuiltInv
<1> QED BY <1>3, <1>4, <1>5 DEF DeployInv, Placed

\* Steps that leave docker and Start.sh alone.
LEMMA DeployInvStays ==
  ASSUME DeployInv, UNCHANGED <<image, box, script, built, failed>>
  PROVE  DeployInv'
BY DEF DeployInv, Placed, BuiltInv, StartInv, Past, Near, Fresh, Running, RunsFor

\* A command of Start.sh, and docker's own failures, leave the invariant of
\* the other networks alone.
LEMMA OtherNetworkStays ==
  ASSUME NEW n \in Networks, StartInv(n),
         RunsFor(n)' = RunsFor(n),
         \A o \in RunsFor(n) : /\ script'[o] = script[o] /\ built'[o] = built[o]
                               /\ failed'[o] = failed[o],
         image'[n] = image[n], box'[n] = box[n]
  PROVE  StartInv(n)'
BY DEF StartInv, Past, Near, Fresh, Running

\* A container whose process ends is still the same container.
LEMMA EndStep ==
  ASSUME TypeOK, NEW n \in Boxes, NEW state \in States, Running(n), End(n, state)
  PROVE  /\ box'[n] # None /\ box'[n].state = state
         /\ box'[n].from = box[n].from /\ box'[n].env = box[n].env
         /\ \A m \in Boxes \ {n} : box'[m] = box[m]
<1>1. box[n] \in Containers
  BY DEF Running, TypeOK
<1>2. box'[n] = [box[n] EXCEPT !.state = state]
      /\ \A m \in Boxes \ {n} : box'[m] = box[m]
  BY DEF End, TypeOK
<1>3. box'[n] \in Containers
  BY <1>1, <1>2 DEF Containers
<1>4. box'[n].state = state /\ box'[n].from = box[n].from /\ box'[n].env = box[n].env
  BY <1>1, <1>2 DEF Containers
<1> QED BY <1>2, <1>3, <1>4, NoneAssumption

\* The runs for a network after one of them has gone one command further.
LEMMA RunsStep ==
  ASSUME TypeOK, NEW o \in Operators, Command(o), NEW n \in Networks
  PROVE  /\ RunsFor(n)' = RunsFor(n)
         /\ RunsFor(n) \subseteq Operators
         /\ \A q \in RunsFor(n) : script[q].next \in 1 .. 6
         /\ \A q \in RunsFor(n) \ {o} : script'[q] = script[q]
         /\ script'[o].next = script[o].next + 1
         /\ o \in RunsFor(n) <=> n = script[o].block.name
<1>1. script[o] \in ScriptRuns /\ script[o].next \in 1 .. 5
      /\ script' = [script EXCEPT ![o].next = script[o].next + 1]
  BY CommandStep
<1>2. script[o] # None /\ script'[o] = [script[o] EXCEPT !.next = script[o].next + 1]
      /\ \A q \in Operators \ {o} : script'[q] = script[q]
  BY <1>1, NoneAssumption DEF TypeOK
<1>3. script'[o] \in ScriptRuns /\ script'[o].block = script[o].block
      /\ script'[o].next = script[o].next + 1
  BY <1>1, <1>2, CommandsAre DEF ScriptRuns
<1>4. script'[o] # None
  BY <1>3, NoneAssumption
<1>5. RunsFor(n)' = RunsFor(n)
  BY <1>2, <1>3, <1>4 DEF RunsFor
<1>6. \A q \in RunsFor(n) : script[q].next \in 1 .. 6
  BY RunsAre DEF RunsFor, TypeOK
<1> QED BY <1>2, <1>3, <1>5, <1>6 DEF RunsFor

\* The command of a run keeps the invariant of its own network.
LEMMA OwnNetworkStep ==
  ASSUME TypeOK, DeployInv, NEW o \in Operators, Command(o),
         NEW k, k = script[o].next, NEW n, n = script[o].block.name
  PROVE  StartInv(n)'
<1> DEFINE R == RunsFor(n)
<1>1. /\ k \in 1 .. 5 /\ n \in Networks /\ n \in Boxes
      /\ UNCHANGED head
      /\ \/ failed' = [failed EXCEPT ![o] = TRUE]
         \/ /\ UNCHANGED failed
            /\ \/ k = 1 /\ Stop(n) /\ UNCHANGED built
               \/ k = 2 /\ Remove(n) /\ UNCHANGED built
               \/ k = 3 /\ RemoveImage(n) /\ UNCHANGED built
               \/ k = 4 /\ BuildImage(n) /\ built' = [built EXCEPT ![o] = head]
               \/ k = 5 /\ Run(n, n, n) /\ UNCHANGED built
  BY CommandStep DEF Boxes
<1>2. /\ RunsFor(n)' = R /\ o \in R /\ R \subseteq Operators
      /\ \A q \in R : script[q].next \in 1 .. 6
      /\ \A q \in R \ {o} : script'[q] = script[q]
      /\ script'[o].next = k + 1
  BY <1>1, RunsStep
<1>3. StartInv(n) /\ BuiltInv(o)
  BY <1>1 DEF DeployInv
<1> HIDE DEF R
<1>4. CASE failed' = [failed EXCEPT ![o] = TRUE]
  <2>1. failed'[o]
    BY <1>4 DEF TypeOK
  <2> QED BY <1>2, <2>1 DEF StartInv
<1>5. SUFFICES ASSUME \A q \in R : ~failed[q], UNCHANGED failed
               PROVE  StartInv(n)'
  BY <1>1, <1>2, <1>4 DEF StartInv
<1>6. /\ box[n] # None /\ box[n].state = "stopped" => Near(n, 2)
      /\ Past(n, 2) /\ Running(n) => Fresh(n, box[n].from)
      /\ Past(n, 3) /\ box[n] # None => Fresh(n, box[n].from)
      /\ Past(n, 5) /\ image[n] = None => Near(n, 4)
      /\ Past(n, 5) /\ image[n] # None => Fresh(n, image[n])
      /\ Past(n, 6) /\ box[n] = None => Near(n, 3) \/ Near(n, 4) \/ Near(n, 5)
  BY <1>3, <1>5 DEF StartInv, R
<1>7. /\ \A i \in Nat : i # k => (Near(n, i) => Near(n, i)')
      /\ \A i \in Nat : i # k + 1 => (Past(n, i)' => Past(n, i))
      /\ Near(n, k + 1)' /\ Near(n, k)
      /\ \A i \in Nat : i <= k => Past(n, i)
  BY <1>1, <1>2 DEF Near, Past, R
<1>8. CASE k = 1 /\ Stop(n) /\ UNCHANGED built
  <2>1. \A i : Fresh(n, i)' <=> Fresh(n, i)
    BY <1>2, <1>8 DEF Fresh, R
  <2>2. /\ image'[n] = image[n] /\ ~Running(n)' /\ Near(n, 2)'
        /\ (box'[n] = None <=> box[n] = None)
        /\ box[n] # None => box'[n].from = box[n].from
    <3>1. CASE Running(n)
      <4>1. End(n, "stopped") /\ UNCHANGED image /\ "stopped" \in States
        BY <1>8, <3>1 DEF Stop, States
      <4>2. box'[n] # None /\ box'[n].state = "stopped" /\ box'[n].from = box[n].from
        BY <1>1, <3>1, <4>1, EndStep
      <4> QED BY <1>7, <1>8, <3>1, <4>1, <4>2 DEF Running
    <3>2. CASE ~Running(n)
      BY <1>7, <1>8, <3>2 DEF Stop, Idle, dockerVars, Running
    <3> QED BY <3>1, <3>2
  <2> QED BY <1>1, <1>6, <1>7, <1>8, <2>1, <2>2 DEF StartInv
<1>9. CASE k = 2 /\ Remove(n) /\ UNCHANGED built
  <2>1. \A i : Fresh(n, i)' <=> Fresh(n, i)
    BY <1>2, <1>9 DEF Fresh, R
  <2>2. /\ image'[n] = image[n] /\ Near(n, 3)' /\ Past(n, 2)
        /\ \/ box'[n] = None
           \/ box'[n] = box[n] /\ Running(n)
    BY <1>1, <1>7, <1>9 DEF Remove, Idle, dockerVars, TypeOK
  <2> QED BY <1>1, <1>6, <1>7, <1>9, <2>1, <2>2 DEF StartInv, Running
<1>10. CASE k = 3 /\ RemoveImage(n) /\ UNCHANGED built
  <2>1. \A i : Fresh(n, i)' <=> Fresh(n, i)
    BY <1>2, <1>10 DEF Fresh, R
  <2>2. /\ box'[n] = box[n] /\ Near(n, 4)'
        /\ image'[n] = None \/ image'[n] = image[n]
    BY <1>1, <1>7, <1>10 DEF RemoveImage, Idle, dockerVars, TypeOK
  <2> QED BY <1>1, <1>6, <1>7, <1>10, <2>1, <2>2 DEF StartInv, Running
<1>11. CASE k = 4 /\ BuildImage(n) /\ built' = [built EXCEPT ![o] = head]
  <2>1. built[o] = None
    BY <1>3, <1>11 DEF BuiltInv
  <2>2. \A i : i # None => (Fresh(n, i) => Fresh(n, i)')
    BY <1>2, <1>11, <2>1 DEF Fresh, R, TypeOK
  <2>3. head # None /\ Fresh(n, head)'
    <3>1. head \in Nat /\ built'[o] = head
      BY <1>11, BoundsAssumption DEF TypeOK
    <3> QED BY <1>1, <1>2, <3>1, NoneAssumption DEF Fresh, R
  <2>4. box'[n] = box[n] /\ image'[n] = head /\ Near(n, 5)'
    BY <1>1, <1>7, <1>11 DEF BuildImage, TypeOK
  <2>5. box[n] # None => box[n].from # None
    BY <1>1, NoneAssumption DEF TypeOK, Containers
  <2> QED BY <1>1, <1>6, <1>7, <1>11, <2>2, <2>3, <2>4, <2>5 DEF StartInv, Running
<1>12. CASE k = 5 /\ Run(n, n, n) /\ UNCHANGED built
  <2>1. \A i : Fresh(n, i)' <=> Fresh(n, i)
    BY <1>2, <1>12 DEF Fresh, R
  <2>2. /\ image'[n] = image[n] /\ Past(n, 2) /\ Past(n, 3) /\ Past(n, 5)
        /\ \/ box'[n] = box[n] /\ box[n] # None
           \/ box'[n] = None /\ box[n] = None /\ image[n] = None
           \/ /\ image[n] # None /\ box'[n].from = image[n]
              /\ box'[n].state = "running" /\ box'[n] # None
    <3>1. CASE box[n] # None \/ image[n] = None
      BY <1>1, <1>7, <1>12, <3>1 DEF Run, Idle, dockerVars
    <3>2. CASE box[n] = None /\ image[n] # None
      <4>1. box'[n] = [from |-> image[n], env |-> n, state |-> "running"]
            /\ image' = image
        BY <1>1, <1>12, <3>2 DEF Run, TypeOK
      <4>2. [from |-> image[n], env |-> n, state |-> "running"] \in Containers
        BY <1>1, <3>2 DEF Containers, States, TypeOK, Envs
      <4> QED BY <1>1, <1>7, <1>12, <3>2, <4>1, <4>2, NoneAssumption
    <3> QED BY <3>1, <3>2
  <2> QED BY <1>1, <1>6, <1>7, <1>12, <2>1, <2>2 DEF StartInv, Running
<1> QED BY <1>1, <1>4, <1>5, <1>8, <1>9, <1>10, <1>11, <1>12

\* What one step does to the containers and images of the networks.
LEMMA CommandElsewhere ==
  ASSUME TypeOK, NEW o \in Operators, Command(o), NEW m \in Networks,
         m # script[o].block.name
  PROVE  box'[m] = box[m] /\ image'[m] = image[m]
<1> DEFINE n == script[o].block.name
<1>1. m \in Boxes /\ n \in Boxes /\ n \in Networks
  BY CommandStep DEF Boxes
<1>2. CASE UNCHANGED <<image, box>>
  BY <1>2
<1>3. CASE Stop(n) \/ Remove(n) \/ RemoveImage(n) \/ BuildImage(n) \/ Run(n, n, n)
  BY <1>1, <1>3 DEF Stop, End, Remove, RemoveImage, BuildImage, Run, Idle,
                    dockerVars, TypeOK
<1> QED BY <1>2, <1>3, CommandStep

\* Start.sh gives the container of a network that network's RUNTIME.
LEMMA CommandPlaces ==
  ASSUME TypeOK, Placed, NEW o \in Operators, Command(o),
         NEW n, n = script[o].block.name, box'[n] # None
  PROVE  box'[n].env = n
<1>1. n \in Boxes /\ n \in Networks
  BY CommandStep DEF Boxes
<1>2. CASE UNCHANGED <<image, box>>
  BY <1>1, <1>2 DEF Placed
<1>3. CASE Stop(n)
  <2>1. CASE Running(n)
    <3>1. End(n, "stopped") /\ "stopped" \in States
      BY <1>3, <2>1 DEF Stop, States
    <3> QED BY <1>1, <2>1, <3>1, EndStep DEF Placed, Running
  <2> QED BY <1>1, <1>3, <2>1 DEF Stop, Idle, dockerVars, Placed
<1>4. CASE Remove(n) \/ RemoveImage(n) \/ BuildImage(n) \/ Run(n, n, n)
  BY <1>1, <1>4 DEF Remove, RemoveImage, BuildImage, Run, Idle, dockerVars,
                    Placed, TypeOK
<1> QED BY <1>2, <1>3, <1>4, CommandStep

\* DeployInv is kept by every step.
LEMMA DeployInvStep ==
  ASSUME TypeOK, DeployInv, [Next]_vars PROVE DeployInv'
<1> USE DEF dockerVars, scriptVars
<1>1. CASE UNCHANGED <<image, box, script, built, failed>>
  BY <1>1, DeployInvStays
<1>2. ASSUME NEW o \in Operators, Command(o) PROVE DeployInv'
  <2> DEFINE n == script[o].block.name
  <2>1. n \in Networks
    BY <1>2, CommandStep
  <2>2. Placed'
    BY <1>2, CommandElsewhere, CommandPlaces DEF DeployInv, Placed
  <2>3. \A q \in Operators : BuiltInv(q)'
    <3>1. /\ script[o] \in ScriptRuns /\ script[o] # None
          /\ script' = [script EXCEPT ![o].next = script[o].next + 1]
          /\ \/ built' = built
             \/ script[o].next = 4 /\ built' = [built EXCEPT ![o] = head]
      BY <1>2, CommandStep DEF Command
    <3>2. script'[o].next = script[o].next + 1 /\ script[o].next \in 1 .. 6
      BY <3>1, CommandsAre DEF ScriptRuns, TypeOK
    <3>3. \A q \in Operators \ {o} : script'[q] = script[q] /\ built'[q] = built[q]
      BY <3>1 DEF TypeOK
    <3>4. script'[o] # None
      <4>1. [script[o] EXCEPT !.next = script[o].next + 1] \in ScriptRuns
        BY <1>2, <3>1, CommandStep, CommandsAre DEF ScriptRuns
      <4> QED BY <3>1, <4>1, NoneAssumption DEF TypeOK
    <3>5. BuiltInv(o)'
      BY <3>1, <3>2, <3>4 DEF BuiltInv, DeployInv
    <3> QED BY <3>3, <3>5 DEF BuiltInv, DeployInv
  <2>4. \A m \in Networks : StartInv(m)'
    <3>1. \A m \in Networks : m = n => StartInv(m)'
      BY <1>2, OwnNetworkStep
    <3>2. ASSUME NEW m \in Networks, m # n PROVE StartInv(m)'
      <4>1. box'[m] = box[m] /\ image'[m] = image[m]
        BY <1>2, <3>2, CommandElsewhere
      <4>2. RunsFor(m)' = RunsFor(m)
            /\ \A q \in RunsFor(m) : q # o /\ q \in Operators /\ script'[q] = script[q]
        BY <1>2, <3>2, RunsStep
      <4>3. (built' = built \/ built' = [built EXCEPT ![o] = head])
            /\ (failed' = failed \/ failed' = [failed EXCEPT ![o] = TRUE])
        BY <1>2, CommandStep
      <4>4. \A q \in RunsFor(m) : built'[q] = built[q] /\ failed'[q] = failed[q]
        BY <4>2, <4>3 DEF TypeOK
      <4> QED BY <4>1, <4>2, <4>4, OtherNetworkStays DEF DeployInv
    <3> QED BY <3>1, <3>2
  <2> QED BY <2>2, <2>3, <2>4 DEF DeployInv
<1>3. ASSUME NEW o \in Operators, NEW b \in Blocks, Start(o, b) PROVE DeployInv'
  <2>1. /\ script[o] = None /\ script' = [script EXCEPT ![o] = [block |-> b, next |-> 1]]
        /\ UNCHANGED <<image, box, built, failed>>
    BY <1>3 DEF Start
  <2>2. /\ script'[o].next = 1 /\ script'[o].block = b
        /\ \A q \in Operators \ {o} : script'[q] = script[q]
    BY <2>1 DEF TypeOK
  <2>3. script'[o] # None
    <3>1. [block |-> b, next |-> 1] \in ScriptRuns
      BY CommandsAre DEF ScriptRuns
    <3> QED BY <2>1, <3>1, NoneAssumption DEF TypeOK
  <2>4. Placed' /\ \A q \in Operators : BuiltInv(q)'
    BY <2>1, <2>2, <2>3 DEF DeployInv, Placed, BuiltInv
  <2>5. ASSUME NEW n \in Networks PROVE StartInv(n)'
    <3>1. /\ RunsFor(n) \subseteq RunsFor(n)' /\ RunsFor(n)' \subseteq RunsFor(n) \cup {o}
          /\ \A q \in RunsFor(n) : script'[q] = script[q]
      BY <2>1, <2>2, <2>3 DEF RunsFor
    <3>2. \A i \in Nat : (Near(n, i) => Near(n, i)') /\ (i > 1 /\ Past(n, i)' => Past(n, i))
      BY <2>2, <3>1 DEF Near, Past
    <3>3. \A i : Fresh(n, i) => Fresh(n, i)'
      BY <2>1, <3>1 DEF Fresh
    <3>4. (\A q \in RunsFor(n)' : ~failed'[q]) => (\A q \in RunsFor(n) : ~failed[q])
      BY <2>1, <3>1
    <3> QED BY <2>1, <2>5, <3>2, <3>3, <3>4 DEF StartInv, DeployInv, Running
  <2> QED BY <2>4, <2>5 DEF DeployInv
<1>4. ASSUME NEW n \in Boxes, Fatal(n) PROVE DeployInv'
  <2>1. /\ Running(n) /\ End(n, "exited") /\ "exited" \in States
        /\ UNCHANGED <<image, script, built, failed>>
    BY <1>4 DEF Fatal, States
  <2>2. /\ box'[n] # None /\ box'[n].state = "exited"
        /\ box'[n].from = box[n].from /\ box'[n].env = box[n].env
        /\ \A m \in Boxes \ {n} : box'[m] = box[m]
    BY <2>1, EndStep
  <2>3. \A m \in Networks : m \in Boxes
    BY DEF Boxes
  <2>4. Placed' /\ \A q \in Operators : BuiltInv(q)'
    BY <2>1, <2>2, <2>3 DEF DeployInv, Placed, BuiltInv, Running
  <2>5. ASSUME NEW m \in Networks PROVE StartInv(m)'
    <3>1. /\ RunsFor(m)' = RunsFor(m)
          /\ \A i : (Near(m, i)' <=> Near(m, i)) /\ (Past(m, i)' <=> Past(m, i))
                   /\ (Fresh(m, i)' <=> Fresh(m, i))
      BY <2>1 DEF RunsFor, Near, Past, Fresh
    <3> QED BY <2>1, <2>2, <2>3, <2>5, <3>1 DEF StartInv, DeployInv, Running
  <2> QED BY <2>4, <2>5 DEF DeployInv
<1>5. ASSUME NEW n \in Networks, NEW env \in OtherEnvs, RunByHand(n, env) PROVE DeployInv'
  <2>1. /\ UNCHANGED <<image, script, built, failed>>
        /\ \A m \in Networks : box'[m] = box[m]
    BY <1>5 DEF RunByHand, Run, Idle, TypeOK, Boxes, Networks
  <2>2. Placed' /\ \A q \in Operators : BuiltInv(q)'
    BY <2>1 DEF DeployInv, Placed, BuiltInv
  <2>3. ASSUME NEW m \in Networks PROVE StartInv(m)'
    <3>1. RunsFor(m)' = RunsFor(m)
      BY <2>1 DEF RunsFor
    <3> QED BY <2>1, <2>3, <3>1, OtherNetworkStays DEF DeployInv
  <2> QED BY <2>2, <2>3 DEF DeployInv
<1>6. CASE UNCHANGED vars \/ Commit
  BY <1>1, <1>6 DEF vars, Commit
<1>7. ASSUME NEW n \in Networks, NEW c \in Contracts, NEW s \in Scripts,
             ChainUpdate(n, c, s)
      PROVE  DeployInv'
  BY <1>1, <1>7 DEF ChainUpdate
<1>8. ASSUME NEW r \in Clients,
             Serve(r) \/ \E n \in Boxes, c \in Contracts : Send(r, n, c)
      PROVE  DeployInv'
  BY <1>1, <1>8 DEF Serve, Send, Ask, Find, Insert, Finish
<1> QED BY <1>2, <1>3, <1>4, <1>5, <1>6, <1>7, <1>8 DEF Next

-----------------------------------------------------------------------------
(* Requests and documents.                                                 *)

\* Steps that leave request r alone, or end the process it is in.
Keeps(r) ==
  /\ at'[r] = at[r] \/ (at[r] \in Live /\ at'[r] = "dead")
  /\ sentTo'[r] = sentTo[r] /\ rt'[r] = rt[r] /\ about'[r] = about[r]
  /\ reply'[r] = reply[r] /\ told'[r] = told[r]

\* Chains and databases only grow.
Grows ==
  /\ \A n \in Networks : db[n] \subseteq db'[n]
  /\ \A n \in Networks, c \in Contracts : \A i \in DOMAIN chains[n][c] :
       i \in DOMAIN chains'[n][c] /\ chains'[n][c][i] = chains[n][c][i]

\* RUNTIME picks node and database of the same network, the one it names.
LEMMA NetworksChosen ==
  ASSUME NEW env
  PROVE  /\ NodeOf(env) \in Networks /\ DatabaseOf(env) = NodeOf(env)
         /\ env \in Networks => NodeOf(env) = env
BY DEF NodeOf, DatabaseOf, Networks

\* A request that keeps what it has is still right about a growing chain.
LEMMA RequestStays ==
  ASSUME NEW r, RequestInv(r), Keeps(r), Grows PROVE RequestInv(r)'
<1>1. Document(r)' = Document(r)
  BY DEF Keeps, Document
<1>2. at'[r] = "tell" => Document(r)' \in db'[DatabaseOf(rt'[r])]
  BY <1>1, NetworksChosen DEF RequestInv, Keeps, Grows
<1> DEFINE n == NodeOf(rt[r])
           k == reply[r].counter + 1
<1>3. reply[r] # None => /\ n \in Networks /\ about[r] \in Contracts
                         /\ k \in DOMAIN chains[n][about[r]]
                         /\ chains[n][about[r]][k] = reply[r].script
  BY NetworksChosen DEF RequestInv
<1> HIDE DEF k
<1>4. reply[r] # None => /\ k \in DOMAIN chains'[n][about[r]]
                         /\ chains'[n][about[r]][k] = reply[r].script
  BY <1>3 DEF Grows
<1> USE DEF k
<1> QED BY <1>2, <1>4 DEF RequestInv, Keeps, Live

\* So is a document.
LEMMA RecordStays ==
  ASSUME NEW n, NEW v, RecordInv(n, v), Keeps(v.by) PROVE RecordInv(n, v)'
BY DEF RecordInv, Keeps, Document, Live

\* At the start there are no requests and no documents.
LEMMA RegistryInvInit ==
  ASSUME Init PROVE RegistryInv
<1>1. \A n \in Networks : db[n] = {}
  BY DEF Init
<1>2. \A r \in Clients : RequestInv(r)
  BY NoneAssumption DEF Init, RequestInv
<1> QED BY <1>1, <1>2 DEF RegistryInv

\* A step that leaves every request alone, or ends its process, inserts
\* nothing and lets the chains grow.
LEMMA RegistryInvStays ==
  ASSUME TypeOK, RegistryInv, \A r \in Clients : Keeps(r), Grows, UNCHANGED db
  PROVE  RegistryInv'
<1>1. \A n \in Networks : \A v \in db[n] : v.by \in Clients
  BY DEF TypeOK, Documents
<1> QED BY <1>1, RequestStays, RecordStays DEF RegistryInv

\* A step of request r alone, which has no document.
LEMMA RegistryInvOfOne ==
  ASSUME TypeOK, RegistryInv, NEW r \in Clients, RequestInv(r)',
         \A q \in Clients \ {r} : Keeps(q), Grows, UNCHANGED db,
         \A n \in Networks : \A v \in db[n] : v.by = r => RecordInv(n, v)'
  PROVE  RegistryInv'
<1>1. \A n \in Networks : \A v \in db[n] : v.by \in Clients
  BY DEF TypeOK, Documents
<1> QED BY <1>1, RequestStays, RecordStays DEF RegistryInv

\* An update of a contract adds a version.
LEMMA ChainUpdateGrows ==
  ASSUME TypeOK, NEW n \in Networks, NEW c \in Contracts, NEW s \in Scripts,
         ChainUpdate(n, c, s)
  PROVE  Grows
<1>1. chains[n][c] \in Seq(Scripts)
  BY DEF TypeOK
<1>2. \A i \in DOMAIN chains[n][c] : /\ i \in DOMAIN Append(chains[n][c], s)
                                    /\ Append(chains[n][c], s)[i] = chains[n][c][i]
  BY <1>1
<1>3. chains'[n][c] = Append(chains[n][c], s)
      /\ \A m \in Networks, d \in Contracts :
           m # n \/ d # c => chains'[m][d] = chains[m][d]
  BY DEF ChainUpdate, TypeOK
<1> QED BY <1>2, <1>3 DEF Grows, ChainUpdate

\* Docker ends requests, and does nothing else to them.
LEMMA DockerKeeps ==
  ASSUME TypeOK, NEW r \in Clients, UNCHANGED requestVars,
         \/ UNCHANGED at
         \/ \E n : \/ Stop(n) \/ Remove(n) \/ RemoveImage(n) \/ BuildImage(n)
                   \/ (\E m, env : Run(n, m, env))
                   \/ End(n, "exited")
  PROVE  Keeps(r)
<1>1. at' = at \/ \E n, state : End(n, state)
  BY DEF Stop, Remove, RemoveImage, BuildImage, Run, Idle
<1>2. at'[r] = at[r] \/ (at[r] \in Live /\ at'[r] = "dead")
  BY <1>1 DEF End, TypeOK
<1> QED BY <1>2 DEF Keeps, requestVars

\* A request that has not come to its insert has no document.
LEMMA NoDocument ==
  ASSUME RegistryInv, NEW r, at[r] \notin {"tell", "done", "dead"}
  PROVE  \A n \in Networks : \A v \in db[n] : v.by # r
BY DEF RegistryInv, RecordInv

\* RegistryInv is kept by Send.
LEMMA SendStep ==
  ASSUME TypeOK, DeployInv, RegistryInv,
         NEW r \in Clients, NEW n \in Boxes, NEW c \in Contracts, Send(r, n, c)
  PROVE  RegistryInv'
<1> USE DEF Send, Move
<1>1. box[n].env \in Envs /\ (n \in Networks => box[n].env = n)
  BY DEF Running, TypeOK, Containers, DeployInv, Placed
<1>2. /\ at'[r] = "ask" /\ sentTo'[r] = n /\ rt'[r] = box[n].env /\ about'[r] = c
      /\ reply'[r] = None /\ told'[r] = None
  BY DEF TypeOK, RegistryInv, RequestInv
<1>3. RequestInv(r)'
  BY <1>1, <1>2, NoneAssumption DEF RequestInv
<1>4. \A q \in Clients \ {r} : Keeps(q)
  BY DEF Keeps, TypeOK
<1>5. Grows
  BY DEF Grows
<1> QED BY <1>3, <1>4, <1>5, NoDocument, RegistryInvOfOne

\* RegistryInv is kept by Ask.
LEMMA AskStep ==
  ASSUME TypeOK, RegistryInv, NEW r \in Clients, Ask(r)
  PROVE  RegistryInv'
<1> DEFINE versions == chains[NodeOf(rt[r])][about[r]]
<1>1. /\ at[r] = "ask" /\ reply[r] = None /\ told[r] = None /\ about[r] \in Contracts
      /\ UNCHANGED <<sentTo, rt, about, chains, db>>
  BY DEF Ask, Move, Tell, RegistryInv, RequestInv
<1>2. versions \in Seq(Scripts)
  BY <1>1, NetworksChosen DEF TypeOK
<1>3. CASE /\ Move(r, "ask", "find") /\ versions # <<>> /\ UNCHANGED told
           /\ reply' = [reply EXCEPT ![r] =
                [counter |-> Len(versions) - 1, script |-> versions[Len(versions)]]]
  <2> DEFINE answer == [counter |-> Len(versions) - 1, script |-> versions[Len(versions)]]
  <2>1. /\ answer \in Replies /\ answer.counter + 1 \in DOMAIN versions
        /\ versions[answer.counter + 1] = answer.script
    BY <1>2, <1>3, ReplyType
  <2>2. reply'[r] = answer /\ at'[r] = "find" /\ told'[r] = None
    BY <1>1, <1>3 DEF Move, TypeOK
  <2> HIDE DEF answer
  <2>3. RequestInv(r)'
    BY <1>1, <2>1, <2>2, NoneAssumption DEF RequestInv, RegistryInv
  <2>4. \A q \in Clients \ {r} : Keeps(q)
    BY <1>1, <1>3 DEF Keeps, TypeOK, Move
  <2> QED BY <1>1, <2>3, <2>4, NoDocument, RegistryInvOfOne DEF Grows
<1>4. CASE /\ \/ Tell(r, "ask", 3)
              \/ Tell(r, "ask", 4)
              \/ Tell(r, "ask", 8)
           /\ UNCHANGED reply
  <2>1. reply'[r] = None /\ at'[r] = "done" /\ told'[r] \in {3, 4, 8}
    BY <1>1, <1>4 DEF Tell, Move, TypeOK
  <2>2. RequestInv(r)'
    BY <1>1, <2>1, NoneAssumption DEF RequestInv, RegistryInv
  <2>3. \A q \in Clients \ {r} : Keeps(q)
    BY <1>1, <1>4 DEF Keeps, TypeOK, Tell, Move
  <2> QED BY <1>1, <2>2, <2>3, NoDocument, RegistryInvOfOne DEF Grows
<1> QED BY <1>3, <1>4 DEF Ask

\* RegistryInv is kept by Find.
LEMMA FindStep ==
  ASSUME TypeOK, RegistryInv, NEW r \in Clients, Find(r)
  PROVE  RegistryInv'
<1>1. /\ at[r] = "find" /\ reply[r] # None /\ told[r] = None
      /\ UNCHANGED <<sentTo, rt, about, reply, chains, db>>
      /\ (at'[r] = "done" /\ told'[r] = 6) \/ (at'[r] = "ins" /\ told'[r] = None)
  BY DEF Find, Move, Tell, RegistryInv, RequestInv, TypeOK
<1>2. RequestInv(r)'
  BY <1>1, NoneAssumption DEF RequestInv, RegistryInv
<1>3. \A q \in Clients \ {r} : Keeps(q)
  BY <1>1 DEF Find, Keeps, TypeOK, Tell, Move
<1> QED BY <1>1, <1>2, <1>3, NoDocument, RegistryInvOfOne DEF Grows

\* RegistryInv is kept by Finish.
LEMMA FinishStep ==
  ASSUME TypeOK, RegistryInv, NEW r \in Clients, Finish(r)
  PROVE  RegistryInv'
<1>1. /\ at[r] = "tell" /\ reply[r] # None /\ at'[r] = "done" /\ told'[r] = 5
      /\ UNCHANGED <<sentTo, rt, about, reply, chains, db>>
  BY DEF Finish, Move, Tell, RegistryInv, RequestInv, TypeOK
<1>2. RequestInv(r)'
  BY <1>1, NoneAssumption DEF RequestInv, RegistryInv
<1>3. \A q \in Clients \ {r} : Keeps(q)
  BY <1>1 DEF Finish, Keeps, TypeOK, Tell, Move
<1>4. \A n \in Networks : \A v \in db[n] : v.by = r => RecordInv(n, v)'
  BY <1>1 DEF RegistryInv, RecordInv, Document
<1> QED BY <1>1, <1>2, <1>3, <1>4, RegistryInvOfOne DEF Grows

\* RegistryInv is kept by Insert.
LEMMA InsertStep ==
  ASSUME TypeOK, RegistryInv, NEW r \in Clients, Insert(r)
  PROVE  RegistryInv'
<1> DEFINE n == DatabaseOf(rt[r])
<1>1. /\ at[r] = "ins" /\ reply[r] # None /\ told[r] = None /\ at'[r] = "tell"
      /\ n \in Networks
      /\ UNCHANGED <<sentTo, rt, about, reply, told, chains>>
      /\ db'[n] = db[n] \cup {Document(r)}
      /\ \A m \in Networks \ {n} : db'[m] = db[m]
  BY NetworksChosen DEF Insert, Move, RegistryInv, RequestInv, TypeOK, requestVars
<1>2. Document(r)' = Document(r) /\ Document(r).by = r
  BY <1>1 DEF Document
<1>3. RequestInv(r)'
  BY <1>1, <1>2, NoneAssumption DEF RequestInv, RegistryInv
<1>4. \A q \in Clients \ {r} : Keeps(q)
  BY <1>1 DEF Insert, Keeps, TypeOK, Move
<1>5. Grows
  BY <1>1 DEF Grows
<1>6. \A m \in Networks : \A v \in db[m] : RecordInv(m, v)'
  <2>1. \A m \in Networks : \A v \in db[m] : v.by # r
    BY <1>1, NoDocument
  <2>2. \A m \in Networks : \A v \in db[m] : v.by \in Clients
    BY DEF TypeOK, Documents
  <2> QED BY <1>4, <2>1, <2>2, RecordStays DEF RegistryInv
<1>7. \A m, v : m = n /\ v = Document(r) => RecordInv(m, v)'
  BY <1>1, <1>2 DEF RecordInv
<1>8. \A m \in Networks : \A v \in db'[m] : RecordInv(m, v)'
  BY <1>1, <1>6, <1>7
<1> QED BY <1>3, <1>4, <1>5, <1>8, RequestStays DEF RegistryInv

\* RegistryInv is kept by every step.
LEMMA RegistryInvStep ==
  ASSUME TypeOK, DeployInv, RegistryInv, [Next]_vars PROVE RegistryInv'
<1>1. CASE UNCHANGED vars \/ Commit
  <2>1. UNCHANGED <<chains, db, at, requestVars>>
    BY <1>1 DEF vars, Commit
  <2> QED BY <2>1, DockerKeeps, RegistryInvStays DEF Grows
<1>2. ASSUME NEW o \in Operators, Command(o) PROVE RegistryInv'
  <2>1. UNCHANGED <<chains, db, requestVars>>
    BY <1>2, CommandStep
  <2>2. \A r \in Clients : Keeps(r)
    BY <1>2, <2>1, CommandStep, DockerKeeps
  <2> QED BY <2>1, <2>2, RegistryInvStays DEF Grows
<1>3. ASSUME NEW o \in Operators, NEW b \in Blocks, Start(o, b) PROVE RegistryInv'
  BY <1>3, DockerKeeps, RegistryInvStays DEF Start, Grows
<1>4. ASSUME NEW n \in Boxes, Fatal(n) PROVE RegistryInv'
  BY <1>4, DockerKeeps, RegistryInvStays DEF Fatal, Grows
<1>5. ASSUME NEW n \in Networks, NEW env \in OtherEnvs, RunByHand(n, env)
      PROVE  RegistryInv'
  BY <1>5, DockerKeeps, RegistryInvStays DEF RunByHand, Grows
<1>6. ASSUME NEW n \in Networks, NEW c \in Contracts, NEW s \in Scripts,
             ChainUpdate(n, c, s)
      PROVE  RegistryInv'
  <2>1. UNCHANGED <<db, at, requestVars>>
    BY <1>6 DEF ChainUpdate
  <2> QED BY <1>6, <2>1, ChainUpdateGrows, DockerKeeps, RegistryInvStays
<1> QED BY <1>1, <1>2, <1>3, <1>4, <1>5, <1>6, SendStep, AskStep, FindStep,
           InsertStep, FinishStep
        DEF Next, Serve

-----------------------------------------------------------------------------
(* The theorems.                                                           *)

\* Inv holds at the start.
LEMMA InvInit == ASSUME Init PROVE Inv
BY TypeOKInit, DeployInvInit, RegistryInvInit DEF Inv

\* Inv is kept by every step.
LEMMA InvStep == ASSUME Inv, [Next]_vars PROVE Inv'
BY TypeOKStep, DeployInvStep, RegistryInvStep DEF Inv, RegistryInv

\* Inv is an invariant.
THEOREM Invariance == Spec => []Inv
<1>1. Init => Inv
  BY InvInit
<1>2. Inv /\ [Next]_vars => Inv'
  BY InvStep
<1> QED BY <1>1, <1>2, PTL DEF Spec

\* TypeOK is an invariant: in particular the blocks of Start.sh, the requests
\* and the documents only ever name networks and values of RUNTIME that exist.
THEOREM TypeCorrect == Spec => []TypeOK
BY Invariance, PTL DEF Inv

\* Every document is in the database of the network its author was sent to,
\* and names a script the contract has had there.
THEOREM DocumentsAreWhereSent == Spec => []RecordsWhereSent
<1>1. Inv => RecordsWhereSent
  <2>1. SUFFICES ASSUME Inv, NEW n \in Networks, NEW v \in db[n]
                 PROVE  /\ sentTo[v.by] \in {n, "byhand"}
                        /\ v.counter + 1 \in DOMAIN chains[n][v.hash]
                        /\ chains[n][v.hash][v.counter + 1] = v.script
    BY DEF RecordsWhereSent
  <2>2. v.by \in Clients
    BY <2>1 DEF Inv, TypeOK, Documents
  <2>3. /\ reply[v.by] # None /\ v = Document(v.by) /\ NodeOf(rt[v.by]) = n
        /\ at[v.by] \in {"tell", "done", "dead"}
    BY <2>1, NetworksChosen DEF Inv, RegistryInv, RecordInv
  <2>4. RequestInv(v.by)
    BY <2>1, <2>2 DEF Inv, RegistryInv
  <2>5. v.hash = about[v.by] /\ v.counter = reply[v.by].counter
        /\ v.script = reply[v.by].script
    BY <2>3 DEF Document
  <2>6. sentTo[v.by] \in {n, "byhand"}
    BY <2>3, <2>4, NetworksChosen DEF RequestInv, Boxes
  <2> QED BY <2>3, <2>4, <2>5, <2>6 DEF RequestInv
<1> QED BY <1>1, Invariance, PTL

\* When all runs of Start.sh for a network are over and docker itself has not
\* failed, its container is there, has been started, and is from one of
\* their builds, for any number of runs in any interleaving.
THEOREM StartBringsUp == Spec => []UpAfterStart
<1>1. Inv => UpAfterStart
  <2>1. SUFFICES ASSUME Inv, NEW n \in Networks, RunsFor(n) # {},
                        \A o \in RunsFor(n) : Over(o) /\ ~failed[o]
                 PROVE  /\ box[n] # None /\ box[n].state # "stopped"
                        /\ \E o \in RunsFor(n) : box[n].from = built[o]
    BY DEF UpAfterStart
  <2>2. \A o \in RunsFor(n) : script[o].next = 6
    <3>1. \A o \in RunsFor(n) : script[o].next \in 1 .. 6
      BY <2>1, RunsAre DEF RunsFor, Inv, TypeOK
    <3> QED BY <2>1, <3>1, CommandsAre DEF Over
  <2>3. /\ Past(n, 3) /\ Past(n, 6)
        /\ ~Near(n, 2) /\ ~Near(n, 3) /\ ~Near(n, 4) /\ ~Near(n, 5)
    BY <2>1, <2>2 DEF Past, Near
  <2> QED BY <2>1, <2>3 DEF Inv, DeployInv, StartInv, Fresh
<1> QED BY <1>1, Invariance, PTL

-----------------------------------------------------------------------------
(* Each network is a registry of its own.                                  *)

\* What the requests of network n have been told.
ToldOn(n) ==
  [r \in Clients |->
    IF told[r] = None \/ DatabaseOf(rt[r]) # n THEN None
    ELSE [code  |-> told[r],
          about |-> IF told[r] \in {5, 6} THEN <<about[r], reply[r].counter>>
                    ELSE None]]

\* Nobody on network n is answered, and the answered keep what they have.
LEMMA ToldOnStays ==
  ASSUME NEW n,
         \A q \in Clients :
           \/ told[q] = None /\ told'[q] = None
           \/ /\ told'[q] = told[q] /\ rt'[q] = rt[q]
              /\ about'[q] = about[q] /\ reply'[q] = reply[q]
           \/ DatabaseOf(rt[q]) # n /\ rt'[q] = rt[q]
  PROVE  ToldOn(n)' = ToldOn(n)
<1>1. \A q \in Clients : ToldOn(n)'[q] = ToldOn(n)[q]
  BY DEF ToldOn
<1>2. ToldOn(n) = [q \in Clients |-> ToldOn(n)[q]]
      /\ ToldOn(n)' = [q \in Clients |-> ToldOn(n)'[q]]
  BY DEF ToldOn
<1> QED BY <1>1, <1>2

\* Request r is answered.
LEMMA ToldOnExcept ==
  ASSUME TypeOK, NEW r \in Clients, NEW n, told[r] = None,
         \A q \in Clients \ {r} : told'[q] = told[q],
         UNCHANGED <<rt, about, reply>>
  PROVE  /\ ToldOn(n)[r] = None
         /\ ToldOn(n)' = [ToldOn(n) EXCEPT ![r] = ToldOn(n)'[r]]
<1>1. \A q \in Clients \ {r} : ToldOn(n)'[q] = ToldOn(n)[q]
  BY DEF ToldOn
<1>2. ToldOn(n) = [q \in Clients |-> ToldOn(n)[q]]
      /\ ToldOn(n)' = [q \in Clients |-> ToldOn(n)'[q]]
  BY DEF ToldOn
<1>3. ToldOn(n)[r] = None
  BY DEF ToldOn
<1> QED BY <1>1, <1>2, <1>3

\* Steps that change neither the chain nor the documents of network n, nor
\* what its requests have been told.
LEMMA NetStays ==
  ASSUME NEW n, chains'[n] = chains[n], db'[n] = db[n], ToldOn(n)' = ToldOn(n)
  PROVE  UNCHANGED Net(n)!registryVars
BY DEF Net!registryVars, ToldOn

\* An update of a contract is the registry's Update.
LEMMA ChainUpdateMaps ==
  ASSUME TypeOK, NEW m \in Networks, NEW c \in Contracts, NEW s \in Scripts,
         ChainUpdate(m, c, s), NEW n \in Networks
  PROVE  UNCHANGED Net(n)!registryVars \/ Net(n)!RegistryNext
<1>1. ToldOn(n)' = ToldOn(n) /\ UNCHANGED db
  BY ToldOnStays DEF ChainUpdate, requestVars
<1>2. CASE m # n
  <2>1. chains'[n] = chains[n]
    BY <1>2 DEF ChainUpdate, TypeOK
  <2> QED BY <1>1, <2>1, NetStays
<1>3. CASE m = n
  <2>1. chains'[n] = [chains[n] EXCEPT ![c] = Append(chains[n][c], s)]
    BY <1>3 DEF ChainUpdate, TypeOK
  <2>2. Net(n)!Update(c, s)
    BY <1>1, <2>1 DEF Net!Update, ToldOn
  <2> QED BY <2>2 DEF Net!RegistryNext
<1> QED BY <1>2, <1>3

\* An answer that is no verdict is the registry's TellOther.
LEMMA OtherAnswerMaps ==
  ASSUME Inv, NEW r \in Clients, NEW code \in {3, 4, 8}, at[r] = "ask",
         told' = [told EXCEPT ![r] = code], UNCHANGED <<chains, db, rt, about, reply>>,
         NEW n \in Networks, DatabaseOf(rt[r]) = n
  PROVE  Net(n)!RegistryNext
<1>1. told[r] = None
  BY DEF Inv, RegistryInv, RequestInv
<1>2. \A v \in db[n] : v.by # r
  BY NoDocument DEF Inv
<1>3. ToldOn(n)[r] = None
      /\ ToldOn(n)' = [ToldOn(n) EXCEPT ![r] = [code |-> code, about |-> None]]
  <2>1. told'[r] = code /\ code # None /\ code \notin {5, 6}
        /\ \A q \in Clients \ {r} : told'[q] = told[q]
    BY NoneAssumption DEF Inv, TypeOK
  <2>2. ToldOn(n)[r] = None /\ ToldOn(n)' = [ToldOn(n) EXCEPT ![r] = ToldOn(n)'[r]]
    BY <1>1, <2>1, ToldOnExcept DEF Inv
  <2>3. ToldOn(n)'[r] = [code |-> code, about |-> None]
    BY <2>1 DEF ToldOn
  <2> QED BY <2>2, <2>3
<1>4. Net(n)!TellOther(r, code)
  BY <1>2, <1>3 DEF Net!TellOther, ToldOn
<1> QED BY <1>4 DEF Net!RegistryNext

\* Code 6 is the registry's TellAlready.
LEMMA AlreadyMaps ==
  ASSUME Inv, NEW r \in Clients, at[r] = "find", Known(r),
         told' = [told EXCEPT ![r] = 6], UNCHANGED <<chains, db, rt, about, reply>>,
         NEW n \in Networks, DatabaseOf(rt[r]) = n
  PROVE  Net(n)!RegistryNext
<1> DEFINE c == about[r]
           k == reply[r].counter
<1>1. told[r] = None /\ c \in Contracts
  BY DEF Inv, RegistryInv, RequestInv
<1>2. \A v \in db[n] : v.by # r
  BY NoDocument DEF Inv
<1>3. PICK v \in db[n] : v.hash = c /\ v.counter = k
  BY DEF Known
<1>4. ToldOn(n)[r] = None
      /\ ToldOn(n)' = [ToldOn(n) EXCEPT ![r] = [code |-> 6, about |-> <<c, v.counter>>]]
  <2>1. told'[r] = 6 /\ None # 6
        /\ \A q \in Clients \ {r} : told'[q] = told[q]
    BY NoneAssumption DEF Inv, TypeOK
  <2>2. ToldOn(n)[r] = None /\ ToldOn(n)' = [ToldOn(n) EXCEPT ![r] = ToldOn(n)'[r]]
    BY <1>1, <2>1, ToldOnExcept DEF Inv
  <2>3. ToldOn(n)'[r] = [code |-> 6, about |-> <<c, v.counter>>]
    BY <1>3, <2>1 DEF ToldOn
  <2> QED BY <2>2, <2>3
<1>5. Net(n)!TellAlready(r, c, v.counter)
  BY <1>2, <1>3, <1>4 DEF Net!TellAlready, ToldOn
<1> HIDE DEF c
<1> QED BY <1>1, <1>3, <1>5 DEF Net!RegistryNext

\* Code 5 is the registry's TellVerified.
LEMMA VerifiedMaps ==
  ASSUME Inv, NEW r \in Clients, at[r] = "tell",
         told' = [told EXCEPT ![r] = 5], UNCHANGED <<chains, db, rt, about, reply>>,
         NEW n \in Networks, DatabaseOf(rt[r]) = n
  PROVE  Net(n)!RegistryNext
<1> DEFINE c == about[r]
<1>1. told[r] = None /\ c \in Contracts /\ Document(r) \in db[n]
  BY DEF Inv, RegistryInv, RequestInv
<1>2. PICK v \in db[n] : v.by = r /\ v.hash = c /\ v.counter = reply[r].counter
  BY <1>1 DEF Document
<1>3. ToldOn(n)[r] = None
      /\ ToldOn(n)' = [ToldOn(n) EXCEPT ![r] = [code |-> 5, about |-> <<c, v.counter>>]]
  <2>1. told'[r] = 5 /\ None # 5
        /\ \A q \in Clients \ {r} : told'[q] = told[q]
    BY NoneAssumption DEF Inv, TypeOK
  <2>2. ToldOn(n)[r] = None /\ ToldOn(n)' = [ToldOn(n) EXCEPT ![r] = ToldOn(n)'[r]]
    BY <1>1, <2>1, ToldOnExcept DEF Inv
  <2>3. ToldOn(n)'[r] = [code |-> 5, about |-> <<c, v.counter>>]
    BY <1>2, <2>1 DEF ToldOn
  <2> QED BY <2>2, <2>3
<1>4. Net(n)!TellVerified(r, c, v.counter)
  BY <1>1, <1>2, <1>3 DEF Net!TellVerified, ToldOn
<1> HIDE DEF c
<1> QED BY <1>1, <1>4 DEF Net!RegistryNext

\* The insert is the registry's Record.
LEMMA InsertMaps ==
  ASSUME Inv, NEW r \in Clients, Insert(r), NEW n \in Networks
  PROVE  UNCHANGED Net(n)!registryVars \/ Net(n)!RegistryNext
<1>1. /\ at[r] = "ins" /\ UNCHANGED <<chains, told, rt, about, reply>>
      /\ db' = [db EXCEPT ![DatabaseOf(rt[r])] = @ \cup {Document(r)}]
  BY DEF Insert, Move, requestVars
<1>2. ToldOn(n)' = ToldOn(n)
  BY <1>1, ToldOnStays
<1>3. CASE DatabaseOf(rt[r]) # n
  <2>1. db'[n] = db[n]
    BY <1>1, <1>3 DEF Inv, TypeOK
  <2> QED BY <1>1, <1>2, <2>1, NetStays
<1>4. CASE DatabaseOf(rt[r]) = n
  <2> DEFINE c == about[r]
             k == reply[r].counter + 1
  <2>1. /\ told[r] = None /\ c \in Contracts /\ reply[r] \in Replies
        /\ k \in DOMAIN chains[n][c] /\ chains[n][c][k] = reply[r].script
    BY <1>1, <1>4, NetworksChosen DEF Inv, RegistryInv, RequestInv, TypeOK
  <2>2. k - 1 = reply[r].counter
    BY <2>1 DEF Replies
  <2>3. \A v \in db[n] : v.by # r
    BY <1>1, NoDocument DEF Inv
  <2> HIDE DEF k
  <2>4. db'[n] = db[n] \cup
          {[hash |-> c, counter |-> k - 1, script |-> chains[n][c][k], by |-> r]}
    BY <1>1, <1>4, <2>1, <2>2 DEF Document, Inv, TypeOK
  <2>5. ToldOn(n)[r] = None
    BY <2>1 DEF ToldOn
  <2>6. Net(n)!Record(r, c, k)
    BY <1>1, <1>2, <2>1, <2>3, <2>4, <2>5 DEF Net!Record, ToldOn
  <2> HIDE DEF c
  <2> QED BY <2>1, <2>6 DEF Net!RegistryNext
<1> QED BY <1>3, <1>4

\* Every step of the deployment is, for every network, a step of that
\* network's registry or leaves it as it is: the requests of other networks
\* leave no trace in it, whatever RUNTIME is.
THEOREM NetworksAreApart == Spec => NetworksApart
<1>1. ASSUME Inv, [Next]_vars, NEW n \in Networks
      PROVE  UNCHANGED Net(n)!registryVars \/ Net(n)!RegistryNext
  <2>1. CASE UNCHANGED <<chains, db, requestVars>>
    BY <2>1, ToldOnStays, NetStays DEF requestVars
  <2>2. CASE UNCHANGED vars \/ Commit
    BY <2>1, <2>2 DEF vars, Commit
  <2>3. ASSUME NEW o \in Operators, Command(o) \/ \E b \in Blocks : Start(o, b)
        PROVE  UNCHANGED Net(n)!registryVars \/ Net(n)!RegistryNext
    BY <2>1, <2>3 DEF Command, Start
  <2>4. ASSUME \/ \E b \in Boxes : Fatal(b)
               \/ \E m \in Networks, env \in OtherEnvs : RunByHand(m, env)
        PROVE  UNCHANGED Net(n)!registryVars \/ Net(n)!RegistryNext
    BY <2>1, <2>4 DEF Fatal, RunByHand
  <2>5. ASSUME NEW r \in Clients, \E b \in Boxes, c \in Contracts : Send(r, b, c)
        PROVE  UNCHANGED Net(n)!registryVars \/ Net(n)!RegistryNext
    <3>1. /\ at[r] = "new" /\ UNCHANGED <<chains, db, reply, told>>
          /\ \A q \in Clients \ {r} : rt'[q] = rt[q] /\ about'[q] = about[q]
      BY <1>1, <2>5 DEF Send, Move, Inv, TypeOK
    <3>2. told[r] = None
      BY <1>1, <3>1 DEF Inv, RegistryInv, RequestInv
    <3> QED BY <3>1, <3>2, ToldOnStays, NetStays
  <2>6. ASSUME NEW r \in Clients, Ask(r)
        PROVE  UNCHANGED Net(n)!registryVars \/ Net(n)!RegistryNext
    <3>1. at[r] = "ask" /\ told[r] = None /\ UNCHANGED <<chains, db, rt, about>>
      BY <1>1, <2>6 DEF Ask, Move, Tell, Inv, RegistryInv, RequestInv
    <3>2. CASE /\ UNCHANGED told
               /\ \E x : reply' = [reply EXCEPT ![r] = x]
      BY <1>1, <3>1, <3>2, ToldOnStays, NetStays DEF Inv, TypeOK
    <3>3. ASSUME NEW code \in {3, 4, 8}, Tell(r, "ask", code), UNCHANGED reply
          PROVE  UNCHANGED Net(n)!registryVars \/ Net(n)!RegistryNext
      <4>1. told' = [told EXCEPT ![r] = code]
        BY <3>3 DEF Tell
      <4>2. CASE DatabaseOf(rt[r]) = n
        BY <1>1, <3>1, <3>3, <4>1, <4>2, OtherAnswerMaps
      <4>3. CASE DatabaseOf(rt[r]) # n
        BY <1>1, <3>1, <3>3, <4>1, <4>3, ToldOnStays, NetStays DEF Inv, TypeOK
      <4> QED BY <4>2, <4>3
    <3> QED BY <2>6, <3>2, <3>3 DEF Ask
  <2>7. ASSUME NEW r \in Clients, Find(r)
        PROVE  UNCHANGED Net(n)!registryVars \/ Net(n)!RegistryNext
    <3>1. at[r] = "find" /\ UNCHANGED <<chains, db, rt, about, reply>>
      BY <2>7 DEF Find, Move, Tell
    <3>2. CASE UNCHANGED told
      BY <3>1, <3>2, ToldOnStays, NetStays
    <3>3. CASE told' = [told EXCEPT ![r] = 6] /\ Known(r)
      <4>1. CASE DatabaseOf(rt[r]) = n
        BY <1>1, <3>1, <3>3, <4>1, AlreadyMaps
      <4>2. CASE DatabaseOf(rt[r]) # n
        BY <1>1, <3>1, <3>3, <4>2, ToldOnStays, NetStays DEF Inv, TypeOK
      <4> QED BY <4>1, <4>2
    <3> QED BY <2>7, <3>2, <3>3 DEF Find, Tell
  <2>8. ASSUME NEW r \in Clients, Finish(r)
        PROVE  UNCHANGED Net(n)!registryVars \/ Net(n)!RegistryNext
    <3>1. /\ at[r] = "tell" /\ UNCHANGED <<chains, db, rt, about, reply>>
          /\ told' = [told EXCEPT ![r] = 5]
      BY <2>8 DEF Finish, Move, Tell
    <3>2. CASE DatabaseOf(rt[r]) = n
      BY <1>1, <3>1, <3>2, VerifiedMaps
    <3>3. CASE DatabaseOf(rt[r]) # n
      BY <1>1, <3>1, <3>3, ToldOnStays, NetStays DEF Inv, TypeOK
    <3> QED BY <3>2, <3>3
  <2>9. ASSUME NEW m \in Networks, NEW c \in Contracts, NEW s \in Scripts,
               ChainUpdate(m, c, s)
        PROVE  UNCHANGED Net(n)!registryVars \/ Net(n)!RegistryNext
    BY <1>1, <2>9, ChainUpdateMaps DEF Inv
  <2> QED BY <1>1, <2>2, <2>3, <2>4, <2>5, <2>6, <2>7, <2>8, <2>9, InsertMaps
          DEF Next, Serve
<1>2. Inv /\ [Next]_vars =>
        [\A n \in Networks : UNCHANGED Net(n)!registryVars \/ Net(n)!RegistryNext]_vars
  BY <1>1
<1> QED BY <1>2, Invariance, PTL DEF Spec, NetworksApart
=============================================================================
