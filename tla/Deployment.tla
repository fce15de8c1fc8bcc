----------------------------- MODULE Deployment -----------------------------
(***************************************************************************)
(* The service on its host: Start.sh, which redeploys the container of one *)
(* of three networks; the variable RUNTIME it hands to the server, from    *)
(* which getContractState chooses the node and intializeMongoOnlineClient, *)
(* separately, the database; and the requests that reach a container.      *)
(*                                                                         *)
(* A request is taken as far as networks matter: which node is asked,      *)
(* which database is searched and written.  Module Verifier has the rest.  *)
(* Seeded faults stand before the definition they resemble.                *)
(***************************************************************************)
EXTENDS Naturals, Sequences

CONSTANTS
  Operators,    \* runs of Start.sh
  Clients,      \* requests
  Contracts,    \* contract hashes
  Scripts,      \* contract scripts
  OtherEnvs,    \* values of RUNTIME the code does not know; "" if unset
  Args,         \* arguments Start.sh is called with
  Served,       \* networks that an earlier run of Start.sh has left served
  MaxHead,      \* bound: commits to the checkout
  MaxVersions,  \* bound: MaxVersions[n] versions of one contract on chain n
  DockerFails,  \* docker commands may fail by themselves
  None

Networks == { "mainnet", "testnet", "testmagnet" }
Boxes    == Networks \cup { "byhand" }
Envs     == Networks \cup OtherEnvs
States   == { "running", "stopped", "exited" }
Live     == { "ask", "find", "ins", "tell" }

ASSUME BoundsAssumption == MaxHead \in Nat \ {0} /\ MaxVersions \in [Networks -> Nat]
ASSUME ServedAssumption == Served \subseteq Networks
ASSUME EnvsAssumption == OtherEnvs \cap Networks = {} /\ OtherEnvs \subseteq STRING

VARIABLES
  head,       \* the checkout that "docker build ." copies into an image; 0 is
              \* the one of the earlier deployment
  image,      \* image[n]: the build tagged verify_n:v1, or None
  box,        \* box[n]: container verifyContract_n, or None
  script,     \* script[o]: a run of Start.sh, or None before it starts
  built,      \* built[o]: the build that run has made, or None
  failed,     \* failed[o]: one of its docker commands failed by itself
  chains,     \* chains[n][c]: the scripts contract c has had on network n
  db,         \* db[n]: VerifyContractModel of network n
  at,         \* the handler's program point
  sentTo,     \* the container the request reached
  rt,         \* RUNTIME in that container
  about,      \* the contract the request is about
  reply,      \* update counter and script from the node
  told        \* the Code of the response

dockerVars  == <<image, box>>
scriptVars  == <<script, built, failed>>
requestVars == <<sentTo, rt, about, reply, told>>
vars == <<head, dockerVars, scriptVars, chains, db, at, requestVars>>

-----------------------------------------------------------------------------
(* The tables of Start.sh and main.go.                                     *)

\* Start.sh: one block per argument.  n stands for the names
\* verifyContract_n and verify_n:v1.
BlocksSlip ==
  { [arg |-> "TEST",       name |-> "testnet",    env |-> "test"],
    [arg |-> "STAGING",    name |-> "mainnet",    env |-> "mainnet"],
    [arg |-> "TESTMAGNET", name |-> "testmagnet", env |-> "testmagnet"] }
Blocks ==
  { [arg |-> "TEST",       name |-> "testnet",    env |-> "testnet"],
    [arg |-> "STAGING",    name |-> "mainnet",    env |-> "mainnet"],
    [arg |-> "TESTMAGNET", name |-> "testmagnet", env |-> "testmagnet"] }

\* The commands of a block, in order; the script has no "set -e".
CommandsSlip == << "stop", "rmi", "build", "run" >>
Commands     == << "stop", "rm", "rmi", "build", "run" >>

\* The node getContractState asks and the database that
\* intializeMongoOnlineClient opens, as the network they belong to.
NodeOf(env) == IF env \in Networks THEN env ELSE "mainnet"
DatabaseOfSlip(env) == IF env \in Networks THEN env ELSE "testnet"
DatabaseOf(env) == IF env \in Networks THEN env ELSE "mainnet"

-----------------------------------------------------------------------------
Containers == [from : 0 .. MaxHead, env : Envs, state : States]
ScriptRuns == [block : Blocks, next : 1 .. Len(Commands) + 1]
Replies    == [counter : Nat, script : Scripts]
Documents  == [hash : Contracts, counter : Nat, script : Scripts, by : Clients]

ASSUME NoneAssumption ==
  /\ None \notin Boxes \cup Nat /\ None \notin Containers
  /\ None \notin ScriptRuns /\ None \notin Replies

Init ==
  /\ head = 1
  /\ image = [n \in Networks |-> IF n \in Served THEN 0 ELSE None]
  /\ box = [n \in Boxes |->
              IF n \in Served THEN [from |-> 0, env |-> n, state |-> "running"]
              ELSE None]
  /\ script = [o \in Operators |-> None]
  /\ built = [o \in Operators |-> None]
  /\ failed = [o \in Operators |-> FALSE]
  /\ chains \in [Networks -> [Contracts -> { <<>> } \cup { <<s>> : s \in Scripts }]]
  /\ \A n \in Networks, c \in Contracts : Len(chains[n][c]) <= MaxVersions[n]
  /\ db = [n \in Networks |-> {}]
  /\ at = [r \in Clients |-> "new"]
  /\ sentTo = [r \in Clients |-> None]
  /\ rt = [r \in Clients |-> None]
  /\ about = [r \in Clients |-> None]
  /\ reply = [r \in Clients |-> None]
  /\ told = [r \in Clients |-> None]

-----------------------------------------------------------------------------
(* Docker.                                                                 *)

Running(n) == box[n] # None /\ box[n].state = "running"

\* The process in container n ends, and with it the requests in it.
End(n, state) ==
  /\ box' = [box EXCEPT ![n] = [box[n] EXCEPT !.state = state]]
  /\ at' = [r \in Clients |->
              IF sentTo[r] = n /\ at[r] \in Live THEN "dead" ELSE at[r]]

Idle == UNCHANGED <<dockerVars, at>>

\* docker stop
Stop(n) == IF Running(n) THEN End(n, "stopped") /\ UNCHANGED image ELSE Idle

\* docker container rm: not of a running container
Remove(n) ==
  IF box[n] = None \/ Running(n) THEN Idle
  ELSE box' = [box EXCEPT ![n] = None] /\ UNCHANGED <<image, at>>

\* docker rmi: not the last tag of a build that a container was made from
InUse(n)   == \E b \in Boxes : box[b] # None /\ box[b].from = image[n]
OnlyTag(n) == \A m \in Networks \ {n} : image[m] # image[n]
RemoveImage(n) ==
  IF InUse(n) /\ OnlyTag(n) THEN Idle
  ELSE image' = [image EXCEPT ![n] = None] /\ UNCHANGED <<box, at>>

\* docker build -t verify_n:v1 .
BuildImage(n) == image' = [image EXCEPT ![n] = head] /\ UNCHANGED <<box, at>>

\* docker run --env RUNTIME=env --name verifyContract_b verify_n:v1: the name
\* must be free, and the image there (no registry has it)
Run(b, n, env) ==
  IF box[b] # None \/ image[n] = None THEN Idle
  ELSE /\ box' = [box EXCEPT ![b] =
            [from |-> image[n], env |-> env, state |-> "running"]]
       /\ UNCHANGED <<image, at>>

-----------------------------------------------------------------------------
(* Start.sh                                                                *)

Start(o, b) ==
  /\ script[o] = None
  /\ b.arg \in Args
  /\ script' = [script EXCEPT ![o] = [block |-> b, next |-> 1]]
  /\ UNCHANGED <<head, dockerVars, built, failed, chains, db, at, requestVars>>

Perform(command, b) ==
  \/ command = "stop"  /\ Stop(b.name)
  \/ command = "rm"    /\ Remove(b.name)
  \/ command = "rmi"   /\ RemoveImage(b.name)
  \/ command = "build" /\ BuildImage(b.name)
  \/ command = "run"   /\ Run(b.name, b.name, b.env)

\* The next command of the block, whatever became of the ones before.
Command(o) ==
  /\ script[o] # None
  /\ script[o].next <= Len(Commands)
  /\ script' = [script EXCEPT ![o].next = @ + 1]
  /\ LET command == Commands[script[o].next] IN
     \/ /\ Perform(command, script[o].block)
        /\ built' = IF command = "build" THEN [built EXCEPT ![o] = head]
                    ELSE built
        /\ UNCHANGED failed
     \/ /\ DockerFails
        /\ failed' = [failed EXCEPT ![o] = TRUE]
        /\ UNCHANGED <<dockerVars, at, built>>
  /\ UNCHANGED <<head, chains, db, requestVars>>

-----------------------------------------------------------------------------
(* The rest of the host: new commits, log.Fatal, a container that is run   *)
(* by hand (the ENV line of the Dockerfile is commented out, so without    *)
(* --env RUNTIME is unset), new contract versions.                         *)

Commit ==
  /\ head < MaxHead
  /\ head' = head + 1
  /\ UNCHANGED <<dockerVars, scriptVars, chains, db, at, requestVars>>

Fatal(n) ==
  /\ Running(n)
  /\ End(n, "exited")
  /\ UNCHANGED <<head, image, scriptVars, chains, db, requestVars>>

RunByHand(n, env) ==
  /\ box["byhand"] = None
  /\ image[n] # None
  /\ Run("byhand", n, env)
  /\ UNCHANGED <<head, scriptVars, chains, db, requestVars>>

ChainUpdate(n, c, s) ==
  /\ Len(chains[n][c]) < MaxVersions[n]
  /\ chains' = [chains EXCEPT ![n][c] = Append(@, s)]
  /\ UNCHANGED <<head, dockerVars, scriptVars, db, at, requestVars>>

-----------------------------------------------------------------------------
(* A request in container n.                                               *)

Move(r, from, to) ==
  /\ at[r] = from
  /\ at' = [at EXCEPT ![r] = to]

Tell(r, from, code) ==
  /\ Move(r, from, "done")
  /\ told' = [told EXCEPT ![r] = code]

Send(r, n, c) ==
  /\ Running(n)
  /\ Move(r, "new", "ask")
  /\ sentTo' = [sentTo EXCEPT ![r] = n]
  /\ rt' = [rt EXCEPT ![r] = box[n].env]
  /\ about' = [about EXCEPT ![r] = c]
  /\ UNCHANGED <<head, dockerVars, scriptVars, chains, db, reply, told>>

\* getContractState, up to the comparison: code 3 if the node cannot be
\* reached, 4 if it knows no such contract, 8 if the scripts differ.
Ask(r) ==
  LET versions == chains[NodeOf(rt[r])][about[r]] IN
  /\ \/ /\ Move(r, "ask", "find")
        /\ versions # <<>>
        /\ reply' = [reply EXCEPT ![r] =
             [counter |-> Len(versions) - 1, script |-> versions[Len(versions)]]]
        /\ UNCHANGED told
     \/ /\ \/ Tell(r, "ask", 3)
           \/ Tell(r, "ask", 4) /\ versions = <<>>
           \/ Tell(r, "ask", 8) /\ versions # <<>>
        /\ UNCHANGED reply
  /\ UNCHANGED <<head, dockerVars, scriptVars, chains, db, sentTo, rt, about>>

\* The document of request r.
Document(r) == [hash |-> about[r], counter |-> reply[r].counter,
                script |-> reply[r].script, by |-> r]

\* FindOne on the database of RUNTIME; code 6 if there is a result.
Known(r) == \E v \in db[DatabaseOf(rt[r])] :
              v.hash = about[r] /\ v.counter = reply[r].counter
Find(r) ==
  /\ \/ Tell(r, "find", 6) /\ Known(r)
     \/ Move(r, "find", "ins") /\ ~Known(r) /\ UNCHANGED told
  /\ UNCHANGED <<head, dockerVars, scriptVars, chains, db, sentTo, rt, about,
                 reply>>

Insert(r) ==
  /\ Move(r, "ins", "tell")
  /\ db' = [db EXCEPT ![DatabaseOf(rt[r])] = @ \cup {Document(r)}]
  /\ UNCHANGED <<head, dockerVars, scriptVars, chains, requestVars>>

Finish(r) ==
  /\ Tell(r, "tell", 5)
  /\ UNCHANGED <<head, dockerVars, scriptVars, chains, db, sentTo, rt, about,
                 reply>>

Serve(r) == Ask(r) \/ Find(r) \/ Insert(r) \/ Finish(r)

Next ==
  \/ Commit
  \/ \E o \in Operators : Command(o) \/ \E b \in Blocks : Start(o, b)
  \/ \E n \in Boxes : Fatal(n)
  \/ \E n \in Networks, env \in OtherEnvs : RunByHand(n, env)
  \/ \E n \in Networks, c \in Contracts, s \in Scripts : ChainUpdate(n, c, s)
  \/ \E r \in Clients : Serve(r) \/ \E n \in Boxes, c \in Contracts : Send(r, n, c)

Spec == Init /\ [][Next]_vars
-----------------------------------------------------------------------------
(* Properties.                                                             *)

TypeOK ==
  /\ head \in 0 .. MaxHead
  /\ image \in [Networks -> 0 .. MaxHead \cup {None}]
  /\ box \in [Boxes -> Containers \cup {None}]
  /\ script \in [Operators -> ScriptRuns \cup {None}]
  /\ built \in [Operators -> 0 .. MaxHead \cup {None}]
  /\ failed \in [Operators -> BOOLEAN]
  /\ chains \in [Networks -> [Contracts -> Seq(Scripts)]]
  /\ db \in [Networks -> SUBSET Documents]
  /\ at \in [Clients -> Live \cup {"new", "done", "dead"}]
  /\ sentTo \in [Clients -> Boxes \cup {None}]
  /\ rt \in [Clients -> Envs \cup {None}]
  /\ about \in [Clients -> Contracts \cup {None}]
  /\ reply \in [Clients -> Replies \cup {None}]
  /\ told \in [Clients -> {3, 4, 5, 6, 8, None}]

\* A document is where it belongs.  One that is in the database of network n
\* was made by a request that reached the container of n (or one run by
\* hand), and names a script the contract has had on the chain of n: the
\* block of Start.sh, the switch over the nodes and the switch over the
\* databases agree, through redeployments and crashes.
RecordsWhereSent ==
  \A n \in Networks : \A v \in db[n] :
    /\ sentTo[v.by] \in {n, "byhand"}
    /\ v.counter + 1 \in DOMAIN chains[n][v.hash]
    /\ chains[n][v.hash][v.counter + 1] = v.script

\* Each network is a registry of its own (module Registry), in which the
\* requests of the other networks leave no trace, also for a RUNTIME that is
\* unset or unknown, which counts as mainnet.
Net(n) == INSTANCE Registry WITH
  Clients <- Clients, Ids <- Contracts, ScriptValues <- Scripts,
  Nothing <- None, history <- chains[n], records <- db[n],
  told <- [r \in Clients |->
    IF told[r] = None \/ DatabaseOf(rt[r]) # n THEN None
    ELSE [code  |-> told[r],
          about |-> IF told[r] \in {5, 6} THEN <<about[r], reply[r].counter>>
                    ELSE None]]
NetworksApart ==
  [][\A n \in Networks :
       UNCHANGED Net(n)!registryVars \/ Net(n)!RegistryNext]_vars

\* Start.sh does what it is for, although it never looks at the outcome of a
\* command.  When all runs of it for a network have come to their end and
\* docker itself has not failed, the container of the network is there and
\* has been started, from a build one of them has made and not from an
\* earlier one, however the runs were interleaved, whether or not the network
\* was served before and whatever else was run from its image.
Over(o) == script[o] # None /\ script[o].next > Len(Commands)
RunsFor(n) == { o \in Operators : script[o] # None /\ script[o].block.name = n }
UpAfterStart ==
  \A n \in Networks :
    /\ RunsFor(n) # {}
    /\ \A o \in RunsFor(n) : Over(o) /\ ~failed[o]
    => /\ box[n] # None
       /\ box[n].state # "stopped"
       /\ \E o \in RunsFor(n) : box[n].from = built[o]
=============================================================================
