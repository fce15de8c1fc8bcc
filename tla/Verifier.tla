------------------------------ MODULE Verifier ------------------------------
(***************************************************************************)
(* The contract verification server: concurrent runs of the /upload        *)
(* handler multipleFile (one per request, each a goroutine of net/http)    *)
(* over the shared working directory, the shared Gradle project and the    *)
(* database, together with the node that answers getcontractstate, the     *)
(* clock, process death (log.Fatal) and redeployment (Start.sh).           *)
(*                                                                         *)
(* A handler is the sequence of program points named in pc.  Code between  *)
(* two accesses to shared state is one step.                               *)
(*                                                                         *)
(* Definitions that stand before the one they resemble and occur nowhere   *)
(* else (OneReceived before AllReceived, ...) are seeded faults: a check   *)
(* puts each in the place of its neighbour to see that the properties      *)
(* notice.                                                                 *)
(***************************************************************************)
EXTENDS JavaWorkspace, Database

CONSTANTS
  Requests,     \* the HTTP requests of a behaviour
  Uploads,      \* the forms a request may carry
  Contracts,    \* the contracts on the chain
  Denotes,      \* the contract the node takes each spelling of a hash for
  Deployable,   \* scripts that contracts on the chain may have
  MaxVersions,  \* bound: versions of one contract on the chain
  Faults,       \* environment failures that may happen
  Arrivals      \* "any", "spaced" (one per second) or "serial" (no overlap)

FaultKinds == { "client", "start", "rpc", "node", "blank",
                "mongo", "find", "insert" }

Codes == 0 .. 8 \cup {500}      \* jsonResult.Code, and the HTTP status 500

Parts == [name : TextNames, data : Content]
           \cup [name : NefNames, data : Scripts \cup {Garbage}]
Forms == [contract : Spellings, version : STRING, command : STRING,
          package : Packages \cup {""}, parts : Seq(Parts)]

ASSUME UploadsAssumption == Uploads \subseteq Forms
ASSUME DenotesAssumption == Denotes \in [Spellings -> Contracts]
ASSUME DeployableAssumption == Deployable \subseteq Scripts
ASSUME NoneAssumption ==
  /\ None \notin Scripts /\ Garbage \notin Scripts
  /\ None # Garbage /\ None \notin Codes
  /\ None \notin Content /\ None \notin Folders /\ None \notin Bases
ASSUME FaultsAssumption == Faults \subseteq FaultKinds

VARIABLES
  up,       \* the server process runs
  chain,    \* chain[c]: the scripts contract c has had, oldest first
  pc,       \* the handler's program point
  upload,   \* the request's form: m1 and the file parts
  folder,   \* pathFile
  got,      \* number of file parts received
  seen,     \* the sources the compiler has read
  pick,     \* neow3j: base of the .nef file found in build/neow3j
  nef,      \* chainNef: the script execCommand returned
  reply,    \* sourceNef and m2["updateCounter"], from getContractState
  todo,     \* directory entries still to be recorded
  resp      \* the Code of the response

formVars  == <<upload, folder, got>>
buildVars == <<seen, pick, nef>>
sendVars  == <<up, resp>>
localVars == <<formVars, buildVars, reply, todo>>
worldVars == <<workdirVars, javaVars, databaseVars, chain>>
vars == <<worldVars, pc, localVars, sendVars>>

\* Points at which the handler has started and has not returned.
Scripted == { "jclean", "jgradle", "jconfig", "jwipe", "jmkdir", "jcopy",
              "gradle" }
Handling == { "exec", "look", "stat", "read", "cmp", "find", "dup", "ins",
              "list", "src" }
Waiting  == { "recv", "compile", "rpc" } \cup Scripted
Live     == Handling \cup Waiting
Settled  == { "done", "panic", "dead" }

TypeOK ==
  /\ WorkdirTypeOK
  /\ JavaTypeOK
  /\ verified \subseteq [hash : Spellings, updatecounter : Nat, by : Requests]
  /\ source \subseteq
       [hash : Spellings, updatecounter : Nat,
        fileName : TextNames \cup NefNames,
        code : Content \cup {Garbage}, by : Requests]
  /\ up \in BOOLEAN
  /\ chain \in [Contracts -> Seq(Scripts)]
  /\ pc \in [Requests -> Live \cup Settled \cup {"new"}]
  /\ upload \in [Requests -> Uploads \cup {None}]
  /\ folder \in [Requests -> Seconds \cup {None}]
  /\ got \in [Requests -> Nat]
  /\ seen \in [Requests -> Trees]
  /\ pick \in [Requests -> Bases \cup {None}]
  /\ nef \in [Requests -> Scripts \cup {None}]
  /\ reply \in [Requests -> [nef : Scripts \cup {None}, counter : Nat]]
  /\ todo \in [Requests -> SUBSET (TextNames \cup NefNames)]
  /\ resp \in [Requests -> Codes \cup {None}]

Init ==
  /\ now = 0
  /\ dirs = [s \in Seconds |-> None]
  /\ kept = {}
  /\ JavaInit
  /\ DatabaseInit
  /\ up = TRUE
  /\ chain \in [Contracts -> { <<>> } \cup { <<s>> : s \in Deployable }]
  /\ pc = [r \in Requests |-> "new"]
  /\ upload = [r \in Requests |-> None]
  /\ folder = [r \in Requests |-> None]
  /\ got = [r \in Requests |-> 0]
  /\ seen = [r \in Requests |-> {}]
  /\ pick = [r \in Requests |-> None]
  /\ nef = [r \in Requests |-> None]
  /\ reply = [r \in Requests |-> [nef |-> None, counter |-> 0]]
  /\ todo = [r \in Requests |-> {}]
  /\ resp = [r \in Requests |-> None]

-----------------------------------------------------------------------------
(* Abbreviations for the state of request r.                               *)

hash(r)    == upload[r].contract          \* getContract(m1)
version(r) == upload[r].version           \* getVersion(m1)
package(r) == upload[r].package           \* getJavaPackage(m1)
family(r)  == Family(version(r))
counter(r) == reply[r].counter            \* getUpdateCounter(m2)
compilers(r) == Runs(version(r), upload[r].command)

Move(r, from, to) ==
  /\ pc[r] = from
  /\ pc' = [pc EXCEPT ![r] = to]

\* w.Write of a jsonResult and return from the handler.
Answer(r, from, code) ==
  /\ Move(r, from, "done")
  /\ resp' = [resp EXCEPT ![r] = code]

\* log.Fatal: the process exits, and with it every handler in flight.
Killed == [q \in Requests |-> IF pc[q] \in Live THEN "dead" ELSE pc[q]]
Fatal(r, from) ==
  /\ pc[r] = from
  /\ up' = FALSE
  /\ pc' = Killed
  /\ UNCHANGED resp

-----------------------------------------------------------------------------
(* multipleFile: receiving the form.                                       *)

MayArrive ==
  /\ Arrivals \in {"spaced", "serial"} => \A q \in Requests : folder[q] # now
  /\ Arrivals = "serial" => \A q \in Requests : pc[q] \notin Live

Arrive(r, u) ==
  /\ up
  /\ MayArrive
  /\ Move(r, "new", "recv")
  /\ upload' = [upload EXCEPT ![r] = u]
  /\ folder' = [folder EXCEPT ![r] = now]
  /\ CreateDateDir(now)
  /\ UNCHANGED <<now, kept, javaVars, databaseVars, chain, got, buildVars,
                 reply, todo, sendVars>>

\* r.MultipartReader() fails; the folder has been made before err is tested.
ArriveNotMultipart(r) ==
  /\ up
  /\ MayArrive
  /\ Answer(r, "new", 500)
  /\ folder' = [folder EXCEPT ![r] = now]
  /\ CreateDateDir(now)
  /\ UNCHANGED <<now, kept, javaVars, databaseVars, chain, upload, got,
                 buildVars, reply, todo, up>>

SavePart(r) ==
  /\ Move(r, "recv", "recv")
  /\ got[r] < Len(upload[r].parts)
  /\ got' = [got EXCEPT ![r] = @ + 1]
  /\ SaveFile(folder[r], upload[r].parts[got[r] + 1])
  /\ UNCHANGED <<now, kept, javaVars, databaseVars, chain, upload, folder,
                 buildVars, reply, todo, sendVars>>

\* io.EOF: leave the loop.
OneReceived(r)  == got[r] >= 1
NoEnd(r)        == got[r] > Len(upload[r].parts)
AllReceived(r)  == got[r] = Len(upload[r].parts)
LastPart(r) ==
  /\ Move(r, "recv", "exec")
  /\ AllReceived(r)
  /\ UNCHANGED <<worldVars, localVars, sendVars>>

\* Any other error of NextPart: part is nil and part.FileName() panics;
\* net/http recovers and closes the connection.  The part before it may have
\* been cut off: io.Copy has written its head.
CutOff(part) ==
  [part EXCEPT !.data = IF part.name.ext = ".nef" THEN Garbage
                        ELSE SubSeq(@, 1, Len(@) - 1)]

ClientGone(r) ==
  /\ "client" \in Faults
  /\ Move(r, "recv", "panic")
  /\ \/ UNCHANGED dirs
     \/ /\ got[r] < Len(upload[r].parts)
        /\ SaveFile(folder[r], CutOff(upload[r].parts[got[r] + 1]))
  /\ UNCHANGED <<now, kept, javaVars, databaseVars, chain, localVars, sendVars>>

-----------------------------------------------------------------------------
(* execCommand: choosing and running the compiler.                         *)

UnknownVersion(r) ==
  /\ Answer(r, "exec", 0)
  /\ version(r) \notin Accepted
  /\ RemoveAll(folder[r])
  /\ UNCHANGED <<now, kept, javaVars, databaseVars, chain, localVars, up>>

\* cmd.Start fails: no such program, no such cmd.Dir, no process.
CannotStart(r) ==
  \/ "start" \in Faults
  \/ family(r) # "java" /\ dirs[folder[r]] = None

StartFails(r) ==
  /\ Answer(r, "exec", 1)
  /\ version(r) \in Accepted
  /\ CannotStart(r)
  /\ RemoveAll(folder[r])
  /\ UNCHANGED <<now, kept, javaVars, databaseVars, chain, localVars, up>>

\* echo, or pythonExec.sh with an argument it has no branch for.
StartNothing(r) ==
  /\ Move(r, "exec", "look")
  /\ version(r) \in Accepted
  /\ compilers(r) = {}
  /\ dirs[folder[r]] # None
  /\ UNCHANGED <<worldVars, localVars, sendVars>>

\* The compiler starts in the upload folder and reads its sources.
StartCompiler(r) ==
  /\ Move(r, "exec", "compile")
  /\ compilers(r) # {}
  /\ family(r) # "java"
  /\ dirs[folder[r]] # None
  /\ seen' = [seen EXCEPT ![r] = TreeOf(folder[r], SourceExts(family(r)))]
  /\ UNCHANGED <<worldVars, formVars, pick, nef, reply, todo, sendVars>>

StartJavaExec(r) ==
  /\ Move(r, "exec", "jclean")
  /\ family(r) = "java"
  /\ UNCHANGED <<worldVars, localVars, sendVars>>

JavaExec(r) ==
  /\ \/ Move(r, "jclean",  "jgradle") /\ CleanBuilt
     \/ Move(r, "jgradle", "jconfig") /\ RemoveGradle
     \/ Move(r, "jconfig", "jwipe")   /\ CopyGradle(package(r), folder[r])
     \/ Move(r, "jwipe",   "jmkdir")  /\ WipeSources
     \/ Move(r, "jmkdir",  "jcopy")   /\ MakePackage(package(r))
     \/ Move(r, "jcopy",   "gradle")  /\ CopySources(package(r), folder[r])
  /\ UNCHANGED <<workdirVars, databaseVars, chain, localVars, sendVars>>

\* ./gradlew neow3jCompile reads the project, or finds nothing to build.
RunGradle(r) ==
  /\ \/ /\ GradleCanRun
        /\ Move(r, "gradle", "compile")
        /\ seen' = [seen EXCEPT ![r] = GradleTree]
     \/ /\ ~GradleCanRun
        /\ Move(r, "gradle", "look")
        /\ UNCHANGED seen
  /\ UNCHANGED <<worldVars, formVars, pick, nef, reply, todo, sendVars>>

\* A compiler names its output after one of the sources; neo-go, run on a
\* directory, after nothing: out.nef.
OutputBases(r) ==
  LET program == { e \in seen[r] : e[1].ext \in SourceExts(family(r)) } IN
  { IF family(r) = "go" THEN 0 ELSE e[1].base : e \in program }

CompileSucceeds(r) ==
  /\ Move(r, "compile", "look")
  /\ \E c \in compilers(r), b \in OutputBases(r) :
       IF family(r) = "java"
       THEN WriteBuilt(b, Script(c, seen[r])) /\ UNCHANGED dirs
       ELSE /\ WriteNef(folder[r], family(r), b, Script(c, seen[r]))
            /\ UNCHANGED javaVars
  /\ UNCHANGED <<now, kept, databaseVars, chain, localVars, sendVars>>

\* The exit status is never asked for (there is no cmd.Wait): a failed
\* compilation is one that leaves no .nef file.
CompileFails(r) ==
  /\ Move(r, "compile", "look")
  /\ UNCHANGED <<worldVars, localVars, sendVars>>

-----------------------------------------------------------------------------
(* execCommand: finding and reading the .nef file.  Nothing is removed     *)
(* when there is none (code 2).                                            *)

NefAt(r, place) == IF dirs[folder[r]] = None THEN NoNef
                   ELSE IF place = "top" THEN dirs[folder[r]].nef
                   ELSE dirs[folder[r]].bin

\* !os.IsNotExist(err), for the Lstat of the file execCommand expects.  It
\* is there, or Lstat fails in another way: ENOTDIR below a file called bin.
NeverMissing(r) == TRUE
NotMissing(r) ==
  CASE family(r) = "boa" -> FirstNef(NefAt(r, "top")) # {}
    [] family(r) = "go"  -> NefAt(r, "top")[0] # None
    [] OTHER -> FirstNef(NefAt(r, "bin")) # {} \/ BinIsFile(folder[r])

LookForNef(r) ==
  /\ \/ Move(r, "look", "read") /\ NotMissing(r) /\ UNCHANGED resp
     \/ Answer(r, "look", 2) /\ ~NotMissing(r)
  /\ family(r) # "java"
  /\ UNCHANGED <<worldVars, localVars, up>>

\* The parts that set m1["Filename"], to their name up to its first dot.  It
\* names a file that may exist if the last of them has a name that does not
\* begin with a dot (Filename is empty then, as it is when there are no such
\* parts) and is not too long.
FilenamePartsSlip(r) ==
  { i \in DOMAIN upload[r].parts :
      upload[r].parts[i].name.ext \in {".csproj", ".py"} }
FilenameParts(r) ==
  { i \in DOMAIN upload[r].parts :
      upload[r].parts[i].name.ext \in {".csproj", ".py", ".java"} }
HasFilename(r) ==
  \E i \in FilenameParts(r) :
    LET base == upload[r].parts[i].name.base IN
    /\ \A j \in FilenameParts(r) : j <= i
    /\ base >= 0 /\ base \notin LongBases

\* ReadDir of build/neow3j.  With no .nef file there, Lstat is given Filename,
\* and finds no such file, or the directory itself (Filename is empty), or
\* fails in another way (ENAMETOOLONG).
PickJavaNef(r) ==
  /\ \/ \E b \in FirstNef(built) :
          /\ Move(r, "look", "stat")
          /\ pick' = [pick EXCEPT ![r] = b]
          /\ UNCHANGED resp
     \/ /\ Answer(r, "look", 2)
        /\ FirstNef(built) = {}
        /\ HasFilename(r)
        /\ UNCHANGED pick
     \/ /\ Move(r, "look", "read")
        /\ FirstNef(built) = {}
        /\ ~HasFilename(r)
        /\ UNCHANGED <<pick, resp>>
  /\ family(r) = "java"
  /\ UNCHANGED <<worldVars, formVars, seen, nef, reply, todo, up>>

StatJavaNef(r) ==
  /\ \/ Move(r, "stat", "read") /\ built[pick[r]] # None /\ UNCHANGED resp
     \/ Answer(r, "stat", 2) /\ built[pick[r]] = None
  /\ UNCHANGED <<worldVars, localVars, up>>

\* What ioutil.ReadFile and nef.FileFromBytes make of the file: a script, or
\* nothing (no file there, a directory, bytes that do not parse).  For neo-go
\* the code falls through to the C# branch, and reads in bin/sc/.
ReadAtTop(r) ==
  { NefAt(r, "top")[b] : b \in FirstNef(NefAt(r, "top")) } \ {Garbage}
ReadResult(r) ==
  LET first(files) == { files[b] : b \in FirstNef(files) } IN
  CASE family(r) = "boa"  -> first(NefAt(r, "top")) \ {Garbage}
    [] family(r) = "java" -> { built[b] : b \in {pick[r]} \ {None} } \ {None}
    [] OTHER              -> first(NefAt(r, "bin")) \ {Garbage}

ReadNef(r) ==
  /\ Move(r, "read", "rpc")
  /\ \E s \in ReadResult(r) : nef' = [nef EXCEPT ![r] = s]
  /\ UNCHANGED <<worldVars, formVars, seen, pick, reply, todo, sendVars>>

ReadNefFatal(r) ==
  /\ Fatal(r, "read")
  /\ ReadResult(r) = {}
  /\ UNCHANGED <<worldVars, localVars>>

-----------------------------------------------------------------------------
(* getContractState: one POST to the node, with no timeout.                *)

CounterOffByOne(c) == Len(chain[c]) - 2
UpdateCounter(c) == Len(chain[c]) - 1
NodeAnswers(r) ==
  /\ Move(r, "rpc", "cmp")
  /\ chain[Denotes[hash(r)]] # <<>>
  /\ reply' = [reply EXCEPT ![r] =
       LET c == Denotes[hash(r)] IN
       [nef |-> chain[c][Len(chain[c])], counter |-> UpdateCounter(c)]]
  /\ UNCHANGED <<worldVars, formVars, buildVars, todo, sendVars>>

\* A body with neither "error" nor "result.nef.script", such as a proxy's
\* error page, or an answer cut off before the script (the error of ReadAll
\* is dropped): gjson yields "", which matches no script, so that id and
\* counter do not matter.  An answer cut off later is taken to hold the
\* counter, which the node sends ahead of the script.
NodeBlank(r) ==
  /\ "blank" \in Faults
  /\ Move(r, "rpc", "cmp")
  /\ reply' = [reply EXCEPT ![r] = [nef |-> None, counter |-> 0]]
  /\ UNCHANGED <<worldVars, formVars, buildVars, todo, sendVars>>

NodeFails(r) ==
  /\ \/ Answer(r, "rpc", 3) /\ "rpc" \in Faults
     \/ Answer(r, "rpc", 4) /\ ("node" \in Faults \/ chain[Denotes[hash(r)]] = <<>>)
  /\ RemoveAll(folder[r])
  /\ UNCHANGED <<now, kept, javaVars, databaseVars, chain, localVars, up>>

-----------------------------------------------------------------------------
(* multipleFile: comparing and recording.                                  *)

AnyScript(r) == reply[r].nef # None
Matches(r)   == reply[r].nef = nef[r]

\* Code 8; the folder stays.
Mismatch(r) ==
  /\ Answer(r, "cmp", 8)
  /\ ~Matches(r)
  /\ UNCHANGED <<worldVars, localVars, up>>

\* OpenConfigFile and intializeMongoOnlineClient.
Connect(r) ==
  /\ Move(r, "cmp", "find")
  /\ Matches(r)
  /\ UNCHANGED <<worldVars, localVars, sendVars>>

ConnectFatal(r) ==
  /\ "mongo" \in Faults
  /\ Matches(r)
  /\ Fatal(r, "cmp")
  /\ UNCHANGED <<worldVars, localVars>>

\* FindOne; any error counts as "not there".
FindVerified(r) ==
  /\ \/ Move(r, "find", "dup") /\ IsVerified(hash(r), counter(r))
     \/ Move(r, "find", "ins") /\ ~IsVerified(hash(r), counter(r))
     \/ Move(r, "find", "ins") /\ "find" \in Faults
  /\ UNCHANGED <<worldVars, localVars, sendVars>>

AlreadyVerified(r) ==
  /\ Answer(r, "dup", 6)
  /\ RemoveAll(folder[r])
  /\ UNCHANGED <<now, kept, javaVars, databaseVars, chain, localVars, up>>

InsertVerified(r) ==
  /\ Move(r, "ins", "list")
  /\ InsertVerifiedContract(hash(r), counter(r), r)
  /\ UNCHANGED <<workdirVars, javaVars, chain, localVars, sendVars>>

\* An insert that returns an error may have been applied all the same.
InsertVerifiedFatal(r) ==
  /\ "insert" \in Faults
  /\ Fatal(r, "ins")
  /\ \/ InsertVerifiedContract(hash(r), counter(r), r)
     \/ UNCHANGED databaseVars
  /\ UNCHANGED <<workdirVars, javaVars, chain, localVars>>

\* ioutil.ReadDir; a folder that is gone is an empty list.
Entries(r) ==
  IF dirs[folder[r]] = None THEN {}
  ELSE { n \in TextNames : dirs[folder[r]].src[n] # None } \cup
       { n \in NefNames : dirs[folder[r]].nef[n.base] # None }

ListSources(r) ==
  /\ Move(r, "list", "src")
  /\ todo' = [todo EXCEPT ![r] =
       { n \in Entries(r) : IsRecorded(version(r), n.ext) }]
  /\ UNCHANGED <<worldVars, formVars, buildVars, reply, sendVars>>

\* string(buffer); of a binary file nothing more is told apart.
FileContent(r, n) ==
  IF n.ext = ".nef" THEN Garbage ELSE dirs[folder[r]].src[n]

\* One turn of the loop: open, read, insert.  Nothing depends on the order
\* of the entries, so any entry may be next.
RecordSource(r, n) ==
  /\ Move(r, "src", "src")
  /\ n \in todo[r] \cap Entries(r)
  /\ todo' = [todo EXCEPT ![r] = @ \ {n}]
  /\ InsertContractSourceCode(hash(r), counter(r), n, FileContent(r, n), r)
  /\ UNCHANGED <<workdirVars, javaVars, chain, formVars, buildVars, reply,
                 sendVars>>

\* The file is gone (os.Open fails), or the insert returns an error.
RecordSourceFatal(r, n) ==
  /\ n \in todo[r]
  /\ Fatal(r, "src")
  /\ \/ n \notin Entries(r) /\ UNCHANGED databaseVars
     \/ /\ "insert" \in Faults
        /\ n \in Entries(r)
        /\ \/ UNCHANGED databaseVars
           \/ InsertContractSourceCode(hash(r), counter(r), n,
                                       FileContent(r, n), r)
  /\ UNCHANGED <<workdirVars, javaVars, chain, localVars>>

\* Code 5.
AnyRecorded(r) == TRUE
AllRecorded(r) == todo[r] = {}
Finish(r) ==
  /\ AllRecorded(r)
  /\ Answer(r, "src", 5)
  /\ Rename(folder[r], hash(r))
  /\ UNCHANGED <<now, javaVars, databaseVars, chain, localVars, up>>

-----------------------------------------------------------------------------
(* The environment.                                                        *)

ClockTick ==
  /\ Tick
  /\ UNCHANGED <<dirs, kept, javaVars, databaseVars, chain, pc, localVars,
                 sendVars>>

\* A contract is deployed, or updated (which increments updatecounter).
ChainUpdate(c, s) ==
  /\ Len(chain[c]) < MaxVersions
  /\ chain' = [chain EXCEPT ![c] = Append(@, s)]
  /\ UNCHANGED <<workdirVars, javaVars, databaseVars, pc, localVars, sendVars>>

\* Start.sh: the container is stopped and removed, the image rebuilt, a new
\* container started.  Only the database and the chain are left.
Redeploy ==
  /\ up' = TRUE
  /\ pc' = Killed
  /\ dirs' = [s \in Seconds |-> None]
  /\ kept' = {}
  /\ JavaRebuilt
  /\ UNCHANGED <<now, databaseVars, chain, localVars, resp>>

Receive(r) == SavePart(r) \/ LastPart(r) \/ ClientGone(r)
Build(r) == JavaExec(r) \/ RunGradle(r) \/ CompileSucceeds(r) \/ CompileFails(r)
AskNode(r) == NodeAnswers(r) \/ NodeBlank(r) \/ NodeFails(r)

\* OpenConfigFile and the calls of the MongoDB driver, all of them made under
\* context.TODO() and without a socket timeout.
AskDatabase(r) ==
  \/ Connect(r) \/ ConnectFatal(r)
  \/ FindVerified(r)
  \/ InsertVerified(r) \/ InsertVerifiedFatal(r)
  \/ \E n \in TextNames \cup NefNames :
       RecordSource(r, n) \/ RecordSourceFatal(r, n)

\* The steps the handler takes without waiting for client, compiler, node or
\* database.
Handle(r) ==
  \/ UnknownVersion(r) \/ StartFails(r) \/ StartNothing(r)
  \/ StartCompiler(r) \/ StartJavaExec(r)
  \/ LookForNef(r) \/ PickJavaNef(r) \/ StatJavaNef(r)
  \/ ReadNef(r) \/ ReadNefFatal(r)
  \/ Mismatch(r) \/ AlreadyVerified(r) \/ ListSources(r) \/ Finish(r)

Environment ==
  \/ ClockTick
  \/ Redeploy
  \/ \E c \in Contracts, s \in Deployable : ChainUpdate(c, s)

Next ==
  \/ Environment
  \/ \E r \in Requests :
       \/ \E u \in Uploads : Arrive(r, u)
       \/ ArriveNotMultipart(r)
       \/ Receive(r) \/ Build(r) \/ AskNode(r) \/ AskDatabase(r) \/ Handle(r)

\* Goroutines are scheduled fairly and local file operations return; clients,
\* compilers, the node and MongoDB promise nothing.
Fairness == \A r \in Requests : WF_vars(Handle(r))

Spec == Init /\ [][Next]_vars
FairSpec == Spec /\ Fairness
-----------------------------------------------------------------------------
(* Properties.                                                             *)

\* A VerifyContractModel document is true for good: the script the request
\* compared is the one its contract had on the chain at that update counter,
\* however the chain moved between the node's answer and the insert, and
\* whatever else went on or crashed.
VerifiedMatchesChain ==
  \A v \in verified :
    /\ v.updatecounter + 1 \in DOMAIN chain[Denotes[v.hash]]
    /\ chain[Denotes[v.hash]][v.updatecounter + 1] = nef[v.by]

\* Answers are backed by the database.  Code 5 ("Verify done and record
\* verified contract in database!") means that the request's own document is
\* there; code 6 ("This contract has already been verified") that a document
\* of another request is there, for the same contract and the same update
\* counter; every source file on record belongs to a verified contract.
AnswersBacked ==
  /\ \A r \in Requests :
       /\ resp[r] = 5 => \E v \in verified : v.by = r /\ v.hash = hash(r)
                                             /\ v.updatecounter = counter(r)
       /\ resp[r] = 6 => \E v \in verified : v.by # r /\ v.hash = hash(r)
                                             /\ v.updatecounter = counter(r)
  /\ \A s \in source :
       \E v \in verified : v.by = s.by /\ v.hash = s.hash
                           /\ v.updatecounter = s.updatecounter

\* A contract version is recorded once: what the comment on the code 6
\* branch of multipleFile says ("verified before, nothing new is stored").
UniqueRecords ==
  \A v, w \in verified :
    Denotes[v.hash] = Denotes[w.hash] /\ v.updatecounter = w.updatecounter
      => v = w

\* The program of request r, as its author sent it: of several parts with one
\* name the last, and nothing the compilers do not look at.
OwnTree(r) ==
  LET parts == upload[r].parts
      last  == { i \in DOMAIN parts :
                   \A j \in DOMAIN parts : parts[j].name = parts[i].name => j <= i }
      exts  == SourceExts(family(r)) \cup
               (IF family(r) = "java" THEN {".gradle"} ELSE {})
  IN  { <<parts[i].name, parts[i].data>> : i \in
          { k \in last : parts[k].name.ext \in exts /\ Visible(parts[k].name) } }

\* What execCommand returns is what its comment says: the result of compiling
\* the uploaded files, all of them and no others, with the compiler that the
\* Version field names, and not a .nef file that some other request, an
\* earlier compilation or a fault has left where the code looks for one.
CompiledFromOwnUpload ==
  \A r \in Requests : nef[r] # None =>
    /\ nef[r].by[1] = version(r)
    /\ nef[r].of = OwnTree(r)

\* Which compiler executes is decided by three tables that nobody compares
\* (execCommand, pythonExec.sh, Dockerfile).  Requests apart in time get their
\* own files compiled, by the compiler the Version field names, with one
\* exception: an upload for neo3-boa 0.7.0 is compiled by 0.8.3.
RoutedTo(v) == IF v = "neo3-boa 0.7.0" THEN "neo3-boa 0.8.3" ELSE v
CompiledAsRouted ==
  \A r \in Requests : nef[r] # None =>
    nef[r].by[1] = RoutedTo(version(r)) /\ nef[r].of = OwnTree(r)

\* No neo-go program is ever verified, or even compared: execCommand finds
\* out.nef, and then reads in bin/sc/, where neo-go writes nothing.
GoNeverCompared ==
  \A r \in Requests : upload[r] # None /\ version(r) = "neo-go" =>
    nef[r] = None /\ resp[r] \in {None, 1, 2}

\* The source code on record explains the verdict: for a request that was
\* answered with code 5, the files recorded with the program's extension are
\* exactly those that were compiled to the script found on the chain.
SourcesExplainVerdict ==
  \A r \in Requests : resp[r] = 5 =>
    { <<s.fileName, s.code>> : s \in
        { x \in source : x.by = r /\ x.fileName.ext \in SourceExts(family(r)) } }
    = { e \in nef[r].of : e[1].ext \in SourceExts(family(r)) }

\* A folder lasts exactly as long as the code means it to.  The folder of a
\* handler in progress is there (nobody else removes or renames it); one left
\* behind is that of a request whose path has no RemoveAll: code 2, code 8,
\* status 500, a panic, the death of the process, or code 5 with a folder
\* named after the contract already there.
FolderLifetime ==
  /\ \A r \in Requests : pc[r] \in Live => dirs[folder[r]] # None
  /\ \A f \in Seconds : dirs[f] # None =>
       \E r \in Requests :
         /\ folder[r] = f
         /\ \/ pc[r] \in Live \cup {"panic"}
            \/ pc[r] = "dead" /\ ~up
            \/ resp[r] \in {2, 8, 500}
            \/ resp[r] = 5 /\ hash(r) \in kept

\* With a database that answers without errors and forms that are not of the
\* kinds FatalForm lists, the process stays: a .nef file that has been found
\* is there, and parses, when it is read, and no file the handler has listed
\* is gone when it is opened, whatever other requests do meanwhile.
ServerStaysUp == up

\* The forms that can end the process, among those this model has, when
\* requests do not disturb each other and the database takes every document:
\*  - one for neo-go (execCommand checks for out.nef but reads in bin/sc/);
\*  - one for neow3j without a program file from whose name Filename gets a
\*    usable value: none is sent, or the last one's name begins with a dot or
\*    is too long (if Gradle then leaves no .nef file, Lstat fails otherwise
\*    than by IsNotExist, or finds the directory, and ReadFile fails);
\*  - one for a C# compiler with a file called bin (Lstat below it fails with
\*    ENOTDIR, and so does ReadFile);
\*  - one for neo3-boa with a .nef file that does not parse.
IsProgram(name) == name.ext \in {".csproj", ".py", ".java"}
FatalForm(r) ==
  LET parts == upload[r].parts IN
  \/ version(r) = "neo-go"
  \/ /\ version(r) = "neow3j"
     /\ \A i \in DOMAIN parts :
          /\ IsProgram(parts[i].name)
          /\ parts[i].name.base \in Nat \ LongBases
          => \E j \in DOMAIN parts : j > i /\ IsProgram(parts[j].name)
  \/ family(r) = "csharp" /\ \E i \in DOMAIN parts : parts[i].name = BinName
  \/ family(r) = "boa" /\ \E i \in DOMAIN parts : parts[i].data = Garbage
OnlyFatalFormsKill ==
  ~up => \E r \in Requests : pc[r] = "dead" /\ FatalForm(r)

\* A verified contract has its source code on record once its request is
\* over, also when the server died on the way.
VerifiedHasSources ==
  \A v \in verified : pc[v.by] \in Settled =>
    \E s \in source : s.hash = v.hash /\ s.updatecounter = v.updatecounter

\* A handler never gets stuck in a step of its own: it goes on to the answer,
\* to the death of the process, or to a point where it waits for the client,
\* the compiler, the node or the database.  A rename that cannot be done, a
\* contract that is there already or a folder that is gone do not stop it.
OwnTurn(r) ==
  /\ pc[r] \in Handling \ {"find", "ins"}
  /\ pc[r] = "cmp" => ~Matches(r)
  /\ pc[r] = "src" => todo[r] = {}
HandlerProgress == \A r \in Requests : OwnTurn(r) ~> ~OwnTurn(r)

\* The only thing a request can hang on is a peer: if clients go on sending,
\* compilers end, and the node and the database answer (the code sets no
\* timeout on any of the four), every request that has arrived is answered,
\* or lost to a panic or to the death of the process.
PeersRespond ==
  \A r \in Requests : /\ WF_vars(Receive(r))
                       /\ WF_vars(Build(r))
                       /\ WF_vars(AskNode(r))
                       /\ WF_vars(AskDatabase(r))
EveryRequestSettles ==
  PeersRespond => \A r \in Requests : pc[r] \in Live ~> pc[r] \in Settled

\* The server implements the registry: see module Registry.
AsRecord(v) == [hash |-> Denotes[v.hash], counter |-> v.updatecounter,
                script |-> nef[v.by], by |-> v.by]
recordsBar == { AsRecord(v) : v \in verified }

toldBar ==
  [r \in Requests |->
     IF resp[r] = None THEN None
     ELSE [code |-> resp[r],
           about |-> IF resp[r] \in {5, 6} THEN <<Denotes[hash(r)], counter(r)>>
                     ELSE None]]

Abstract == INSTANCE Registry WITH
  Clients <- Requests, Ids <- Contracts, ScriptValues <- Deployable,
  Nothing <- None, history <- chain, records <- recordsBar, told <- toldBar

RegistrySpec == Abstract!RegistrySpec
-----------------------------------------------------------------------------
(* The inductive invariant from which module VerifierProofs proves TypeOK, *)
(* VerifiedMatchesChain, AnswersBacked and the refinement of Registry.     *)

\* Points after the node's answer, after the comparison, after the insert.
Answered == { "cmp", "find", "dup", "ins", "list", "src" }
Compared == { "find", "dup", "ins", "list", "src" }
Inserted == { "list", "src" }

\* r's VerifyContractModel document.
Document(r) == [hash |-> hash(r), updatecounter |-> counter(r), by |-> r]

FormInv(r) ==
  /\ pc[r] \in Live => upload[r] \in Uploads /\ folder[r] \in Seconds
  /\ pc[r] = "stat" => pick[r] \in Bases

\* What the node said stays true of the chain's history.
ReplyInv(r) ==
  /\ pc[r] \in Answered \cup {"rpc"} => nef[r] \in Scripts
  /\ pc[r] \in Answered /\ reply[r].nef # None =>
       /\ counter(r) + 1 \in DOMAIN chain[Denotes[hash(r)]]
       /\ chain[Denotes[hash(r)]][counter(r) + 1] = reply[r].nef
  /\ pc[r] \in Compared => Matches(r)

AnswerInv(r) ==
  /\ resp[r] # None <=> pc[r] = "done"
  /\ pc[r] \in Inserted \/ resp[r] = 5 => Document(r) \in verified
  /\ pc[r] = "dup" \/ resp[r] = 6 => IsVerified(hash(r), counter(r))

\* A document was made by a request that is past the insert, from the values
\* that request still holds.
DocumentInv(v) ==
  /\ pc[v.by] \in Inserted \cup {"dead"} \/ resp[v.by] = 5
  /\ v = Document(v.by)
  /\ v.updatecounter + 1 \in DOMAIN chain[Denotes[v.hash]]
  /\ chain[Denotes[v.hash]][v.updatecounter + 1] = nef[v.by]

SourceInv(s) ==
  /\ Document(s.by) \in verified
  /\ s.hash = hash(s.by)
  /\ s.updatecounter = counter(s.by)

Inv ==
  /\ TypeOK
  /\ \A r \in Requests : FormInv(r) /\ ReplyInv(r) /\ AnswerInv(r)
  /\ \A v \in verified : DocumentInv(v)
  /\ \A s \in source : SourceInv(s)
=============================================================================
