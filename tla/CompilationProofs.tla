------------------------- MODULE CompilationProofs -------------------------
(***************************************************************************)
(* Proofs about what is compiled, read and recorded for a request that no  *)
(* other one disturbs.                                                     *)
(***************************************************************************)
EXTENDS IsolationProofs, ToolchainProofs

\* Requests do not disturb each other: they do not overlap, or are a second
\* apart and none of them uses the shared Gradle project.
Undisturbed ==
  \/ Arrivals = "serial"
  \/ Arrivals = "spaced" /\ \A u \in Uploads : Family(u.version) # "java"

-----------------------------------------------------------------------------
(* The steps of a handler that goes on.                                    *)

\* One request at a time uses the Gradle project.
JavaAlone ==
  \A q, r \in Requests :
    /\ pc[q] \in Live /\ family(q) = "java"
    /\ pc[r] \in Live /\ family(r) = "java"
    => q = r

\* Only a neow3j request runs javaExec.sh, and a .nef file is looked for only
\* if the version has a branch in execCommand.
RouteInv(r) ==
  /\ pc[r] \in Scripted \cup {"stat"} => family(r) = "java"
  /\ pc[r] \in {"compile", "look"} => version(r) \in Accepted

\* What the proofs below rest on.
Base ==
  /\ Inv /\ FolderInv
  /\ \A r \in Requests : RouteInv(r)

\* A handler that goes on takes one of these steps.
Later(r) == NodeAnswers(r) \/ NodeBlank(r) \/ Connect(r) \/ FindVerified(r)
            \/ InsertVerified(r)

Looks(r) == LookForNef(r) \/ PickJavaNef(r) \/ StatJavaNef(r)
Starts(r) == StartNothing(r) \/ StartCompiler(r) \/ StartJavaExec(r)
Records(r) == ListSources(r) \/ \E n \in TextNames \cup NefNames : RecordSource(r, n)

\* The steps that end neither the request nor the process.
LEMMA GoingOn ==
  ASSUME TypeOK, NEW r \in Requests, Step(r), pc'[r] \in Live
  PROVE  \/ SavePart(r) \/ LastPart(r) \/ Starts(r)
         \/ JavaExec(r) \/ RunGradle(r) \/ CompileSucceeds(r) \/ CompileFails(r)
         \/ Looks(r) \/ ReadNef(r) \/ Later(r) \/ Records(r)
<1> USE DEF TypeOK, Answer, Move, Live, Handling, Waiting, Scripted
<1>1. ~ClientGone(r)
  BY DEF ClientGone
<1>2. ~UnknownVersion(r) /\ ~StartFails(r) /\ ~NodeFails(r) /\ ~Mismatch(r)
  BY DEF UnknownVersion, StartFails, NodeFails, Mismatch
<1>3. ~AlreadyVerified(r) /\ ~Finish(r)
  BY DEF AlreadyVerified, Finish
<1>4. /\ ~ReadNefFatal(r) /\ ~ConnectFatal(r) /\ ~InsertVerifiedFatal(r)
      /\ \A n : ~RecordSourceFatal(r, n)
  BY DEF ReadNefFatal, ConnectFatal, InsertVerifiedFatal, RecordSourceFatal, Fatal, Killed
<1> QED BY <1>1, <1>2, <1>3, <1>4
        DEF Step, Receive, Build, AskNode, AskDatabase, Handle,
            Later, Looks, Starts, Records

\* A version that runs a compiler has a branch, and every branch a family.
LEMMA Branches ==
  ASSUME NEW v
  PROVE  /\ \A cmd : Runs(v, cmd) # {} => v \in Accepted
         /\ v \in Accepted => Family(v) \in {"boa", "csharp", "java", "go"}
<1>1. ASSUME NEW x \in Activated(v) PROVE v \in BoaVersions
  BY DEF Activated, BoaVersions
<1>2. ASSUME NEW cmd, Runs(v, cmd) # {} PROVE v \in Accepted
  BY <1>1, <1>2 DEF Runs, Accepted
<1>3. v \in Accepted => Family(v) \in {"boa", "csharp", "java", "go"}
  BY DEF Accepted, Family
<1> QED BY <1>2, <1>3

\* Only StartJavaExec leads to javaExec.sh.
LEMMA RouteInvOfStep ==
  ASSUME Inv, NEW r \in Requests, RouteInv(r), Step(r), upload' = upload
  PROVE  RouteInv(r)'
<1>1. family(r)' = family(r) /\ version(r)' = version(r)
  BY DEF family, version
<1>2. CASE pc'[r] \notin Live
  BY <1>2 DEF RouteInv, Live, Waiting, Handling
<1>3. CASE pc'[r] \in Live
  <2> USE <1>1, <1>3 DEF RouteInv, Move, Scripted, Inv, TypeOK
  <2>1. /\ compilers(r) # {} => version(r) \in Accepted
        /\ family(r) = "java" => version(r) \in Accepted
    BY Branches, FamilyOfVersion DEF compilers, family, Accepted
  <2>2. CASE SavePart(r) \/ LastPart(r) \/ Starts(r)
    BY <2>2, <2>1 DEF SavePart, LastPart, Starts, StartNothing, StartCompiler,
       StartJavaExec
  <2>3. CASE JavaExec(r) \/ RunGradle(r) \/ CompileSucceeds(r) \/ CompileFails(r)
    BY <2>3, <2>1 DEF JavaExec, RunGradle, CompileSucceeds, CompileFails
  <2>4. CASE Looks(r)
    BY <2>4 DEF Looks, LookForNef, PickJavaNef, StatJavaNef, Answer, Live, Waiting,
       Handling
  <2>5. CASE ReadNef(r) \/ Later(r) \/ Records(r)
    BY <2>5 DEF ReadNef, Later, NodeAnswers, NodeBlank, Connect, FindVerified,
       InsertVerified, Records, ListSources, RecordSource
  <2> QED BY <2>2, <2>3, <2>4, <2>5, GoingOn
<1> QED BY <1>2, <1>3

-----------------------------------------------------------------------------
(* What the steps of others leave alone.                                   *)

\* q may have died, but its variables, and as long as it lives its folder, are
\* as they were.
Kept(q) ==
  /\ pc'[q] = pc[q] \/ pc'[q] = "dead"
  /\ upload'[q] = upload[q] /\ folder'[q] = folder[q] /\ got'[q] = got[q]
  /\ seen'[q] = seen[q] /\ pick'[q] = pick[q] /\ nef'[q] = nef[q]
  /\ reply'[q] = reply[q] /\ todo'[q] = todo[q] /\ resp'[q] = resp[q]
  /\ pc'[q] \in Live => dirs'[folder[q]] = dirs[folder[q]]

GradleKept(q) == pc'[q] \in Live /\ family(q) = "java" => UNCHANGED javaVars

\* The local variables of the others.
LEMMA OthersLocals ==
  ASSUME TypeOK, NEW r \in Requests, Step(r), NEW q \in Requests \ {r}
  PROVE  /\ got'[q] = got[q] /\ seen'[q] = seen[q] /\ pick'[q] = pick[q]
         /\ nef'[q] = nef[q] /\ reply'[q] = reply[q] /\ todo'[q] = todo[q]
<1> USE DEF TypeOK, worldVars, localVars, formVars, buildVars
<1>1. CASE Receive(r) \/ Build(r)
  BY <1>1 DEF Receive, SavePart, LastPart, ClientGone, Build, JavaExec, RunGradle,
     CompileSucceeds, CompileFails
<1>2. CASE AskNode(r)
  BY <1>2 DEF AskNode, NodeAnswers, NodeBlank, NodeFails
<1>3. CASE \/ UnknownVersion(r) \/ StartFails(r) \/ StartNothing(r)
           \/ StartCompiler(r) \/ StartJavaExec(r)
  BY <1>3 DEF UnknownVersion, StartFails, StartNothing, StartCompiler, StartJavaExec
<1>4. CASE \/ LookForNef(r) \/ PickJavaNef(r) \/ StatJavaNef(r)
           \/ ReadNef(r) \/ ReadNefFatal(r)
  BY <1>4 DEF LookForNef, PickJavaNef, StatJavaNef, ReadNef, ReadNefFatal
<1>5. CASE \/ Mismatch(r) \/ Connect(r) \/ ConnectFatal(r) \/ FindVerified(r)
           \/ AlreadyVerified(r)
  BY <1>5 DEF Mismatch, Connect, ConnectFatal, FindVerified, AlreadyVerified
<1>6. CASE \/ InsertVerified(r) \/ InsertVerifiedFatal(r) \/ ListSources(r)
           \/ Finish(r)
  BY <1>6 DEF InsertVerified, InsertVerifiedFatal, ListSources, Finish
<1>7. CASE \E n \in TextNames \cup NefNames :
             RecordSource(r, n) \/ RecordSourceFatal(r, n)
  BY <1>7 DEF RecordSource, RecordSourceFatal
<1> QED BY <1>1, <1>2, <1>3, <1>4, <1>5, <1>6, <1>7 DEF Step, Handle, AskDatabase

\* Requests of the other families leave the Gradle project alone.
LEMMA GradleUntouched ==
  ASSUME NEW r \in Requests, Step(r), RouteInv(r), family(r) # "java"
  PROVE  UNCHANGED javaVars
<1> USE DEF worldVars, javaVars
<1>1. CASE Receive(r) \/ AskNode(r)
  BY <1>1 DEF Receive, SavePart, LastPart, ClientGone, AskNode, NodeAnswers, NodeBlank,
     NodeFails
<1>2. CASE Build(r)
  BY <1>2 DEF Build, JavaExec, RunGradle, CompileSucceeds, CompileFails, RouteInv,
     Scripted, Move
<1>3. CASE \/ UnknownVersion(r) \/ StartFails(r) \/ StartNothing(r)
           \/ StartCompiler(r) \/ StartJavaExec(r)
  BY <1>3 DEF UnknownVersion, StartFails, StartNothing, StartCompiler, StartJavaExec
<1>4. CASE \/ LookForNef(r) \/ PickJavaNef(r) \/ StatJavaNef(r)
           \/ ReadNef(r) \/ ReadNefFatal(r)
  BY <1>4 DEF LookForNef, PickJavaNef, StatJavaNef, ReadNef, ReadNefFatal
<1>5. CASE \/ Mismatch(r) \/ Connect(r) \/ ConnectFatal(r) \/ FindVerified(r)
           \/ AlreadyVerified(r)
  BY <1>5 DEF Mismatch, Connect, ConnectFatal, FindVerified, AlreadyVerified
<1>6. CASE \/ InsertVerified(r) \/ InsertVerifiedFatal(r) \/ ListSources(r)
           \/ Finish(r)
  BY <1>6 DEF InsertVerified, InsertVerifiedFatal, ListSources, Finish
<1>7. CASE \E n \in TextNames \cup NefNames :
             RecordSource(r, n) \/ RecordSourceFatal(r, n)
  BY <1>7 DEF RecordSource, RecordSourceFatal
<1> QED BY <1>1, <1>2, <1>3, <1>4, <1>5, <1>6, <1>7 DEF Step, Handle, AskDatabase

\* A handler's step leaves the others what they have.
LEMMA KeptByStep ==
  ASSUME Base, NEW r \in Requests, Step(r), NEW q \in Requests \ {r}
  PROVE  Kept(q)
<1>1. /\ pc[r] \in Live /\ folder[r] \in Seconds
      /\ Confined(r) /\ (GoesOn(r) \/ Returns(r) \/ Dies)
  BY StepIsLive, StepConfined DEF Base, FolderInv, FolderLifetime, Inv, FormInv
<1>2. pc'[q] = pc[q] \/ pc'[q] = "dead"
  BY <1>1 DEF GoesOn, Returns, OnlyOne, Dies, Killed
<1>3. ASSUME pc'[q] \in Live PROVE dirs'[folder[q]] = dirs[folder[q]]
  <2>1. pc[q] \in Live
    BY <1>2, <1>3 DEF Live, Handling, Waiting, Scripted
  <2>2. folder[q] # folder[r] /\ folder[q] \in Seconds
    BY <1>1, <2>1 DEF Base, FolderInv, OwnFolders, Inv, FormInv, Live, Handling,
       Waiting, Scripted
  <2> QED BY <1>1, <2>2 DEF Confined
<1> QED BY <1>1, <1>2, <1>3, OthersLocals DEF Kept, Confined, Base, Inv

\* So does an arrival, in a second that nobody has arrived in.
LEMMA KeptByArrival ==
  ASSUME Base, Spaced, NEW r \in Requests,
         (\E u \in Uploads : Arrive(r, u)) \/ ArriveNotMultipart(r),
         NEW q \in Requests \ {r}
  PROVE  Kept(q)
<1>1. /\ MayArrive /\ CreateDateDir(now)
      /\ pc'[q] = pc[q] /\ upload'[q] = upload[q] /\ folder'[q] = folder[q]
      /\ resp'[q] = resp[q]
      /\ UNCHANGED <<javaVars, got, buildVars, reply, todo>>
  BY DEF Arrive, ArriveNotMultipart, Answer, Move, Base, Inv, TypeOK, sendVars
<1>2. pc'[q] \in Live => dirs'[folder[q]] = dirs[folder[q]]
  BY <1>1, ArrivalMakesFolder DEF Base, Inv, FormInv
<1> QED BY <1>1, <1>2 DEF Kept, buildVars

\* So does the environment; a deployment may kill a request.
LEMMA KeptByEnvironment ==
  ASSUME Environment \/ UNCHANGED vars, NEW q \in Requests
  PROVE  Kept(q)
<1> USE DEF worldVars, localVars, workdirVars, javaVars, formVars, buildVars, sendVars
<1>1. CASE UNCHANGED vars
  BY <1>1 DEF vars, Kept
<1>2. CASE ClockTick
  BY <1>2 DEF ClockTick, Kept
<1>3. CASE \E c \in Contracts, s \in Deployable : ChainUpdate(c, s)
  BY <1>3 DEF ChainUpdate, Kept
<1>4. CASE Redeploy
  BY <1>4 DEF Redeploy, Killed, Kept, Live, Handling, Waiting, Scripted
<1> QED BY <1>1, <1>2, <1>3, <1>4 DEF Environment

\* A request takes a step of its own, or keeps what it has.
LEMMA OwnOrKept ==
  ASSUME Base, Spaced, [Next]_vars, NEW q \in Requests
  PROVE  \/ Kept(q)
         \/ Step(q)
         \/ \E u \in Uploads : Arrive(q, u)
         \/ ArriveNotMultipart(q)
BY KeptByStep, KeptByArrival, KeptByEnvironment DEF Next, Step

\* Nobody else touches the Gradle project that a handler uses.
LEMMA OwnGradle ==
  ASSUME Base, JavaAlone, [Next]_vars, NEW q \in Requests
  PROVE  GradleKept(q) \/ Step(q)
<1>1. ASSUME NEW r \in Requests \ {q}, Step(r) PROVE GradleKept(q)
  <2>1. pc[r] \in Live /\ (pc'[q] = pc[q] \/ pc'[q] = "dead")
    BY <1>1, StepIsLive, KeptByStep DEF Kept
  <2>2. pc'[q] \in Live /\ family(q) = "java" => family(r) # "java"
    BY <2>1 DEF JavaAlone, Live, Handling, Waiting, Scripted
  <2> QED BY <1>1, <2>2, GradleUntouched DEF Base, GradleKept
<1>2. ASSUME NEW r \in Requests,
             (\E u \in Uploads : Arrive(r, u)) \/ ArriveNotMultipart(r)
      PROVE  GradleKept(q)
  BY <1>2 DEF Arrive, ArriveNotMultipart, GradleKept
<1>3. CASE Environment \/ UNCHANGED vars
  BY <1>3 DEF Environment, ClockTick, ChainUpdate, Redeploy, Killed, vars, worldVars,
     GradleKept, Live, Handling, Waiting, Scripted
<1> QED BY <1>1, <1>2, <1>3 DEF Next, Step
-----------------------------------------------------------------------------
(* Base is inductive, and JavaAlone for requests that do not disturb each  *)
(* other.                                                                  *)

\* Base holds at the start.
LEMMA BaseInit ==
  ASSUME Init PROVE Base
BY InitInv, FolderInvInit
   DEF Base, RouteInv, Init, Live, Handling, Waiting, Scripted

\* Base is kept by every step.
LEMMA BaseStep ==
  ASSUME Base, Spaced, [Next]_vars
  PROVE  Base'
<1>1. Inv' /\ FolderInv'
  BY NextInv, FolderInvStep DEF Base
<1>2. ASSUME NEW q \in Requests PROVE RouteInv(q)'
  <2>1. CASE Kept(q)
    BY <2>1 DEF Base, Kept, RouteInv, Scripted, family, version
  <2>2. CASE Step(q)
    <3>1. upload' = upload
      BY <2>2, StepIsLive, StepConfined DEF Base, FolderInv, FolderLifetime, Confined
    <3> QED BY <2>2, <3>1, RouteInvOfStep DEF Base
  <2>3. CASE (\E u \in Uploads : Arrive(q, u)) \/ ArriveNotMultipart(q)
    BY <2>3 DEF Arrive, ArriveNotMultipart, Answer, Move, Base, Inv, TypeOK, RouteInv,
       Scripted
  <2> QED BY <2>1, <2>2, <2>3, OwnOrKept
<1> QED BY <1>1, <1>2 DEF Base

\* The Gradle project never gets a second user.
LEMMA JavaAloneStep ==
  ASSUME Base, JavaAlone, Undisturbed, [Next]_vars
  PROVE  JavaAlone'
<1>1. Spaced
  BY DEF Undisturbed, Spaced
<1>2. CASE \A u \in Uploads : Family(u.version) # "java"
  BY <1>2, NextInv DEF Base, Inv, FormInv, JavaAlone, family, version
<1>3. CASE Arrivals = "serial"
  <2>1. ASSUME NEW r \in Requests,
               (\E u \in Uploads : Arrive(r, u)) \/ ArriveNotMultipart(r)
        PROVE  JavaAlone'
    <3>1. MayArrive /\ \A q \in Requests \ {r} : pc'[q] = pc[q]
      BY <2>1 DEF Arrive, ArriveNotMultipart, Answer, Move, Base, Inv, TypeOK
    <3> QED BY <1>3, <3>1 DEF MayArrive, JavaAlone
  <2>2. ASSUME \A q \in Requests : Kept(q) \/ Step(q)
        PROVE  JavaAlone'
    <3>1. ASSUME NEW q \in Requests, pc'[q] \in Live, family(q)' = "java"
          PROVE  pc[q] \in Live /\ family(q) = "java"
      <4>1. CASE Kept(q)
        BY <3>1, <4>1 DEF Kept, Live, Handling, Waiting, Scripted, family, version
      <4>2. CASE Step(q)
        BY <3>1, <4>2, StepIsLive, StepConfined
           DEF Base, FolderInv, FolderLifetime, Confined, family, version
      <4> QED BY <2>2, <4>1, <4>2
    <3> QED BY <3>1 DEF JavaAlone
  <2>3. CASE \E r \in Requests :
               (\E u \in Uploads : Arrive(r, u)) \/ ArriveNotMultipart(r)
    BY <2>1, <2>3
  <2>4. CASE ~\E r \in Requests :
               (\E u \in Uploads : Arrive(r, u)) \/ ArriveNotMultipart(r)
    BY <1>1, <2>2, <2>4, OwnOrKept
  <2> QED BY <2>3, <2>4
<1> QED BY <1>2, <1>3 DEF Undisturbed

\* At the start it has none.
LEMMA JavaAloneInit ==
  ASSUME Init PROVE JavaAlone
BY DEF Init, JavaAlone, Live, Handling, Waiting, Scripted

-----------------------------------------------------------------------------
(* What the steps of a handler do to its folder.                           *)

files(r) == dirs[folder[r]]

\* The folder of a request in progress is there, with its form.
LEMMA LiveFiles ==
  ASSUME Base, NEW r \in Requests, pc[r] \in Live
  PROVE  /\ upload[r] \in Uploads /\ upload[r].parts \in Seq(Parts)
         /\ folder[r] \in Seconds /\ files(r) # None /\ files(r) \in Folders
<1>1. upload[r] \in Uploads /\ folder[r] \in Seconds
  BY DEF Base, Inv, FormInv
<1>2. upload[r].parts \in Seq(Parts)
  BY <1>1, UploadsAssumption DEF Forms
<1>3. files(r) # None
  BY DEF Base, FolderInv, FolderLifetime, files
<1>4. files(r) \in Folders
  BY <1>1, <1>3 DEF Base, Inv, TypeOK, WorkdirTypeOK, files
<1> QED BY <1>1, <1>2, <1>3, <1>4

\* Folder e is folder d with file n, or b.nef at the top or in bin/sc/, set to x.
TextPut(d, e, n, x) ==
  e.src = [d.src EXCEPT ![n] = x] /\ e.nef = d.nef /\ e.bin = d.bin

NefPut(d, e, b, x) ==
  e.nef = [d.nef EXCEPT ![b] = x] /\ e.src = d.src /\ e.bin = d.bin

BinPut(d, e, b, x) ==
  e.bin = [d.bin EXCEPT ![b] = x] /\ e.src = d.src /\ e.nef = d.nef

\* Writing one file of a folder.
LEMMA PutFields ==
  ASSUME NEW d \in Folders, NEW y, NEW x
  PROVE  /\ TextPut(d, PutText(d, y, x), y, x)
         /\ NefPut(d, PutNef(d, y, x), y, x)
         /\ BinPut(d, PutBin(d, y, x), y, x)
BY DEF Folders, PutText, PutNef, PutBin, TextPut, NefPut, BinPut

\* io.Copy of the next part.
LEMMA PartSaved ==
  ASSUME Base, NEW r \in Requests, SavePart(r)
  PROVE  /\ pc[r] = "recv" /\ pc'[r] = "recv" /\ got'[r] = got[r] + 1
         /\ got[r] + 1 \in DOMAIN upload[r].parts
         /\ UNCHANGED <<upload, folder, javaVars>>
         /\ LET p == upload[r].parts[got[r] + 1] IN
            \/ ~CanCreate(folder[r], p.name) /\ files(r)' = files(r)
            \/ /\ p.name \in NefNames /\ p.data \in Scripts \cup {Garbage}
               /\ NefPut(files(r), files(r)', p.name.base, p.data)
            \/ /\ p.name \in TextNames /\ p.data \in Content
               /\ TextPut(files(r), files(r)', p.name,
                          Overwrite(files(r).src[p.name], p.data))
<1>1. /\ pc[r] = "recv" /\ pc'[r] = "recv" /\ got'[r] = got[r] + 1
      /\ got[r] \in Nat /\ got[r] < Len(upload[r].parts)
      /\ UNCHANGED <<upload, folder, javaVars>>
  BY DEF SavePart, Move, Base, Inv, TypeOK
<1>2. upload[r].parts \in Seq(Parts) /\ folder[r] \in Seconds /\ files(r) # None
  BY <1>1, LiveFiles DEF Live, Waiting
<1>3. /\ got[r] + 1 \in DOMAIN upload[r].parts
      /\ upload[r].parts[got[r] + 1] \in Parts
  BY <1>1, <1>2, LenProperties
<1>4. PICK p \in Parts : p = upload[r].parts[got[r] + 1]
  BY <1>3
<1>5. CASE ~CanCreate(folder[r], p.name)
  BY <1>1, <1>3, <1>4, <1>5 DEF SavePart, SaveFile, files
<1> SUFFICES ASSUME CanCreate(folder[r], p.name)
             PROVE  \/ /\ p.name \in NefNames /\ p.data \in Scripts \cup {Garbage}
                       /\ NefPut(files(r), files(r)', p.name.base, p.data)
                    \/ /\ p.name \in TextNames /\ p.data \in Content
                       /\ TextPut(files(r), files(r)', p.name,
                                  Overwrite(files(r).src[p.name], p.data))
  BY <1>1, <1>3, <1>4, <1>5
<1>6. /\ p.name.ext = ".nef" =>
           /\ p.name \in NefNames /\ p.data \in Scripts \cup {Garbage}
           /\ files(r)' = PutNef(files(r), p.name.base, p.data)
      /\ p.name.ext # ".nef" =>
           files(r)' = PutText(files(r), p.name, Overwrite(files(r).src[p.name], p.data))
  BY <1>1, <1>2, <1>4
     DEF SavePart, SaveFile, files, Base, Inv, TypeOK, WorkdirTypeOK, Parts, NefNames,
         TextNames, TextExts
<1>7. p.name.ext # ".nef" => p.name \in TextNames /\ p.data \in Content
  BY DEF Parts, NefNames, TextNames, TextExts
<1>8. files(r) \in Folders
  BY <1>1, LiveFiles DEF Live, Waiting
<1> QED BY <1>6, <1>7, <1>8, PutFields

\* The compiler writes its .nef file.
LEMMA OutputWritten ==
  ASSUME Base, NEW r \in Requests, CompileSucceeds(r)
  PROVE  /\ pc[r] = "compile" /\ pc'[r] = "look"
         /\ UNCHANGED <<upload, folder, got, buildGradle, packages, javaSrc>>
         /\ \E c \in compilers(r) : \E b \in Bases, s \in Scripts :
              /\ s = Script(c, seen[r])
              /\ \/ /\ family(r) = "java"
                    /\ UNCHANGED dirs /\ built' = [built EXCEPT ![b] = s]
                 \/ family(r) # "java" /\ UNCHANGED <<dirs, built>>
                 \/ /\ family(r) = "csharp"
                    /\ BinPut(files(r), files(r)', b, s) /\ UNCHANGED built
                 \/ /\ family(r) \notin {"java", "csharp"}
                    /\ NefPut(files(r), files(r)', b, s) /\ UNCHANGED built
<1>1. /\ pc[r] = "compile" /\ pc'[r] = "look"
      /\ UNCHANGED <<upload, folder, got>>
  BY DEF CompileSucceeds, Move, Base, Inv, TypeOK, localVars, formVars
<1>2. PICK c \in compilers(r), b \in OutputBases(r) :
        IF family(r) = "java"
        THEN WriteBuilt(b, Script(c, seen[r])) /\ UNCHANGED dirs
        ELSE /\ WriteNef(folder[r], family(r), b, Script(c, seen[r]))
             /\ UNCHANGED javaVars
  BY DEF CompileSucceeds
<1>3. PICK s : s = Script(c, seen[r])
  OBVIOUS
<1>4. s \in Scripts
  BY <1>3, RunsAreCompilers DEF compilers, Script, Scripts, Base, Inv, TypeOK
<1>5. b \in Bases
  BY BasesAssumption DEF OutputBases, Base, Inv, TypeOK, Trees, TextNames
<1>6. CASE family(r) = "java"
  BY <1>1, <1>2, <1>3, <1>4, <1>5, <1>6 DEF WriteBuilt
<1>7. CASE family(r) # "java"
  <2>1. /\ WriteNef(folder[r], family(r), b, s)
        /\ UNCHANGED <<buildGradle, packages, javaSrc, built>>
    BY <1>2, <1>3, <1>7 DEF javaVars
  <2>2. folder[r] \in Seconds /\ files(r) # None
    BY <1>1, LiveFiles DEF Live, Waiting
  <2>3. CASE UNCHANGED dirs
    BY <1>1, <1>3, <1>4, <1>5, <1>7, <2>1, <2>3
  <2> SUFFICES ASSUME dirs' # dirs
               PROVE  \/ /\ family(r) = "csharp"
                         /\ BinPut(files(r), files(r)', b, s) /\ UNCHANGED built
                      \/ /\ family(r) \notin {"java", "csharp"}
                         /\ NefPut(files(r), files(r)', b, s) /\ UNCHANGED built
    BY <1>1, <1>3, <1>4, <1>5, <1>7, <2>1, <2>3
  <2>4. files(r)' = IF family(r) = "csharp" THEN PutBin(files(r), b, s)
                                            ELSE PutNef(files(r), b, s)
    BY <1>1, <2>1, <2>2 DEF WriteNef, files, Base, Inv, TypeOK, WorkdirTypeOK
  <2>5. files(r) \in Folders
    BY <1>1, LiveFiles DEF Live, Waiting
  <2>6. IF family(r) = "csharp" THEN BinPut(files(r), files(r)', b, s)
                                ELSE NefPut(files(r), files(r)', b, s)
    BY <2>4, <2>5, PutFields
  <2> QED BY <1>7, <2>1, <2>6
<1> QED BY <1>6, <1>7

\* The steps of a handler that goes on, but for SavePart and CompileSucceeds.
Quiet(r) ==
  LastPart(r) \/ Starts(r) \/ JavaExec(r) \/ RunGradle(r) \/ CompileFails(r)
  \/ Looks(r) \/ ReadNef(r) \/ Later(r) \/ Records(r)

\* They change no file, form, folder name or count of parts.
LEMMA QuietFiles ==
  ASSUME NEW r \in Requests, Quiet(r)
  PROVE  UNCHANGED <<dirs, upload, folder, got>>
<1> USE DEF worldVars, workdirVars, localVars, formVars, Quiet
<1>1. CASE LastPart(r) \/ Starts(r)
  BY <1>1 DEF LastPart, Starts, StartNothing, StartCompiler, StartJavaExec
<1>2. CASE JavaExec(r) \/ RunGradle(r) \/ CompileFails(r)
  BY <1>2 DEF JavaExec, RunGradle, CompileFails
<1>3. CASE Looks(r)
  BY <1>3 DEF Looks, LookForNef, PickJavaNef, StatJavaNef
<1>4. CASE ReadNef(r) \/ Later(r) \/ Records(r)
  BY <1>4 DEF ReadNef, Later, NodeAnswers, NodeBlank, Connect, FindVerified,
     InsertVerified, Records, ListSources, RecordSource
<1> QED BY <1>1, <1>2, <1>3, <1>4

\* A handler that goes on saves a part, compiles, or is quiet.
LEMMA GoingOnQuietly ==
  ASSUME Base, NEW r \in Requests, Step(r), pc'[r] \in Live
  PROVE  SavePart(r) \/ CompileSucceeds(r) \/ Quiet(r)
BY GoingOn DEF Base, Inv, Quiet

\* The folder of an arrival.
LEMMA ArrivalFiles ==
  ASSUME Base, Spaced, NEW r \in Requests, NEW u \in Uploads, Arrive(r, u)
  PROVE  /\ pc[r] = "new" /\ pc'[r] = "recv" /\ upload'[r] = u
         /\ files(r)' = EmptyFolder
         /\ UNCHANGED <<got, seen, nef, pick, todo, resp>>
<1>1. /\ pc[r] = "new" /\ pc'[r] = "recv" /\ upload'[r] = u /\ folder'[r] = now
      /\ MayArrive /\ CreateDateDir(now)
      /\ UNCHANGED <<got, seen, nef, pick, todo, resp>>
  BY DEF Arrive, Move, Base, Inv, TypeOK, buildVars, sendVars
<1>2. files(r)' = EmptyFolder
  BY <1>1, ArrivalMakesFolder DEF Base, files
<1> QED BY <1>1, <1>2
-----------------------------------------------------------------------------
(* Which .nef files lie where the code looks for one.                      *)

CleanParts(r) == \A i \in DOMAIN upload[r].parts : upload[r].parts[i].data # Garbage
BinPart(r) == \E i \in DOMAIN upload[r].parts : upload[r].parts[i].name = BinName

\* A .nef file that does not parse is one that has been uploaded, and so is a
\* file called bin; neo-go never writes into bin/sc/.
NefInv(r) ==
  pc[r] \in Live =>
    /\ CleanParts(r) => \A b \in Bases : files(r).nef[b] # Garbage
    /\ \A b \in Bases : files(r).bin[b] # Garbage
    /\ family(r) = "go" => files(r).bin = NoNef
    /\ files(r).src[BinName] # None => BinPart(r)

\* The name of nccs's folder is one that a part may have.
LEMMA BinIsText == BinName \in TextNames
BY BasesAssumption DEF BinName, TextNames, TextExts

\* Only a part of the form or a compiler puts a .nef file there.
LEMMA NefInvOfStep ==
  ASSUME Base, NEW r \in Requests, NefInv(r), Step(r)
  PROVE  NefInv(r)'
<1> SUFFICES ASSUME pc'[r] \in Live PROVE NefInv(r)'
  BY DEF NefInv
<1>1. pc[r] \in Live
  BY StepIsLive
<1>2. files(r).nef \in NefFiles /\ files(r).bin \in NefFiles
  BY <1>1, LiveFiles DEF Folders
<1>3. CASE SavePart(r)
  <2>1. PICK p : p = upload[r].parts[got[r] + 1]
    OBVIOUS
  <2>2. /\ got[r] + 1 \in DOMAIN upload[r].parts /\ upload' = upload
        /\ \/ files(r)' = files(r)
           \/ NefPut(files(r), files(r)', p.name.base, p.data)
           \/ \E x : TextPut(files(r), files(r)', p.name, x)
    BY <1>3, <2>1, PartSaved
  <2>3. /\ CleanParts(r)' = CleanParts(r) /\ family(r)' = family(r)
        /\ BinPart(r)' = BinPart(r)
    BY <2>2 DEF CleanParts, BinPart, family, version
  <2>4. CleanParts(r) => p.data # Garbage
    BY <2>1, <2>2 DEF CleanParts
  <2>5. files(r)'.bin = files(r).bin
    BY <2>2 DEF NefPut, TextPut
  <2>6. CleanParts(r) => \A b \in Bases : files(r)'.nef[b] # Garbage
    BY <1>1, <1>2, <2>2, <2>4 DEF NefInv, NefPut, TextPut, NefFiles
  <2>7. p.name = BinName => BinPart(r)
    BY <2>1, <2>2 DEF BinPart
  <2>8. files(r)'.src[BinName] = files(r).src[BinName] \/ p.name = BinName
    BY <1>1, <2>2, BinIsText, LiveFiles DEF NefPut, TextPut, Folders
  <2> QED BY <1>1, <2>3, <2>5, <2>6, <2>7, <2>8 DEF NefInv
<1>4. CASE CompileSucceeds(r)
  <2>1. PICK b \in Bases, s \in Scripts :
          \/ UNCHANGED dirs
          \/ family(r) = "csharp" /\ BinPut(files(r), files(r)', b, s)
          \/ NefPut(files(r), files(r)', b, s)
    BY <1>4, OutputWritten
  <2>2. /\ CleanParts(r)' = CleanParts(r) /\ family(r)' = family(r)
        /\ BinPart(r)' = BinPart(r) /\ folder' = folder
    BY <1>4, OutputWritten DEF CleanParts, BinPart, family, version
  <2>3. s # Garbage
    BY NoneAssumption
  <2>4. CASE UNCHANGED dirs
    BY <1>1, <2>2, <2>4 DEF NefInv, files
  <2>5. CASE family(r) = "csharp" /\ BinPut(files(r), files(r)', b, s)
    BY <1>1, <1>2, <2>2, <2>3, <2>5 DEF NefInv, NefFiles, BinPut
  <2>6. CASE NefPut(files(r), files(r)', b, s)
    BY <1>1, <1>2, <2>2, <2>3, <2>6 DEF NefInv, NefFiles, NefPut
  <2> QED BY <2>1, <2>4, <2>5, <2>6
<1>5. CASE Quiet(r)
  BY <1>1, <1>5, QuietFiles DEF NefInv, CleanParts, BinPart, files, family, version
<1> QED BY <1>3, <1>4, <1>5, GoingOnQuietly

\* NefInv is kept by every step.
LEMMA NefInvStep ==
  ASSUME Base, Spaced, [Next]_vars, \A r \in Requests : NefInv(r)
  PROVE  \A r \in Requests : NefInv(r)'
<1> SUFFICES ASSUME NEW r \in Requests, pc'[r] \in Live PROVE NefInv(r)'
  BY DEF NefInv
<1>1. CASE Kept(r)
  BY <1>1 DEF Kept, NefInv, files, CleanParts, BinPart, family, version, Live, Handling,
     Waiting, Scripted
<1>2. CASE \E u \in Uploads : Arrive(r, u)
  <2>1. files(r)' = EmptyFolder
    BY <1>2, ArrivalFiles
  <2> QED BY <2>1, BinIsText, NoneAssumption DEF NefInv, EmptyFolder, NoNef
<1>3. CASE ArriveNotMultipart(r)
  BY <1>3 DEF ArriveNotMultipart, Answer, Move, Base, Inv, TypeOK, Live, Handling,
     Waiting, Scripted
<1> QED BY <1>1, <1>2, <1>3, OwnOrKept, NefInvOfStep

-----------------------------------------------------------------------------
(* neo-go.                                                                 *)

\* The cases of ReadResult, one family at a time.
LEMMA ReadResultOf ==
  ASSUME NEW r
  PROVE  /\ family(r) = "boa" => ReadResult(r) = ReadAtTop(r)
         /\ family(r) = "java" =>
              ReadResult(r) = { built[b] : b \in {pick[r]} \ {None} } \ {None}
         /\ family(r) \notin {"boa", "java"} =>
              ReadResult(r) = { NefAt(r, "bin")[b] : b \in FirstNef(NefAt(r, "bin")) }
                              \ {Garbage}
BY Zenon DEF ReadResult, ReadAtTop

\* The same in the next state.
LEMMA ReadResultNext ==
  ASSUME NEW r
  PROVE  /\ family(r)' = "boa" => ReadResult(r)' = ReadAtTop(r)'
         /\ family(r)' = "java" =>
              ReadResult(r)' = { built'[b] : b \in {pick'[r]} \ {None} } \ {None}
         /\ family(r)' \notin {"boa", "java"} =>
              ReadResult(r)' = { NefAt(r, "bin")'[b] : b \in FirstNef(NefAt(r, "bin"))' }
                               \ {Garbage}
BY Zenon DEF ReadResult, ReadAtTop

\* A request that has not arrived has no form; one for neo-go never gets to
\* the node.
GoInv(r) ==
  /\ pc[r] = "new" => upload[r] = None /\ nef[r] = None
  /\ upload[r] # None /\ family(r) = "go" =>
       /\ pc[r] \notin Answered \cup {"rpc"}
       /\ nef[r] = None
       /\ resp[r] \in {None, 1, 2}

\* A neo-go request ends at the latest where its .nef file is to be read.
LEMMA GoInvOfStep ==
  ASSUME Base, NEW r \in Requests, NefInv(r), GoInv(r), Step(r)
  PROVE  GoInv(r)'
<1>1. pc[r] \in Live /\ upload'[r] = upload[r]
  BY StepIsLive, StepConfined DEF Base, FolderInv, FolderLifetime, Confined
<1>2. pc'[r] # "new"
  BY <1>1, StepConfined
     DEF Base, FolderInv, FolderLifetime, GoesOn, Returns, Dies, Killed, Live, Handling,
         Waiting, Scripted
<1> SUFFICES ASSUME upload[r] # None, family(r) = "go"
             PROVE  /\ pc'[r] \notin Answered \cup {"rpc"}
                    /\ nef'[r] = None
                    /\ resp'[r] \in {None, 1, 2}
  BY <1>1, <1>2 DEF GoInv, family, version
<1>3. version(r) \in Accepted
  BY FamilyOfVersion DEF family, Accepted
<1>4. /\ pc[r] \notin Answered \cup {"rpc"}
      /\ nef[r] = None
      /\ resp[r] \in {None, 1, 2}
      /\ pc[r] \notin Scripted \cup {"stat"}
  BY DEF GoInv, Base, RouteInv
<1>5. ~ReadNef(r)
  <2>1. files(r).bin = NoNef /\ files(r) # None
    BY <1>1, LiveFiles DEF NefInv
  <2>2. FirstNef(NefAt(r, "bin")) = {}
    BY <2>1 DEF NefAt, FirstNef, NoNef, files
  <2>3. ReadResult(r) = {}
    BY <2>2, ReadResultOf
  <2> QED BY <2>3 DEF ReadNef
<1> USE <1>4 DEF Answered, Move, Answer, worldVars, localVars, formVars, buildVars,
                 sendVars, Base, Inv, TypeOK
<1>6. CASE Receive(r) \/ AskNode(r)
  BY <1>6 DEF Receive, SavePart, LastPart, ClientGone, AskNode, NodeAnswers, NodeBlank,
     NodeFails
<1>7. CASE Build(r)
  BY <1>7 DEF Build, JavaExec, RunGradle, CompileSucceeds, CompileFails, Scripted
<1>8. CASE \/ UnknownVersion(r) \/ StartFails(r) \/ StartNothing(r)
           \/ StartCompiler(r) \/ StartJavaExec(r)
  BY <1>3, <1>8 DEF UnknownVersion, StartFails, StartNothing, StartCompiler,
     StartJavaExec
<1>9. CASE LookForNef(r) \/ PickJavaNef(r) \/ StatJavaNef(r)
  BY <1>9 DEF LookForNef, PickJavaNef, StatJavaNef
<1>10. CASE ReadNefFatal(r) \/ ConnectFatal(r) \/ InsertVerifiedFatal(r)
  BY <1>1, <1>10 DEF ReadNefFatal, ConnectFatal, InsertVerifiedFatal, Fatal, Killed
<1>11. CASE Mismatch(r) \/ Connect(r) \/ FindVerified(r) \/ AlreadyVerified(r)
            \/ InsertVerified(r) \/ ListSources(r) \/ Finish(r)
  BY <1>11 DEF Mismatch, Connect, FindVerified, AlreadyVerified, InsertVerified,
     ListSources, Finish
<1>12. CASE \E n \in TextNames \cup NefNames :
              RecordSource(r, n) \/ RecordSourceFatal(r, n)
  BY <1>12 DEF RecordSource, RecordSourceFatal, Fatal
<1> QED BY <1>5, <1>6, <1>7, <1>8, <1>9, <1>10, <1>11, <1>12 DEF Step, Handle, AskDatabase

\* GoInv is kept by every step.
LEMMA GoInvStep ==
  ASSUME Base, Spaced, [Next]_vars, \A r \in Requests : NefInv(r) /\ GoInv(r)
  PROVE  \A r \in Requests : GoInv(r)'
<1> SUFFICES ASSUME NEW r \in Requests PROVE GoInv(r)'
  OBVIOUS
<1>1. CASE Kept(r)
  BY <1>1 DEF Kept, GoInv, family, version, Answered
<1>2. CASE \E u \in Uploads : Arrive(r, u)
  <2>1. /\ pc[r] = "new" /\ pc'[r] = "recv"
        /\ nef'[r] = nef[r] /\ resp'[r] = resp[r]
    BY <1>2, ArrivalFiles
  <2>2. nef[r] = None /\ resp[r] = None
    BY <2>1 DEF GoInv, Base, Inv, AnswerInv
  <2> QED BY <2>1, <2>2 DEF GoInv, Answered
<1>3. CASE ArriveNotMultipart(r)
  <2>1. pc[r] = "new" /\ pc'[r] = "done" /\ upload' = upload
    BY <1>3 DEF ArriveNotMultipart, Answer, Move, Base, Inv, TypeOK
  <2> QED BY <2>1 DEF GoInv
<1> QED BY <1>1, <1>2, <1>3, OwnOrKept, GoInvOfStep

\* No neo-go program is ever verified, or even compared: execCommand finds
\* out.nef, and then reads in bin/sc/, where neo-go writes nothing.  The
\* requests have folders of their own: no two arrive in the same second.
THEOREM NeoGoIsNeverCompared ==
  ASSUME Spaced PROVE Spec => []GoNeverCompared
<1> DEFINE I == Base /\ \A r \in Requests : NefInv(r) /\ GoInv(r)
<1>1. Init => I
  <2>1. ASSUME Init PROVE \A r \in Requests : NefInv(r) /\ GoInv(r)
    BY <2>1 DEF Init, NefInv, GoInv, Live, Handling, Waiting, Scripted
  <2> QED BY <2>1, BaseInit
<1>2. I /\ [Next]_vars => I'
  BY BaseStep, NefInvStep, GoInvStep
<1>3. I => GoNeverCompared
  BY FamilyOfVersion DEF GoInv, GoNeverCompared, family
<1> QED BY <1>1, <1>2, <1>3, PTL DEF Spec

-----------------------------------------------------------------------------
(* What ends the process.                                                  *)

\* Whoever comes to read a .nef file finds one that parses, unless the form
\* is one of those that end the process; and whoever opens a source file
\* finds it.
ReadInv(r) ==
  /\ pc[r] = "read" => FatalForm(r) \/ ReadResult(r) # {}
  /\ pc[r] = "src" => todo[r] \subseteq Entries(r)

\* The last of the parts that set Filename.
LEMMA LastFilename ==
  ASSUME NEW r, upload[r].parts \in Seq(Parts), ~HasFilename(r),
         NEW i \in DOMAIN upload[r].parts, IsProgram(upload[r].parts[i].name),
         upload[r].parts[i].name.base \in Nat \ LongBases
  PROVE  \E j \in DOMAIN upload[r].parts : j > i /\ IsProgram(upload[r].parts[j].name)
<1>1. i \in FilenameParts(r)
  BY DEF FilenameParts, IsProgram
<1>2. PICK j \in FilenameParts(r) : ~(j <= i)
  BY <1>1 DEF HasFilename
<1>3. j \in DOMAIN upload[r].parts /\ IsProgram(upload[r].parts[j].name)
  BY DEF FilenameParts, IsProgram
<1>4. i \in Nat /\ j \in Nat
  BY <1>3, LenProperties
<1> QED BY <1>2, <1>3, <1>4

\* The forms that end the process, told from the form.
LEMMA FatalForms ==
  ASSUME NEW r, upload[r].parts \in Seq(Parts)
  PROVE  /\ family(r) = "go" => FatalForm(r)
         /\ family(r) = "boa" /\ ~CleanParts(r) => FatalForm(r)
         /\ family(r) = "csharp" /\ BinPart(r) => FatalForm(r)
         /\ family(r) = "java" /\ ~HasFilename(r) => FatalForm(r)
<1>1. family(r) = "go" => version(r) = "neo-go"
  BY FamilyOfVersion DEF family
<1>2. family(r) = "java" => version(r) = "neow3j"
  BY FamilyOfVersion DEF family
<1> QED BY <1>1, <1>2, LastFilename DEF FatalForm, CleanParts, BinPart

\* The cases of NotMissing, one family at a time.
LEMMA NotMissingOf ==
  ASSUME NEW r
  PROVE  /\ family(r) = "boa" => NotMissing(r) = (FirstNef(NefAt(r, "top")) # {})
         /\ family(r) = "go" => NotMissing(r) = (NefAt(r, "top")[0] # None)
         /\ family(r) \notin {"boa", "go"} =>
              NotMissing(r) = (FirstNef(NefAt(r, "bin")) # {} \/ BinIsFile(folder[r]))
BY Zenon DEF NotMissing

\* A file that Lstat does not report missing is read, unless the form is one
\* of those that end the process.
LEMMA FoundIsRead ==
  ASSUME Base, NEW r \in Requests, pc[r] = "look", NefInv(r), NotMissing(r),
         family(r) # "java"
  PROVE  FatalForm(r) \/ ReadResult(r) # {}
<1>1. pc[r] \in Live
  BY DEF Live, Handling
<1>2. /\ upload[r].parts \in Seq(Parts)
      /\ NefAt(r, "top") = files(r).nef /\ NefAt(r, "bin") = files(r).bin
  BY <1>1, LiveFiles DEF NefAt, files
<1>3. family(r) \in {"boa", "csharp", "java", "go"}
  BY Branches DEF Base, RouteInv, family
<1>4. CASE family(r) = "go"
  BY <1>2, <1>4, FatalForms
<1>5. CASE family(r) = "boa" /\ ~CleanParts(r)
  BY <1>2, <1>5, FatalForms
<1>6. CASE family(r) = "boa" /\ CleanParts(r)
  <2>1. PICK b \in FirstNef(files(r).nef) : TRUE
    BY <1>2, <1>6, NotMissingOf
  <2>2. files(r).nef[b] # Garbage
    BY <1>1, <1>6, <2>1 DEF FirstNef, NefInv
  <2>3. files(r).nef[b] \in ReadAtTop(r)
    BY <1>2, <2>1, <2>2 DEF ReadAtTop
  <2> QED BY <1>6, <2>3, ReadResultOf
<1>7. CASE family(r) = "csharp" /\ BinIsFile(folder[r])
  <2>1. BinPart(r)
    BY <1>1, <1>7 DEF BinIsFile, NefInv, files
  <2> QED BY <1>2, <1>7, <2>1, FatalForms
<1>8. CASE family(r) = "csharp" /\ ~BinIsFile(folder[r])
  <2>1. PICK b \in FirstNef(files(r).bin) : TRUE
    BY <1>2, <1>8, NotMissingOf
  <2>2. files(r).bin[b] # Garbage
    BY <1>1, <2>1 DEF FirstNef, NefInv
  <2>3. files(r).bin[b] \in { NefAt(r, "bin")[x] : x \in FirstNef(NefAt(r, "bin")) }
                          \ {Garbage}
    BY <1>2, <2>1, <2>2
  <2> QED BY <1>8, <2>3, ReadResultOf
<1> QED BY <1>3, <1>4, <1>5, <1>6, <1>7, <1>8

\* The operators of ReadInv depend on no more than Kept keeps.
LEMMA SameReading ==
  ASSUME NEW r, upload'[r] = upload[r], folder'[r] = folder[r],
         files(r)' = files(r), pick'[r] = pick[r],
         family(r) = "java" => built' = built
  PROVE  /\ FatalForm(r)' = FatalForm(r)
         /\ ReadResult(r)' = ReadResult(r)
         /\ Entries(r)' = Entries(r)
<1>1. family(r)' = family(r)
  BY DEF family, version
<1>2. FatalForm(r)' = FatalForm(r)
  BY <1>1 DEF FatalForm, version
<1>3. \A place : NefAt(r, place)' = NefAt(r, place)
  BY DEF NefAt, files
<1>4. ReadAtTop(r)' = ReadAtTop(r)
  BY <1>3 DEF ReadAtTop, FirstNef
<1>5. ReadResult(r)' = ReadResult(r)
  <2>1. CASE family(r) = "boa"
    BY <1>1, <1>4, <2>1, ReadResultOf, ReadResultNext
  <2>2. CASE family(r) = "java"
    <3>1. { built'[b] : b \in {pick'[r]} \ {None} } \ {None}
          = { built[b] : b \in {pick[r]} \ {None} } \ {None}
      BY <2>2
    <3> QED BY <1>1, <2>2, <3>1, ReadResultOf, ReadResultNext
  <2>3. CASE family(r) \notin {"boa", "java"}
    <3>1. FirstNef(NefAt(r, "bin"))' = FirstNef(NefAt(r, "bin"))
      BY <1>3 DEF FirstNef
    <3>2. NefAt(r, "bin")' = NefAt(r, "bin")
      BY <1>3
    <3>3. { NefAt(r, "bin")'[b] : b \in FirstNef(NefAt(r, "bin"))' } \ {Garbage}
          = { NefAt(r, "bin")[b] : b \in FirstNef(NefAt(r, "bin")) } \ {Garbage}
      BY <3>1, <3>2
    <3> QED BY <1>1, <2>3, <3>3, ReadResultOf, ReadResultNext
  <2> QED BY <2>1, <2>2, <2>3
<1>6. Entries(r)' = Entries(r)
  BY DEF Entries, files
<1> QED BY <1>2, <1>5, <1>6

\* What the handler has found is still there when it reads it.
LEMMA ReadInvOfStep ==
  ASSUME Base, NEW r \in Requests, NefInv(r), ReadInv(r), Step(r)
  PROVE  ReadInv(r)'
<1>1. pc[r] \in Live
  BY StepIsLive
<1>2. upload[r].parts \in Seq(Parts)
  BY <1>1, LiveFiles
<1> USE DEF worldVars, localVars, workdirVars, javaVars, formVars, Base, Inv, TypeOK,
            Move, Answer
<1>3. ASSUME pc'[r] = "read" PROVE FatalForm(r)' \/ ReadResult(r)' # {}
  <2>1. Looks(r)
    <3>1. ~SavePart(r) /\ ~LastPart(r) /\ ~Starts(r)
      BY <1>3 DEF SavePart, LastPart, Starts, StartNothing, StartCompiler, StartJavaExec
    <3>2. ~JavaExec(r) /\ ~RunGradle(r) /\ ~CompileSucceeds(r) /\ ~CompileFails(r)
      BY <1>3 DEF JavaExec, RunGradle, CompileSucceeds, CompileFails
    <3>3. ~ReadNef(r) /\ ~Later(r) /\ ~Records(r)
      BY <1>3 DEF ReadNef, Later, NodeAnswers, NodeBlank, Connect, FindVerified,
         InsertVerified, Records, ListSources, RecordSource
    <3> QED BY <1>3, <3>1, <3>2, <3>3, GoingOn DEF Live, Handling
  <2>2. UNCHANGED <<dirs, upload, folder, built>>
    BY <2>1 DEF Looks, LookForNef, PickJavaNef, StatJavaNef
  <2>3. CASE LookForNef(r)
    <3>1. /\ pc[r] = "look" /\ NotMissing(r) /\ family(r) # "java"
          /\ pick'[r] = pick[r]
      BY <1>3, <2>3 DEF LookForNef, buildVars
    <3>2. FatalForm(r) \/ ReadResult(r) # {}
      BY <3>1, FoundIsRead
    <3> QED BY <2>2, <3>1, <3>2, SameReading DEF files
  <2>4. CASE PickJavaNef(r)
    <3>1. family(r) = "java" /\ ~HasFilename(r) /\ pick'[r] = pick[r]
      BY <1>3, <2>4 DEF PickJavaNef
    <3>2. FatalForm(r)
      BY <1>2, <3>1, FatalForms
    <3> QED BY <2>2, <3>1, <3>2, SameReading DEF files
  <2>5. CASE StatJavaNef(r)
    <3>1. pc[r] = "stat" /\ built[pick[r]] # None /\ pick'[r] = pick[r]
      BY <1>3, <2>5 DEF StatJavaNef, buildVars
    <3>2. family(r) = "java" /\ pick[r] \in Bases
      BY <3>1 DEF RouteInv, FormInv
    <3>3. pick[r] \in {pick[r]} \ {None}
      BY <3>2, NoneAssumption
    <3>4. built[pick[r]] \in { built[b] : b \in {pick[r]} \ {None} } \ {None}
      BY <3>1, <3>3
    <3>5. built[pick[r]] \in ReadResult(r)
      BY <3>2, <3>4, ReadResultOf
    <3> QED BY <2>2, <3>1, <3>5, SameReading DEF files
  <2> QED BY <2>1, <2>3, <2>4, <2>5 DEF Looks
<1>4. ASSUME pc'[r] = "src" PROVE (todo[r] \subseteq Entries(r))'
  <2>1. Records(r)
    <3>1. ~SavePart(r) /\ ~LastPart(r) /\ ~Starts(r)
      BY <1>4 DEF SavePart, LastPart, Starts, StartNothing, StartCompiler, StartJavaExec
    <3>2. ~JavaExec(r) /\ ~RunGradle(r) /\ ~CompileSucceeds(r) /\ ~CompileFails(r)
      BY <1>4 DEF JavaExec, RunGradle, CompileSucceeds, CompileFails
    <3>3. ~ReadNef(r) /\ ~Later(r) /\ ~Looks(r)
      BY <1>4 DEF ReadNef, Later, NodeAnswers, NodeBlank, Connect, FindVerified,
         InsertVerified, Looks, LookForNef, PickJavaNef, StatJavaNef
    <3> QED BY <1>4, <3>1, <3>2, <3>3, GoingOn DEF Live, Handling
  <2>2. UNCHANGED <<dirs, folder>>
    BY <2>1 DEF Records, ListSources, RecordSource
  <2>3. Entries(r)' = Entries(r)
    BY <2>2 DEF Entries
  <2>4. CASE ListSources(r)
    BY <2>3, <2>4 DEF ListSources
  <2>5. CASE \E n \in TextNames \cup NefNames : RecordSource(r, n)
    BY <2>3, <2>5 DEF RecordSource, ReadInv
  <2> QED BY <2>1, <2>4, <2>5 DEF Records
<1> QED BY <1>3, <1>4 DEF ReadInv

\* ReadInv is kept by every step.
LEMMA ReadInvStep ==
  ASSUME Base, JavaAlone, Spaced, [Next]_vars,
         \A r \in Requests : NefInv(r) /\ ReadInv(r)
  PROVE  \A r \in Requests : ReadInv(r)'
<1> SUFFICES ASSUME NEW r \in Requests PROVE ReadInv(r)'
  OBVIOUS
<1>1. CASE Kept(r) /\ GradleKept(r)
  <2> SUFFICES ASSUME pc'[r] \in {"read", "src"} PROVE ReadInv(r)'
    BY DEF ReadInv
  <2>1. /\ pc'[r] = pc[r] /\ todo'[r] = todo[r]
        /\ FatalForm(r)' = FatalForm(r)
        /\ ReadResult(r)' = ReadResult(r)
        /\ Entries(r)' = Entries(r)
    BY <1>1, SameReading DEF Kept, GradleKept, files, javaVars, Live, Handling
  <2> QED BY <2>1 DEF ReadInv
<1>2. CASE (\E u \in Uploads : Arrive(r, u)) \/ ArriveNotMultipart(r)
  BY <1>2 DEF Arrive, ArriveNotMultipart, Answer, Move, Base, Inv, TypeOK, ReadInv
<1> QED BY <1>1, <1>2, OwnOrKept, OwnGradle, ReadInvOfStep

\* When the process has ended there is a request to show why.
DeathInv ==
  ~up => \E r \in Requests : /\ pc[r] = "dead" /\ upload[r] \in Uploads
                             /\ FatalForm(r)

\* log.Fatal, when the database does not fail, is that of a .nef file that
\* cannot be read.
LEMMA DeathOfStep ==
  ASSUME Base, Faults \cap {"mongo", "insert"} = {},
         NEW r \in Requests, ReadInv(r), Step(r), up' # up
  PROVE  pc'[r] = "dead" /\ FatalForm(r)
<1> USE DEF sendVars
<1>1. CASE Receive(r) \/ AskNode(r)
  BY <1>1 DEF Receive, SavePart, LastPart, ClientGone, AskNode, NodeAnswers, NodeBlank,
     NodeFails
<1>2. CASE Build(r)
  BY <1>2 DEF Build, JavaExec, RunGradle, CompileSucceeds, CompileFails
<1>3. CASE \/ UnknownVersion(r) \/ StartFails(r) \/ StartNothing(r)
           \/ StartCompiler(r) \/ StartJavaExec(r)
  BY <1>3 DEF UnknownVersion, StartFails, StartNothing, StartCompiler, StartJavaExec
<1>4. CASE LookForNef(r) \/ PickJavaNef(r) \/ StatJavaNef(r) \/ ReadNef(r)
  BY <1>4 DEF LookForNef, PickJavaNef, StatJavaNef, ReadNef
<1>5. CASE ReadNefFatal(r)
  <2>1. pc[r] = "read" /\ pc' = Killed /\ ReadResult(r) = {}
    BY <1>5 DEF ReadNefFatal, Fatal
  <2> QED BY <2>1 DEF ReadInv, Killed, Live, Handling
<1>6. CASE \/ Mismatch(r) \/ Connect(r) \/ ConnectFatal(r) \/ FindVerified(r)
           \/ AlreadyVerified(r)
  BY <1>6 DEF Mismatch, Connect, ConnectFatal, FindVerified, AlreadyVerified
<1>7. CASE \/ InsertVerified(r) \/ InsertVerifiedFatal(r) \/ ListSources(r)
           \/ Finish(r)
  BY <1>7 DEF InsertVerified, InsertVerifiedFatal, ListSources, Finish
<1>8. CASE \E n \in TextNames \cup NefNames : RecordSource(r, n)
  BY <1>8 DEF RecordSource
<1>9. CASE \E n \in TextNames \cup NefNames : RecordSourceFatal(r, n)
  BY <1>9 DEF RecordSourceFatal, Fatal, ReadInv
<1> QED BY <1>1, <1>2, <1>3, <1>4, <1>5, <1>6, <1>7, <1>8, <1>9 DEF Step, Handle, AskDatabase

\* DeathInv is kept by every step.
LEMMA DeathInvStep ==
  ASSUME Base, Spaced, Faults \cap {"mongo", "insert"} = {}, [Next]_vars,
         DeathInv, \A r \in Requests : ReadInv(r)
  PROVE  DeathInv'
<1>1. CASE UNCHANGED <<up, pc, upload>>
  BY <1>1 DEF DeathInv, FatalForm, version, family
<1>2. CASE Environment \/ UNCHANGED vars
  BY <1>1, <1>2 DEF Environment, ClockTick, Redeploy, ChainUpdate, vars, localVars,
     formVars, sendVars, DeathInv
<1>3. ASSUME NEW r \in Requests,
             (\E u \in Uploads : Arrive(r, u)) \/ ArriveNotMultipart(r)
      PROVE  DeathInv'
  BY <1>3 DEF Arrive, ArriveNotMultipart, sendVars, DeathInv
<1>4. ASSUME NEW r \in Requests, Step(r)
      PROVE  DeathInv'
  <2>1. pc[r] \in Live /\ upload' = upload /\ upload[r] \in Uploads
    BY <1>4, StepIsLive, StepConfined
       DEF Base, FolderInv, FolderLifetime, Confined, Inv, FormInv
  <2>2. \A q : FatalForm(q)' = FatalForm(q)
    BY <2>1 DEF FatalForm, version, family
  <2>3. CASE up' # up
    BY <1>4, <2>1, <2>2, <2>3, DeathOfStep DEF DeathInv
  <2>4. CASE up' = up
    <3> SUFFICES ASSUME ~up
                 PROVE  \E q \in Requests : /\ pc'[q] = "dead" /\ upload[q] \in Uploads
                                            /\ FatalForm(q)
      BY <2>1, <2>2, <2>4 DEF DeathInv
    <3>1. PICK q \in Requests : /\ pc[q] = "dead" /\ upload[q] \in Uploads
                                /\ FatalForm(q)
      BY DEF DeathInv
    <3>2. q # r
      BY <2>1, <3>1 DEF Live, Handling, Waiting, Scripted
    <3>3. pc'[q] = "dead"
      BY <1>4, <3>1, <3>2, KeptByStep DEF Kept
    <3> QED BY <3>1, <3>3
  <2> QED BY <2>3, <2>4
<1> QED BY <1>2, <1>3, <1>4 DEF Next, Step

\* The process ends only with a request whose form ends it.
LEMMA DeathInvariant ==
  ASSUME Undisturbed, Faults \cap {"mongo", "insert"} = {}
  PROVE  Spec => []DeathInv
<1> DEFINE I == /\ Base /\ JavaAlone /\ DeathInv
                /\ \A r \in Requests : NefInv(r) /\ ReadInv(r)
<1>1. Init => I
  <2>1. ASSUME Init PROVE DeathInv /\ \A r \in Requests : NefInv(r) /\ ReadInv(r)
    BY <2>1 DEF Init, NefInv, ReadInv, DeathInv, Live, Handling, Waiting, Scripted
  <2> QED BY <2>1, BaseInit, JavaAloneInit
<1>2. I /\ [Next]_vars => I'
  BY BaseStep, JavaAloneStep, NefInvStep, ReadInvStep, DeathInvStep
     DEF Undisturbed, Spaced
<1>3. I => DeathInv
  OBVIOUS
<1> QED BY <1>1, <1>2, <1>3, PTL DEF Spec

\* When requests do not disturb each other and the database does not fail,
\* a form that ends the process is of a kind FatalForm lists, whatever is
\* uploaded under the names the model has (empty, too long and beginning with
\* a dot among them), and whatever client, compiler and node do.
THEOREM OnlyFatalFormsKillHolds ==
  ASSUME Undisturbed, Faults \cap {"mongo", "insert"} = {}
  PROVE  Spec => []OnlyFatalFormsKill
<1>1. DeathInv => OnlyFatalFormsKill
  BY DEF DeathInv, OnlyFatalFormsKill
<1> QED BY <1>1, DeathInvariant, PTL

\* A form that is not for neo-go; if it is for neow3j, gives Filename a usable
\* value with the last of its program files; if it is for a C# compiler, has
\* no file called bin; and if it is for neo3-boa, no .nef file in it that does
\* not parse.
Harmless(u) ==
  /\ u.version # "neo-go"
  /\ u.version = "neow3j" =>
       \E i \in DOMAIN u.parts :
         /\ IsProgram(u.parts[i].name)
         /\ u.parts[i].name.base \in Nat \ LongBases
         /\ \A j \in DOMAIN u.parts : IsProgram(u.parts[j].name) => j <= i
  /\ Family(u.version) = "csharp" =>
       \A i \in DOMAIN u.parts : u.parts[i].name # BinName
  /\ Family(u.version) = "boa" =>
       \A i \in DOMAIN u.parts : u.parts[i].data # Garbage

\* If all forms are like that, the process stays: every .nef file that
\* execCommand goes to read is there and parses, and no file that the handler
\* has listed is gone when it is opened.
THEOREM ServerSurvives ==
  ASSUME Undisturbed, Faults \cap {"mongo", "insert"} = {},
         \A u \in Uploads : Harmless(u)
  PROVE  Spec => []ServerStaysUp
<1>1. ASSUME NEW r \in Requests, upload[r] \in Uploads PROVE ~FatalForm(r)
  <2>1. Harmless(upload[r])
    BY <1>1
  <2>2. DOMAIN upload[r].parts = 1 .. Len(upload[r].parts)
    BY <1>1, UploadsAssumption, LenProperties DEF Forms
  <2>3. ASSUME version(r) = "neow3j",
               \A i \in DOMAIN upload[r].parts :
                 /\ IsProgram(upload[r].parts[i].name)
                 /\ upload[r].parts[i].name.base \in Nat \ LongBases
                 => \E j \in DOMAIN upload[r].parts :
                      j > i /\ IsProgram(upload[r].parts[j].name)
        PROVE  FALSE
    <3>1. PICK i \in DOMAIN upload[r].parts :
            /\ IsProgram(upload[r].parts[i].name)
            /\ upload[r].parts[i].name.base \in Nat \ LongBases
            /\ \A j \in DOMAIN upload[r].parts :
                 IsProgram(upload[r].parts[j].name) => j <= i
      BY <2>1, <2>3 DEF Harmless, version
    <3>2. PICK j \in DOMAIN upload[r].parts :
            j > i /\ IsProgram(upload[r].parts[j].name)
      BY <2>3, <3>1
    <3>3. j <= i
      BY <3>1, <3>2
    <3> QED BY <2>2, <3>2, <3>3
  <2> QED BY <2>1, <2>3 DEF FatalForm, Harmless, version, family
<1>2. DeathInv => ServerStaysUp
  BY <1>1 DEF DeathInv, ServerStaysUp
<1> QED BY <1>2, DeathInvariant, PTL
-----------------------------------------------------------------------------
(* What lies in the upload folder of a plain form.                         *)

\* Forms whose files can be created and do not overwrite each other, with no
\* .nef file in them that parses, and in which Gradle's file is the one
\* javaExec.sh copies.
PlainForm(u) ==
  LET name(i) == u.parts[i].name IN
  /\ \A i, j \in DOMAIN u.parts : name(i) = name(j) => i = j
  /\ \A i \in DOMAIN u.parts : name(i) # BinName /\ name(i).base \notin LongBases
  /\ \A i \in DOMAIN u.parts : name(i).ext = ".nef" => u.parts[i].data = Garbage
  /\ Family(u.version) = "java" =>
       \A i \in DOMAIN u.parts : name(i).ext = ".gradle" => name(i) = GradleName

Plain == \A u \in Uploads : PlainForm(u)

\* The text files of r's folder are the parts received so far.
Saved(r, n) ==
  \/ \E i \in 1 .. got[r] : /\ upload[r].parts[i].name = n
                            /\ files(r).src[n] = upload[r].parts[i].data
  \/ /\ files(r).src[n] = None
     /\ \A i \in 1 .. got[r] : upload[r].parts[i].name # n

SavedInv(r) ==
  /\ pc[r] = "new" => got[r] = 0
  /\ pc[r] \in Live =>
       /\ got[r] <= Len(upload[r].parts)
       /\ pc[r] # "recv" => got[r] = Len(upload[r].parts)
       /\ \A n \in TextNames : Saved(r, n)

\* The parts with one of the given extensions, as far as compilers see them.
PartsTree(r, exts) ==
  { <<p.name, p.data>> : p \in
      { q \in { upload[r].parts[i] : i \in 1 .. Len(upload[r].parts) } :
          q.name.ext \in exts /\ Visible(q.name) } }

\* A part of a plain form.
LEMMA PlainPart ==
  ASSUME Base, Plain, NEW r \in Requests, pc[r] \in Live,
         NEW i \in 1 .. Len(upload[r].parts)
  PROVE  /\ \/ /\ upload[r].parts[i].name \in TextNames
               /\ upload[r].parts[i].data \in Content \ {None}
            \/ /\ upload[r].parts[i].name \in NefNames
               /\ upload[r].parts[i].data = Garbage
         /\ \A j \in 1 .. Len(upload[r].parts) :
              upload[r].parts[i].name = upload[r].parts[j].name => i = j
         /\ family(r) = "java" /\ upload[r].parts[i].name.ext = ".gradle" =>
              upload[r].parts[i].name = GradleName
         /\ CanCreate(folder[r], upload[r].parts[i].name)
<1>1. upload[r] \in Uploads /\ upload[r].parts \in Seq(Parts)
  BY LiveFiles
<1>2. DOMAIN upload[r].parts = 1 .. Len(upload[r].parts)
  BY <1>1, LenProperties
<1>3. /\ upload[r].parts[i] \in Parts
      /\ upload[r].parts[i].name.ext = ".nef" => upload[r].parts[i].data = Garbage
  BY <1>1, <1>2 DEF Plain, PlainForm
<1>4. \/ /\ upload[r].parts[i].name \in TextNames
         /\ upload[r].parts[i].data \in Content \ {None}
      \/ /\ upload[r].parts[i].name \in NefNames
         /\ upload[r].parts[i].data = Garbage
  BY <1>3, NoneAssumption DEF Parts, NefNames
<1>5. CanCreate(folder[r], upload[r].parts[i].name)
  BY <1>1, <1>2, LiveFiles DEF CanCreate, files, Plain, PlainForm
<1> QED BY <1>1, <1>2, <1>4, <1>5 DEF Plain, PlainForm, family, version

\* A plain form's parts do not overwrite each other, and nothing else writes
\* a text file.
LEMMA SavedInvOfStep ==
  ASSUME Base, Plain, NEW r \in Requests, SavedInv(r), Step(r)
  PROVE  SavedInv(r)'
<1>1. pc[r] \in Live
  BY StepIsLive
<1>2. pc'[r] # "new"
  BY <1>1, StepConfined
     DEF Base, FolderInv, FolderLifetime, GoesOn, Returns, Dies, Killed, Live, Handling,
         Waiting, Scripted
<1> SUFFICES ASSUME pc'[r] \in Live PROVE SavedInv(r)'
  BY <1>2 DEF SavedInv
<1>3. CASE SavePart(r)
  <2>1. PICK p : p = upload[r].parts[got[r] + 1]
    OBVIOUS
  <2>2. /\ pc[r] = "recv" /\ pc'[r] = "recv" /\ got'[r] = got[r] + 1
        /\ got[r] + 1 \in DOMAIN upload[r].parts /\ upload' = upload
        /\ \/ p.name \in NefNames /\ NefPut(files(r), files(r)', p.name.base, p.data)
           \/ /\ p.name \in TextNames
              /\ TextPut(files(r), files(r)', p.name,
                         Overwrite(files(r).src[p.name], p.data))
    BY <1>1, <1>3, <2>1, PartSaved, PlainPart, LiveFiles, LenProperties
  <2>3. got[r] \in Nat /\ got[r] + 1 \in 1 .. Len(upload[r].parts)
    BY <1>1, <2>2, LiveFiles, LenProperties DEF Base, Inv, TypeOK
  <2>4. \A i \in 1 .. got[r] : upload[r].parts[i].name # p.name
    BY <1>1, <2>1, <2>3, PlainPart
  <2>5. files(r).src \in [TextNames -> Content \cup {None}]
    BY <1>1, LiveFiles DEF Folders
  <2>6. p.name \notin TextNames => files(r)'.src = files(r).src
    BY <2>2 DEF NefPut
  <2>7. p.name \in TextNames => files(r).src[p.name] = None
    BY <1>1, <2>4 DEF SavedInv, Saved
  <2>8. p.name \in TextNames =>
          /\ files(r)'.src[p.name] = p.data
          /\ \A n \in TextNames \ {p.name} : files(r)'.src[n] = files(r).src[n]
    BY <2>2, <2>5, <2>7 DEF TextPut, Overwrite, TextNames, NefNames, TextExts
  <2>9. ASSUME NEW n \in TextNames PROVE Saved(r, n)'
    <3>1. CASE n = p.name
      <4>1. /\ got'[r] \in 1 .. got'[r] /\ upload'[r].parts[got'[r]].name = n
            /\ files(r)'.src[n] = upload'[r].parts[got'[r]].data
        BY <2>1, <2>2, <2>3, <2>8, <3>1
      <4> QED BY <4>1 DEF Saved
    <3>2. CASE n # p.name
      <4>1. files(r)'.src[n] = files(r).src[n] /\ Saved(r, n)
        BY <1>1, <2>6, <2>8, <3>2 DEF SavedInv
      <4>2. \A i \in 1 .. got'[r] : i \in 1 .. got[r] \/ i = got[r] + 1
        BY <2>2, <2>3
      <4>3. 1 .. got[r] \subseteq 1 .. got'[r]
        BY <2>2, <2>3
      <4> QED BY <2>1, <2>2, <3>2, <4>1, <4>2, <4>3 DEF Saved
    <3> QED BY <3>1, <3>2
  <2> QED BY <2>2, <2>3, <2>9 DEF SavedInv
<1>4. CASE ~SavePart(r)
  <2>1. UNCHANGED <<upload, got>> /\ files(r)'.src = files(r).src
    <3>1. CASE CompileSucceeds(r)
      <4>1. UNCHANGED <<upload, got, folder>>
        BY <3>1, OutputWritten
      <4>2. \E b, s : \/ UNCHANGED dirs
                      \/ BinPut(files(r), files(r)', b, s)
                      \/ NefPut(files(r), files(r)', b, s)
        BY <3>1, OutputWritten
      <4> QED BY <4>1, <4>2 DEF BinPut, NefPut, files
    <3>2. CASE Quiet(r)
      BY <3>2, QuietFiles DEF files
    <3> QED BY <1>4, <3>1, <3>2, GoingOnQuietly
  <2>2. got[r] = Len(upload[r].parts)
    <3>1. CASE pc[r] = "recv"
      <4>1. LastPart(r)
        <5>1. ~CompileSucceeds(r) /\ ~Starts(r) /\ ~JavaExec(r) /\ ~RunGradle(r)
          BY <3>1 DEF CompileSucceeds, Starts, StartNothing, StartCompiler,
             StartJavaExec, JavaExec, RunGradle, Move
        <5>2. ~CompileFails(r) /\ ~Looks(r) /\ ~ReadNef(r)
          BY <3>1 DEF CompileFails, Looks, LookForNef, PickJavaNef, StatJavaNef, ReadNef,
             Move, Answer
        <5>3. ~Later(r) /\ ~Records(r)
          BY <3>1 DEF Later, NodeAnswers, NodeBlank, Connect, FindVerified,
             InsertVerified, Records, ListSources, RecordSource, Move
        <5> QED BY <1>4, <5>1, <5>2, <5>3, GoingOn DEF Base, Inv
      <4> QED BY <4>1 DEF LastPart, AllReceived
    <3>2. CASE pc[r] # "recv"
      BY <1>1, <3>2 DEF SavedInv
    <3> QED BY <3>1, <3>2
  <2>3. got[r] \in Nat
    BY DEF Base, Inv, TypeOK
  <2>4. \A n \in TextNames : Saved(r, n)'
    BY <1>1, <2>1 DEF SavedInv, Saved
  <2> QED BY <1>2, <2>1, <2>2, <2>3, <2>4 DEF SavedInv
<1> QED BY <1>3, <1>4

\* SavedInv is kept by every step.
LEMMA SavedInvStep ==
  ASSUME Base, Plain, Spaced, [Next]_vars, \A r \in Requests : SavedInv(r)
  PROVE  \A r \in Requests : SavedInv(r)'
<1> SUFFICES ASSUME NEW r \in Requests PROVE SavedInv(r)'
  OBVIOUS
<1>1. CASE Kept(r)
  BY <1>1 DEF Kept, SavedInv, Saved, files, Live, Handling, Waiting, Scripted
<1>2. CASE \E u \in Uploads : Arrive(r, u)
  <2>1. PICK u \in Uploads : Arrive(r, u)
    BY <1>2
  <2>2. /\ pc[r] = "new" /\ pc'[r] = "recv" /\ got'[r] = 0 /\ upload'[r] = u
        /\ files(r)' = EmptyFolder
    BY <2>1, ArrivalFiles DEF SavedInv
  <2>3. Len(u.parts) \in Nat
    BY UploadsAssumption, LenProperties DEF Forms
  <2>4. \A n \in TextNames : files(r)'.src[n] = None
    BY <2>2 DEF EmptyFolder
  <2>5. \A n \in TextNames : Saved(r, n)'
    <3>1. 1 .. got'[r] = {}
      BY <2>2
    <3> QED BY <2>4, <3>1 DEF Saved
  <2>6. got'[r] <= Len(upload'[r].parts)
    BY <2>2, <2>3
  <2> QED BY <2>2, <2>5, <2>6 DEF SavedInv
<1>3. CASE ArriveNotMultipart(r)
  <2>1. pc'[r] = "done"
    BY <1>3 DEF ArriveNotMultipart, Answer, Move, Base, Inv, TypeOK
  <2> QED BY <2>1 DEF SavedInv, Live, Handling, Waiting, Scripted
<1> QED BY <1>1, <1>2, <1>3, OwnOrKept, SavedInvOfStep

\* Once the form has been received, the files of the folder are its parts.
LEMMA TreeIsParts ==
  ASSUME Base, Plain, NEW r \in Requests, SavedInv(r), pc[r] \in Live \ {"recv"},
         NEW exts, ".nef" \notin exts
  PROVE  TreeOf(folder[r], exts) = PartsTree(r, exts)
<1>1. files(r) # None /\ got[r] = Len(upload[r].parts)
  BY LiveFiles DEF SavedInv
<1>2. ASSUME NEW e \in TreeOf(folder[r], exts) PROVE e \in PartsTree(r, exts)
  <2>1. PICK n \in TextNames : n.ext \in exts /\ Visible(n) /\ files(r).src[n] # None
                               /\ e = <<n, files(r).src[n]>>
    BY <1>2 DEF TreeOf, files
  <2>2. PICK i \in 1 .. Len(upload[r].parts) :
          upload[r].parts[i].name = n /\ files(r).src[n] = upload[r].parts[i].data
    BY <1>1, <2>1 DEF SavedInv, Saved
  <2> QED BY <2>1, <2>2 DEF PartsTree
<1>3. ASSUME NEW e \in PartsTree(r, exts) PROVE e \in TreeOf(folder[r], exts)
  <2>1. PICK i \in 1 .. Len(upload[r].parts) :
          /\ upload[r].parts[i].name.ext \in exts /\ Visible(upload[r].parts[i].name)
          /\ e = <<upload[r].parts[i].name, upload[r].parts[i].data>>
    BY <1>3 DEF PartsTree
  <2>2. PICK n \in TextNames : n = upload[r].parts[i].name
    BY <2>1, PlainPart DEF NefNames
  <2>3. files(r).src[n] = upload[r].parts[i].data /\ upload[r].parts[i].data # None
    BY <1>1, <2>2, PlainPart DEF SavedInv, Saved, TextNames, NefNames, TextExts
  <2> QED BY <1>1, <2>1, <2>2, <2>3 DEF TreeOf, files
<1> QED BY <1>2, <1>3
-----------------------------------------------------------------------------
(* The Gradle project while its one user is at work.                       *)

\* What the compilers of the form make of the files of the form.
Results(r) == { Script(c, OwnTree(r)) : c \in compilers(r) }

\* Each command of javaExec.sh leaves what the next ones rely on, and once
\* build/neow3j/ has been emptied it holds results of this upload only.
GradleInv(r) ==
  pc[r] \in Live /\ family(r) = "java" =>
    /\ pc[r] = "jconfig" => buildGradle = None
    /\ pc[r] \in {"jwipe", "jmkdir", "jcopy", "gradle"} =>
         buildGradle = IF package(r) = "" THEN None ELSE files(r).src[GradleName]
    /\ pc[r] \in {"jmkdir", "jcopy"} => \A p \in Packages : javaSrc[p] = {}
    /\ pc[r] = "jcopy" /\ package(r) # "" => package(r) \in packages
    /\ pc[r] = "gradle" /\ package(r) # "" =>
         \A p \in Packages :
           javaSrc[p] = IF p = package(r) THEN PartsTree(r, {".java"}) ELSE {}
    /\ pc[r] \notin {"recv", "exec", "jclean"} =>
         \A b \in Bases : built[b] # None => built[b] \in Results(r)

\* What depends on the form alone.
LEMMA SameForm ==
  ASSUME NEW r, upload'[r] = upload[r]
  PROVE  /\ family(r)' = family(r) /\ version(r)' = version(r)
         /\ package(r)' = package(r) /\ compilers(r)' = compilers(r)
         /\ OwnTree(r)' = OwnTree(r) /\ Results(r)' = Results(r)
         /\ \A exts : PartsTree(r, exts)' = PartsTree(r, exts)
BY DEF family, version, package, compilers, OwnTree, Results, PartsTree

\* The program files, and build.gradle beside those of a neow3j upload.
LEMMA OwnTreeParts ==
  ASSUME Plain, NEW r, upload[r] \in Uploads
  PROVE  /\ family(r) # "java" => OwnTree(r) = PartsTree(r, SourceExts(family(r)))
         /\ family(r) = "java" => OwnTree(r) = PartsTree(r, {".java", ".gradle"})
<1>1. SourceExts("java") = {".java"}
  BY Zenon DEF SourceExts
<1>2. DOMAIN upload[r].parts = 1 .. Len(upload[r].parts)
  BY UploadsAssumption, LenProperties DEF Forms
<1>3. { i \in DOMAIN upload[r].parts : \A j \in DOMAIN upload[r].parts :
          upload[r].parts[j].name = upload[r].parts[i].name => j <= i }
      = 1 .. Len(upload[r].parts)
  BY <1>2 DEF Plain, PlainForm
<1>4. SourceExts(family(r)) \cup (IF family(r) = "java" THEN {".gradle"} ELSE {})
      = IF family(r) = "java" THEN {".java", ".gradle"} ELSE SourceExts(family(r))
  BY <1>1
<1>5. OwnTree(r) = PartsTree(r, IF family(r) = "java" THEN {".java", ".gradle"}
                                ELSE SourceExts(family(r)))
  BY <1>3, <1>4 DEF OwnTree, PartsTree
<1> QED BY <1>5

\* gradlew reads what has been uploaded.
LEMMA GradleReadsUpload ==
  ASSUME Base, Plain, NEW r \in Requests, SavedInv(r), GradleInv(r),
         pc[r] = "gradle", GradleCanRun
  PROVE  GradleTree = OwnTree(r)
<1>1. pc[r] \in Live /\ family(r) = "java"
  BY DEF Live, Waiting, Scripted, Base, RouteInv
<1>2. buildGradle # None /\ package(r) # "" /\ buildGradle = files(r).src[GradleName]
  BY <1>1 DEF GradleInv, GradleCanRun
<1>3. package(r) \in Packages
  <2>1. upload[r].package \in Packages \cup {""}
    BY <1>1, LiveFiles, UploadsAssumption DEF Forms
  <2> QED BY <1>2, <2>1 DEF package
<1>4. UNION { javaSrc[p] : p \in Packages } = PartsTree(r, {".java"})
  BY <1>1, <1>2, <1>3 DEF GradleInv
<1>5. GradleName \in TextNames
  BY BasesAssumption DEF GradleName, TextNames, TextExts
<1>6. got[r] = Len(upload[r].parts) /\ Saved(r, GradleName)
  BY <1>1, <1>5 DEF SavedInv
<1>7. PICK g \in 1 .. Len(upload[r].parts) :
        upload[r].parts[g].name = GradleName /\ upload[r].parts[g].data = buildGradle
  BY <1>2, <1>6 DEF Saved
<1>8. PartsTree(r, {".gradle"}) = { <<GradleName, buildGradle>> }
  <2>1. ASSUME NEW e \in PartsTree(r, {".gradle"}) PROVE e = <<GradleName, buildGradle>>
    <3>1. PICK i \in 1 .. Len(upload[r].parts) :
            /\ upload[r].parts[i].name.ext = ".gradle"
            /\ e = <<upload[r].parts[i].name, upload[r].parts[i].data>>
      BY <2>1 DEF PartsTree
    <3>2. upload[r].parts[i].name = GradleName
      BY <1>1, <3>1, PlainPart
    <3>3. i = g
      BY <1>1, <1>7, <3>2, PlainPart
    <3> QED BY <1>7, <3>1, <3>3
  <2>2. <<GradleName, buildGradle>> \in PartsTree(r, {".gradle"})
    BY <1>7 DEF PartsTree, GradleName, Visible
  <2> QED BY <2>1, <2>2
<1>9. OwnTree(r) = PartsTree(r, {".java"}) \cup PartsTree(r, {".gradle"})
  <2>1. OwnTree(r) = PartsTree(r, {".java", ".gradle"})
    BY <1>1, LiveFiles, OwnTreeParts
  <2> QED BY <2>1 DEF PartsTree
<1>10. { <<GradleName, c>> : c \in {buildGradle} \ {None} } = { <<GradleName, buildGradle>> }
  BY <1>2
<1> QED BY <1>4, <1>8, <1>9, <1>10 DEF GradleTree

\* javaExec.sh
LEMMA GradleInvOfJavaExec ==
  ASSUME Base, Plain, NEW r \in Requests, SavedInv(r), GradleInv(r), JavaExec(r)
  PROVE  GradleInv(r)'
<1>1. /\ pc[r] \in Scripted /\ pc[r] \in Live /\ family(r) = "java"
      /\ UNCHANGED <<dirs, upload, folder>>
  BY DEF JavaExec, Move, workdirVars, localVars, formVars, Scripted, Live, Waiting,
     Base, RouteInv
<1>2. files(r)' = files(r) /\ package(r)' = package(r) /\ Results(r)' = Results(r)
      /\ PartsTree(r, {".java"})' = PartsTree(r, {".java"})
  BY <1>1, SameForm DEF files
<1>3. files(r) # None /\ package(r) \in Packages \cup {""}
  <2>1. upload[r].package \in Packages \cup {""}
    BY <1>1, LiveFiles, UploadsAssumption DEF Forms
  <2> QED BY <1>1, <2>1, LiveFiles DEF package
<1> USE <1>1, <1>2 DEF GradleInv, Move, Base, Inv, TypeOK, JavaTypeOK
<1>4. CASE Move(r, "jclean", "jgradle") /\ CleanBuilt
  BY <1>4 DEF CleanBuilt
<1>5. CASE Move(r, "jgradle", "jconfig") /\ RemoveGradle
  BY <1>5 DEF RemoveGradle
<1>6. CASE Move(r, "jconfig", "jwipe") /\ CopyGradle(package(r), folder[r])
  <2>1. buildGradle' = IF package(r) = "" THEN None ELSE files(r).src[GradleName]
    BY <1>3, <1>6 DEF CopyGradle, files
  <2> QED BY <1>6, <2>1 DEF CopyGradle
<1>7. CASE Move(r, "jwipe", "jmkdir") /\ WipeSources
  BY <1>7 DEF WipeSources
<1>8. CASE Move(r, "jmkdir", "jcopy") /\ MakePackage(package(r))
  BY <1>8 DEF MakePackage
<1>9. CASE Move(r, "jcopy", "gradle") /\ CopySources(package(r), folder[r])
  <2>1. package(r) # "" =>
          \A p \in Packages :
            javaSrc'[p] = IF p = package(r) THEN PartsTree(r, {".java"}) ELSE {}
    <3> SUFFICES ASSUME package(r) # "", NEW p \in Packages
                 PROVE  javaSrc'[p] = IF p = package(r) THEN PartsTree(r, {".java"})
                                      ELSE {}
      OBVIOUS
    <3>1. TreeOf(folder[r], {".java"}) = PartsTree(r, {".java"})
      BY <1>9, TreeIsParts
    <3>2. /\ package(r) \in packages /\ package(r) \in Packages
          /\ \A x \in Packages : javaSrc[x] = {}
      BY <1>3, <1>9
    <3>3. javaSrc' = [javaSrc EXCEPT ![package(r)] =
                        { e \in javaSrc[package(r)] :
                            \A x \in PartsTree(r, {".java"}) : x[1] # e[1] }
                        \cup PartsTree(r, {".java"})]
      BY <1>9, <3>1, <3>2 DEF CopySources, CopiedFrom
    <3> QED BY <3>2, <3>3
  <2>2. buildGradle' = buildGradle /\ built' = built
    BY <1>9 DEF CopySources
  <2> QED BY <1>9, <2>1, <2>2
<1> QED BY <1>4, <1>6, <1>7, <1>8, <1>9, <1>5 DEF JavaExec

\* The other steps leave the project alone.
LEMMA GradleInvOfStep ==
  ASSUME Base, Plain, NEW r \in Requests, SavedInv(r), GradleInv(r), Step(r),
         pc[r] = "compile" => seen[r] = OwnTree(r)
  PROVE  GradleInv(r)'
<1>1. pc[r] \in Live /\ upload'[r] = upload[r]
  BY StepIsLive, StepConfined DEF Base, FolderInv, FolderLifetime, Confined
<1>2. family(r)' = family(r) /\ Results(r)' = Results(r)
  BY <1>1, SameForm
<1> SUFFICES ASSUME pc'[r] \in Live, family(r) = "java" PROVE GradleInv(r)'
  BY <1>2 DEF GradleInv
<1> DEFINE early == {"recv", "exec", "jclean"}
           inside == {"jgradle", "jconfig", "jwipe", "jmkdir", "jcopy", "gradle"}
<1>3. ASSUME pc'[r] \notin inside,
             pc'[r] \notin early =>
               \A b \in Bases : built'[b] # None => built'[b] \in Results(r)
      PROVE  GradleInv(r)'
  BY <1>2, <1>3 DEF GradleInv
<1>4. CASE JavaExec(r)
  BY <1>4, GradleInvOfJavaExec
<1>5. CASE CompileSucceeds(r)
  <2>1. PICK c \in compilers(r), b \in Bases, s \in Scripts :
          /\ s = Script(c, seen[r]) /\ built' = [built EXCEPT ![b] = s]
          /\ pc[r] = "compile" /\ pc'[r] = "look"
    BY <1>5, OutputWritten
  <2>2. s \in Results(r)
    BY <2>1 DEF Results
  <2>3. \A x \in Bases : built[x] # None => built[x] \in Results(r)
    BY <1>1, <2>1 DEF GradleInv
  <2>4. \A x \in Bases : built'[x] # None => built'[x] \in Results(r)
    BY <2>1, <2>2, <2>3 DEF Base, Inv, TypeOK, JavaTypeOK
  <2> QED BY <1>3, <2>1, <2>4
<1>6. CASE ~JavaExec(r) /\ ~CompileSucceeds(r)
  <2> USE DEF Move, Answer, worldVars, javaVars, Base, Inv, TypeOK
  <2>1. compilers(r) # {}
    <3>1. version(r) = "neow3j"
      BY FamilyOfVersion DEF family
    <3>2. <<version(r), "">> \in compilers(r)
      BY <3>1 DEF compilers, Runs
    <3> QED BY <3>2
  <2>2. built' = built /\ pc'[r] \notin inside /\ (pc[r] \in early => pc'[r] \in early)
    <3>1. CASE SavePart(r) \/ LastPart(r)
      BY <3>1 DEF SavePart, LastPart
    <3>2. CASE Starts(r)
      BY <2>1, <3>2 DEF Starts, StartNothing, StartCompiler, StartJavaExec
    <3>3. CASE RunGradle(r) \/ CompileFails(r)
      BY <3>3 DEF RunGradle, CompileFails
    <3>4. CASE Looks(r)
      BY <3>4 DEF Looks, LookForNef, PickJavaNef, StatJavaNef
    <3>5. CASE ReadNef(r) \/ Later(r) \/ Records(r)
      BY <3>5 DEF ReadNef, Later, NodeAnswers, NodeBlank, Connect, FindVerified,
         InsertVerified, Records, ListSources, RecordSource
    <3> QED BY <1>6, <3>1, <3>2, <3>3, <3>4, <3>5, GoingOn
  <2>3. pc[r] \notin early => \A b \in Bases : built[b] # None => built[b] \in Results(r)
    BY <1>1 DEF GradleInv
  <2> QED BY <1>3, <2>2, <2>3
<1> QED BY <1>4, <1>5, <1>6

-----------------------------------------------------------------------------
(* What is compiled and read.                                              *)

\* Every .nef file of r's folder that parses is a result of its upload.
OutInv(r) ==
  pc[r] \in Live =>
    /\ \A b \in Bases : files(r).nef[b] \in Results(r) \cup {Garbage, None}
    /\ \A b \in Bases : files(r).bin[b] # None => files(r).bin[b] \in Results(r)
    /\ pc[r] = "compile" => seen[r] = OwnTree(r)

\* Compilers read the form's files, and write what they make of them.
LEMMA OutInvOfStep ==
  ASSUME Base, Plain, NEW r \in Requests, SavedInv(r), GradleInv(r), OutInv(r), Step(r)
  PROVE  OutInv(r)'
<1>1. pc[r] \in Live /\ upload'[r] = upload[r]
  BY StepIsLive, StepConfined DEF Base, FolderInv, FolderLifetime, Confined
<1>2. OwnTree(r)' = OwnTree(r) /\ Results(r)' = Results(r)
  BY <1>1, SameForm
<1>3. files(r).nef \in NefFiles /\ files(r).bin \in NefFiles
  BY <1>1, LiveFiles DEF Folders
<1> SUFFICES ASSUME pc'[r] \in Live PROVE OutInv(r)'
  BY DEF OutInv
<1>4. CASE SavePart(r)
  <2>1. PICK p : p = upload[r].parts[got[r] + 1]
    OBVIOUS
  <2>2. /\ pc'[r] = "recv" /\ got[r] + 1 \in 1 .. Len(upload[r].parts)
        /\ \/ files(r)' = files(r)
           \/ p.name \in NefNames /\ NefPut(files(r), files(r)', p.name.base, p.data)
           \/ p.name \in TextNames /\ \E x : TextPut(files(r), files(r)', p.name, x)
    BY <1>1, <1>4, <2>1, PartSaved, LiveFiles, LenProperties
  <2>3. p.name \in NefNames => p.data = Garbage
    BY <1>1, <2>1, <2>2, PlainPart DEF TextNames, NefNames, TextExts
  <2>4. /\ files(r)'.bin = files(r).bin
        /\ \A b \in Bases : files(r)'.nef[b] \in {files(r).nef[b], Garbage}
    BY <1>3, <2>2, <2>3 DEF TextPut, NefPut, NefFiles
  <2> QED BY <1>1, <1>2, <2>2, <2>4 DEF OutInv
<1>5. CASE CompileSucceeds(r)
  <2>1. PICK c \in compilers(r), b \in Bases, s \in Scripts :
          /\ s = Script(c, seen[r])
          /\ pc[r] = "compile" /\ pc'[r] = "look" /\ UNCHANGED folder
          /\ \/ UNCHANGED dirs
             \/ BinPut(files(r), files(r)', b, s)
             \/ NefPut(files(r), files(r)', b, s)
    BY <1>5, OutputWritten
  <2>2. s \in Results(r)
    BY <1>1, <2>1 DEF Results, OutInv
  <2>3. CASE UNCHANGED dirs
    BY <1>1, <1>2, <2>1, <2>3 DEF OutInv, files
  <2>4. CASE BinPut(files(r), files(r)', b, s)
    BY <1>1, <1>2, <1>3, <2>1, <2>2, <2>4 DEF OutInv, NefFiles, BinPut
  <2>5. CASE NefPut(files(r), files(r)', b, s)
    BY <1>1, <1>2, <1>3, <2>1, <2>2, <2>5 DEF OutInv, NefFiles, NefPut
  <2> QED BY <2>1, <2>3, <2>4, <2>5
<1>6. CASE Quiet(r)
  <2>1. files(r)' = files(r)
    BY <1>6, QuietFiles DEF files
  <2>2. ASSUME pc'[r] = "compile" PROVE seen'[r] = OwnTree(r)
    <3> USE DEF Move, Answer, Base, Inv, TypeOK
    <3>1. StartCompiler(r) \/ RunGradle(r)
      <4>1. ~LastPart(r) /\ ~StartNothing(r) /\ ~StartJavaExec(r) /\ ~JavaExec(r)
        BY <2>2 DEF LastPart, StartNothing, StartJavaExec, JavaExec
      <4>2. ~CompileFails(r) /\ ~Looks(r) /\ ~ReadNef(r)
        BY <2>2 DEF CompileFails, Looks, LookForNef, PickJavaNef, StatJavaNef, ReadNef
      <4>3. ~Later(r) /\ ~Records(r)
        BY <2>2 DEF Later, NodeAnswers, NodeBlank, Connect, FindVerified,
           InsertVerified, Records, ListSources, RecordSource
      <4> QED BY <1>6, <4>1, <4>2, <4>3 DEF Quiet, Starts
    <3>2. CASE StartCompiler(r)
      <4>1. /\ seen'[r] = TreeOf(folder[r], SourceExts(family(r)))
            /\ family(r) # "java" /\ pc[r] = "exec"
        BY <3>2 DEF StartCompiler
      <4>2. ".nef" \notin SourceExts(family(r))
        BY ProgramsAreRecorded DEF family
      <4> QED BY <1>1, <4>1, <4>2, TreeIsParts, LiveFiles, OwnTreeParts
    <3>3. CASE RunGradle(r)
      <4>1. pc[r] = "gradle" /\ GradleCanRun /\ seen'[r] = GradleTree
        BY <2>2, <3>3 DEF RunGradle
      <4> QED BY <4>1, GradleReadsUpload
    <3> QED BY <3>1, <3>2, <3>3
  <2> QED BY <1>1, <1>2, <2>1, <2>2 DEF OutInv
<1> QED BY <1>4, <1>5, <1>6, GoingOnQuietly

\* What execCommand has returned is a result of the upload.
ResultInv(r) ==
  /\ pc[r] = "new" => nef[r] = None
  /\ nef[r] # None => upload[r] \in Uploads /\ nef[r] \in Results(r)

\* Only one step reads a script.
LEMMA OnlyReadSetsNef ==
  ASSUME NEW r \in Requests, Step(r), ~ReadNef(r)
  PROVE  nef' = nef
<1> USE DEF worldVars, localVars, buildVars
<1>1. CASE Receive(r) \/ Build(r)
  BY <1>1 DEF Receive, SavePart, LastPart, ClientGone, Build, JavaExec, RunGradle,
     CompileSucceeds, CompileFails
<1>2. CASE AskNode(r)
  BY <1>2 DEF AskNode, NodeAnswers, NodeBlank, NodeFails
<1>3. CASE \/ UnknownVersion(r) \/ StartFails(r) \/ StartNothing(r)
           \/ StartCompiler(r) \/ StartJavaExec(r)
  BY <1>3 DEF UnknownVersion, StartFails, StartNothing, StartCompiler, StartJavaExec
<1>4. CASE \/ LookForNef(r) \/ PickJavaNef(r) \/ StatJavaNef(r) \/ ReadNefFatal(r)
  BY <1>4 DEF LookForNef, PickJavaNef, StatJavaNef, ReadNefFatal
<1>5. CASE \/ Mismatch(r) \/ Connect(r) \/ ConnectFatal(r) \/ FindVerified(r)
           \/ AlreadyVerified(r)
  BY <1>5 DEF Mismatch, Connect, ConnectFatal, FindVerified, AlreadyVerified
<1>6. CASE \/ InsertVerified(r) \/ InsertVerifiedFatal(r) \/ ListSources(r)
           \/ Finish(r)
  BY <1>6 DEF InsertVerified, InsertVerifiedFatal, ListSources, Finish
<1>7. CASE \E n \in TextNames \cup NefNames :
             RecordSource(r, n) \/ RecordSourceFatal(r, n)
  BY <1>7 DEF RecordSource, RecordSourceFatal
<1> QED BY <1>1, <1>2, <1>3, <1>4, <1>5, <1>6, <1>7 DEF Step, Handle, AskDatabase

\* Each family reads where only its own compiler has written.
LEMMA ResultInvOfStep ==
  ASSUME Base, NEW r \in Requests, GradleInv(r), OutInv(r), ResultInv(r), Step(r)
  PROVE  ResultInv(r)'
<1>1. pc[r] \in Live /\ upload'[r] = upload[r] /\ upload[r] \in Uploads
  BY StepIsLive, StepConfined, LiveFiles DEF Base, FolderInv, FolderLifetime, Confined
<1>2. Results(r)' = Results(r)
  BY <1>1, SameForm
<1>3. pc'[r] # "new"
  BY <1>1, StepConfined
     DEF Base, FolderInv, FolderLifetime, GoesOn, Returns, Dies, Killed, Live, Handling,
         Waiting, Scripted
<1>4. CASE nef'[r] = nef[r]
  BY <1>1, <1>2, <1>3, <1>4 DEF ResultInv
<1>5. CASE ReadNef(r)
  <2>1. pc[r] = "read" /\ nef'[r] \in ReadResult(r)
    BY <1>5 DEF ReadNef, Move, Base, Inv, TypeOK
  <2>2. NefAt(r, "top") = files(r).nef /\ NefAt(r, "bin") = files(r).bin
    BY <1>1, LiveFiles DEF NefAt, files
  <2>3. CASE family(r) = "boa"
    <3>1. nef'[r] \in ReadAtTop(r)
      BY <2>1, <2>3, ReadResultOf
    <3> QED BY <1>1, <1>2, <1>3, <2>2, <3>1 DEF ReadAtTop, FirstNef, OutInv, ResultInv
  <2>4. CASE family(r) = "java"
    <3>1. nef'[r] \in { built[b] : b \in {pick[r]} \ {None} } \ {None}
      BY <2>1, <2>4, ReadResultOf
    <3>2. pick[r] \in Bases \cup {None}
      BY DEF Base, Inv, TypeOK
    <3>3. \A b \in Bases : built[b] # None => built[b] \in Results(r)
      BY <1>1, <2>1, <2>4 DEF GradleInv
    <3> QED BY <1>1, <1>2, <1>3, <3>1, <3>2, <3>3 DEF ResultInv
  <2>5. CASE family(r) \notin {"boa", "java"}
    <3>1. nef'[r] \in { NefAt(r, "bin")[b] : b \in FirstNef(NefAt(r, "bin")) }
      BY <2>1, <2>5, ReadResultOf
    <3> QED BY <1>1, <1>2, <1>3, <2>2, <3>1 DEF FirstNef, OutInv, ResultInv
  <2> QED BY <2>3, <2>4, <2>5
<1> QED BY <1>4, <1>5, OnlyReadSetsNef

-----------------------------------------------------------------------------
(* Theorems about what is compiled.                                        *)

CompiledInv(r) == SavedInv(r) /\ GradleInv(r) /\ OutInv(r) /\ ResultInv(r)

\* CompiledInv holds at the start.
LEMMA CompiledInvInit ==
  ASSUME Init PROVE \A r \in Requests : CompiledInv(r)
BY DEF Init, CompiledInv, SavedInv, GradleInv, OutInv, ResultInv, Live, Handling,
       Waiting, Scripted

\* CompiledInv is kept by the request's own steps.
LEMMA CompiledInvOfStep ==
  ASSUME Base, Plain, NEW r \in Requests, CompiledInv(r), Step(r)
  PROVE  CompiledInv(r)'
<1>1. pc[r] = "compile" => seen[r] = OwnTree(r)
  BY DEF CompiledInv, OutInv, Live, Waiting
<1> QED BY <1>1, SavedInvOfStep, GradleInvOfStep, OutInvOfStep, ResultInvOfStep
        DEF CompiledInv

\* CompiledInv is kept by the steps of others.
LEMMA CompiledInvKept ==
  ASSUME NEW r \in Requests, CompiledInv(r), Kept(r), GradleKept(r)
  PROVE  CompiledInv(r)'
<1>1. /\ family(r)' = family(r) /\ package(r)' = package(r)
      /\ OwnTree(r)' = OwnTree(r) /\ Results(r)' = Results(r)
      /\ PartsTree(r, {".java"})' = PartsTree(r, {".java"})
  BY SameForm DEF Kept
<1>2. pc'[r] \in Live =>
        pc'[r] = pc[r] /\ files(r)' = files(r) /\ (family(r) = "java" => UNCHANGED javaVars)
  BY DEF Kept, GradleKept, files, Live, Handling, Waiting, Scripted
<1>3. SavedInv(r)'
  BY <1>2 DEF Kept, CompiledInv, SavedInv, Saved
<1>4. GradleInv(r)'
  <2> SUFFICES ASSUME pc'[r] \in Live, family(r)' = "java" PROVE GradleInv(r)'
    BY DEF GradleInv
  <2>1. /\ pc'[r] = pc[r] /\ family(r) = "java" /\ files(r)' = files(r)
        /\ UNCHANGED javaVars
    BY <1>1, <1>2 DEF Live
  <2> QED BY <1>1, <2>1 DEF CompiledInv, GradleInv, javaVars
<1>5. OutInv(r)'
  BY <1>1, <1>2 DEF Kept, CompiledInv, OutInv
<1>6. ResultInv(r)'
  BY <1>1 DEF Kept, CompiledInv, ResultInv
<1> QED BY <1>3, <1>4, <1>5, <1>6 DEF CompiledInv

\* CompiledInv is kept by every step.
LEMMA CompiledInvStep ==
  ASSUME Base, JavaAlone, Spaced, Plain, [Next]_vars,
         \A r \in Requests : CompiledInv(r)
  PROVE  \A r \in Requests : CompiledInv(r)'
<1> SUFFICES ASSUME NEW r \in Requests PROVE CompiledInv(r)'
  OBVIOUS
<1>1. SavedInv(r)'
  BY SavedInvStep DEF CompiledInv
<1>2. CASE \E u \in Uploads : Arrive(r, u)
  <2>1. /\ pc[r] = "new" /\ pc'[r] = "recv" /\ nef'[r] = nef[r]
        /\ files(r)' = EmptyFolder
    BY <1>2, ArrivalFiles
  <2>2. \A b \in Bases : files(r)'.nef[b] = None /\ files(r)'.bin[b] = None
    BY <2>1 DEF EmptyFolder, NoNef
  <2>3. nef'[r] = None
    BY <2>1 DEF CompiledInv, ResultInv
  <2>4. GradleInv(r)'
    BY <2>1 DEF GradleInv
  <2>5. OutInv(r)'
    BY <2>1, <2>2 DEF OutInv
  <2>6. ResultInv(r)'
    BY <2>1, <2>3 DEF ResultInv
  <2> QED BY <1>1, <2>4, <2>5, <2>6 DEF CompiledInv
<1>3. CASE ArriveNotMultipart(r)
  <2>1. pc[r] = "new" /\ pc'[r] = "done" /\ nef'[r] = nef[r]
    BY <1>3 DEF ArriveNotMultipart, Answer, Move, buildVars, Base, Inv, TypeOK
  <2>2. GradleInv(r)' /\ OutInv(r)' /\ ResultInv(r)'
    BY <2>1 DEF GradleInv, OutInv, ResultInv, CompiledInv, Live, Handling, Waiting,
       Scripted
  <2> QED BY <1>1, <2>2 DEF CompiledInv
<1> QED BY <1>2, <1>3, CompiledInvKept, CompiledInvOfStep, OwnOrKept, OwnGradle

\* All of it is inductive.
CompilationInv == Base /\ JavaAlone /\ \A r \in Requests : CompiledInv(r)

\* CompilationInv is inductive.
LEMMA CompilationInvariant ==
  ASSUME Undisturbed, Plain
  PROVE  Spec => []CompilationInv
<1>1. Init => CompilationInv
  BY BaseInit, JavaAloneInit, CompiledInvInit DEF CompilationInv
<1>2. CompilationInv /\ [Next]_vars => CompilationInv'
  BY BaseStep, JavaAloneStep, CompiledInvStep DEF Undisturbed, Spaced, CompilationInv
<1> QED BY <1>1, <1>2, PTL DEF Spec

\* A compiled script tells who made it and from what.
LEMMA ScriptFields ==
  ASSUME NEW s, NEW c, NEW t, s = Script(c, t)
  PROVE  s.by = c /\ s.of = t
BY DEF Script

\* Requests that do not disturb each other, with plain forms, get their own
\* files compiled, all of them and no others, by the compiler the Version
\* field names, but for neo3-boa 0.7.0: whatever fails, and whatever earlier
\* builds, cut-off uploads and killed compilations have left behind.
THEOREM OwnUploadIsCompiled ==
  ASSUME Undisturbed, Plain
  PROVE  Spec => []CompiledAsRouted
<1>1. ASSUME NEW r \in Requests, ResultInv(r), nef[r] # None
      PROVE  nef[r].by[1] = RoutedTo(version(r)) /\ nef[r].of = OwnTree(r)
  <2>1. PICK c \in compilers(r) : nef[r] = Script(c, OwnTree(r))
    BY <1>1 DEF ResultInv, Results
  <2>2. nef[r].by = c /\ nef[r].of = OwnTree(r)
    BY <2>1, ScriptFields, Zenon
  <2>3. Routed(version(r), c[1])
    BY RunsAsRouted DEF compilers
  <2>4. c[1] = RoutedTo(version(r))
    BY <2>3, Zenon DEF Routed, RoutedTo
  <2> QED BY <2>2, <2>4
<1>2. CompilationInv => CompiledAsRouted
  BY <1>1 DEF CompilationInv, CompiledInv, CompiledAsRouted
<1> QED BY <1>2, CompilationInvariant, PTL

\* What execCommand returns is what its comment says, when besides no form is
\* for neo3-boa 0.7.0.
THEOREM NamedCompilerCompiles ==
  ASSUME Undisturbed, Plain, \A u \in Uploads : u.version # "neo3-boa 0.7.0"
  PROVE  Spec => []CompiledFromOwnUpload
<1>1. ASSUME NEW r \in Requests, ResultInv(r), nef[r] # None
      PROVE  nef[r].by[1] = version(r) /\ nef[r].of = OwnTree(r)
  <2>1. PICK c \in compilers(r) : nef[r] = Script(c, OwnTree(r))
    BY <1>1 DEF ResultInv, Results
  <2>2. nef[r].by = c /\ nef[r].of = OwnTree(r)
    BY <2>1, ScriptFields, Zenon
  <2>3. Routed(version(r), c[1])
    BY RunsAsRouted DEF compilers
  <2>4. version(r) # "neo3-boa 0.7.0"
    <3>1. upload[r] \in Uploads
      BY <1>1 DEF ResultInv
    <3> QED BY <3>1, Zenon DEF version
  <2>5. c[1] = version(r)
    BY <2>3, <2>4, Zenon DEF Routed
  <2> QED BY <2>2, <2>5
<1>2. CompilationInv => CompiledFromOwnUpload
  BY <1>1 DEF CompilationInv, CompiledInv, CompiledFromOwnUpload
<1> QED BY <1>2, CompilationInvariant, PTL
=============================================================================
