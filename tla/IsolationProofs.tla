-------------------------- MODULE IsolationProofs --------------------------
(***************************************************************************)
(* Proofs about requests that are apart in time: no two of them arrive in  *)
(* the same second (Arrivals is "spaced"), or even overlap ("serial").     *)
(***************************************************************************)
EXTENDS VerifierProofs

Spaced == Arrivals \in {"spaced", "serial"}

-----------------------------------------------------------------------------
(* The inductive invariants.                                               *)

\* Requests that have arrived have folders of their own.
OwnFolders ==
  \A q, r \in Requests :
    pc[q] # "new" /\ pc[r] # "new" /\ folder[q] = folder[r] => q = r

FolderInv == OwnFolders /\ FolderLifetime

\* Requests that do not overlap: one at a time is in progress, and what it
\* has not found before its insert is still not there.
AloneInv ==
  /\ \A q, r \in Requests : pc[q] \in Live /\ pc[r] \in Live => q = r
  /\ \A r \in Requests : pc[r] = "ins" => ~IsVerified(hash(r), counter(r))

-----------------------------------------------------------------------------
(* What one step of a handler does to folders and program points.          *)

\* The handler of r takes a step.
Step(r) ==
  Receive(r) \/ Build(r) \/ AskNode(r) \/ AskDatabase(r) \/ Handle(r)

\* The rest of the handlers stay where they are.
OnlyOne(r) == up' = up /\ \A q \in Requests \ {r} : pc'[q] = pc[q]

\* r goes on, to another point or into a panic, and keeps its folder.
GoesOn(r) ==
  /\ OnlyOne(r)
  /\ pc'[r] \in Live \cup {"panic"}
  /\ resp' = resp /\ kept' = kept
  /\ dirs[folder[r]] # None => dirs'[folder[r]] # None

\* r is answered and its folder removed or renamed, or left for a reason.
Returns(r) ==
  /\ OnlyOne(r)
  /\ pc'[r] = "done"
  /\ kept \subseteq kept'
  /\ \/ dirs'[folder[r]] = None
     \/ /\ dirs' = dirs
        /\ \/ resp'[r] \in {2, 8}
           \/ resp'[r] = 5 /\ hash(r) \in kept

\* r ends the process.
Dies ==
  /\ up' = FALSE /\ pc' = Killed
  /\ resp' = resp /\ dirs' = dirs /\ kept' = kept

\* A step from point to point moves one request only.
LEMMA MoveIsOne ==
  ASSUME TypeOK, NEW r \in Requests, NEW from, NEW to, Move(r, from, to), up' = up
  PROVE  OnlyOne(r) /\ pc[r] = from /\ pc'[r] = to
BY DEF Move, OnlyOne, TypeOK

\* So does an answer, which ends the request.
LEMMA AnswerIsOne ==
  ASSUME TypeOK, NEW r \in Requests, NEW from, NEW code, Answer(r, from, code), up' = up
  PROVE  /\ OnlyOne(r) /\ pc[r] = from /\ pc'[r] = "done" /\ resp'[r] = code
         /\ \A q \in Requests \ {r} : resp'[q] = resp[q]
BY DEF Answer, Move, OnlyOne, TypeOK

\* A file that is written into a folder leaves it a folder.
LEMMA FolderStays ==
  ASSUME WorkdirTypeOK, NEW f \in Seconds, dirs[f] # None,
         \/ \E p \in Parts : SaveFile(f, p)
         \/ \E fam : \E b \in Bases, s \in Scripts : WriteNef(f, fam, b, s)
  PROVE  dirs'[f] # None
<1>1. dirs[f] \in Folders
  BY DEF WorkdirTypeOK
<1>2. ASSUME NEW p \in Parts, SaveFile(f, p), CanCreate(f, p.name)
      PROVE  dirs'[f] # None
  <2>1. CASE p.name.ext = ".nef"
    <3>1. dirs'[f] = PutNef(dirs[f], p.name.base, p.data)
      BY <1>2, <2>1 DEF SaveFile, WorkdirTypeOK
    <3>2. p.name.base \in Bases /\ p.data \in Scripts \cup {Garbage}
      BY <2>1 DEF Parts, NefNames, TextNames, TextExts
    <3> QED BY <1>1, <3>1, <3>2, PutType, NoneAssumption
  <2>2. CASE p.name.ext # ".nef"
    <3> DEFINE new == Overwrite(dirs[f].src[p.name], p.data)
    <3>1. dirs'[f] = PutText(dirs[f], p.name, new)
      BY <1>2, <2>2 DEF SaveFile, WorkdirTypeOK
    <3>2. p.name \in TextNames /\ p.data \in Content
      BY <2>2 DEF Parts, NefNames, TextNames, TextExts
    <3>3. new \in Content
      BY <1>1, <3>2, OverwriteIsContent DEF Folders
    <3> QED BY <1>1, <3>1, <3>2, <3>3, PutType, NoneAssumption
  <2> QED BY <2>1, <2>2
<1>3. ASSUME NEW fam, NEW b \in Bases, NEW s \in Scripts, WriteNef(f, fam, b, s)
      PROVE  dirs'[f] # None
  <2>1. \/ dirs'[f] = PutNef(dirs[f], b, s) \/ dirs'[f] = PutBin(dirs[f], b, s)
        \/ dirs' = dirs
    BY <1>3 DEF WriteNef, WorkdirTypeOK
  <2> QED BY <1>1, <2>1, PutType, NoneAssumption
<1>4. ASSUME NEW p \in Parts, SaveFile(f, p), ~CanCreate(f, p.name)
      PROVE  dirs' = dirs
  BY <1>4 DEF SaveFile
<1> QED BY <1>2, <1>3, <1>4

\* A step touches no folder but its request's, and no other's response.
Confined(r) ==
  /\ UNCHANGED <<now, upload, folder>>
  /\ \A f \in Seconds \ {folder[r]} : dirs'[f] = dirs[f]
  /\ \A q \in Requests \ {r} : resp'[q] = resp[q]

\* Receiving the form touches the request's own folder only.
LEMMA ReceiveConfined ==
  ASSUME Inv, NEW r \in Requests, Receive(r)
  PROVE  pc[r] \in Live /\ Confined(r) /\ GoesOn(r)
<1> USE DEF worldVars, localVars, workdirVars, formVars, sendVars
<1>1. /\ pc[r] = "recv" /\ pc[r] \in Live
      /\ UNCHANGED <<now, upload, folder, kept, resp, up>>
  BY DEF Receive, SavePart, LastPart, ClientGone, Move, Live, Waiting
<1>2. OnlyOne(r) /\ pc'[r] \in Live \cup {"panic"}
  BY <1>1 DEF Inv, TypeOK, Receive, SavePart, LastPart, ClientGone, Move, OnlyOne,
              Live, Waiting, Handling
<1>3. upload[r] \in Uploads /\ folder[r] \in Seconds
  BY <1>1 DEF Inv, FormInv, Live
<1>4. upload[r].parts \in Seq(Parts) /\ got[r] \in Nat
  BY <1>3, UploadsAssumption DEF Forms, Inv, TypeOK
<1>5. dirs' = dirs \/ \E p \in Parts : SaveFile(folder[r], p)
  <2>1. got[r] < Len(upload[r].parts) => upload[r].parts[got[r] + 1] \in Parts
    BY <1>4, LenProperties
  <2>2. got[r] < Len(upload[r].parts) => CutOff(upload[r].parts[got[r] + 1]) \in Parts
    BY <2>1, CutOffType
  <2> QED BY <2>1, <2>2 DEF Receive, SavePart, LastPart, ClientGone
<1>6. \A f \in Seconds \ {folder[r]} : dirs'[f] = dirs[f]
  BY <1>5 DEF SaveFile, Inv, TypeOK, WorkdirTypeOK
<1>7. dirs[folder[r]] # None => dirs'[folder[r]] # None
  BY <1>3, <1>5, FolderStays DEF Inv, TypeOK
<1> QED BY <1>1, <1>2, <1>6, <1>7 DEF Confined, GoesOn

\* So do the compilers, and they do not remove it.
LEMMA BuildConfined ==
  ASSUME Inv, NEW r \in Requests, Build(r)
  PROVE  pc[r] \in Live /\ Confined(r) /\ GoesOn(r)
<1> USE DEF worldVars, localVars, workdirVars, formVars, sendVars
<1>1. /\ pc[r] \in Live
      /\ UNCHANGED <<now, upload, folder, kept, resp, up>>
  BY DEF Build, JavaExec, RunGradle, CompileSucceeds, CompileFails, Move, Live,
         Waiting, Scripted
<1>2. OnlyOne(r) /\ pc'[r] \in Live \cup {"panic"}
  BY <1>1 DEF Inv, TypeOK, Build, JavaExec, RunGradle, CompileSucceeds,
              CompileFails, Move, OnlyOne, Live, Waiting, Handling, Scripted
<1>3. folder[r] \in Seconds
  BY <1>1 DEF Inv, FormInv
<1>4. dirs' = dirs \/ \E fam : \E b \in Bases, s \in Scripts : WriteNef(folder[r], fam, b, s)
  <2>1. CASE CompileSucceeds(r)
    <3>1. PICK c \in compilers(r), b \in OutputBases(r) :
            IF family(r) = "java"
            THEN WriteBuilt(b, Script(c, seen[r])) /\ UNCHANGED dirs
            ELSE /\ WriteNef(folder[r], family(r), b, Script(c, seen[r]))
                 /\ UNCHANGED javaVars
      BY <2>1 DEF CompileSucceeds
    <3>2. Script(c, seen[r]) \in Scripts
      BY RunsAreCompilers DEF compilers, Script, Scripts, Inv, TypeOK
    <3>3. b \in Bases
      BY BasesAssumption DEF OutputBases, Inv, TypeOK, Trees, TextNames
    <3>4. CASE family(r) = "java"
      BY <3>1, <3>4
    <3>5. CASE family(r) # "java"
      <4>1. WriteNef(folder[r], family(r), b, Script(c, seen[r]))
        BY <3>1, <3>5
      <4> QED BY <3>2, <3>3, <4>1
    <3> QED BY <3>4, <3>5
  <2> QED BY <2>1 DEF Build, JavaExec, RunGradle, CompileFails
<1>5. \A f \in Seconds \ {folder[r]} : dirs'[f] = dirs[f]
  BY <1>4 DEF WriteNef, Inv, TypeOK, WorkdirTypeOK
<1>6. dirs[folder[r]] # None => dirs'[folder[r]] # None
  BY <1>3, <1>4, FolderStays DEF Inv, TypeOK
<1> QED BY <1>1, <1>2, <1>5, <1>6 DEF Confined, GoesOn

\* Answers that remove the folder: an unknown version, a compiler that does
\* not start, a node that fails, a contract version verified before.
LEMMA RemovingConfined ==
  ASSUME Inv, NEW r \in Requests,
         UnknownVersion(r) \/ StartFails(r) \/ NodeFails(r) \/ AlreadyVerified(r)
  PROVE  pc[r] \in Live /\ Confined(r) /\ Returns(r)
<1> USE DEF worldVars, localVars, workdirVars, formVars
<1>1. PICK from \in Live, code \in Codes : Answer(r, from, code)
  BY DEF UnknownVersion, StartFails, NodeFails, AlreadyVerified, Live, Waiting,
         Handling, Codes
<1>2. UNCHANGED <<now, upload, folder, kept, up>> /\ RemoveAll(folder[r])
  BY DEF UnknownVersion, StartFails, NodeFails, AlreadyVerified
<1>3. folder[r] \in Seconds
  BY <1>1 DEF Inv, FormInv, Answer, Move
<1>4. dirs'[folder[r]] = None /\ \A f \in Seconds \ {folder[r]} : dirs'[f] = dirs[f]
  BY <1>2, <1>3 DEF RemoveAll, Inv, TypeOK, WorkdirTypeOK
<1> QED BY <1>1, <1>2, <1>4, AnswerIsOne DEF Confined, Returns, Inv

\* Answers that leave the folder: no .nef file, a script that differs.
LEMMA LeavingConfined ==
  ASSUME Inv, NEW r \in Requests, NEW from \in Live, NEW code \in {2, 8},
         Answer(r, from, code), UNCHANGED <<workdirVars, upload, folder, up>>
  PROVE  pc[r] \in Live /\ Confined(r) /\ Returns(r)
BY AnswerIsOne DEF Confined, Returns, Inv, workdirVars

\* Steps from one point to another that leave the working directory alone.
LEMMA MovingConfined ==
  ASSUME Inv, NEW r \in Requests, NEW from \in Live, NEW to \in Live,
         Move(r, from, to), UNCHANGED <<workdirVars, upload, folder, sendVars>>
  PROVE  pc[r] \in Live /\ Confined(r) /\ GoesOn(r)
BY MoveIsOne DEF Confined, GoesOn, Inv, workdirVars, sendVars

\* log.Fatal.
LEMMA FatalConfined ==
  ASSUME NEW r \in Requests, NEW from \in Live, Fatal(r, from),
         UNCHANGED <<workdirVars, upload, folder>>
  PROVE  pc[r] \in Live /\ Confined(r) /\ Dies
BY DEF Confined, Dies, Fatal, workdirVars

\* os.Rename.
LEMMA FinishConfined ==
  ASSUME Inv, NEW r \in Requests, Finish(r), dirs[folder[r]] # None
  PROVE  pc[r] \in Live /\ Confined(r) /\ Returns(r)
<1>1. /\ Answer(r, "src", 5) /\ Rename(folder[r], hash(r))
      /\ UNCHANGED <<now, upload, folder, up>> /\ "src" \in Live
  BY DEF Finish, localVars, formVars, Live, Handling
<1>2. folder[r] \in Seconds
  BY <1>1 DEF Inv, FormInv, Answer, Move
<1>3. /\ \A f \in Seconds \ {folder[r]} : dirs'[f] = dirs[f]
      /\ kept \subseteq kept'
      /\ \/ dirs'[folder[r]] = None
         \/ dirs' = dirs /\ hash(r) \in kept
  BY <1>1, <1>2 DEF Rename, CanRename, Inv, TypeOK, WorkdirTypeOK
<1> QED BY <1>1, <1>3, AnswerIsOne DEF Confined, Returns, Inv

\* What one step of r's handler does, when r has its folder.
LEMMA StepConfined ==
  ASSUME Inv, NEW r \in Requests, Step(r), dirs[folder[r]] # None
  PROVE  /\ pc[r] \in Live
         /\ Confined(r)
         /\ GoesOn(r) \/ Returns(r) \/ Dies
<1> USE DEF worldVars, localVars, formVars, sendVars, Live, Waiting, Handling, Scripted
<1>1. CASE Receive(r) \/ Build(r)
  BY <1>1, ReceiveConfined, BuildConfined
<1>2. CASE UnknownVersion(r) \/ StartFails(r) \/ NodeFails(r) \/ AlreadyVerified(r)
  BY <1>2, RemovingConfined
<1>3. CASE NodeAnswers(r) \/ NodeBlank(r)
  BY <1>3, MovingConfined DEF NodeAnswers, NodeBlank
<1>4. CASE StartNothing(r) \/ StartCompiler(r) \/ StartJavaExec(r)
  BY <1>4, MovingConfined DEF StartNothing, StartCompiler, StartJavaExec
<1>5. CASE LookForNef(r)
  BY <1>5, MovingConfined, LeavingConfined DEF LookForNef
<1>6. CASE PickJavaNef(r)
  BY <1>6, MovingConfined, LeavingConfined DEF PickJavaNef
<1>7. CASE StatJavaNef(r)
  BY <1>7, MovingConfined, LeavingConfined DEF StatJavaNef
<1>8. CASE ReadNef(r) \/ Connect(r) \/ FindVerified(r)
  BY <1>8, MovingConfined DEF ReadNef, Connect, FindVerified
<1>9. CASE ReadNefFatal(r) \/ ConnectFatal(r) \/ InsertVerifiedFatal(r)
  BY <1>9, FatalConfined DEF ReadNefFatal, ConnectFatal, InsertVerifiedFatal
<1>10. CASE Mismatch(r)
  BY <1>10, LeavingConfined DEF Mismatch
<1>11. CASE InsertVerified(r) \/ ListSources(r)
  BY <1>11, MovingConfined DEF InsertVerified, ListSources
<1>12. CASE \E n \in TextNames \cup NefNames : RecordSource(r, n)
  BY <1>12, MovingConfined DEF RecordSource
<1>13. CASE \E n \in TextNames \cup NefNames : RecordSourceFatal(r, n)
  BY <1>13, FatalConfined DEF RecordSourceFatal
<1>14. CASE Finish(r)
  BY <1>14, FinishConfined
<1> QED BY <1>1, <1>2, <1>3, <1>4, <1>5, <1>6, <1>7, <1>8, <1>9, <1>10, <1>11,
           <1>12, <1>13, <1>14 DEF Step, AskNode, AskDatabase, Handle

-----------------------------------------------------------------------------
(* Folders of requests that are spaced.                                    *)

\* At the start nobody has a folder.
LEMMA FolderInvInit ==
  ASSUME Init PROVE FolderInv
<1>1. \A r \in Requests : pc[r] = "new"
  BY DEF Init
<1>2. \A f \in Seconds : dirs[f] = None
  BY DEF Init
<1> QED BY <1>1, <1>2 DEF FolderInv, OwnFolders, FolderLifetime, Live, Handling,
           Waiting, Scripted

\* Why folder f of the working directory is still there.
Owner(r, f) ==
  /\ folder[r] = f
  /\ \/ pc[r] \in Live \cup {"panic"}
     \/ pc[r] = "dead" /\ ~up
     \/ resp[r] \in {2, 8, 500}
     \/ resp[r] = 5 /\ hash(r) \in kept

\* Only a handler that has started and not returned takes steps.
LEMMA StepIsLive ==
  ASSUME NEW r \in Requests, Step(r)
  PROVE  pc[r] \in Live
BY DEF Step, Receive, SavePart, LastPart, ClientGone, Build, JavaExec, RunGradle,
       CompileSucceeds, CompileFails, AskNode, NodeAnswers, NodeBlank, NodeFails,
       Handle, AskDatabase, UnknownVersion, StartFails, StartNothing, StartCompiler,
       StartJavaExec, LookForNef, PickJavaNef, StatJavaNef, ReadNef, ReadNefFatal,
       Mismatch, Connect, ConnectFatal, FindVerified, AlreadyVerified,
       InsertVerified, InsertVerifiedFatal, ListSources, RecordSource,
       RecordSourceFatal, Finish, Fatal, Answer, Move, Live, Waiting, Handling,
       Scripted

\* A handler's step keeps folders apart, and what is left has a reason.
LEMMA FolderInvOfStep ==
  ASSUME Inv, FolderInv, NEW r \in Requests, Step(r)
  PROVE  FolderInv'
<1>1. pc[r] \in Live /\ folder[r] \in Seconds /\ dirs[folder[r]] # None
  BY StepIsLive DEF Inv, FormInv, FolderInv, FolderLifetime
<1>2. Confined(r) /\ (GoesOn(r) \/ Returns(r) \/ Dies)
  BY <1>1, StepConfined
<1>3. \A q \in Requests : (pc'[q] = "new" <=> pc[q] = "new") /\ folder'[q] = folder[q]
  BY <1>1, <1>2 DEF Confined, GoesOn, Returns, OnlyOne, Dies, Killed, Live, Handling,
     Waiting, Scripted
<1>4. OwnFolders'
  BY <1>3 DEF FolderInv, OwnFolders
<1>5. ASSUME NEW q \in Requests, pc'[q] \in Live PROVE dirs'[folder'[q]] # None
  <2>1. CASE q = r
    BY <1>1, <1>2, <1>3, <1>5, <2>1 DEF GoesOn, Returns, Dies, Killed, Live, Handling,
       Waiting, Scripted
  <2>2. CASE q # r
    <3>1. pc[q] \in Live
      BY <1>2, <1>5, <2>2 DEF GoesOn, Returns, OnlyOne, Dies, Killed, Live, Handling,
         Waiting, Scripted
    <3>2. folder[q] # folder[r] /\ folder[q] \in Seconds
      BY <1>1, <2>2, <3>1 DEF FolderInv, OwnFolders, Inv, FormInv, Live, Handling,
         Waiting, Scripted
    <3> QED BY <1>2, <1>3, <3>1, <3>2 DEF Confined, FolderInv, FolderLifetime
  <2> QED BY <2>1, <2>2
<1>6. ASSUME NEW f \in Seconds, dirs'[f] # None
      PROVE  \E q \in Requests : Owner(q, f)'
  <2>1. CASE f = folder[r]
    <3>1. hash(r)' = hash(r) /\ folder'[r] = f
      BY <1>2, <2>1 DEF Confined, hash
    <3>2. GoesOn(r) => Owner(r, f)'
      BY <3>1 DEF GoesOn, Owner
    <3>3. Returns(r) => Owner(r, f)'
      BY <1>6, <2>1, <3>1 DEF Returns, Owner
    <3>4. Dies => Owner(r, f)'
      BY <1>1, <3>1 DEF Dies, Killed, Owner
    <3> QED BY <1>2, <3>2, <3>3, <3>4
  <2>2. CASE f # folder[r]
    <3>1. dirs[f] # None
      BY <1>2, <1>6, <2>2 DEF Confined
    <3>2. PICK q \in Requests : Owner(q, f)
      BY <3>1 DEF FolderInv, FolderLifetime, Owner
    <3>3. q # r /\ hash(q)' = hash(q) /\ folder'[q] = f /\ resp'[q] = resp[q]
      BY <1>2, <2>2, <3>2 DEF Confined, Owner, hash
    <3>4. GoesOn(r) \/ Returns(r) => Owner(q, f)'
      BY <3>2, <3>3 DEF GoesOn, Returns, OnlyOne, Owner
    <3>5. Dies => Owner(q, f)'
      BY <3>2, <3>3 DEF Dies, Killed, Owner, Live, Handling, Waiting, Scripted
    <3> QED BY <1>2, <3>4, <3>5
  <2> QED BY <2>1, <2>2
<1> QED BY <1>4, <1>5, <1>6 DEF FolderInv, FolderLifetime, Owner

\* An arrival finds no folder of its second, and makes one.
LEMMA ArrivalMakesFolder ==
  ASSUME Inv, FolderInv, Spaced, MayArrive, CreateDateDir(now)
  PROVE  /\ dirs[now] = None /\ dirs'[now] = EmptyFolder /\ EmptyFolder # None
         /\ \A f \in Seconds \ {now} : dirs'[f] = dirs[f]
         /\ \A q \in Requests : folder[q] # now
<1>1. now \in Seconds
  BY DEF Inv, TypeOK, WorkdirTypeOK
<1>2. \A q \in Requests : folder[q] # now
  BY DEF MayArrive, Spaced
<1>3. dirs[now] = None
  BY <1>1, <1>2 DEF FolderInv, FolderLifetime
<1> QED BY <1>1, <1>2, <1>3, EmptyFolderIsFolder, NoneAssumption
        DEF CreateDateDir, Inv, TypeOK, WorkdirTypeOK

\* A request that arrives alone in its second gets a folder of its own.
LEMMA FolderInvOfArrival ==
  ASSUME Inv, FolderInv, Spaced, NEW r \in Requests,
         (\E u \in Uploads : Arrive(r, u)) \/ ArriveNotMultipart(r)
  PROVE  FolderInv'
<1>1. /\ pc[r] = "new" /\ MayArrive /\ CreateDateDir(now) /\ up /\ up'
      /\ folder' = [folder EXCEPT ![r] = now]
      /\ UNCHANGED <<now, kept>>
      /\ \A q \in Requests \ {r} :
           pc'[q] = pc[q] /\ resp'[q] = resp[q] /\ upload'[q] = upload[q]
      /\ pc'[r] = "recv" \/ (pc'[r] = "done" /\ resp'[r] = 500)
  BY DEF Arrive, ArriveNotMultipart, Answer, Move, Inv, TypeOK, sendVars
<1>2. folder'[r] = now /\ \A q \in Requests \ {r} : folder'[q] = folder[q]
  BY <1>1 DEF Inv, TypeOK
<1>3. /\ dirs'[now] # None
      /\ \A f \in Seconds \ {now} : dirs'[f] = dirs[f]
      /\ \A q \in Requests : folder[q] # now
  BY <1>1, ArrivalMakesFolder
<1>4. OwnFolders'
  BY <1>1, <1>2, <1>3 DEF FolderInv, OwnFolders
<1>5. ASSUME NEW q \in Requests, pc'[q] \in Live PROVE dirs'[folder'[q]] # None
  <2>1. CASE q = r
    BY <1>2, <1>3, <2>1
  <2>2. CASE q # r
    <3>1. pc[q] \in Live /\ folder[q] \in Seconds
      BY <1>1, <1>5, <2>2 DEF Inv, FormInv
    <3> QED BY <1>2, <1>3, <2>2, <3>1 DEF FolderInv, FolderLifetime
  <2> QED BY <2>1, <2>2
<1>6. ASSUME NEW f \in Seconds, dirs'[f] # None
      PROVE  \E q \in Requests : Owner(q, f)'
  <2>1. CASE f = now
    BY <1>1, <1>2, <2>1 DEF Owner, Live, Waiting
  <2>2. CASE f # now
    <3>1. PICK q \in Requests : Owner(q, f)
      BY <1>3, <1>6, <2>2 DEF FolderInv, FolderLifetime, Owner
    <3>2. q # r
      BY <1>1, <3>1, NoneAssumption
         DEF Owner, Live, Handling, Waiting, Scripted, Inv, AnswerInv, Codes
    <3> QED BY <1>1, <1>2, <3>1, <3>2 DEF Owner, hash
  <2> QED BY <2>1, <2>2
<1> QED BY <1>4, <1>5, <1>6 DEF FolderInv, FolderLifetime, Owner

\* FolderInv is kept by every step.
LEMMA FolderInvStep ==
  ASSUME Inv, FolderInv, Spaced, [Next]_vars
  PROVE  FolderInv'
<1>1. CASE UNCHANGED <<dirs, kept, pc, folder, upload, resp, up>>
  BY <1>1 DEF FolderInv, OwnFolders, FolderLifetime, hash
<1>2. CASE UNCHANGED vars
  BY <1>1, <1>2 DEF vars, worldVars, localVars, workdirVars, formVars, sendVars
<1>3. CASE ClockTick
  BY <1>1, <1>3 DEF ClockTick, localVars, formVars, sendVars
<1>4. ASSUME NEW c \in Contracts, NEW s \in Deployable, ChainUpdate(c, s)
      PROVE  FolderInv'
  BY <1>1, <1>4 DEF ChainUpdate, workdirVars, localVars, formVars, sendVars
<1>5. CASE Redeploy
  <2>1. /\ pc' = Killed /\ folder' = folder
        /\ \A f \in Seconds : dirs'[f] = None
    BY <1>5 DEF Redeploy, localVars, formVars
  <2>2. \A q \in Requests : /\ pc'[q] \notin Live
                            /\ pc'[q] # "new" => pc[q] # "new"
    BY <2>1 DEF Killed, Live, Handling, Waiting, Scripted
  <2> QED BY <2>1, <2>2 DEF FolderInv, OwnFolders, FolderLifetime
<1> QED BY <1>2, <1>3, <1>4, <1>5, FolderInvOfStep, FolderInvOfArrival
        DEF Next, Environment, Step

\* When no two requests arrive in the same second, a folder of the working
\* directory lasts exactly as long as the paths of multipleFile and
\* execCommand mean it to, whatever fails in the environment.
THEOREM FoldersLastAsMeant ==
  ASSUME Spaced PROVE Spec => []FolderLifetime
<1>1. Init => Inv /\ FolderInv
  BY InitInv, FolderInvInit
<1>2. Inv /\ FolderInv /\ [Next]_vars => (Inv /\ FolderInv)'
  BY NextInv, FolderInvStep
<1>3. Inv /\ FolderInv => FolderLifetime
  BY DEF FolderInv
<1> QED BY <1>1, <1>2, <1>3, PTL DEF Spec
-----------------------------------------------------------------------------
(* Documents of requests that do not overlap.                              *)

\* Different spellings of a hash are different contracts to the node.
OneNameEach ==
  \A a, b \in Spellings : Denotes[a] = Denotes[b] => a = b

\* A step adds no VerifyContractModel document but r's own, from its insert;
\* and r comes to its insert by not finding one.
LEMMA DocumentsOfStep ==
  ASSUME "find" \notin Faults, NEW r \in Requests, Step(r), TypeOK
  PROVE  /\ \/ verified' = verified
            \/ pc[r] = "ins" /\ verified' = verified \cup {Document(r)}
         /\ pc'[r] = "ins" => /\ ~IsVerified(hash(r), counter(r))
                              /\ UNCHANGED <<verified, upload, reply>>
<1> USE DEF worldVars, localVars, formVars, databaseVars, TypeOK, Answer, Move
<1>1. CASE Receive(r) \/ AskNode(r)
  BY <1>1 DEF Receive, SavePart, LastPart, ClientGone, AskNode, NodeAnswers, NodeBlank,
     NodeFails
<1>2. CASE Build(r)
  BY <1>2 DEF Build, JavaExec, RunGradle, CompileSucceeds, CompileFails
<1>3. CASE \/ UnknownVersion(r) \/ StartFails(r) \/ StartNothing(r)
           \/ StartCompiler(r) \/ StartJavaExec(r)
  BY <1>3 DEF UnknownVersion, StartFails, StartNothing, StartCompiler, StartJavaExec
<1>4. CASE \/ LookForNef(r) \/ PickJavaNef(r) \/ StatJavaNef(r)
           \/ ReadNef(r) \/ Mismatch(r) \/ Connect(r) \/ AlreadyVerified(r)
  BY <1>4 DEF LookForNef, PickJavaNef, StatJavaNef, ReadNef, Mismatch, Connect,
     AlreadyVerified
<1>5. CASE ReadNefFatal(r) \/ ConnectFatal(r)
  BY <1>5 DEF ReadNefFatal, ConnectFatal, Fatal, Killed
<1>6. CASE FindVerified(r)
  BY <1>6 DEF FindVerified
<1>7. CASE InsertVerified(r)
  BY <1>7 DEF InsertVerified, InsertVerifiedContract, Document
<1>8. CASE InsertVerifiedFatal(r)
  BY <1>8 DEF InsertVerifiedFatal, InsertVerifiedContract, Document, Fatal, Killed,
     Live, Handling
<1>9. CASE ListSources(r) \/ Finish(r)
  BY <1>9 DEF ListSources, Finish
<1>10. CASE \E n \in TextNames \cup NefNames :
              RecordSource(r, n) \/ RecordSourceFatal(r, n)
  BY <1>10 DEF RecordSource, RecordSourceFatal, InsertContractSourceCode, Fatal, Killed,
     Live, Handling
<1> QED BY <1>1, <1>2, <1>3, <1>4, <1>5, <1>6, <1>7, <1>8, <1>9, <1>10
        DEF Step, Handle, AskDatabase

\* At the start nothing is in progress and nothing is recorded.
LEMMA AloneInit ==
  ASSUME Init PROVE AloneInv /\ UniqueRecords
BY DEF Init, DatabaseInit, AloneInv, UniqueRecords, Live, Handling, Waiting, Scripted

\* A handler's step adds no second record of a pair: what it has not found
\* before its insert nobody else has inserted since.
LEMMA AloneOfStep ==
  ASSUME Inv, FolderInv, AloneInv, UniqueRecords, OneNameEach, "find" \notin Faults,
         NEW r \in Requests, Step(r)
  PROVE  (AloneInv /\ UniqueRecords)'
<1>1. pc[r] \in Live /\ Confined(r) /\ (GoesOn(r) \/ Returns(r) \/ Dies)
  BY StepIsLive, StepConfined DEF FolderInv, FolderLifetime
<1>2. \A q \in Requests \ {r} : pc[q] \notin Live /\ pc'[q] \notin Live
  <2> SUFFICES ASSUME NEW q \in Requests \ {r}
               PROVE  pc[q] \notin Live /\ pc'[q] \notin Live
    OBVIOUS
  <2>1. pc[q] \notin Live
    BY <1>1 DEF AloneInv
  <2>2. pc'[q] = pc[q]
    BY <1>1, <2>1 DEF GoesOn, Returns, OnlyOne, Dies, Killed
  <2> QED BY <2>1, <2>2
<1>3. /\ \/ verified' = verified
         \/ pc[r] = "ins" /\ verified' = verified \cup {Document(r)}
      /\ pc'[r] = "ins" => /\ ~IsVerified(hash(r), counter(r))
                           /\ UNCHANGED <<verified, upload, reply>>
  BY DocumentsOfStep DEF Inv
<1>4. \A q \in Requests : pc'[q] = "ins" => ~IsVerified(hash(q), counter(q))'
  <2>1. \A q \in Requests : pc'[q] = "ins" => q = r
    BY <1>2 DEF Live, Handling
  <2>2. pc'[r] = "ins" => ~IsVerified(hash(r), counter(r))'
    BY <1>3 DEF IsVerified, hash, counter
  <2> QED BY <2>1, <2>2
<1>5. UniqueRecords'
  <2>1. CASE verified' = verified
    BY <2>1 DEF UniqueRecords
  <2>2. CASE pc[r] = "ins" /\ verified' = verified \cup {Document(r)}
    <3>1. hash(r) \in Spellings
      BY <1>1, UploadsAssumption DEF Inv, FormInv, Forms, hash
    <3>2. \A v \in verified : v.hash \in Spellings
      BY DEF Inv, TypeOK
    <3>3. \A v \in verified :
            ~(Denotes[v.hash] = Denotes[hash(r)] /\ v.updatecounter = counter(r))
      BY <2>2, <3>1, <3>2 DEF OneNameEach, AloneInv, IsVerified
    <3> QED BY <2>2, <3>3 DEF UniqueRecords, Document
  <2> QED BY <1>3, <2>1, <2>2
<1> QED BY <1>2, <1>4, <1>5 DEF AloneInv

\* AloneInv and UniqueRecords are kept by every step.
LEMMA AloneStep ==
  ASSUME Inv, FolderInv, AloneInv, UniqueRecords, OneNameEach, "find" \notin Faults,
         Arrivals = "serial", [Next]_vars
  PROVE  (AloneInv /\ UniqueRecords)'
<1>1. CASE UNCHANGED <<pc, upload, reply, verified>>
  BY <1>1 DEF AloneInv, UniqueRecords, IsVerified, hash, counter
<1>2. CASE UNCHANGED vars
  BY <1>1, <1>2 DEF vars, worldVars, localVars, formVars, databaseVars
<1>3. CASE ClockTick
  BY <1>1, <1>3 DEF ClockTick, localVars, formVars, databaseVars
<1>4. ASSUME NEW c \in Contracts, NEW s \in Deployable, ChainUpdate(c, s)
      PROVE  (AloneInv /\ UniqueRecords)'
  BY <1>1, <1>4 DEF ChainUpdate, localVars, formVars, databaseVars
<1>5. CASE Redeploy
  <2>1. pc' = Killed /\ verified' = verified
    BY <1>5 DEF Redeploy, databaseVars
  <2>2. \A q \in Requests : pc'[q] \notin Live
    BY <2>1 DEF Killed, Live, Handling, Waiting, Scripted
  <2> QED BY <2>1, <2>2 DEF AloneInv, UniqueRecords, Live, Handling
<1>6. ASSUME NEW r \in Requests,
             (\E u \in Uploads : Arrive(r, u)) \/ ArriveNotMultipart(r)
      PROVE  (AloneInv /\ UniqueRecords)'
  <2>1. /\ MayArrive /\ verified' = verified
        /\ pc'[r] \in {"recv", "done"}
        /\ \A q \in Requests \ {r} : pc'[q] = pc[q]
    BY <1>6 DEF Arrive, ArriveNotMultipart, Answer, Move, databaseVars, Inv, TypeOK
  <2>2. \A q \in Requests : pc[q] \notin Live
    BY <2>1 DEF MayArrive
  <2> QED BY <2>1, <2>2 DEF AloneInv, UniqueRecords, Live, Handling
<1> QED BY <1>2, <1>3, <1>4, <1>5, <1>6, AloneOfStep DEF Next, Environment, Step

\* A contract version is recorded once, as the comment on the code 6 branch
\* of multipleFile says, when requests do not overlap, FindOne does not fail
\* and a contract's hash is spelt in one way; each of the three is needed.
THEOREM RecordsAreUnique ==
  ASSUME Arrivals = "serial", "find" \notin Faults, OneNameEach
  PROVE  Spec => []UniqueRecords
<1> DEFINE I == Inv /\ FolderInv /\ AloneInv /\ UniqueRecords
<1>1. Init => I
  BY InitInv, FolderInvInit, AloneInit
<1>2. I /\ [Next]_vars => I'
  BY NextInv, FolderInvStep, AloneStep DEF Spaced
<1>3. I => UniqueRecords
  OBVIOUS
<1> QED BY <1>1, <1>2, <1>3, PTL DEF Spec
=============================================================================
