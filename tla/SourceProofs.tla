---------------------------- MODULE SourceProofs ----------------------------
(***************************************************************************)
(* Proof that the source code on record explains the verdict, for requests *)
(* that no other one disturbs and plain forms.                             *)
(***************************************************************************)
EXTENDS CompilationProofs

\* The compilers see every program file of the form.  (neo3-boa, neow3j and
\* neo-go pass over names that begin with a dot; multipleFile records them.)
SeenForm(u) ==
  \A i \in DOMAIN u.parts :
    u.parts[i].name.ext \in SourceExts(Family(u.version)) => Visible(u.parts[i].name)

AllSeen == \A u \in Uploads : SeenForm(u)

-----------------------------------------------------------------------------
(* The inductive invariant: what the loop over the folder has recorded and *)
(* what it has still to record make up the program of the form.            *)

Docs(r) == { s \in source : s.by = r }
OfProgram(r, n) == n.ext \in SourceExts(family(r))
Recorded(r) ==
  { <<s.fileName, s.code>> : s \in { x \in Docs(r) : OfProgram(r, x.fileName) } }

Pending(r) ==
  { <<n, FileContent(r, n)>> : n \in { m \in todo[r] : OfProgram(r, m) } }

Program(r) == PartsTree(r, SourceExts(family(r)))

RecordedInv(r) ==
  /\ pc[r] = "list" => Docs(r) = {}
  /\ pc[r] = "src"  => Recorded(r) \cup Pending(r) = Program(r)
  /\ resp[r] = 5    => Recorded(r) = Program(r)

\* The program is what was compiled, less Gradle's file.
LEMMA ProgramOfTree ==
  ASSUME Plain, NEW r, upload[r] \in Uploads
  PROVE  Program(r) = { e \in OwnTree(r) : e[1].ext \in SourceExts(family(r)) }
<1>1. CASE family(r) # "java"
  <2>1. OwnTree(r) = Program(r)
    BY <1>1, OwnTreeParts DEF Program
  <2>2. \A e \in Program(r) : e[1].ext \in SourceExts(family(r))
    BY DEF Program, PartsTree
  <2> QED BY <2>1, <2>2
<1>2. CASE family(r) = "java"
  <2>1. SourceExts(family(r)) = {".java"}
    BY <1>2, Zenon DEF SourceExts
  <2>2. OwnTree(r) = PartsTree(r, {".java", ".gradle"})
    BY <1>2, OwnTreeParts
  <2> QED BY <2>1, <2>2 DEF Program, PartsTree
<1> QED BY <1>1, <1>2

-----------------------------------------------------------------------------
(* Which documents a step adds.                                            *)

\* Only the loop over the folder inserts into ContractSourceCode.
LEMMA OnlyLoopRecords ==
  ASSUME NEW r \in Requests, Step(r),
         \A n \in TextNames \cup NefNames :
           ~RecordSource(r, n) /\ ~RecordSourceFatal(r, n)
  PROVE  source' = source
<1> USE DEF worldVars, localVars, databaseVars, InsertVerifiedContract
<1>1. CASE Receive(r) \/ Build(r)
  BY <1>1 DEF Receive, SavePart, LastPart, ClientGone, Build, JavaExec, RunGradle,
     CompileSucceeds, CompileFails
<1>2. CASE AskNode(r)
  BY <1>2 DEF AskNode, NodeAnswers, NodeBlank, NodeFails
<1>3. CASE \/ UnknownVersion(r) \/ StartFails(r) \/ StartNothing(r)
           \/ StartCompiler(r) \/ StartJavaExec(r)
  BY <1>3 DEF UnknownVersion, StartFails, StartNothing, StartCompiler, StartJavaExec
<1>4. CASE \/ LookForNef(r) \/ PickJavaNef(r) \/ StatJavaNef(r)
           \/ ReadNef(r) \/ ReadNefFatal(r)
  BY <1>4 DEF LookForNef, PickJavaNef, StatJavaNef, ReadNef, ReadNefFatal
<1>5. CASE \/ Mismatch(r) \/ Connect(r) \/ ConnectFatal(r) \/ FindVerified(r)
           \/ AlreadyVerified(r)
  BY <1>5 DEF Mismatch, Connect, ConnectFatal, FindVerified, AlreadyVerified
<1>6. CASE \/ InsertVerified(r) \/ InsertVerifiedFatal(r) \/ ListSources(r)
           \/ Finish(r)
  BY <1>6 DEF InsertVerified, InsertVerifiedFatal, ListSources, Finish
<1> QED BY <1>1, <1>2, <1>3, <1>4, <1>5, <1>6 DEF Step, Handle, AskDatabase

\* A request's documents are its own doing.
LEMMA OthersDocs ==
  ASSUME NEW q \in Requests, [Next]_vars
  PROVE  Docs(q)' = Docs(q) \/ Step(q)
<1>1. ASSUME NEW r \in Requests \ {q}, Step(r) PROVE Docs(q)' = Docs(q)
  <2>1. CASE \E n \in TextNames \cup NefNames :
               RecordSource(r, n) \/ RecordSourceFatal(r, n)
    BY <2>1 DEF RecordSource, RecordSourceFatal, InsertContractSourceCode, databaseVars,
       Docs
  <2>2. CASE source' = source
    BY <2>2 DEF Docs
  <2> QED BY <1>1, <2>1, <2>2, OnlyLoopRecords
<1>2. ASSUME NEW r \in Requests,
             (\E u \in Uploads : Arrive(r, u)) \/ ArriveNotMultipart(r)
      PROVE  Docs(q)' = Docs(q)
  BY <1>2 DEF Arrive, ArriveNotMultipart, databaseVars, Docs
<1>3. CASE Environment \/ UNCHANGED vars
  BY <1>3 DEF Environment, ClockTick, ChainUpdate, Redeploy, vars, worldVars,
     databaseVars, Docs
<1> QED BY <1>1, <1>2, <1>3 DEF Next, Step
-----------------------------------------------------------------------------
(* The steps of the request itself.                                        *)

\* A step of others.
LEMMA RecordedKept ==
  ASSUME NEW r \in Requests, RecordedInv(r), Kept(r), Docs(r)' = Docs(r)
  PROVE  RecordedInv(r)'
<1>1. /\ upload'[r] = upload[r] /\ todo'[r] = todo[r] /\ resp'[r] = resp[r]
      /\ pc'[r] = pc[r] \/ pc'[r] = "dead"
      /\ pc'[r] \in Live => dirs'[folder'[r]] = dirs[folder[r]]
  BY DEF Kept
<1>2. Program(r)' = Program(r) /\ \A n : OfProgram(r, n)' = OfProgram(r, n)
  BY <1>1, SameForm DEF Program, OfProgram
<1>3. Recorded(r)' = Recorded(r)
  BY <1>2 DEF Recorded
<1>4. ASSUME pc'[r] = "src" PROVE Pending(r)' = Pending(r)
  <2>1. dirs'[folder'[r]] = dirs[folder[r]]
    BY <1>1, <1>4 DEF Live, Handling
  <2>2. \A n : FileContent(r, n)' = FileContent(r, n)
    BY <2>1 DEF FileContent
  <2> QED BY <1>1, <1>2, <2>2 DEF Pending
<1> QED BY <1>1, <1>2, <1>3, <1>4 DEF RecordedInv

\* The list that the loop goes through holds the whole program.
LEMMA ListedInv ==
  ASSUME Base, Plain, AllSeen, NEW r \in Requests, SavedInv(r), RecordedInv(r), ListSources(r)
  PROVE  RecordedInv(r)'
<1>1. /\ pc[r] = "list" /\ pc'[r] = "src" /\ UNCHANGED <<dirs, source, upload, folder, resp>>
      /\ todo'[r] = { n \in Entries(r) : IsRecorded(version(r), n.ext) }
  BY DEF ListSources, Move, worldVars, workdirVars, databaseVars, formVars, sendVars,
     Base, Inv, TypeOK
<1>2. pc[r] \in Live \ {"recv"} /\ resp[r] # 5
  BY <1>1, NoneAssumption DEF Live, Handling, Base, Inv, AnswerInv, Codes
<1>3. TreeOf(folder[r], SourceExts(family(r))) = Program(r)
  <2>1. ".nef" \notin SourceExts(family(r))
    BY ProgramsAreRecorded DEF family
  <2> QED BY <1>2, <2>1, TreeIsParts DEF Program
<1>4. /\ Program(r)' = Program(r)
      /\ \A n : OfProgram(r, n)' = OfProgram(r, n) /\ FileContent(r, n)' = FileContent(r, n)
  BY <1>1, SameForm DEF Program, OfProgram, FileContent
<1>5. Recorded(r)' = {}
  BY <1>1 DEF RecordedInv, Docs, Recorded
<1>6. Pending(r)' = { <<n, FileContent(r, n)>> :
                        n \in { m \in todo'[r] : OfProgram(r, m) } }
  BY <1>4 DEF Pending
<1>7. ASSUME NEW n \in TextNames, OfProgram(r, n)
      PROVE  n \in todo'[r] <=> files(r) # None /\ files(r).src[n] # None
  <2>1. IsRecorded(version(r), n.ext) /\ n.ext # ".nef"
    BY <1>7, ProgramsAreRecorded DEF OfProgram, family
  <2>2. n \notin NefNames
    BY <2>1 DEF NefNames
  <2> QED BY <1>1, <2>1, <2>2 DEF Entries, files
<1>8. ASSUME NEW n \in todo'[r], OfProgram(r, n)
      PROVE  n \in TextNames /\ FileContent(r, n) = files(r).src[n]
  <2>1. n.ext # ".nef"
    BY <1>8, ProgramsAreRecorded DEF OfProgram, family
  <2> QED BY <1>1, <1>8, <2>1 DEF Entries, NefNames, FileContent, files
<1>9. ASSUME NEW n \in TextNames, OfProgram(r, n), files(r).src[n] # None
      PROVE  Visible(n)
  <2>1. /\ upload[r] \in Uploads /\ got[r] = Len(upload[r].parts)
        /\ DOMAIN upload[r].parts = 1 .. Len(upload[r].parts)
    BY <1>2, LiveFiles, LenProperties DEF SavedInv
  <2>2. PICK i \in 1 .. got[r] : upload[r].parts[i].name = n
    BY <1>2, <1>9 DEF SavedInv, Saved
  <2> QED BY <1>9, <2>1, <2>2 DEF AllSeen, SeenForm, OfProgram, family, version
<1>10. Pending(r)' = TreeOf(folder[r], SourceExts(family(r)))
  BY <1>6, <1>7, <1>8, <1>9 DEF TreeOf, OfProgram, files
<1> QED BY <1>1, <1>2, <1>3, <1>4, <1>5, <1>10 DEF RecordedInv

\* One turn of the loop.
LEMMA TurnInv ==
  ASSUME Base, NEW r \in Requests, RecordedInv(r),
         NEW n \in TextNames \cup NefNames, RecordSource(r, n)
  PROVE  RecordedInv(r)'
<1>1. /\ pc[r] = "src" /\ pc'[r] = "src" /\ UNCHANGED <<dirs, upload, folder, resp>>
      /\ n \in todo[r] /\ todo'[r] = todo[r] \ {n}
  BY DEF RecordSource, Move, workdirVars, formVars, sendVars, Base, Inv, TypeOK
<1>2. PICK s : /\ s = [hash |-> hash(r), updatecounter |-> counter(r),
                       fileName |-> n, code |-> FileContent(r, n), by |-> r]
               /\ source' = source \cup {s}
  BY DEF RecordSource, InsertContractSourceCode
<1>3. s.by = r /\ s.fileName = n /\ s.code = FileContent(r, n)
  BY <1>2
<1>4. resp[r] # 5
  BY <1>1, NoneAssumption DEF Base, Inv, AnswerInv, Codes
<1>5. /\ Program(r)' = Program(r)
      /\ \A m : OfProgram(r, m)' = OfProgram(r, m) /\ FileContent(r, m)' = FileContent(r, m)
  BY <1>1, SameForm DEF Program, OfProgram, FileContent
<1>6. Docs(r)' = Docs(r) \cup {s}
  BY <1>2, <1>3 DEF Docs
<1>7. Recorded(r)' = Recorded(r) \cup { <<m, FileContent(r, m)>> :
                                          m \in { k \in {n} : OfProgram(r, k) } }
  <2>1. Recorded(r)' = { <<x.fileName, x.code>> :
                           x \in { y \in Docs(r)' : OfProgram(r, y.fileName) } }
    BY <1>5 DEF Recorded
  <2> QED BY <1>3, <1>6, <2>1 DEF Recorded
<1>8. Pending(r)' = { <<m, FileContent(r, m)>> :
                        m \in { k \in todo[r] \ {n} : OfProgram(r, k) } }
  BY <1>1, <1>5 DEF Pending
<1>9. Recorded(r)' \cup Pending(r)' = Recorded(r) \cup Pending(r)
  BY <1>1, <1>7, <1>8 DEF Pending
<1> QED BY <1>1, <1>4, <1>5, <1>9 DEF RecordedInv

\* Code 5 is sent when the list is empty.
LEMMA FinishedInv ==
  ASSUME Base, NEW r \in Requests, RecordedInv(r), Finish(r)
  PROVE  RecordedInv(r)'
<1>1. pc[r] = "src" /\ pc'[r] = "done" /\ todo[r] = {} /\ UNCHANGED <<source, upload>>
  BY DEF Finish, AllRecorded, Answer, Move, databaseVars, localVars, formVars, Base, Inv,
     TypeOK
<1>2. Recorded(r) = Program(r)
  BY <1>1 DEF RecordedInv, Pending
<1>3. Program(r)' = Program(r) /\ \A m : OfProgram(r, m)' = OfProgram(r, m)
  BY <1>1, SameForm DEF Program, OfProgram
<1>4. Recorded(r)' = Recorded(r)
  BY <1>1, <1>3 DEF Recorded, Docs
<1> QED BY <1>1, <1>2, <1>3, <1>4 DEF RecordedInv

\* Before its insert a request has no documents at all.
LEMMA NoDocsYet ==
  ASSUME Base, NEW r \in Requests, pc[r] \notin Inserted \cup {"dead"}, resp[r] # 5
  PROVE  Docs(r) = {}
BY DEF Base, Inv, SourceInv, DocumentInv, Document, Docs

\* The other steps lie before the insert, and do not lead into the loop or to
\* code 5.
LEMMA BeforeInsert ==
  ASSUME TypeOK, NEW r \in Requests, Step(r), ~ListSources(r), ~Finish(r),
         \A n \in TextNames \cup NefNames :
           ~RecordSource(r, n) /\ ~RecordSourceFatal(r, n)
  PROVE  /\ pc[r] \notin Inserted /\ pc'[r] # "src"
         /\ resp'[r] = resp[r] \/ resp'[r] # 5
<1> USE DEF TypeOK, Move, Answer, Inserted, sendVars, Scripted
<1>1. CASE Receive(r)
  BY <1>1 DEF Receive, SavePart, LastPart, ClientGone
<1>2. CASE Build(r)
  BY <1>2 DEF Build, JavaExec, RunGradle, CompileSucceeds, CompileFails
<1>3. CASE AskNode(r)
  BY <1>3 DEF AskNode, NodeAnswers, NodeBlank, NodeFails
<1>4. CASE \/ UnknownVersion(r) \/ StartFails(r) \/ StartNothing(r)
           \/ StartCompiler(r) \/ StartJavaExec(r)
  BY <1>4 DEF UnknownVersion, StartFails, StartNothing, StartCompiler, StartJavaExec
<1>5. CASE LookForNef(r) \/ PickJavaNef(r) \/ StatJavaNef(r) \/ ReadNef(r)
  BY <1>5 DEF LookForNef, PickJavaNef, StatJavaNef, ReadNef
<1>6. CASE \/ Mismatch(r) \/ Connect(r) \/ FindVerified(r) \/ AlreadyVerified(r)
           \/ InsertVerified(r)
  BY <1>6 DEF Mismatch, Connect, FindVerified, AlreadyVerified, InsertVerified
<1>7. CASE ReadNefFatal(r) \/ ConnectFatal(r) \/ InsertVerifiedFatal(r)
  BY <1>7 DEF ReadNefFatal, ConnectFatal, InsertVerifiedFatal, Fatal, Killed
<1> QED BY <1>1, <1>2, <1>3, <1>4, <1>5, <1>6, <1>7 DEF Step, Handle, AskDatabase

\* RecordedInv is kept by the request's own steps.
LEMMA RecordedInvOfStep ==
  ASSUME Base, Plain, AllSeen, NEW r \in Requests, SavedInv(r), RecordedInv(r), Step(r)
  PROVE  RecordedInv(r)'
<1>1. CASE ListSources(r) \/ Finish(r)
  BY <1>1, ListedInv, FinishedInv
<1>2. CASE \E n \in TextNames \cup NefNames : RecordSource(r, n)
  BY <1>2, TurnInv
<1>3. pc[r] \in Live /\ resp[r] # 5
  BY StepIsLive, NoneAssumption
     DEF Base, Inv, AnswerInv, Codes, Live, Handling, Waiting, Scripted
<1>4. CASE \E n \in TextNames \cup NefNames : RecordSourceFatal(r, n)
  <2>1. pc'[r] = "dead" /\ resp'[r] = resp[r]
    BY <1>3, <1>4 DEF RecordSourceFatal, Fatal, Killed
  <2> QED BY <1>3, <2>1 DEF RecordedInv
<1>5. CASE /\ ~ListSources(r) /\ ~Finish(r)
           /\ \A n \in TextNames \cup NefNames :
                ~RecordSource(r, n) /\ ~RecordSourceFatal(r, n)
  <2>1. /\ pc[r] \notin Inserted /\ pc'[r] # "src" /\ resp'[r] # 5 /\ source' = source
    BY <1>3, <1>5, BeforeInsert, OnlyLoopRecords DEF Base, Inv
  <2>2. Docs(r) = {}
    BY <1>3, <2>1, NoDocsYet DEF Live, Handling, Waiting, Scripted
  <2> QED BY <2>1, <2>2 DEF RecordedInv, Docs
<1> QED BY <1>1, <1>2, <1>4, <1>5

\* RecordedInv is kept by every step.
LEMMA RecordedInvStep ==
  ASSUME CompilationInv, Spaced, Plain, AllSeen, [Next]_vars, \A r \in Requests : RecordedInv(r)
  PROVE  \A r \in Requests : RecordedInv(r)'
<1> SUFFICES ASSUME NEW r \in Requests PROVE RecordedInv(r)'
  OBVIOUS
<1> USE DEF CompilationInv
<1>1. CASE Step(r)
  BY <1>1, RecordedInvOfStep DEF CompiledInv
<1>2. CASE ~Step(r) /\ Kept(r)
  BY <1>2, OthersDocs, RecordedKept
<1>3. CASE \E u \in Uploads : Arrive(r, u)
  <2>1. pc'[r] = "recv" /\ resp'[r] = resp[r] /\ pc[r] = "new"
    BY <1>3, ArrivalFiles DEF Base
  <2>2. resp[r] # 5
    BY <2>1, NoneAssumption DEF Base, Inv, AnswerInv, Codes
  <2> QED BY <2>1, <2>2 DEF RecordedInv
<1>4. CASE ArriveNotMultipart(r)
  <2>1. pc'[r] = "done" /\ resp'[r] = 500
    BY <1>4 DEF ArriveNotMultipart, Answer, Move, Base, Inv, TypeOK
  <2> QED BY <2>1 DEF RecordedInv
<1> QED BY <1>1, <1>2, <1>3, <1>4, OwnOrKept DEF Base

\* The script of a document is a script.
LEMMA DocumentScript ==
  ASSUME Inv, NEW v \in verified
  PROVE  nef[v.by] \in Scripts
<1>1. /\ v.updatecounter + 1 \in DOMAIN chain[Denotes[v.hash]]
      /\ chain[Denotes[v.hash]][v.updatecounter + 1] = nef[v.by]
      /\ v.hash \in Spellings
  BY DEF Inv, DocumentInv, TypeOK
<1>2. chain[Denotes[v.hash]] \in Seq(Scripts)
  BY <1>1, DenotesAssumption DEF Inv, TypeOK
<1> QED BY <1>1, <1>2

\* For a request answered with code 5, the documents of ContractSourceCode
\* that its own loop has inserted are, among the files of the program's kind,
\* exactly what was compiled to the script found on the chain.
THEOREM SourcesExplain ==
  ASSUME Undisturbed, Plain, AllSeen
  PROVE  Spec => []SourcesExplainVerdict
<1> DEFINE R == \A r \in Requests : RecordedInv(r)
<1>1. Init => R
  <2> SUFFICES ASSUME Init, NEW r \in Requests PROVE RecordedInv(r)
    OBVIOUS
  <2>1. pc[r] = "new" /\ resp[r] = None
    BY DEF Init
  <2> QED BY <2>1, NoneAssumption DEF RecordedInv, Codes
<1>2. CompilationInv /\ R /\ [Next]_vars => R'
  BY RecordedInvStep DEF Undisturbed, Spaced
<1>3. CompilationInv /\ R => SourcesExplainVerdict
  <2> SUFFICES ASSUME CompilationInv, R, NEW r \in Requests, resp[r] = 5
               PROVE  { <<s.fileName, s.code>> : s \in
                          { x \in source :
                              x.by = r /\ x.fileName.ext \in SourceExts(family(r)) } }
                      = { e \in nef[r].of : e[1].ext \in SourceExts(family(r)) }
    BY DEF SourcesExplainVerdict
  <2>1. nef[r] # None
    <3>1. /\ Document(r) \in verified /\ Document(r).by = r
          /\ DocumentInv(Document(r))
      BY DEF CompilationInv, Base, Inv, AnswerInv, Document
    <3>2. nef[r] \in Scripts
      BY <3>1, DocumentScript DEF CompilationInv, Base, Inv
    <3> QED BY <3>2, NoneAssumption
  <2>2. nef[r].of = OwnTree(r) /\ upload[r] \in Uploads
    BY <2>1, ScriptFields DEF CompilationInv, CompiledInv, ResultInv, Results
  <2>3. Recorded(r) = Program(r)
    BY DEF RecordedInv
  <2> QED BY <2>2, <2>3, ProgramOfTree DEF Recorded, Docs, OfProgram
<1> QED BY <1>1, <1>2, <1>3, CompilationInvariant, PTL DEF Spec
=============================================================================
