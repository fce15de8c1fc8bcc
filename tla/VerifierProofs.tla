--------------------------- MODULE VerifierProofs ---------------------------
(***************************************************************************)
(* Proofs about module Verifier, for any number of requests, any uploads,  *)
(* any scripts and contracts, all environment faults and all arrivals: the *)
(* invariant Inv is inductive, and from it follow TypeOK,                  *)
(* VerifiedMatchesChain and AnswersBacked.                                 *)
(***************************************************************************)
EXTENDS Verifier, SequenceTheorems, TLAPS

-----------------------------------------------------------------------------
(* Lemmas about the constant tables and the working directory.             *)

\* Whatever the two form fields say, what runs is an installed compiler.
LEMMA RunsAreCompilers ==
  ASSUME NEW v, NEW c
  PROVE  Runs(v, c) \subseteq Compilers
<1>1. \A x \in Activated(v) : <<x[2], "">> \in Compilers
  BY DEF Activated, Compilers, Installed
<1>2. (CSharpVersions \cap {v}) \X (NccsCommands \cap {c}) \subseteq Compilers
  BY DEF Compilers, Installed
<1>3. ({"neow3j", "neo-go"} \cap {v}) \X {""} \subseteq Compilers
  BY DEF Compilers, Installed
<1> QED BY <1>1, <1>2, <1>3 DEF Runs

\* A write without O_TRUNC leaves a text file.
LEMMA OverwriteIsContent ==
  ASSUME NEW old \in Content \cup {None}, NEW new \in Content
  PROVE  Overwrite(old, new) \in Content
<1>1. CASE old = None
  BY <1>1 DEF Overwrite
<1>2. CASE old # None
  <2>1. old \in Seq(Text) /\ new \in Seq(Text)
    BY <1>2 DEF Content
  <2>2. Len(old) \in Nat /\ Len(new) \in Nat
        /\ \A i \in 1 .. Len(old) : old[i] \in Text
    BY <2>1, LenProperties
  <2>3. \A i \in Len(new) + 1 .. Len(old) : old[i] \in Text
    BY <2>2
  <2>4. SubSeq(old, Len(new) + 1, Len(old)) \in Seq(Text)
    BY <2>2, <2>3, SubSeqProperties
  <2> QED BY <1>2, <2>1, <2>4, ConcatProperties DEF Overwrite, Content
<1> QED BY <1>1, <1>2

\* What os.Mkdir makes is a folder.
LEMMA EmptyFolderIsFolder == EmptyFolder \in Folders
BY DEF EmptyFolder, Folders, NoNef, NefFiles

\* The operations on folders keep the working directory well formed.
LEMMA CreateDateDirType ==
  ASSUME WorkdirTypeOK, NEW f \in Seconds, CreateDateDir(f)
  PROVE  dirs' \in [Seconds -> Folders \cup {None}]
BY EmptyFolderIsFolder DEF WorkdirTypeOK, CreateDateDir

\* os.RemoveAll leaves every other folder as it is.
LEMMA RemoveAllType ==
  ASSUME WorkdirTypeOK, NEW f \in Seconds, RemoveAll(f)
  PROVE  dirs' \in [Seconds -> Folders \cup {None}]
BY DEF WorkdirTypeOK, RemoveAll

\* A file put into a folder, at the top or in bin/sc, gives a folder.
LEMMA PutType ==
  ASSUME NEW d \in Folders
  PROVE  /\ \A n \in TextNames, c \in Content : PutText(d, n, c) \in Folders
         /\ \A b \in Bases, s \in Scripts \cup {Garbage} :
              PutNef(d, b, s) \in Folders /\ PutBin(d, b, s) \in Folders
BY DEF Folders, NefFiles, PutText, PutNef, PutBin

\* Saving a part of the form in the upload folder gives a folder.
LEMMA SaveFileType ==
  ASSUME WorkdirTypeOK, NEW f \in Seconds, NEW p \in Parts, SaveFile(f, p)
  PROVE  dirs' \in [Seconds -> Folders \cup {None}]
<1>1. CASE ~CanCreate(f, p.name)
  BY <1>1 DEF WorkdirTypeOK, SaveFile
<1>2. CASE CanCreate(f, p.name)
  <2>1. dirs[f] \in Folders
    BY <1>2 DEF WorkdirTypeOK, CanCreate
  <2>2. CASE p.name.ext = ".nef"
    <3>1. p.name.base \in Bases /\ p.data \in Scripts \cup {Garbage}
      BY <2>2 DEF Parts, NefNames, TextNames, TextExts
    <3>2. PutNef(dirs[f], p.name.base, p.data) \in Folders
      BY <2>1, <3>1, PutType
    <3> QED BY <1>2, <2>2, <3>2 DEF WorkdirTypeOK, SaveFile
  <2>3. CASE p.name.ext # ".nef"
    <3>1. p.name \in TextNames /\ p.data \in Content
      BY <2>3 DEF Parts, NefNames, TextNames, TextExts
    <3>2. dirs[f].src[p.name] \in Content \cup {None}
      BY <2>1, <3>1 DEF Folders
    <3>3. Overwrite(dirs[f].src[p.name], p.data) \in Content
      BY <3>1, <3>2, OverwriteIsContent
    <3>4. PutText(dirs[f], p.name, Overwrite(dirs[f].src[p.name], p.data))
            \in Folders
      BY <2>1, <3>1, <3>3, PutType
    <3> QED BY <1>2, <2>3, <3>4 DEF WorkdirTypeOK, SaveFile
  <2> QED BY <2>2, <2>3
<1> QED BY <1>1, <1>2

\* A part cut off by a lost connection is still a part.
LEMMA CutOffType ==
  ASSUME NEW p \in Parts
  PROVE  CutOff(p) \in Parts
<1>1. CASE p.name.ext = ".nef"
  <2>1. p.name \in NefNames /\ p = [name |-> p.name, data |-> p.data]
    BY <1>1 DEF Parts, NefNames, TextNames, TextExts
  <2> QED BY <1>1, <2>1 DEF CutOff, Parts
<1>2. CASE p.name.ext # ".nef"
  <2>1. p.name \in TextNames /\ p.data \in Seq(Text)
    BY <1>2 DEF Parts, NefNames, TextNames, TextExts, Content
  <2>2. Len(p.data) \in Nat /\ \A i \in 1 .. Len(p.data) : p.data[i] \in Text
    BY <2>1, LenProperties
  <2>3. \A i \in 1 .. Len(p.data) - 1 : p.data[i] \in Text
    BY <2>2
  <2>4. SubSeq(p.data, 1, Len(p.data) - 1) \in Seq(Text)
    BY <2>2, <2>3, SubSeqProperties
  <2>5. CutOff(p) = [p EXCEPT !.data = SubSeq(p.data, 1, Len(p.data) - 1)]
    BY <1>2 DEF CutOff, Parts
  <2>6. p \in [name : TextNames, data : Content]
    BY <1>2 DEF Parts, NefNames
  <2> QED BY <2>4, <2>5, <2>6 DEF Parts, Content
<1> QED BY <1>1, <1>2

\* A compiler's output gives a folder.
LEMMA WriteNefType ==
  ASSUME WorkdirTypeOK, NEW f \in Seconds, NEW b \in Bases,
         NEW s \in Scripts, NEW fam, WriteNef(f, fam, b, s)
  PROVE  dirs' \in [Seconds -> Folders \cup {None}]
<1>1. CASE dirs[f] = None \/ dirs' = dirs
  BY <1>1 DEF WorkdirTypeOK, WriteNef
<1>2. CASE dirs[f] # None /\ dirs' # dirs
  <2>1. dirs[f] \in Folders
    BY <1>2 DEF WorkdirTypeOK
  <2>2. PutNef(dirs[f], b, s) \in Folders /\ PutBin(dirs[f], b, s) \in Folders
    BY <2>1, PutType
  <2> QED BY <1>2, <2>2 DEF WorkdirTypeOK, WriteNef
<1> QED BY <1>1, <1>2

\* os.Rename takes the folder away under its time stamp and keeps the
\* contract hash it is now named after.
LEMMA RenameType ==
  ASSUME WorkdirTypeOK, NEW f \in Seconds, NEW c \in Spellings, Rename(f, c)
  PROVE  dirs' \in [Seconds -> Folders \cup {None}] /\ kept' \subseteq Spellings
BY DEF WorkdirTypeOK, Rename, CanRename

\* What a compiler or javaExec.sh reads from a folder is a source tree.
LEMMA TreeOfType ==
  ASSUME WorkdirTypeOK, NEW f \in Seconds, NEW exts
  PROVE  TreeOf(f, exts) \in Trees
<1>1. ASSUME dirs[f] # None PROVE dirs[f].src \in [TextNames -> Content \cup {None}]
  BY <1>1 DEF WorkdirTypeOK, Folders
<1> QED BY <1>1 DEF TreeOf, Trees
-----------------------------------------------------------------------------
(* Inv is inductive.                                                       *)


\* Before the node has answered a request has neither a document nor a code
\* 5 or 6: a step between such points, or to another answer, keeps Inv.
LEMMA EarlyStep ==
  ASSUME Inv, TypeOK', NEW r \in Requests,
         pc[r] \in Live \ Answered,
         UNCHANGED <<databaseVars, chain, upload, folder, nef, reply>>,
         \A q \in Requests \ {r} : pick'[q] = pick[q],
         \/ \E to \in (Live \ (Answered \cup {"rpc"})) \cup {"panic"} :
              /\ pc' = [pc EXCEPT ![r] = to]
              /\ resp' = resp
              /\ to = "stat" => pick'[r] \in Bases
         \/ \E code \in Codes \ {5, 6} :
              /\ pc' = [pc EXCEPT ![r] = "done"]
              /\ resp' = [resp EXCEPT ![r] = code]
  PROVE  Inv'
<1> USE DEF databaseVars
<1>1. \A q \in Requests : FormInv(q)'
  BY DEF Inv, TypeOK, FormInv, Live, Handling, Waiting, Scripted, Answered
<1>2. \A q \in Requests : ReplyInv(q)'
  BY DEF Inv, TypeOK, ReplyInv, Live, Handling, Waiting, Scripted, Answered, Compared,
         Matches, hash, counter
<1>3. \A q \in Requests : AnswerInv(q)'
  <2> SUFFICES ASSUME NEW q \in Requests PROVE AnswerInv(q)'
    OBVIOUS
  <2>1. /\ Document(q)' = Document(q)
        /\ IsVerified(hash(q), counter(q))' = IsVerified(hash(q), counter(q))
    BY DEF Document, IsVerified, hash, counter
  <2>2. AnswerInv(q) /\ AnswerInv(r)
    BY DEF Inv
  <2>3. CASE q # r
    BY <2>1, <2>2, <2>3 DEF Inv, TypeOK, AnswerInv
  <2>4. CASE q = r
    BY <2>1, <2>2, <2>4, NoneAssumption
       DEF Inv, TypeOK, AnswerInv, Live, Handling, Waiting, Scripted, Answered,
           Inserted, Codes
  <2> QED BY <2>3, <2>4
<1>4. \A v \in verified' : DocumentInv(v)'
  <2> SUFFICES ASSUME NEW v \in verified PROVE DocumentInv(v)'
    OBVIOUS
  <2>1. DocumentInv(v) /\ v.by \in Requests /\ AnswerInv(r)
    BY DEF Inv, TypeOK
  <2>2. v.by # r
    BY <2>1, NoneAssumption
       DEF DocumentInv, AnswerInv, Live, Handling, Waiting, Scripted, Answered,
           Inserted, Codes
  <2>3. Document(v.by)' = Document(v.by)
    BY DEF Document, hash, counter
  <2> QED BY <2>1, <2>2, <2>3 DEF Inv, TypeOK, DocumentInv
<1>5. \A s \in source' : SourceInv(s)'
  BY DEF Inv, SourceInv, Document, hash, counter
<1> QED BY <1>1, <1>2, <1>3, <1>4, <1>5 DEF Inv

\* A step of a handler before the node's answer, to another such point or
\* into a panic, keeps Inv.
LEMMA EarlyMove ==
  ASSUME Inv, TypeOK', NEW r \in Requests, NEW to,
         pc[r] \in Live \ Answered,
         to \in (Live \ (Answered \cup {"rpc", "stat"})) \cup {"panic"},
         pc' = [pc EXCEPT ![r] = to],
         UNCHANGED <<databaseVars, chain, upload, folder, nef, reply, pick, resp>>
  PROVE  Inv'
<1>1. \E x \in (Live \ (Answered \cup {"rpc"})) \cup {"panic"} :
        pc' = [pc EXCEPT ![r] = x] /\ resp' = resp
        /\ (x = "stat" => pick'[r] \in Bases)
  OBVIOUS
<1> QED BY <1>1, EarlyStep

\* The same for the step that chooses the .nef file of a Gradle build.
LEMMA EarlyPick ==
  ASSUME Inv, TypeOK', NEW r \in Requests, NEW b \in Bases,
         pc[r] \in Live \ Answered,
         pc' = [pc EXCEPT ![r] = "stat"],
         pick' = [pick EXCEPT ![r] = b],
         UNCHANGED <<databaseVars, chain, upload, folder, nef, reply, resp>>
  PROVE  Inv'
<1>1. /\ pick'[r] \in Bases
      /\ \A q \in Requests \ {r} : pick'[q] = pick[q]
  BY DEF Inv, TypeOK
<1>2. "stat" \in (Live \ (Answered \cup {"rpc"})) \cup {"panic"}
  BY DEF Live, Handling, Answered
<1>3. \E to \in (Live \ (Answered \cup {"rpc"})) \cup {"panic"} :
        /\ pc' = [pc EXCEPT ![r] = to]
        /\ resp' = resp
        /\ to = "stat" => pick'[r] \in Bases
  BY <1>1, <1>2
<1> QED BY <1>1, <1>3, EarlyStep

\* The same for an answer given before the node's, which is no verdict.
LEMMA EarlyAnswer ==
  ASSUME Inv, TypeOK', NEW r \in Requests, NEW code \in Codes \ {5, 6},
         pc[r] \in Live \ Answered,
         pc' = [pc EXCEPT ![r] = "done"],
         resp' = [resp EXCEPT ![r] = code],
         UNCHANGED <<databaseVars, chain, upload, folder, nef, reply, pick>>
  PROVE  Inv'
BY EarlyStep

\* The death of the process keeps Inv: documents stay, nobody is answered.
LEMMA KillStep ==
  ASSUME Inv, TypeOK', pc' = Killed,
         UNCHANGED <<databaseVars, chain, upload, folder, nef, reply, pick, resp>>
  PROVE  Inv'
<1> USE DEF databaseVars, Killed
<1>1. \A q \in Requests : FormInv(q)'
  BY DEF Inv, TypeOK, FormInv, Live, Handling, Waiting, Scripted, Settled
<1>2. \A q \in Requests : ReplyInv(q)'
  BY DEF Inv, TypeOK, ReplyInv, Live, Handling, Waiting, Scripted, Answered, Compared,
         Matches, hash, counter, Settled
<1>3. \A q \in Requests : AnswerInv(q)'
  <2> SUFFICES ASSUME NEW q \in Requests PROVE AnswerInv(q)'
    OBVIOUS
  <2>1. /\ Document(q)' = Document(q)
        /\ IsVerified(hash(q), counter(q))' = IsVerified(hash(q), counter(q))
    BY DEF Document, IsVerified, hash, counter
  <2>2. AnswerInv(q)
    BY DEF Inv
  <2> QED BY <2>1, <2>2
          DEF Inv, TypeOK, AnswerInv, Live, Handling, Waiting, Scripted, Inserted
<1>4. \A v \in verified' : DocumentInv(v)'
  BY DEF Inv, TypeOK, DocumentInv, Document, Live, Handling, Inserted,
         hash, counter
<1>5. \A s \in source' : SourceInv(s)'
  BY DEF Inv, SourceInv, Document, hash, counter
<1> QED BY <1>1, <1>2, <1>3, <1>4, <1>5 DEF Inv

-----------------------------------------------------------------------------
(* Receiving and building.                                                 *)

\* Receiving the form (the NextPart loop of multipleFile) keeps Inv.
LEMMA ReceiveInv ==
  ASSUME Inv, NEW r \in Requests, Receive(r)
  PROVE  Inv'
<1> USE DEF worldVars, localVars, workdirVars, javaVars, databaseVars, formVars,
            buildVars, sendVars
<1>1. pc[r] = "recv" /\ upload[r] \in Uploads /\ folder[r] \in Seconds
  BY DEF Inv, FormInv, Receive, SavePart, LastPart, ClientGone, Move, Live, Waiting
<1>2. upload[r].parts \in Seq(Parts) /\ got[r] \in Nat
  BY <1>1, UploadsAssumption DEF Forms, Inv, TypeOK
<1>3. got[r] < Len(upload[r].parts) => upload[r].parts[got[r] + 1] \in Parts
  BY <1>2, LenProperties
<1>4. dirs' \in [Seconds -> Folders \cup {None}]
  <2>1. CASE SavePart(r)
    BY <1>1, <1>3, <2>1, SaveFileType DEF SavePart, Inv, TypeOK
  <2>2. CASE LastPart(r)
    BY <2>2 DEF LastPart, Inv, TypeOK, WorkdirTypeOK
  <2>3. CASE ClientGone(r)
    <3>1. CASE UNCHANGED dirs
      BY <3>1 DEF Inv, TypeOK, WorkdirTypeOK
    <3>2. CASE /\ got[r] < Len(upload[r].parts)
               /\ SaveFile(folder[r], CutOff(upload[r].parts[got[r] + 1]))
      <4>1. upload[r].parts[got[r] + 1] \in Parts
        BY <1>3, <3>2
      <4>2. CutOff(upload[r].parts[got[r] + 1]) \in Parts
        BY <4>1, CutOffType
      <4> QED BY <1>1, <3>2, <4>2, SaveFileType DEF Inv, TypeOK
    <3> QED BY <2>3, <3>1, <3>2 DEF ClientGone
  <2> QED BY <2>1, <2>2, <2>3 DEF Receive
<1>5. TypeOK'
  <2> USE <1>4 DEF Move, Inv, TypeOK, WorkdirTypeOK, JavaTypeOK, Live, Handling,
                   Waiting, Settled
  <2>1. CASE SavePart(r)
    BY <2>1 DEF SavePart
  <2>2. CASE LastPart(r)
    BY <2>2 DEF LastPart
  <2>3. CASE ClientGone(r)
    BY <2>3 DEF ClientGone
  <2> QED BY <2>1, <2>2, <2>3 DEF Receive
<1> QED BY <1>1, <1>5, EarlyStep
        DEF Receive, SavePart, LastPart, ClientGone, Move, Live, Handling,
            Waiting, Answered

\* The commands of javaExec.sh keep the Gradle project well formed.
LEMMA JavaExecType ==
  ASSUME TypeOK, NEW r \in Requests, folder[r] \in Seconds,
         package(r) \in Packages \cup {""}, JavaExec(r)
  PROVE  JavaTypeOK'
<1> USE DEF TypeOK, JavaTypeOK
<1>1. CASE CleanBuilt
  BY <1>1 DEF CleanBuilt
<1>2. CASE RemoveGradle \/ CopyGradle(package(r), folder[r])
  <2>1. dirs[folder[r]] # None =>
          dirs[folder[r]].src \in [TextNames -> Content \cup {None}]
    BY DEF WorkdirTypeOK, Folders
  <2>2. GradleName \in TextNames
    BY BasesAssumption DEF GradleName, TextNames, TextExts
  <2> QED BY <1>2, <2>1, <2>2 DEF RemoveGradle, CopyGradle
<1>3. CASE WipeSources
  BY <1>3 DEF WipeSources, Trees
<1>4. CASE MakePackage(package(r))
  BY <1>4 DEF MakePackage
<1>5. CASE CopySources(package(r), folder[r])
  <2>1. CopiedFrom(package(r), folder[r], {".java"}) \in Trees
    BY TreeOfType DEF CopiedFrom, Trees
  <2> QED BY <1>5, <2>1 DEF CopySources, Trees
<1> QED BY <1>1, <1>2, <1>3, <1>4, <1>5 DEF JavaExec

\* What Gradle reads is a tree of text files.
LEMMA GradleTreeType ==
  ASSUME TypeOK
  PROVE  GradleTree \in Trees
<1>1. GradleName \in TextNames
  BY BasesAssumption DEF GradleName, TextNames, TextExts
<1>2. {buildGradle} \ {None} \subseteq Content
  BY DEF TypeOK, JavaTypeOK
<1>3. \A q \in Packages : javaSrc[q] \subseteq TextNames \X Content
  BY DEF TypeOK, JavaTypeOK, Trees
<1>4. UNION { javaSrc[q] : q \in Packages } \subseteq TextNames \X Content
  BY <1>3
<1>5. { <<GradleName, c>> : c \in {buildGradle} \ {None} }
        \subseteq TextNames \X Content
  BY <1>1, <1>2
<1>6. GradleTree \subseteq TextNames \X Content
  BY <1>4, <1>5 DEF GradleTree
<1> QED BY <1>6 DEF Trees

\* javaExec.sh, Gradle and the other compilers keep Inv.
LEMMA BuildInv ==
  ASSUME Inv, NEW r \in Requests, Build(r)
  PROVE  Inv'
<1> USE DEF worldVars, localVars, workdirVars, javaVars, databaseVars, formVars,
            buildVars, sendVars
<1>1. /\ pc[r] \in Scripted \cup {"compile"}
      /\ upload[r] \in Uploads /\ folder[r] \in Seconds
  BY DEF Inv, FormInv, Build, JavaExec, RunGradle, CompileSucceeds,
         CompileFails, Move, Live, Waiting, Scripted
<1>2. package(r) \in Packages \cup {""}
  BY <1>1, UploadsAssumption DEF Forms, package
<1>3. CASE JavaExec(r)
  <2>1. JavaTypeOK'
    BY <1>1, <1>2, <1>3, JavaExecType DEF Inv
  <2>2. TypeOK'
    BY <1>3, <2>1 DEF JavaExec, Move, Inv, TypeOK, WorkdirTypeOK, Live,
       Waiting, Scripted
  <2> QED BY <1>1, <1>3, <2>2, EarlyStep
          DEF JavaExec, Move, Live, Handling, Waiting, Scripted, Answered
<1>4. CASE RunGradle(r)
  <2>1. TypeOK'
    BY <1>4, GradleTreeType DEF RunGradle, Move, Inv, TypeOK, WorkdirTypeOK,
       JavaTypeOK, Live, Handling, Waiting
  <2> QED BY <1>1, <1>4, <2>1, EarlyStep
          DEF RunGradle, Move, Live, Handling, Waiting, Scripted, Answered
<1>5. CASE CompileSucceeds(r)
  <2>1. PICK c \in compilers(r), b \in OutputBases(r) :
          IF family(r) = "java"
          THEN WriteBuilt(b, Script(c, seen[r])) /\ UNCHANGED dirs
          ELSE /\ WriteNef(folder[r], family(r), b, Script(c, seen[r]))
               /\ UNCHANGED javaVars
    BY <1>5 DEF CompileSucceeds
  <2>2. Script(c, seen[r]) \in Scripts
    BY RunsAreCompilers DEF compilers, Script, Scripts, Inv, TypeOK
  <2>3. b \in Bases
    BY BasesAssumption DEF OutputBases, Inv, TypeOK, Trees, TextNames
  <2>4. dirs' \in [Seconds -> Folders \cup {None}] /\ JavaTypeOK'
    <3>1. CASE family(r) = "java"
      BY <2>1, <2>2, <2>3, <3>1
         DEF WriteBuilt, Inv, TypeOK, WorkdirTypeOK, JavaTypeOK
    <3>2. CASE family(r) # "java"
      BY <1>1, <2>1, <2>2, <2>3, <3>2, WriteNefType
         DEF Inv, TypeOK, JavaTypeOK
    <3> QED BY <3>1, <3>2
  <2>5. TypeOK'
    BY <1>5, <2>4 DEF CompileSucceeds, Move, Inv, TypeOK, WorkdirTypeOK, Live,
       Handling
  <2>6. /\ pc[r] = "compile"
        /\ pc' = [pc EXCEPT ![r] = "look"]
        /\ UNCHANGED <<databaseVars, chain, upload, folder, nef, reply, pick, resp>>
    BY <1>5 DEF CompileSucceeds, Move
  <2> QED BY <2>5, <2>6, EarlyMove
          DEF Live, Handling, Waiting, Answered
<1>6. CASE CompileFails(r)
  <2>1. TypeOK'
    BY <1>6 DEF CompileFails, Move, Inv, TypeOK, WorkdirTypeOK, JavaTypeOK,
       Live, Handling
  <2>2. /\ pc[r] = "compile"
        /\ pc' = [pc EXCEPT ![r] = "look"]
        /\ UNCHANGED <<databaseVars, chain, upload, folder, nef, reply, pick, resp>>
    BY <1>6 DEF CompileFails, Move
  <2> QED BY <2>1, <2>2, EarlyMove
          DEF Live, Handling, Waiting, Answered
<1> QED BY <1>3, <1>4, <1>5, <1>6 DEF Build

-----------------------------------------------------------------------------
(* Finding the .nef file and asking the node.                              *)

\* A request that has not inserted is the author of nothing in the database.
LEMMA NoDocument ==
  ASSUME Inv, NEW r \in Requests, pc[r] \notin Inserted \cup {"dead"},
         resp[r] # 5
  PROVE  /\ \A v \in verified : v.by # r
         /\ \A s \in source : s.by # r
<1>1. \A v \in verified : v.by # r
  BY DEF Inv, DocumentInv
<1>2. \A s \in source : Document(s.by) \in verified
  BY DEF Inv, SourceInv
<1> QED BY <1>1, <1>2 DEF Document

\* A step of a request that is the author of nothing, and that stays so,
\* leaves the documents in order, whatever it does to its own variables.
LEMMA OthersDocuments ==
  ASSUME Inv, NEW r \in Requests, pc[r] \notin Inserted \cup {"dead"},
         resp[r] # 5,
         UNCHANGED <<databaseVars, chain>>,
         \A q \in Requests \ {r} :
           /\ pc'[q] = pc[q] /\ resp'[q] = resp[q] /\ upload'[q] = upload[q]
           /\ reply'[q] = reply[q] /\ nef'[q] = nef[q]
  PROVE  /\ \A v \in verified' : DocumentInv(v)'
         /\ \A s \in source' : SourceInv(s)'
<1> USE DEF databaseVars
<1>1. /\ \A v \in verified : v.by \in Requests \ {r}
      /\ \A s \in source : s.by \in Requests \ {r}
  BY NoDocument DEF Inv, TypeOK
<1>2. \A q \in Requests \ {r} : Document(q)' = Document(q)
  BY DEF Document, hash, counter
<1>3. ASSUME NEW v \in verified PROVE DocumentInv(v)'
  BY <1>1, <1>2 DEF Inv, DocumentInv
<1>4. ASSUME NEW x \in source PROVE SourceInv(x)'
  BY <1>1, <1>2 DEF Inv, SourceInv, hash, counter
<1> QED BY <1>3, <1>4

\* The other requests' part of Inv is not touched by such a step either.
LEMMA OthersInv ==
  ASSUME Inv, NEW r \in Requests, NEW q \in Requests \ {r},
         UNCHANGED <<databaseVars, chain>>,
         pc'[q] = pc[q], resp'[q] = resp[q], upload'[q] = upload[q],
         reply'[q] = reply[q], nef'[q] = nef[q], folder'[q] = folder[q],
         pick'[q] = pick[q]
  PROVE  FormInv(q)' /\ ReplyInv(q)' /\ AnswerInv(q)'
<1> USE DEF databaseVars
<1>1. /\ Document(q)' = Document(q)
      /\ IsVerified(hash(q), counter(q))' = IsVerified(hash(q), counter(q))
  BY DEF Document, IsVerified, hash, counter
<1>2. FormInv(q)' /\ ReplyInv(q)'
  BY DEF Inv, FormInv, ReplyInv, Matches, hash, counter
<1>3. AnswerInv(q)'
  BY <1>1 DEF Inv, AnswerInv
<1> QED BY <1>2, <1>3

\* A .nef file that reads is a script.
LEMMA ReadResultType ==
  ASSUME Inv, NEW r \in Requests, folder[r] \in Seconds, NEW x \in ReadResult(r)
  PROVE  x \in Scripts
<1>1. /\ dirs[folder[r]] \in Folders \cup {None}
      /\ built \in [Bases -> Scripts \cup {None}]
      /\ pick[r] \in Bases \cup {None}
  BY DEF Inv, TypeOK, WorkdirTypeOK, JavaTypeOK
<1>2. \A place : NefAt(r, place) \in NefFiles
  BY <1>1 DEF NefAt, NoNef, NefFiles, Folders
<1>3. ASSUME NEW files \in NefFiles, x \in { files[b] : b \in FirstNef(files) },
             x # Garbage
      PROVE  x \in Scripts
  BY <1>3 DEF NefFiles, FirstNef
<1>4. CASE x \in { built[b] : b \in {pick[r]} \ {None} } \ {None}
  BY <1>1, <1>4
<1> QED BY <1>2, <1>3, <1>4 DEF ReadResult

\* Reading the .nef file (the end of execCommand) keeps Inv.
LEMMA ReadNefInv ==
  ASSUME Inv, NEW r \in Requests, ReadNef(r)
  PROVE  Inv'
<1> USE DEF worldVars, localVars, workdirVars, javaVars, databaseVars, formVars, sendVars
<1>1. /\ pc[r] = "read" /\ pc' = [pc EXCEPT ![r] = "rpc"]
      /\ UNCHANGED <<dirs, now, kept, javaVars, databaseVars, chain, upload,
                     folder, got, seen, pick, reply, todo, up, resp>>
  BY DEF ReadNef, Move
<1>2. folder[r] \in Seconds /\ upload[r] \in Uploads
  BY <1>1 DEF Inv, FormInv, Live, Handling
<1>3. PICK x \in ReadResult(r) : nef' = [nef EXCEPT ![r] = x]
  BY DEF ReadNef
<1>4. x \in Scripts
  BY <1>2, <1>3, ReadResultType
<1>5. TypeOK'
  BY <1>1, <1>3, <1>4 DEF Inv, TypeOK, WorkdirTypeOK, JavaTypeOK, Live, Waiting
<1>6. resp[r] = None /\ resp[r] # 5 /\ resp[r] # 6
  BY <1>1, NoneAssumption DEF Inv, AnswerInv, Codes
<1>7. FormInv(r)' /\ ReplyInv(r)' /\ AnswerInv(r)'
  BY <1>1, <1>2, <1>3, <1>4, <1>6
     DEF Inv, TypeOK, FormInv, ReplyInv, AnswerInv, Live, Handling, Waiting,
         Answered, Compared, Inserted
<1>8. \A q \in Requests \ {r} : FormInv(q)' /\ ReplyInv(q)' /\ AnswerInv(q)'
  BY <1>1, <1>3, OthersInv DEF Inv, TypeOK
<1>9. (\A v \in verified' : DocumentInv(v)') /\ (\A s \in source' : SourceInv(s)')
  BY <1>1, <1>3, <1>6, OthersDocuments DEF Inserted, Inv, TypeOK
<1> QED BY <1>5, <1>7, <1>8, <1>9 DEF Inv

\* The node's answer agrees with the chain when it is given; it can only name
\* a version that the contract has had.
LEMMA NodeReplyInv ==
  ASSUME Inv, NEW r \in Requests, NodeAnswers(r) \/ NodeBlank(r)
  PROVE  Inv'
<1> USE DEF worldVars, localVars, workdirVars, javaVars, databaseVars, formVars,
            buildVars, sendVars
<1>1. /\ pc[r] = "rpc" /\ pc' = [pc EXCEPT ![r] = "cmp"]
      /\ UNCHANGED <<dirs, now, kept, javaVars, databaseVars, chain, upload,
                     folder, got, seen, pick, nef, todo, up, resp>>
  BY DEF NodeAnswers, NodeBlank, Move
<1>2. folder[r] \in Seconds /\ upload[r] \in Uploads /\ hash(r) \in Spellings
  BY <1>1, UploadsAssumption DEF Inv, FormInv, Live, Waiting, Forms, hash
<1>3. PICK s \in Scripts \cup {None}, k \in Nat :
        /\ reply' = [reply EXCEPT ![r] = [nef |-> s, counter |-> k]]
        /\ s # None => /\ k + 1 \in DOMAIN chain[Denotes[hash(r)]]
                       /\ chain[Denotes[hash(r)]][k + 1] = s
  <2>1. CASE NodeAnswers(r)
    <3>1. chain[Denotes[hash(r)]] \in Seq(Scripts) /\ chain[Denotes[hash(r)]] # <<>>
      BY <1>2, <2>1, DenotesAssumption DEF NodeAnswers, Inv, TypeOK
    <3> DEFINE n == Len(chain[Denotes[hash(r)]])
    <3>2. n \in Nat /\ n # 0 /\ DOMAIN chain[Denotes[hash(r)]] = 1 .. n
          /\ chain[Denotes[hash(r)]][n] \in Scripts
      BY <3>1, LenProperties, EmptySeq
    <3>3. n - 1 \in Nat /\ (n - 1) + 1 = n
      BY <3>2
    <3>4. reply' = [reply EXCEPT ![r] =
                      [nef |-> chain[Denotes[hash(r)]][n], counter |-> n - 1]]
      BY <2>1 DEF NodeAnswers, UpdateCounter
    <3>5. /\ n - 1 + 1 \in DOMAIN chain[Denotes[hash(r)]]
          /\ chain[Denotes[hash(r)]][n - 1 + 1] = chain[Denotes[hash(r)]][n]
      BY <3>2, <3>3
    <3> HIDE DEF n
    <3> USE <3>2, <3>3
    <3> WITNESS chain[Denotes[hash(r)]][n] \in Scripts \cup {None}, n - 1 \in Nat
    <3> QED BY <3>4, <3>5
  <2>2. CASE NodeBlank(r)
    BY <2>2 DEF NodeBlank
  <2> QED BY <2>1, <2>2
<1>4. TypeOK'
  BY <1>1, <1>3 DEF Inv, TypeOK, WorkdirTypeOK, JavaTypeOK, Live, Handling
<1>5. resp[r] = None /\ resp[r] # 5 /\ resp[r] # 6
  BY <1>1, NoneAssumption DEF Inv, AnswerInv, Codes
<1>6. reply'[r] = [nef |-> s, counter |-> k] /\ hash(r)' = hash(r)
      /\ counter(r)' = k
  BY <1>1, <1>3 DEF Inv, TypeOK, hash, counter
<1>7. FormInv(r)' /\ ReplyInv(r)' /\ AnswerInv(r)'
  BY <1>1, <1>2, <1>3, <1>5, <1>6
     DEF Inv, TypeOK, FormInv, ReplyInv, AnswerInv, Live, Handling, Waiting,
         Answered, Compared, Inserted
<1>8. \A q \in Requests \ {r} : FormInv(q)' /\ ReplyInv(q)' /\ AnswerInv(q)'
  BY <1>1, <1>3, OthersInv DEF Inv, TypeOK
<1>9. (\A v \in verified' : DocumentInv(v)') /\ (\A x \in source' : SourceInv(x)')
  BY <1>1, <1>3, <1>5, OthersDocuments DEF Inserted, Inv, TypeOK
<1> QED BY <1>4, <1>7, <1>8, <1>9 DEF Inv

\* The answers 0, 1, 3 and 4, after which the folder is removed.
LEMMA RemovingAnswerInv ==
  ASSUME Inv, NEW r \in Requests,
         UnknownVersion(r) \/ StartFails(r) \/ NodeFails(r)
  PROVE  Inv'
<1> USE DEF worldVars, localVars, workdirVars, javaVars, databaseVars, formVars,
            buildVars, sendVars
<1>1. /\ pc[r] \in {"exec", "rpc"}
      /\ pc' = [pc EXCEPT ![r] = "done"]
      /\ RemoveAll(folder[r])
      /\ UNCHANGED <<now, kept, javaVars, databaseVars, chain, upload, folder,
                     got, seen, pick, nef, reply, todo, up>>
  BY DEF UnknownVersion, StartFails, NodeFails, Answer, Move
<1>2. PICK code \in {0, 1, 3, 4} : resp' = [resp EXCEPT ![r] = code]
  BY DEF UnknownVersion, StartFails, NodeFails, Answer
<1>3. folder[r] \in Seconds
  BY <1>1 DEF Inv, FormInv, Live, Handling, Waiting
<1>4. dirs' \in [Seconds -> Folders \cup {None}]
  BY <1>1, <1>3, RemoveAllType DEF Inv, TypeOK
<1>5. TypeOK'
  BY <1>1, <1>2, <1>4 DEF Inv, TypeOK, WorkdirTypeOK, JavaTypeOK, Settled, Codes
<1>6. code \in Codes \ {5, 6} /\ pc[r] \in Live \ Answered
  BY <1>1 DEF Codes, Live, Handling, Waiting, Answered
<1> QED BY <1>1, <1>2, <1>5, <1>6, EarlyAnswer

\* Starting a compiler keeps Inv.
LEMMA StartInv ==
  ASSUME Inv, NEW r \in Requests,
         StartNothing(r) \/ StartCompiler(r) \/ StartJavaExec(r)
  PROVE  Inv'
<1> USE DEF worldVars, localVars, workdirVars, javaVars, databaseVars, formVars,
            buildVars, sendVars
<1>1. /\ pc[r] = "exec"
      /\ UNCHANGED <<dirs, now, kept, javaVars, databaseVars, chain, upload,
                     folder, got, pick, nef, reply, todo, up, resp>>
  BY DEF StartNothing, StartCompiler, StartJavaExec, Move
<1>2. PICK to \in {"look", "compile", "jclean"} : pc' = [pc EXCEPT ![r] = to]
  BY DEF StartNothing, StartCompiler, StartJavaExec, Move
<1>3. folder[r] \in Seconds
  BY <1>1 DEF Inv, FormInv, Live, Handling
<1>4. seen' \in [Requests -> Trees]
  <2>1. TreeOf(folder[r], SourceExts(family(r))) \in Trees
    BY <1>3, TreeOfType DEF Inv, TypeOK
  <2> QED BY <2>1 DEF StartNothing, StartCompiler, StartJavaExec, Inv, TypeOK
<1>5. TypeOK'
  BY <1>1, <1>2, <1>4 DEF Inv, TypeOK, WorkdirTypeOK, JavaTypeOK, Live,
     Handling, Waiting, Scripted
<1>6. /\ to \in (Live \ (Answered \cup {"rpc", "stat"})) \cup {"panic"}
      /\ pc[r] \in Live \ Answered
  BY <1>1 DEF Live, Handling, Waiting, Scripted, Answered
<1> QED BY <1>1, <1>2, <1>5, <1>6, EarlyMove

\* Looking for the .nef file keeps Inv, with code 2 or without.
LEMMA LookInv ==
  ASSUME Inv, NEW r \in Requests,
         LookForNef(r) \/ PickJavaNef(r) \/ StatJavaNef(r)
  PROVE  Inv'
<1> USE DEF worldVars, localVars, workdirVars, javaVars, databaseVars, formVars,
            buildVars, sendVars
<1>1. /\ pc[r] \in {"look", "stat"}
      /\ UNCHANGED <<dirs, now, kept, javaVars, databaseVars, chain, upload,
                     folder, got, seen, nef, reply, todo, up>>
  BY DEF LookForNef, PickJavaNef, StatJavaNef, Answer, Move
<1>2. pc[r] \in Live \ Answered
  BY <1>1 DEF Live, Handling, Answered
<1>3. CASE pc' = [pc EXCEPT ![r] = "done"] /\ resp' = [resp EXCEPT ![r] = 2]
           /\ UNCHANGED pick
  <2>1. TypeOK'
    BY <1>1, <1>3 DEF Inv, TypeOK, WorkdirTypeOK, JavaTypeOK, Settled, Codes
  <2>2. 2 \in Codes \ {5, 6}
    BY DEF Codes
  <2>3. PICK code \in Codes \ {5, 6} : resp' = [resp EXCEPT ![r] = code]
    BY <1>3, <2>2
  <2> QED BY <1>1, <1>2, <1>3, <2>1, <2>3, EarlyAnswer
<1>4. CASE pc' = [pc EXCEPT ![r] = "read"] /\ UNCHANGED <<pick, resp>>
  <2>1. TypeOK'
    BY <1>1, <1>4 DEF Inv, TypeOK, WorkdirTypeOK, JavaTypeOK, Live, Handling
  <2>2. "read" \in (Live \ (Answered \cup {"rpc", "stat"})) \cup {"panic"}
    BY DEF Live, Handling, Answered
  <2> QED BY <1>1, <1>2, <1>4, <2>1, <2>2, EarlyMove
<1>5. CASE /\ pc' = [pc EXCEPT ![r] = "stat"] /\ UNCHANGED resp
           /\ \E b \in Bases : pick' = [pick EXCEPT ![r] = b]
  <2>1. TypeOK'
    BY <1>1, <1>5 DEF Inv, TypeOK, WorkdirTypeOK, JavaTypeOK, Live, Handling
  <2>2. PICK b \in Bases : pick' = [pick EXCEPT ![r] = b]
    BY <1>5
  <2> QED BY <1>1, <1>2, <1>5, <2>1, <2>2, EarlyPick
<1> QED BY <1>3, <1>4, <1>5
        DEF LookForNef, PickJavaNef, StatJavaNef, Answer, Move, FirstNef

\* log.Fatal on an unreadable .nef file or a lost database keeps Inv.
LEMMA ReadNefFatalInv ==
  ASSUME Inv, NEW r \in Requests, ReadNefFatal(r) \/ ConnectFatal(r)
  PROVE  Inv'
<1> USE DEF worldVars, localVars, workdirVars, javaVars, databaseVars, formVars, buildVars
<1>1. /\ pc' = Killed /\ up' = FALSE
      /\ UNCHANGED <<dirs, now, kept, javaVars, databaseVars, chain, upload,
                     folder, got, seen, pick, nef, reply, todo, resp>>
  BY DEF ReadNefFatal, ConnectFatal, Fatal
<1>2. TypeOK'
  BY <1>1 DEF Killed, Inv, TypeOK, WorkdirTypeOK, JavaTypeOK, Settled
<1> QED BY <1>1, <1>2, KillStep

-----------------------------------------------------------------------------
(* Comparing and recording.                                                *)

\* A step after the node's answer that only moves on keeps Inv if it respects
\* the three tests: equal scripts, document found, sources all recorded.
LEMMA LateMove ==
  ASSUME Inv, TypeOK', NEW r \in Requests, NEW to \in Compared,
         pc[r] \in Answered,
         pc' = [pc EXCEPT ![r] = to],
         UNCHANGED <<databaseVars, chain, upload, folder, nef, reply, pick, resp>>,
         pc[r] = "cmp" => Matches(r),
         to \in Inserted <=> pc[r] \in Inserted,
         to = "dup" => IsVerified(hash(r), counter(r))
  PROVE  Inv'
<1> USE DEF databaseVars
<1>1. /\ Document(r)' = Document(r) /\ hash(r)' = hash(r)
      /\ counter(r)' = counter(r) /\ Matches(r)' = Matches(r)
      /\ IsVerified(hash(r), counter(r))' = IsVerified(hash(r), counter(r))
  BY DEF Document, IsVerified, hash, counter, Matches
<1>2. FormInv(r)' /\ ReplyInv(r)'
  BY <1>1 DEF Inv, TypeOK, FormInv, ReplyInv, Live, Handling, Answered, Compared
<1>3. AnswerInv(r)'
  BY <1>1, NoneAssumption
     DEF Inv, TypeOK, AnswerInv, Answered, Compared, Inserted, Codes
<1>4. \A q \in Requests \ {r} : FormInv(q)' /\ ReplyInv(q)' /\ AnswerInv(q)'
  BY OthersInv DEF Inv, TypeOK
<1>5. \A v \in verified' : DocumentInv(v)'
  <2> SUFFICES ASSUME NEW v \in verified PROVE DocumentInv(v)'
    OBVIOUS
  <2>1. DocumentInv(v) /\ v.by \in Requests /\ AnswerInv(r)
    BY DEF Inv, TypeOK
  <2>2. Document(v.by)' = Document(v.by)
    BY DEF Document, hash, counter
  <2>3. v.by = r => pc[r] \in Inserted
    BY <2>1, NoneAssumption DEF DocumentInv, AnswerInv, Answered, Codes
  <2> QED BY <2>1, <2>2, <2>3 DEF Inv, TypeOK, DocumentInv
<1>6. \A s \in source' : SourceInv(s)'
  BY DEF Inv, SourceInv, Document, hash, counter
<1> QED BY <1>2, <1>3, <1>4, <1>5, <1>6 DEF Inv

\* An answer given after the node's keeps Inv if it is no verdict, or if the
\* document it speaks of is there.
LEMMA LateAnswer ==
  ASSUME Inv, TypeOK', NEW r \in Requests, NEW code \in Codes,
         pc[r] \in Answered,
         pc' = [pc EXCEPT ![r] = "done"],
         resp' = [resp EXCEPT ![r] = code],
         UNCHANGED <<databaseVars, chain, upload, folder, nef, reply, pick>>,
         code = 5 <=> pc[r] \in Inserted,
         code = 6 => pc[r] = "dup"
  PROVE  Inv'
<1> USE DEF databaseVars
<1>1. /\ Document(r)' = Document(r)
      /\ IsVerified(hash(r), counter(r))' = IsVerified(hash(r), counter(r))
  BY DEF Document, IsVerified, hash, counter
<1>2. FormInv(r)' /\ ReplyInv(r)'
  BY DEF Inv, TypeOK, FormInv, ReplyInv, Live, Handling, Waiting, Scripted,
         Answered, Compared
<1>3. AnswerInv(r)'
  BY <1>1, NoneAssumption
     DEF Inv, TypeOK, AnswerInv, Answered, Inserted
<1>4. \A q \in Requests \ {r} : FormInv(q)' /\ ReplyInv(q)' /\ AnswerInv(q)'
  BY OthersInv DEF Inv, TypeOK
<1>5. \A v \in verified' : DocumentInv(v)'
  <2> SUFFICES ASSUME NEW v \in verified PROVE DocumentInv(v)'
    OBVIOUS
  <2>1. DocumentInv(v) /\ v.by \in Requests /\ AnswerInv(r)
    BY DEF Inv, TypeOK
  <2>2. Document(v.by)' = Document(v.by)
    BY DEF Document, hash, counter
  <2>3. v.by = r => pc[r] \in Inserted
    BY <2>1, NoneAssumption DEF DocumentInv, AnswerInv, Answered, Codes
  <2> QED BY <2>1, <2>2, <2>3 DEF Inv, TypeOK, DocumentInv
<1>6. \A s \in source' : SourceInv(s)'
  BY DEF Inv, SourceInv, Document, hash, counter
<1> QED BY <1>2, <1>3, <1>4, <1>5, <1>6 DEF Inv

\* The comparison, the lookup in VerifyContractModel and code 6 keep Inv.
LEMMA CompareInv ==
  ASSUME Inv, NEW r \in Requests,
         Mismatch(r) \/ Connect(r) \/ FindVerified(r) \/ AlreadyVerified(r)
  PROVE  Inv'
<1> USE DEF worldVars, localVars, workdirVars, javaVars, databaseVars, formVars,
            buildVars, sendVars
<1>1. UNCHANGED <<now, kept, javaVars, databaseVars, chain, upload, folder, got,
                  seen, pick, nef, reply, todo, up>>
  BY DEF Mismatch, Connect, FindVerified, AlreadyVerified
<1>2. CASE Mismatch(r)
  <2>1. TypeOK'
    BY <1>1, <1>2 DEF Mismatch, Answer, Move, Inv, TypeOK, WorkdirTypeOK,
       JavaTypeOK, Settled, Codes
  <2>2. /\ pc[r] \in Answered \ Inserted
        /\ pc' = [pc EXCEPT ![r] = "done"]
        /\ UNCHANGED dirs
    BY <1>2 DEF Mismatch, Answer, Move, Answered, Inserted
  <2>3. 8 \in Codes \ {5, 6}
    BY DEF Codes
  <2>4. PICK code \in Codes \ {5, 6} : resp' = [resp EXCEPT ![r] = code]
    BY <1>2, <2>3 DEF Mismatch, Answer
  <2> QED BY <1>1, <2>1, <2>2, <2>4, LateAnswer
<1>3. CASE Connect(r)
  <2>1. TypeOK'
    BY <1>1, <1>3 DEF Connect, Move, Inv, TypeOK, WorkdirTypeOK, JavaTypeOK,
       Live, Handling
  <2>2. "find" \in Compared /\ "find" \notin Inserted
    BY DEF Compared, Inserted
  <2> QED BY <1>1, <1>3, <2>1, <2>2, LateMove
          DEF Connect, Move, Answered, Inserted
<1>4. CASE FindVerified(r)
  <2>1. PICK to \in {"dup", "ins"} :
          /\ pc[r] = "find" /\ pc' = [pc EXCEPT ![r] = to]
          /\ to = "dup" => IsVerified(hash(r), counter(r))
    BY <1>4 DEF FindVerified, Move
  <2>2. TypeOK'
    BY <1>1, <1>4, <2>1 DEF FindVerified, Inv, TypeOK, WorkdirTypeOK,
       JavaTypeOK, Live, Handling
  <2>3. to \in Compared /\ pc[r] \in Answered
        /\ to \notin Inserted /\ pc[r] \notin Inserted /\ pc[r] # "cmp"
    BY <2>1 DEF Compared, Inserted, Answered
  <2> QED BY <1>1, <1>4, <2>1, <2>2, <2>3, LateMove DEF FindVerified
<1>5. CASE AlreadyVerified(r)
  <2>1. folder[r] \in Seconds
    BY <1>5 DEF AlreadyVerified, Answer, Move, Inv, FormInv, Live, Handling
  <2>2. dirs' \in [Seconds -> Folders \cup {None}]
    BY <1>5, <2>1, RemoveAllType DEF AlreadyVerified, Inv, TypeOK
  <2>3. TypeOK'
    BY <1>1, <1>5, <2>2 DEF AlreadyVerified, Answer, Move, Inv, TypeOK,
       WorkdirTypeOK, JavaTypeOK, Settled, Codes
  <2>4. /\ pc[r] = "dup" /\ pc[r] \in Answered \ Inserted
        /\ pc' = [pc EXCEPT ![r] = "done"]
    BY <1>5 DEF AlreadyVerified, Answer, Move, Answered, Inserted
  <2>5. PICK code \in Codes : code # 5 /\ resp' = [resp EXCEPT ![r] = code]
    BY <1>5 DEF AlreadyVerified, Answer, Codes
  <2> QED BY <1>1, <2>3, <2>4, <2>5, LateAnswer
<1> QED BY <1>2, <1>3, <1>4, <1>5

\* Listing the upload folder keeps Inv.
LEMMA ListInv ==
  ASSUME Inv, NEW r \in Requests, ListSources(r)
  PROVE  Inv'
<1> USE DEF worldVars, localVars, workdirVars, javaVars, databaseVars, formVars,
            buildVars, sendVars
<1>1. Entries(r) \subseteq TextNames \cup NefNames
  BY DEF Entries
<1>2. TypeOK'
  BY <1>1 DEF ListSources, Move, Inv, TypeOK, WorkdirTypeOK, JavaTypeOK, Live,
     Handling
<1> QED BY <1>2, LateMove DEF ListSources, Move, Answered, Compared, Inserted

\* Code 5, with the rename before it, keeps Inv.
LEMMA FinishInv ==
  ASSUME Inv, NEW r \in Requests, Finish(r)
  PROVE  Inv'
<1> USE DEF worldVars, localVars, workdirVars, javaVars, databaseVars, formVars,
            buildVars, sendVars
<1>1. folder[r] \in Seconds /\ upload[r] \in Uploads
  BY DEF Finish, Answer, Move, Inv, FormInv, Live, Handling
<1>2. hash(r) \in Spellings
  BY <1>1, UploadsAssumption DEF Forms, hash
<1>3. dirs' \in [Seconds -> Folders \cup {None}] /\ kept' \subseteq Spellings
  BY <1>1, <1>2, RenameType DEF Finish, Inv, TypeOK
<1>4. TypeOK'
  BY <1>3 DEF Finish, Answer, Move, Inv, TypeOK, WorkdirTypeOK, JavaTypeOK,
     Settled, Codes
<1>5. /\ pc[r] \in Answered /\ pc[r] \in Inserted
      /\ pc' = [pc EXCEPT ![r] = "done"]
      /\ UNCHANGED <<databaseVars, chain, upload, folder, nef, reply, pick>>
  BY DEF Finish, Answer, Move, Answered, Inserted
<1>6. PICK code \in Codes : code = 5 /\ code # 6
                           /\ resp' = [resp EXCEPT ![r] = code]
  BY DEF Finish, Answer, Codes
<1> QED BY <1>4, <1>5, <1>6, LateAnswer

\* Where requests stand after a step that may have ended the process.
Progressed(r, to) ==
  /\ pc'[r] = to
  /\ \A q \in Requests \ {r} : \/ pc'[q] = pc[q]
                               \/ pc[q] \in Live /\ pc'[q] = "dead"

\* Documents are only added, so what a request knows of them stays true.
LEMMA AddingKeepsRequest ==
  ASSUME Inv, NEW q \in Requests,
         UNCHANGED <<chain, upload, folder, nef, reply, pick, resp>>,
         verified \subseteq verified',
         pc'[q] = pc[q] \/ (pc[q] \in Live /\ pc'[q] = "dead")
  PROVE  FormInv(q)' /\ ReplyInv(q)' /\ AnswerInv(q)'
<1>1. /\ Document(q)' = Document(q) /\ hash(q)' = hash(q)
      /\ counter(q)' = counter(q) /\ Matches(q)' = Matches(q)
      /\ IsVerified(hash(q), counter(q)) => IsVerified(hash(q), counter(q))'
  BY DEF Document, IsVerified, hash, counter, Matches
<1>2. "dead" \notin Live \cup Answered \cup {"done", "stat", "rpc"}
  BY DEF Live, Handling, Waiting, Scripted, Answered
<1>3. Compared \subseteq Answered /\ Inserted \subseteq Answered
      /\ "done" \notin Live /\ "dup" \in Answered
  BY DEF Live, Handling, Waiting, Scripted, Answered, Compared, Inserted
<1>4. FormInv(q) /\ ReplyInv(q) /\ AnswerInv(q)
  BY DEF Inv
<1>5. FormInv(q)'
  BY <1>2, <1>4 DEF FormInv
<1>6. ReplyInv(q)'
  BY <1>1, <1>2, <1>3, <1>4 DEF ReplyInv
<1>7. AnswerInv(q)'
  BY <1>1, <1>2, <1>3, <1>4 DEF AnswerInv
<1> QED BY <1>5, <1>6, <1>7

\* A document stays in order when others are added.
LEMMA AddingKeepsDocument ==
  ASSUME Inv, NEW v \in verified,
         UNCHANGED <<chain, upload, nef, reply, resp>>,
         pc'[v.by] = pc[v.by] \/ pc'[v.by] \in Inserted \cup {"dead"}
  PROVE  DocumentInv(v)'
<1>1. Document(v.by)' = Document(v.by)
  BY DEF Document, hash, counter
<1> QED BY <1>1 DEF Inv, DocumentInv

\* The insert into VerifyContractModel: the request has compared its script
\* with what the node said, and that is still what the chain has at that
\* counter.
LEMMA InsertStep ==
  ASSUME Inv, TypeOK', NEW r \in Requests, NEW to \in {"list", "dead"},
         pc[r] = "ins", Progressed(r, to),
         InsertVerifiedContract(hash(r), counter(r), r),
         UNCHANGED <<chain, upload, folder, nef, reply, pick, resp>>
  PROVE  Inv'
<1>1. verified' = verified \cup {Document(r)} /\ source' = source
  BY DEF InsertVerifiedContract, Document
<1>2. \A q \in Requests \ {r} : FormInv(q)' /\ ReplyInv(q)' /\ AnswerInv(q)'
  BY <1>1, AddingKeepsRequest DEF Progressed
<1>3. /\ FormInv(r) /\ ReplyInv(r) /\ AnswerInv(r)
      /\ Matches(r) /\ nef[r] \in Scripts /\ resp[r] = None
      /\ upload[r] \in Uploads /\ folder[r] \in Seconds
  BY DEF Inv, FormInv, ReplyInv, AnswerInv, Live, Handling, Answered, Compared
<1>4. /\ Document(r)' = Document(r) /\ hash(r)' = hash(r)
      /\ counter(r)' = counter(r) /\ Matches(r)' = Matches(r)
  BY DEF Document, hash, counter, Matches
<1>5. reply[r].nef # None
      /\ counter(r) + 1 \in DOMAIN chain[Denotes[hash(r)]]
      /\ chain[Denotes[hash(r)]][counter(r) + 1] = nef[r]
  BY <1>3, NoneAssumption DEF ReplyInv, Matches, Answered
<1>6. FormInv(r)' /\ ReplyInv(r)'
  <2>1. pc'[r] # "stat"
    BY DEF Progressed
  <2>2. FormInv(r)'
    BY <1>3, <2>1 DEF FormInv
  <2>3. ReplyInv(r)'
    BY <1>3, <1>4, <1>5 DEF ReplyInv, Matches
  <2> QED BY <2>2, <2>3
<1>7. AnswerInv(r)'
  BY <1>1, <1>3, <1>4, NoneAssumption
     DEF Progressed, AnswerInv, Inserted, Codes
<1>8. ASSUME NEW v, v = Document(r) PROVE DocumentInv(v)'
  <2>1. v.by = r /\ v.hash = hash(r) /\ v.updatecounter = counter(r)
    BY <1>8 DEF Document
  <2> QED BY <1>4, <1>5, <1>8, <2>1 DEF Progressed, DocumentInv, Inserted
<1>9. \A v \in verified : DocumentInv(v)'
  <2> SUFFICES ASSUME NEW v \in verified PROVE DocumentInv(v)'
    OBVIOUS
  <2>1. v.by \in Requests
    BY DEF Inv, TypeOK
  <2>2. pc'[v.by] = pc[v.by] \/ pc'[v.by] \in Inserted \cup {"dead"}
    BY <2>1 DEF Progressed, Inserted
  <2> QED BY <2>2, AddingKeepsDocument
<1>10. \A s \in source' : SourceInv(s)'
  BY <1>1 DEF Inv, SourceInv, Document, hash, counter
<1>11. \A v \in verified' : DocumentInv(v)'
  BY <1>1, <1>8, <1>9
<1> QED BY <1>2, <1>6, <1>7, <1>10, <1>11 DEF Inv

\* The insert into ContractSourceCode.
LEMMA RecordStep ==
  ASSUME Inv, TypeOK', NEW r \in Requests, NEW to \in {"src", "dead"},
         NEW n, NEW code,
         pc[r] = "src", Progressed(r, to),
         InsertContractSourceCode(hash(r), counter(r), n, code, r),
         UNCHANGED <<chain, upload, folder, nef, reply, pick, resp>>
  PROVE  Inv'
<1>1. verified' = verified
  BY DEF InsertContractSourceCode
<1>2. "src" \in Live /\ "src" \in Inserted
  BY DEF Live, Handling, Inserted
<1>3. \A q \in Requests : pc'[q] = pc[q] \/ (pc[q] \in Live /\ pc'[q] = "dead")
  BY <1>2 DEF Progressed
<1>4. \A q \in Requests : FormInv(q)' /\ ReplyInv(q)' /\ AnswerInv(q)'
  BY <1>1, <1>3, AddingKeepsRequest
<1>5. \A v \in verified' : DocumentInv(v)'
  <2> SUFFICES ASSUME NEW v \in verified PROVE DocumentInv(v)'
    BY <1>1
  <2>1. v.by \in Requests
    BY DEF Inv, TypeOK
  <2> QED BY <1>3, <2>1, AddingKeepsDocument
<1>6. Document(r) \in verified
  BY <1>2 DEF Inv, AnswerInv
<1>7. \A q : Document(q)' = Document(q) /\ hash(q)' = hash(q)
             /\ counter(q)' = counter(q)
  BY DEF Document, hash, counter
<1>8. \A s \in source' : SourceInv(s)'
  BY <1>1, <1>6, <1>7 DEF Inv, SourceInv, InsertContractSourceCode
<1> QED BY <1>4, <1>5, <1>8 DEF Inv

\* The insert into VerifyContractModel keeps Inv, also when it is applied
\* and reported as failed.
LEMMA InsertVerifiedInv ==
  ASSUME Inv, NEW r \in Requests, InsertVerified(r) \/ InsertVerifiedFatal(r)
  PROVE  Inv'
<1> USE DEF worldVars, localVars, workdirVars, javaVars, formVars, buildVars, sendVars
<1>1. /\ pc[r] = "ins"
      /\ UNCHANGED <<dirs, now, kept, javaVars, chain, upload, folder, got, seen,
                     pick, nef, reply, todo, resp>>
      /\ up' \in BOOLEAN
  BY DEF InsertVerified, InsertVerifiedFatal, Move, Fatal, Inv, TypeOK
<1>2. hash(r) \in Spellings /\ counter(r) \in Nat
  BY <1>1, UploadsAssumption
     DEF Inv, FormInv, Live, Handling, Forms, hash, counter, TypeOK
<1>3. PICK to \in {"list", "dead"} : Progressed(r, to)
  <2>1. CASE InsertVerified(r)
    BY <2>1 DEF InsertVerified, Move, Progressed, Inv, TypeOK
  <2>2. CASE InsertVerifiedFatal(r)
    BY <2>2 DEF InsertVerifiedFatal, Fatal, Killed, Progressed, Live, Handling
  <2> QED BY <2>1, <2>2
<1>4. pc' \in [Requests -> Live \cup Settled \cup {"new"}]
  BY DEF InsertVerified, InsertVerifiedFatal, Move, Fatal, Killed, Inv, TypeOK,
     Live, Handling, Settled
<1>5. CASE InsertVerifiedContract(hash(r), counter(r), r)
  <2>1. TypeOK'
    BY <1>1, <1>2, <1>4, <1>5
       DEF InsertVerifiedContract, Inv, TypeOK, WorkdirTypeOK, JavaTypeOK
  <2> QED BY <1>1, <1>3, <1>5, <2>1, InsertStep
<1>6. CASE pc' = Killed /\ UNCHANGED databaseVars
  <2>1. TypeOK'
    BY <1>1, <1>4, <1>6
       DEF databaseVars, Inv, TypeOK, WorkdirTypeOK, JavaTypeOK
  <2> QED BY <1>1, <1>6, <2>1, KillStep
<1> QED BY <1>5, <1>6 DEF InsertVerified, InsertVerifiedFatal, Fatal

\* The inserts into ContractSourceCode keep Inv.
LEMMA RecordSourceInv ==
  ASSUME Inv, NEW r \in Requests, NEW n \in TextNames \cup NefNames,
         RecordSource(r, n) \/ RecordSourceFatal(r, n)
  PROVE  Inv'
<1> USE DEF worldVars, localVars, workdirVars, javaVars, formVars, buildVars, sendVars
<1>1. /\ pc[r] = "src"
      /\ UNCHANGED <<dirs, now, kept, javaVars, chain, upload, folder, got, seen,
                     pick, nef, reply, resp>>
      /\ up' \in BOOLEAN
  BY DEF RecordSource, RecordSourceFatal, Move, Fatal, Inv, TypeOK
<1>2. hash(r) \in Spellings /\ counter(r) \in Nat /\ folder[r] \in Seconds
  BY <1>1, UploadsAssumption
     DEF Inv, FormInv, Live, Handling, Forms, hash, counter, TypeOK
<1>3. PICK to \in {"src", "dead"} : Progressed(r, to)
  <2>1. CASE RecordSource(r, n)
    BY <2>1 DEF RecordSource, Move, Progressed, Inv, TypeOK
  <2>2. CASE RecordSourceFatal(r, n)
    BY <2>2 DEF RecordSourceFatal, Fatal, Killed, Progressed, Live, Handling
  <2> QED BY <2>1, <2>2
<1>4. /\ pc' \in [Requests -> Live \cup Settled \cup {"new"}]
      /\ todo' \in [Requests -> SUBSET (TextNames \cup NefNames)]
  <2>1. CASE RecordSource(r, n)
    BY <2>1 DEF RecordSource, Move, Inv, TypeOK, Live, Handling
  <2>2. CASE RecordSourceFatal(r, n)
    BY <2>2 DEF RecordSourceFatal, Fatal, Killed, Inv, TypeOK, Settled
  <2> QED BY <2>1, <2>2
<1>5. n \in Entries(r) => FileContent(r, n) \in Content \cup {Garbage}
  <2>1. dirs[folder[r]] \in Folders \cup {None}
    BY <1>2 DEF Inv, TypeOK, WorkdirTypeOK
  <2> QED BY <2>1 DEF Entries, FileContent, Folders, NefNames, TextNames
<1>6. CASE /\ n \in Entries(r)
           /\ InsertContractSourceCode(hash(r), counter(r), n,
                                       FileContent(r, n), r)
  <2>1. TypeOK'
    BY <1>1, <1>2, <1>4, <1>5, <1>6
       DEF InsertContractSourceCode, Inv, TypeOK, WorkdirTypeOK, JavaTypeOK
  <2> QED BY <1>1, <1>3, <1>6, <2>1, RecordStep
<1>7. CASE pc' = Killed /\ UNCHANGED databaseVars
  <2>1. TypeOK'
    BY <1>1, <1>4, <1>7
       DEF databaseVars, Inv, TypeOK, WorkdirTypeOK, JavaTypeOK
  <2> QED BY <1>1, <1>7, <2>1, KillStep
<1> QED BY <1>6, <1>7 DEF RecordSource, RecordSourceFatal, Fatal

-----------------------------------------------------------------------------
(* Arrivals and the environment.                                           *)

\* A new request, with a multipart form or without, keeps Inv.
LEMMA ArriveInv ==
  ASSUME Inv, NEW r \in Requests,
         (\E u \in Uploads : Arrive(r, u)) \/ ArriveNotMultipart(r)
  PROVE  Inv'
<1> USE DEF worldVars, localVars, workdirVars, javaVars, databaseVars, formVars,
            buildVars, sendVars
<1>1. /\ pc[r] = "new"
      /\ folder' = [folder EXCEPT ![r] = now]
      /\ CreateDateDir(now)
      /\ UNCHANGED <<now, kept, javaVars, databaseVars, chain, got, seen, pick,
                     nef, reply, todo, up>>
  BY DEF Arrive, ArriveNotMultipart, Answer, Move
<1>2. now \in Seconds /\ dirs' \in [Seconds -> Folders \cup {None}]
  BY <1>1, CreateDateDirType DEF Inv, TypeOK, WorkdirTypeOK
<1>3. resp[r] = None /\ resp[r] # 5 /\ resp[r] # 6
  BY <1>1, NoneAssumption DEF Inv, AnswerInv, Codes
<1>4. /\ TypeOK' /\ FormInv(r)' /\ ReplyInv(r)' /\ AnswerInv(r)'
      /\ \A q \in Requests \ {r} :
           pc'[q] = pc[q] /\ resp'[q] = resp[q] /\ upload'[q] = upload[q]
  <2>1. CASE \E u \in Uploads : Arrive(r, u)
    <3>1. PICK u \in Uploads : /\ upload' = [upload EXCEPT ![r] = u]
                               /\ pc' = [pc EXCEPT ![r] = "recv"]
                               /\ resp' = resp
      BY <2>1 DEF Arrive, Move
    <3>2. TypeOK'
      BY <1>1, <1>2, <3>1 DEF Inv, TypeOK, WorkdirTypeOK, JavaTypeOK, Live, Waiting
    <3>3. FormInv(r)' /\ ReplyInv(r)' /\ AnswerInv(r)'
      BY <1>1, <1>2, <1>3, <3>1
         DEF Inv, TypeOK, FormInv, ReplyInv, AnswerInv, Answered, Compared,
             Inserted
    <3> QED BY <3>1, <3>2, <3>3 DEF Inv, TypeOK
  <2>2. CASE ArriveNotMultipart(r)
    <3>1. /\ pc' = [pc EXCEPT ![r] = "done"]
          /\ resp' = [resp EXCEPT ![r] = 500]
          /\ upload' = upload
      BY <2>2 DEF ArriveNotMultipart, Answer, Move
    <3>2. TypeOK'
      BY <1>1, <1>2, <3>1 DEF Inv, TypeOK, WorkdirTypeOK, JavaTypeOK, Settled, Codes
    <3>3. FormInv(r)' /\ ReplyInv(r)' /\ AnswerInv(r)'
      BY <1>1, <1>2, <1>3, <3>1, NoneAssumption
         DEF Inv, TypeOK, FormInv, ReplyInv, AnswerInv, Live, Handling, Waiting,
             Scripted, Answered, Compared, Inserted, Codes
    <3> QED BY <3>1, <3>2, <3>3 DEF Inv, TypeOK
  <2> QED BY <2>1, <2>2
<1>5. \A q \in Requests \ {r} : FormInv(q)' /\ ReplyInv(q)' /\ AnswerInv(q)'
  BY <1>1, <1>4, OthersInv DEF Inv, TypeOK
<1>6. (\A v \in verified' : DocumentInv(v)') /\ (\A s \in source' : SourceInv(s)')
  BY <1>1, <1>3, <1>4, OthersDocuments DEF Inserted
<1> QED BY <1>4, <1>5, <1>6 DEF Inv

\* The history of a contract only grows: what held of it still does.
LEMMA ChainUpdateInv ==
  ASSUME Inv, NEW c \in Contracts, NEW s \in Deployable, ChainUpdate(c, s)
  PROVE  Inv'
<1> USE DEF worldVars, localVars, workdirVars, javaVars, databaseVars, formVars,
            buildVars, sendVars
<1>1. /\ chain' = [chain EXCEPT ![c] = Append(@, s)]
      /\ UNCHANGED <<dirs, now, kept, javaVars, databaseVars, pc, upload, folder,
                     got, seen, pick, nef, reply, todo, up, resp>>
  BY DEF ChainUpdate
<1>2. chain[c] \in Seq(Scripts) /\ s \in Scripts
  BY DeployableAssumption DEF Inv, TypeOK
<1>3. TypeOK'
  BY <1>1, <1>2 DEF Inv, TypeOK, WorkdirTypeOK, JavaTypeOK
<1>4. \A d \in Contracts : \A k \in DOMAIN chain[d] :
        k \in DOMAIN chain'[d] /\ chain'[d][k] = chain[d][k]
  <2> SUFFICES ASSUME NEW d \in Contracts, NEW k \in DOMAIN chain[d]
               PROVE  k \in DOMAIN chain'[d] /\ chain'[d][k] = chain[d][k]
    OBVIOUS
  <2>1. CASE d = c
    <3>1. chain'[c] = Append(chain[c], s)
      BY <1>1 DEF Inv, TypeOK
    <3> QED BY <1>2, <2>1, <3>1
  <2>2. CASE d # c
    BY <1>1, <2>2 DEF Inv, TypeOK
  <2> QED BY <2>1, <2>2
<1>5. \A q \in Requests : pc[q] \in Answered => hash(q) \in Spellings
  BY UploadsAssumption
     DEF Inv, FormInv, Live, Handling, Answered, Forms, hash
<1>6. \A q \in Requests : FormInv(q)' /\ ReplyInv(q)'
  BY <1>1, <1>4, <1>5, DenotesAssumption DEF Inv, FormInv, ReplyInv, Matches, hash, counter
<1>7. \A q \in Requests : AnswerInv(q)'
  BY <1>1 DEF Inv, AnswerInv, Document, IsVerified, hash, counter
<1>8. \A v \in verified' : DocumentInv(v)'
  <2> SUFFICES ASSUME NEW v \in verified PROVE DocumentInv(v)'
    BY <1>1
  <2>1. v.hash \in Spellings /\ DocumentInv(v)
    BY DEF Inv, TypeOK
  <2>2. Document(v.by)' = Document(v.by)
    BY <1>1 DEF Document, hash, counter
  <2> QED BY <1>1, <1>4, <2>1, <2>2, DenotesAssumption DEF DocumentInv
<1>9. \A x \in source' : SourceInv(x)'
  BY <1>1 DEF Inv, SourceInv, Document, hash, counter
<1> QED BY <1>3, <1>6, <1>7, <1>8, <1>9 DEF Inv

\* Redeployment (Start.sh) keeps Inv: the database outlives the handlers.
LEMMA RedeployInv ==
  ASSUME Inv, Redeploy
  PROVE  Inv'
<1> USE DEF databaseVars, localVars, formVars, buildVars
<1>1. dirs' \in [Seconds -> Folders \cup {None}]
  BY DEF Redeploy
<1>2. JavaTypeOK'
  <2>1. ShippedBuilt \in [Bases -> Scripts \cup {None}]
    BY DEF ShippedBuilt, ShippedScript, Script, Scripts, Compilers, Installed,
           Trees, NccsCommands
  <2>2. <<>> \in Content
    BY EmptySeq DEF Content
  <2> QED BY <2>1, <2>2 DEF Redeploy, JavaRebuilt, JavaTypeOK, Trees
<1>3. TypeOK'
  BY <1>1, <1>2 DEF Redeploy, Killed, Inv, TypeOK, WorkdirTypeOK, Settled
<1> QED BY <1>3, KillStep DEF Redeploy

\* A step that changes none of the variables Inv relates keeps it.
LEMMA UnrelatedStep ==
  ASSUME Inv, TypeOK',
         UNCHANGED <<databaseVars, chain, pc, upload, folder, nef, reply, pick, resp>>
  PROVE  Inv'
<1> USE DEF databaseVars
<1>1. \A q : /\ Document(q)' = Document(q) /\ hash(q)' = hash(q)
             /\ counter(q)' = counter(q) /\ Matches(q)' = Matches(q)
             /\ IsVerified(hash(q), counter(q))' = IsVerified(hash(q), counter(q))
  BY DEF Document, IsVerified, hash, counter, Matches
<1>2. \A q \in Requests : FormInv(q)' /\ ReplyInv(q)' /\ AnswerInv(q)'
  BY <1>1 DEF Inv, FormInv, ReplyInv, AnswerInv
<1>3. \A v \in verified' : DocumentInv(v)'
  BY <1>1 DEF Inv, DocumentInv
<1>4. \A s \in source' : SourceInv(s)'
  BY <1>1 DEF Inv, SourceInv
<1> QED BY <1>2, <1>3, <1>4 DEF Inv

-----------------------------------------------------------------------------
(* The theorems.                                                           *)

\* Inv holds when the server starts for the first time.
LEMMA InitInv == Init => Inv
<1> SUFFICES ASSUME Init PROVE Inv
  OBVIOUS
<1> USE DEF Init, DatabaseInit
<1>1. JavaTypeOK
  <2>1. ShippedBuilt \in [Bases -> Scripts \cup {None}]
    BY DEF ShippedBuilt, ShippedScript, Script, Scripts, Compilers, Installed,
           Trees, NccsCommands
  <2>2. <<>> \in Content
    BY EmptySeq DEF Content
  <2> QED BY <2>1, <2>2 DEF JavaInit, JavaTypeOK, Trees
<1>2. chain \in [Contracts -> Seq(Scripts)]
  <2>1. <<>> \in Seq(Scripts) /\ \A s \in Deployable : <<s>> \in Seq(Scripts)
    BY DeployableAssumption
  <2> QED BY <2>1
<1>3. WorkdirTypeOK
  BY MaxNowAssumption DEF WorkdirTypeOK, Seconds
<1>4. TypeOK
  BY <1>1, <1>2, <1>3 DEF TypeOK, Trees
<1>5. \A r \in Requests : FormInv(r) /\ ReplyInv(r) /\ AnswerInv(r)
  BY NoneAssumption
     DEF FormInv, ReplyInv, AnswerInv, Live, Handling, Waiting, Scripted,
         Answered, Compared, Inserted, Codes
<1> QED BY <1>4, <1>5 DEF Inv

\* Every step keeps Inv.
LEMMA NextInv == Inv /\ [Next]_vars => Inv'
<1> SUFFICES ASSUME Inv, [Next]_vars PROVE Inv'
  OBVIOUS
<1>1. CASE UNCHANGED vars
  <2>1. TypeOK'
    BY <1>1 DEF vars, worldVars, localVars, workdirVars, javaVars,
       databaseVars, formVars, buildVars, sendVars, Inv, TypeOK, WorkdirTypeOK, JavaTypeOK
  <2> QED BY <1>1, <2>1, UnrelatedStep
          DEF vars, worldVars, localVars, formVars, buildVars, sendVars
<1>2. CASE ClockTick
  <2>1. now' \in Seconds
    BY <1>2, MaxNowAssumption
       DEF ClockTick, Tick, Seconds, Inv, TypeOK, WorkdirTypeOK
  <2>2. TypeOK'
    BY <1>2, <2>1 DEF ClockTick, localVars, javaVars, databaseVars, formVars,
       buildVars, sendVars, Inv, TypeOK, WorkdirTypeOK, JavaTypeOK
  <2> QED BY <1>2, <2>2, UnrelatedStep
          DEF ClockTick, localVars, formVars, buildVars, sendVars
<1>3. CASE Redeploy
  BY <1>3, RedeployInv
<1>4. CASE \E c \in Contracts, s \in Deployable : ChainUpdate(c, s)
  BY <1>4, ChainUpdateInv
<1>5. ASSUME NEW r \in Requests,
             (\E u \in Uploads : Arrive(r, u)) \/ ArriveNotMultipart(r)
      PROVE  Inv'
  BY <1>5, ArriveInv
<1>6. ASSUME NEW r \in Requests, Receive(r) PROVE Inv'
  BY <1>6, ReceiveInv
<1>7. ASSUME NEW r \in Requests, Build(r) PROVE Inv'
  BY <1>7, BuildInv
<1>8. ASSUME NEW r \in Requests, AskNode(r) PROVE Inv'
  BY <1>8, NodeReplyInv, RemovingAnswerInv DEF AskNode
<1>9. ASSUME NEW r \in Requests, Handle(r) \/ AskDatabase(r) PROVE Inv'
  <2>1. CASE UnknownVersion(r) \/ StartFails(r)
    BY <2>1, RemovingAnswerInv
  <2>2. CASE StartNothing(r) \/ StartCompiler(r) \/ StartJavaExec(r)
    BY <2>2, StartInv
  <2>3. CASE LookForNef(r) \/ PickJavaNef(r) \/ StatJavaNef(r)
    BY <2>3, LookInv
  <2>4. CASE ReadNef(r)
    BY <2>4, ReadNefInv
  <2>5. CASE ReadNefFatal(r) \/ ConnectFatal(r)
    BY <2>5, ReadNefFatalInv
  <2>6. CASE Mismatch(r) \/ Connect(r) \/ FindVerified(r) \/ AlreadyVerified(r)
    BY <2>6, CompareInv
  <2>7. CASE InsertVerified(r) \/ InsertVerifiedFatal(r)
    BY <2>7, InsertVerifiedInv
  <2>8. CASE ListSources(r)
    BY <2>8, ListInv
  <2>9. CASE \E n \in TextNames \cup NefNames :
               RecordSource(r, n) \/ RecordSourceFatal(r, n)
    BY <2>9, RecordSourceInv
  <2>10. CASE Finish(r)
    BY <2>10, FinishInv
  <2> QED BY <1>9, <2>1, <2>2, <2>3, <2>4, <2>5, <2>6, <2>7, <2>8, <2>9, <2>10
          DEF Handle, AskDatabase
<1> QED BY <1>1, <1>2, <1>3, <1>4, <1>5, <1>6, <1>7, <1>8, <1>9
        DEF Next, Environment

\* Inv holds in every reachable state of the server.
THEOREM Invariance == Spec => []Inv
BY InitInv, NextInv, PTL DEF Spec

\* All variables keep their types: no handler reads a form, a folder or a
\* file name it does not have.
THEOREM TypeCorrect == Spec => []TypeOK
<1>1. Inv => TypeOK
  BY DEF Inv
<1> QED BY <1>1, Invariance, PTL

\* Every document in VerifyContractModel names the script that its contract
\* really had at the recorded update counter: multipleFile compares with the
\* node's answer, and between that answer and the insert the chain can only
\* have grown.
THEOREM VerifiedMatchesChainHolds == Spec => []VerifiedMatchesChain
<1>1. Inv => VerifiedMatchesChain
  BY DEF Inv, DocumentInv, VerifiedMatchesChain
<1> QED BY <1>1, Invariance, PTL

\* Codes 5 and 6 are only answered when the documents they speak of are in
\* the database, and no source file is recorded without its document.
THEOREM AnswersBackedHolds == Spec => []AnswersBacked
<1>1. ASSUME Inv PROVE AnswersBacked
  <2>1. ASSUME NEW r \in Requests, resp[r] = 5
        PROVE  \E v \in verified : v.by = r /\ v.hash = hash(r)
                                   /\ v.updatecounter = counter(r)
    BY <1>1, <2>1 DEF Inv, AnswerInv, Document
  <2>2. ASSUME NEW r \in Requests, resp[r] = 6
        PROVE  \E v \in verified : v.by # r /\ v.hash = hash(r)
                                   /\ v.updatecounter = counter(r)
    <3>1. pc[r] = "done"
      BY <1>1, <2>2, NoneAssumption DEF Inv, AnswerInv, Codes
    <3>2. PICK v \in verified : v.hash = hash(r) /\ v.updatecounter = counter(r)
      BY <1>1, <2>2 DEF Inv, AnswerInv, IsVerified
    <3>3. v.by # r
      BY <1>1, <2>2, <3>1, NoDocument DEF Inserted
    <3> QED BY <3>2, <3>3
  <2>3. ASSUME NEW s \in source
        PROVE  \E v \in verified : v.by = s.by /\ v.hash = s.hash
                                   /\ v.updatecounter = s.updatecounter
    BY <1>1 DEF Inv, SourceInv, Document
  <2> QED BY <2>1, <2>2, <2>3 DEF AnswersBacked
<1> QED BY <1>1, Invariance, PTL
=============================================================================
