-------------------------- MODULE RefinementProofs --------------------------
(***************************************************************************)
(* The server implements the registry of module Registry.  A record is the *)
(* document in VerifyContractModel together with the script its author     *)
(* compared; what a requester has been told is the code of the response,   *)
(* with the contract version codes 5 and 6 speak of.  Every step of the    *)
(* server either changes neither, or is one step of the registry.          *)
(***************************************************************************)
EXTENDS VerifierProofs

-----------------------------------------------------------------------------
(* Steps the registry does not see.                                        *)

\* Records stay as long as no document is inserted and no author of one reads
\* another script.
LEMMA RecordsStay ==
  ASSUME verified' = verified, \A v \in verified : nef'[v.by] = nef[v.by]
  PROVE  recordsBar' = recordsBar
BY DEF recordsBar, AsRecord

\* What requesters have been told stays as long as nobody is answered and
\* the answered keep their forms and replies.
LEMMA ToldStays ==
  ASSUME resp' = resp,
         \A q \in Requests : resp[q] \in {5, 6} =>
           upload'[q] = upload[q] /\ reply'[q] = reply[q]
  PROVE  toldBar' = toldBar
BY DEF toldBar, hash, counter

\* The part of what a requester is told that a step of r may not touch.
LEMMA ToldExcept ==
  ASSUME Inv, NEW r \in Requests, NEW code \in Codes,
         resp' = [resp EXCEPT ![r] = code],
         \A q \in Requests \ {r} : upload'[q] = upload[q] /\ reply'[q] = reply[q]
  PROVE  toldBar' = [toldBar EXCEPT ![r] =
           [code |-> code,
            about |-> IF code \in {5, 6} THEN <<Denotes[hash(r)'], counter(r)'>> ELSE None]]
<1>1. resp'[r] = code /\ code # None /\ \A q \in Requests \ {r} : resp'[q] = resp[q]
  BY NoneAssumption DEF Inv, TypeOK
<1>2. \A q \in Requests \ {r} : toldBar'[q] = toldBar[q]
  BY <1>1 DEF toldBar, hash, counter
<1>3. toldBar'[r] =
        [code |-> code,
         about |-> IF code \in {5, 6} THEN <<Denotes[hash(r)'], counter(r)'>> ELSE None]
  BY <1>1 DEF toldBar
<1>4. toldBar = [q \in Requests |-> toldBar[q]]
      /\ toldBar' = [q \in Requests |-> toldBar'[q]]
  BY DEF toldBar
<1> QED BY <1>2, <1>3, <1>4

-----------------------------------------------------------------------------
(* Steps of the registry.                                                  *)

\* The insert into VerifyContractModel is the registry's Record.
LEMMA RecordMaps ==
  ASSUME Inv, NEW r \in Requests, pc[r] = "ins",
         InsertVerifiedContract(hash(r), counter(r), r),
         UNCHANGED <<chain, upload, nef, reply, resp>>
  PROVE  Abstract!RegistryNext
<1>1. resp[r] = None /\ resp[r] # 5
  BY NoneAssumption DEF Inv, AnswerInv, Codes
<1>2. \A v \in verified : v.by # r
  BY <1>1, NoDocument DEF Inserted
<1>3. upload[r] \in Uploads /\ nef[r] \in Scripts /\ Matches(r)
  BY DEF Inv, FormInv, ReplyInv, Live, Handling, Answered, Compared
<1>4. Denotes[hash(r)] \in Contracts /\ counter(r) \in Nat
  BY <1>3, UploadsAssumption, DenotesAssumption
     DEF Forms, hash, counter, Inv, TypeOK
<1>5. counter(r) + 1 \in DOMAIN chain[Denotes[hash(r)]]
      /\ chain[Denotes[hash(r)]][counter(r) + 1] = nef[r]
  BY <1>3, NoneAssumption DEF Inv, ReplyInv, Answered, Matches
<1>6. toldBar' = toldBar /\ toldBar[r] = None
  BY <1>1, ToldStays DEF toldBar
<1>7. \A x \in recordsBar : x.by # r
  BY <1>2 DEF recordsBar, AsRecord
<1>8. recordsBar' = recordsBar \cup
        {[hash |-> Denotes[hash(r)], counter |-> counter(r),
          script |-> nef[r], by |-> r]}
  <2>1. verified' = verified \cup {Document(r)}
    BY DEF InsertVerifiedContract, Document
  <2>2. \A v : AsRecord(v)' = AsRecord(v)
    BY DEF AsRecord
  <2>3. AsRecord(Document(r)) = [hash |-> Denotes[hash(r)], counter |-> counter(r),
                                 script |-> nef[r], by |-> r]
    BY DEF AsRecord, Document
  <2>4. recordsBar' = { AsRecord(v) : v \in verified \cup {Document(r)} }
    BY <2>1, <2>2 DEF recordsBar
  <2> QED BY <2>3, <2>4 DEF recordsBar
<1> DEFINE k == counter(r) + 1
<1>9. k - 1 = counter(r) /\ k \in DOMAIN chain[Denotes[hash(r)]]
  BY <1>4, <1>5
<1>10. Abstract!Record(r, Denotes[hash(r)], k)
  BY <1>5, <1>6, <1>7, <1>8, <1>9 DEF Abstract!Record
<1> HIDE DEF k
<1> QED BY <1>4, <1>9, <1>10 DEF Abstract!RegistryNext

\* The answers that are no verdict about a contract version.
OtherCodes == {0, 1, 2, 3, 4, 8, 500}

\* An answer that is no verdict is the registry's TellOther.
LEMMA OtherAnswerMaps ==
  ASSUME Inv, NEW r \in Requests, NEW code \in OtherCodes,
         pc[r] \notin Inserted \cup {"dead", "done"},
         resp' = [resp EXCEPT ![r] = code],
         UNCHANGED <<chain, verified, upload, nef, reply>>
  PROVE  Abstract!RegistryNext
<1>1. resp[r] = None /\ resp[r] # 5
  BY NoneAssumption DEF Inv, AnswerInv, Codes
<1>2. \A v \in verified : v.by # r
  BY <1>1, NoDocument
<1>3. code \in Codes /\ code \notin {5, 6}
  BY DEF Codes, OtherCodes
<1>4. toldBar' = [toldBar EXCEPT ![r] = [code |-> code, about |-> None]]
  <2>1. resp'[r] = code /\ \A q \in Requests \ {r} : resp'[q] = resp[q]
    BY DEF Inv, TypeOK
  <2>2. \A q \in Requests \ {r} : toldBar'[q] = toldBar[q]
    BY <2>1 DEF toldBar, hash, counter
  <2>3. toldBar'[r] = [code |-> code, about |-> None]
    BY <1>3, <2>1, NoneAssumption DEF toldBar
  <2>4. toldBar = [q \in Requests |-> toldBar[q]]
        /\ toldBar' = [q \in Requests |-> toldBar'[q]]
    BY DEF toldBar
  <2> QED BY <2>2, <2>3, <2>4
<1>5. toldBar[r] = None
  BY <1>1 DEF toldBar
<1>6. recordsBar' = recordsBar /\ \A x \in recordsBar : x.by # r
  BY <1>2, RecordsStay DEF recordsBar, AsRecord
<1>7. Abstract!TellOther(r, code)
  BY <1>4, <1>5, <1>6 DEF Abstract!TellOther
<1> QED BY <1>7 DEF Abstract!RegistryNext, OtherCodes

\* Code 5 is the registry's TellVerified.
LEMMA FinishMaps ==
  ASSUME Inv, NEW r \in Requests, Finish(r)
  PROVE  Abstract!RegistryNext
<1>1. /\ pc[r] = "src" /\ resp' = [resp EXCEPT ![r] = 5]
      /\ UNCHANGED <<chain, verified, upload, nef, reply>>
  BY DEF Finish, Answer, Move, worldVars, localVars, databaseVars,
         formVars, buildVars
<1>2. resp[r] = None
  BY <1>1 DEF Inv, AnswerInv
<1>3. Document(r) \in verified
  BY <1>1 DEF Inv, AnswerInv, Inserted
<1>4. Denotes[hash(r)] \in Contracts
  BY <1>1, UploadsAssumption, DenotesAssumption
     DEF Inv, FormInv, Live, Handling, Forms, hash
<1>5. PICK code \in Codes : code = 5
  BY DEF Codes
<1>6. toldBar' = [toldBar EXCEPT ![r] =
                    [code |-> 5, about |-> <<Denotes[hash(r)], counter(r)>>]]
  <2>1. hash(r)' = hash(r) /\ counter(r)' = counter(r)
    BY <1>1 DEF hash, counter
  <2> QED BY <1>1, <1>5, <2>1, ToldExcept
<1>7. toldBar[r] = None /\ recordsBar' = recordsBar
  BY <1>1, <1>2, RecordsStay DEF toldBar
<1>8. /\ AsRecord(Document(r)) \in recordsBar
      /\ AsRecord(Document(r)).by = r
      /\ AsRecord(Document(r)).hash = Denotes[hash(r)]
      /\ AsRecord(Document(r)).counter = counter(r)
  BY <1>3 DEF recordsBar, AsRecord, Document
<1>9. PICK x \in recordsBar :
        x.by = r /\ x.hash = Denotes[hash(r)] /\ x.counter = counter(r)
  BY <1>8
<1>10. Abstract!TellVerified(r, Denotes[hash(r)], x.counter)
  BY <1>1, <1>6, <1>7, <1>9 DEF Abstract!TellVerified
<1> QED BY <1>4, <1>10 DEF Abstract!RegistryNext

\* Code 6 is the registry's TellAlready.
LEMMA AlreadyMaps ==
  ASSUME Inv, NEW r \in Requests, AlreadyVerified(r)
  PROVE  Abstract!RegistryNext
<1>1. /\ pc[r] = "dup" /\ resp' = [resp EXCEPT ![r] = 6]
      /\ UNCHANGED <<chain, verified, upload, nef, reply>>
  BY DEF AlreadyVerified, Answer, Move, worldVars, localVars, databaseVars,
         formVars, buildVars
<1>2. resp[r] = None /\ resp[r] # 5
  BY <1>1, NoneAssumption DEF Inv, AnswerInv, Codes
<1>3. IsVerified(hash(r), counter(r)) /\ \A v \in verified : v.by # r
  BY <1>1, <1>2, NoDocument DEF Inv, AnswerInv, Inserted
<1>4. Denotes[hash(r)] \in Contracts
  BY <1>1, UploadsAssumption, DenotesAssumption
     DEF Inv, FormInv, Live, Handling, Forms, hash
<1>5. PICK code \in Codes : code = 6
  BY DEF Codes
<1>6. toldBar' = [toldBar EXCEPT ![r] =
                    [code |-> 6, about |-> <<Denotes[hash(r)], counter(r)>>]]
  <2>1. hash(r)' = hash(r) /\ counter(r)' = counter(r)
    BY <1>1 DEF hash, counter
  <2> QED BY <1>1, <1>5, <2>1, ToldExcept
<1>7. toldBar[r] = None /\ recordsBar' = recordsBar
  BY <1>1, <1>2, RecordsStay DEF toldBar
<1>8. \A x \in recordsBar : x.by # r
  BY <1>3 DEF recordsBar, AsRecord
<1>9. PICK x \in recordsBar : x.hash = Denotes[hash(r)] /\ x.counter = counter(r)
  <2>1. PICK v \in verified : v.hash = hash(r) /\ v.updatecounter = counter(r)
    BY <1>3 DEF IsVerified
  <2>2. /\ AsRecord(v) \in recordsBar
        /\ AsRecord(v).hash = Denotes[hash(r)]
        /\ AsRecord(v).counter = counter(r)
    BY <2>1 DEF recordsBar, AsRecord
  <2> QED BY <2>2
<1>10. Abstract!TellAlready(r, Denotes[hash(r)], x.counter)
  BY <1>1, <1>6, <1>7, <1>8, <1>9 DEF Abstract!TellAlready
<1> QED BY <1>4, <1>9, <1>10 DEF Abstract!RegistryNext

-----------------------------------------------------------------------------
(* Every step of the server is a step of the registry, or none.            *)

\* A step that writes no answer and no document, and changes nothing that
\* answers and documents are about.
LEMMA SilentStep ==
  ASSUME UNCHANGED <<chain, verified, upload, nef, reply, resp>>
  PROVE  UNCHANGED Abstract!registryVars
BY RecordsStay, ToldStays DEF Abstract!registryVars

\* A step of a request that is the author of nothing and unanswered may
\* change its own form, script and reply.
LEMMA SilentOwnStep ==
  ASSUME Inv, NEW r \in Requests,
         pc[r] \notin Inserted \cup {"dead", "done"},
         UNCHANGED <<chain, verified, resp>>,
         \A q \in Requests \ {r} :
           /\ upload'[q] = upload[q]
           /\ nef'[q] = nef[q]
           /\ reply'[q] = reply[q]
  PROVE  UNCHANGED Abstract!registryVars
<1>1. resp[r] = None /\ resp[r] \notin {5, 6}
  BY NoneAssumption DEF Inv, AnswerInv, Codes
<1>2. \A v \in verified : v.by \in Requests \ {r}
  BY <1>1, NoDocument DEF Inv, TypeOK
<1>3. recordsBar' = recordsBar
  BY <1>2, RecordsStay
<1>4. toldBar' = toldBar
  BY <1>1, ToldStays
<1> QED BY <1>3, <1>4 DEF Abstract!registryVars

\* The registry does not see the form arrive.
LEMMA ReceiveMaps ==
  ASSUME NEW r \in Requests, Receive(r)
  PROVE  UNCHANGED Abstract!registryVars
<1> USE DEF worldVars, localVars, databaseVars, buildVars, sendVars, formVars
<1>1. CASE SavePart(r)
  BY <1>1, SilentStep DEF SavePart
<1>2. CASE LastPart(r)
  BY <1>2, SilentStep DEF LastPart
<1>3. CASE ClientGone(r)
  BY <1>3, SilentStep DEF ClientGone
<1> QED BY <1>1, <1>2, <1>3 DEF Receive

\* The registry does not see the compilers.
LEMMA BuildMaps ==
  ASSUME NEW r \in Requests, Build(r)
  PROVE  UNCHANGED Abstract!registryVars
<1> USE DEF worldVars, localVars, databaseVars, buildVars, sendVars, formVars
<1>1. CASE JavaExec(r)
  BY <1>1, SilentStep DEF JavaExec
<1>2. CASE RunGradle(r)
  BY <1>2, SilentStep DEF RunGradle
<1>3. CASE CompileSucceeds(r)
  BY <1>3, SilentStep DEF CompileSucceeds
<1>4. CASE CompileFails(r)
  BY <1>4, SilentStep DEF CompileFails
<1> QED BY <1>1, <1>2, <1>3, <1>4 DEF Build

\* The registry does not see a request before its answer.
LEMMA ArriveMaps ==
  ASSUME Inv, NEW r \in Requests, NEW u \in Uploads, Arrive(r, u)
  PROVE  UNCHANGED Abstract!registryVars
<1> USE DEF worldVars, localVars, databaseVars, buildVars, sendVars, formVars
<1>1. /\ pc[r] = "new"
      /\ UNCHANGED <<chain, verified, resp, nef, reply>>
      /\ upload' = [upload EXCEPT ![r] = u]
  BY DEF Arrive, Move
<1>2. \A q \in Requests \ {r} : upload'[q] = upload[q]
  BY <1>1 DEF Inv, TypeOK
<1> QED BY <1>1, <1>2, SilentOwnStep DEF Inserted

\* The node's answer is not seen either; its failure is answered.
LEMMA AskNodeMaps ==
  ASSUME Inv, NEW r \in Requests, AskNode(r)
  PROVE  Abstract!RegistryNext \/ UNCHANGED Abstract!registryVars
<1> USE DEF worldVars, localVars, databaseVars, buildVars, sendVars, formVars
<1>1. CASE NodeAnswers(r) \/ NodeBlank(r)
  <2>1. /\ pc[r] = "rpc"
        /\ UNCHANGED <<chain, verified, resp, nef, upload>>
        /\ \A q \in Requests \ {r} : reply'[q] = reply[q]
    BY <1>1 DEF NodeAnswers, NodeBlank, Move, Inv, TypeOK
  <2> QED BY <2>1, SilentOwnStep DEF Inserted
<1>2. CASE NodeFails(r)
  <2>1. /\ pc[r] = "rpc"
        /\ UNCHANGED <<chain, verified, upload, nef, reply>>
        /\ \E code \in OtherCodes : resp' = [resp EXCEPT ![r] = code]
    BY <1>2 DEF NodeFails, Answer, Move, OtherCodes
  <2>2. pc[r] \notin Inserted \cup {"dead", "done"}
    BY <2>1 DEF Inserted
  <2> QED BY <2>1, <2>2, OtherAnswerMaps
<1> QED BY <1>1, <1>2 DEF AskNode

\* A step the handler takes by itself, or with the database, is one step of
\* the registry or none.
LEMMA HandleMaps ==
  ASSUME Inv, NEW r \in Requests, Handle(r) \/ AskDatabase(r)
  PROVE  Abstract!RegistryNext \/ UNCHANGED Abstract!registryVars
<1> USE DEF worldVars, localVars, databaseVars, buildVars, sendVars, formVars
<1>1. ASSUME pc[r] \in {"new", "exec", "look", "stat", "rpc", "cmp"},
             \E code \in OtherCodes : resp' = [resp EXCEPT ![r] = code],
             UNCHANGED <<chain, verified, upload, nef, reply>>
      PROVE  Abstract!RegistryNext
  <2>1. pc[r] \notin Inserted \cup {"dead", "done"}
    BY <1>1 DEF Inserted
  <2> QED BY <1>1, <2>1, OtherAnswerMaps
<1>2. CASE UnknownVersion(r) \/ StartFails(r) \/ Mismatch(r)
  BY <1>1, <1>2
     DEF UnknownVersion, StartFails, Mismatch, Answer, Move, OtherCodes
<1>3. CASE StartNothing(r) \/ StartCompiler(r) \/ StartJavaExec(r)
  BY <1>3, SilentStep DEF StartNothing, StartCompiler, StartJavaExec
<1>4. CASE LookForNef(r) \/ PickJavaNef(r) \/ StatJavaNef(r)
  <2>1. UNCHANGED <<chain, verified, upload, nef, reply>>
    BY <1>4 DEF LookForNef, PickJavaNef, StatJavaNef
  <2>2. \/ UNCHANGED resp
        \/ pc[r] \in {"look", "stat"} /\ resp' = [resp EXCEPT ![r] = 2]
    BY <1>4 DEF LookForNef, PickJavaNef, StatJavaNef, Answer, Move
  <2> QED BY <1>1, <2>1, <2>2, SilentStep DEF OtherCodes
<1>5. CASE ReadNef(r)
  <2>1. /\ pc[r] = "read"
        /\ UNCHANGED <<chain, verified, resp, upload, reply>>
        /\ \A q \in Requests \ {r} : nef'[q] = nef[q]
    BY <1>5 DEF ReadNef, Move, Inv, TypeOK
  <2> QED BY <2>1, SilentOwnStep DEF Inserted
<1>6. CASE ReadNefFatal(r) \/ ConnectFatal(r)
  BY <1>6, SilentStep DEF ReadNefFatal, ConnectFatal, Fatal
<1>7. CASE Connect(r) \/ FindVerified(r) \/ ListSources(r)
  BY <1>7, SilentStep DEF Connect, FindVerified, ListSources
<1>8. CASE AlreadyVerified(r)
  BY <1>8, AlreadyMaps
<1>9. CASE InsertVerified(r)
  BY <1>9, RecordMaps DEF InsertVerified, Move
<1>10. CASE InsertVerifiedFatal(r)
  BY <1>10, RecordMaps, SilentStep DEF InsertVerifiedFatal, Fatal
<1>11. ASSUME NEW n, RecordSource(r, n) \/ RecordSourceFatal(r, n)
       PROVE  UNCHANGED Abstract!registryVars
  BY <1>11, SilentStep
     DEF RecordSource, RecordSourceFatal, Fatal, InsertContractSourceCode
<1>12. CASE Finish(r)
  BY <1>12, FinishMaps
<1> QED BY <1>2, <1>3, <1>4, <1>5, <1>6, <1>7, <1>8, <1>9, <1>10, <1>11, <1>12
        DEF Handle, AskDatabase

\* The server starts with an empty registry.
LEMMA InitMaps ==
  ASSUME Init
  PROVE  Abstract!RegistryInit
<1>1. recordsBar = {}
  BY DEF Init, DatabaseInit, recordsBar
<1>2. toldBar = [r \in Requests |-> None]
  BY DEF Init, toldBar
<1> QED BY <1>1, <1>2 DEF Init, Abstract!RegistryInit

\* Every step of the server is one step of the registry or none.
LEMMA StepMaps ==
  ASSUME Inv, [Next]_vars
  PROVE  Abstract!RegistryNext \/ UNCHANGED Abstract!registryVars
<1> USE DEF worldVars, localVars, databaseVars, buildVars, sendVars, formVars
<1>1. CASE UNCHANGED vars
  BY <1>1, SilentStep DEF vars
<1>2. CASE ClockTick \/ Redeploy
  BY <1>2, SilentStep DEF ClockTick, Redeploy
<1>3. ASSUME NEW c \in Contracts, NEW s \in Deployable, ChainUpdate(c, s)
      PROVE  Abstract!RegistryNext
  <2>1. recordsBar' = recordsBar /\ toldBar' = toldBar
    BY <1>3, RecordsStay, ToldStays DEF ChainUpdate
  <2>2. Abstract!Update(c, s)
    BY <1>3, <2>1 DEF ChainUpdate, Abstract!Update
  <2> QED BY <2>2 DEF Abstract!RegistryNext
<1>4. ASSUME NEW r \in Requests, ArriveNotMultipart(r)
      PROVE  Abstract!RegistryNext
  <2>1. /\ pc[r] = "new"
        /\ UNCHANGED <<chain, verified, upload, nef, reply>>
        /\ \E code \in OtherCodes : resp' = [resp EXCEPT ![r] = code]
    BY <1>4 DEF ArriveNotMultipart, Answer, Move, OtherCodes
  <2>2. pc[r] \notin Inserted \cup {"dead", "done"}
    BY <2>1 DEF Inserted
  <2> QED BY <2>1, <2>2, OtherAnswerMaps
<1> QED BY <1>1, <1>2, <1>3, <1>4, ArriveMaps, ReceiveMaps, BuildMaps,
           AskNodeMaps, HandleMaps DEF Next, Environment

\* The server implements the registry: whatever the interleaving of the
\* handlers, the faults and the redeployments, what the database and the
\* responses show is a behaviour of module Registry.
THEOREM Refinement == Spec => RegistrySpec
<1>1. Init => Abstract!RegistryInit
  BY InitMaps
<1>2. Inv /\ [Next]_vars => [Abstract!RegistryNext]_(Abstract!registryVars)
  BY StepMaps
<1> QED BY <1>1, <1>2, Invariance, PTL
        DEF Spec, RegistrySpec, Abstract!RegistrySpec
=============================================================================
