------------------------------ MODULE Database ------------------------------
(***************************************************************************)
(* The MongoDB database of the network: the collections VerifyContractModel*)
(* and ContractSourceCode.  Neither has a unique index; every insert adds  *)
(* a document.  Documents outlive the server process.  The field "by" is   *)
(* the identity of a document (its _id, which the driver generates for     *)
(* each insert): a request inserts at most one VerifyContractModel         *)
(* document, and one ContractSourceCode document per file.                 *)
(***************************************************************************)
VARIABLES
  verified,    \* VerifyContractModel: [hash, updatecounter, by]
  source       \* ContractSourceCode:  [hash, updatecounter, fileName, code, by]

databaseVars == <<verified, source>>

DatabaseInit ==
  /\ verified = {}
  /\ source = {}

\* FindOne(bson.M{"hash": hash, "updatecounter": counter}) has a result.
NeverFound(hash, counter) == FALSE
AnyVersionVerified(hash, counter) == \E v \in verified : v.hash = hash
IsVerified(hash, counter) ==
  \E v \in verified : v.hash = hash /\ v.updatecounter = counter

InsertForgotten(hash, counter, by) == UNCHANGED databaseVars
InsertVerifiedContract(hash, counter, by) ==
  /\ verified' = verified \cup
       {[hash |-> hash, updatecounter |-> counter, by |-> by]}
  /\ UNCHANGED source

InsertContractSourceCode(hash, counter, fileName, code, by) ==
  /\ source' = source \cup
       {[hash |-> hash, updatecounter |-> counter,
         fileName |-> fileName, code |-> code, by |-> by]}
  /\ UNCHANGED verified
=============================================================================
