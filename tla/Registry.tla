------------------------------ MODULE Registry ------------------------------
(***************************************************************************)
(* What the verification service promises, with no folders, compilers or   *)
(* program points: a registry of (contract, update counter) pairs.         *)
(*                                                                         *)
(* A record is only ever made for a version the contract has really had,   *)
(* and carries that version's script; records are never changed or         *)
(* withdrawn; a requester is told "verified" only after its own record     *)
(* has been made, and "already verified" only if somebody else's record    *)
(* for the same pair exists; a requester is told one thing at most.        *)
(***************************************************************************)
EXTENDS Naturals, Sequences

CONSTANTS Clients, Ids, ScriptValues, Nothing

VARIABLES
  history,   \* history[c]: the scripts contract c has had, oldest first
  records,   \* records: [hash, counter, script, by]
  told       \* told[r]: what r was told, and about what, or Nothing

registryVars == <<history, records, told>>

RegistryInit ==
  /\ history \in [Ids -> { <<>> } \cup { <<s>> : s \in ScriptValues }]
  /\ records = {}
  /\ told = [r \in Clients |-> Nothing]

\* The chain accepts a new version of a contract.
Update(c, s) ==
  /\ history' = [history EXCEPT ![c] = Append(@, s)]
  /\ UNCHANGED <<records, told>>

\* r's verification of version k of contract c goes on record.  k need not
\* be the latest version any more.
Record(r, c, k) ==
  /\ told[r] = Nothing
  /\ k \in DOMAIN history[c]
  /\ \A v \in records : v.by # r
  /\ records' = records \cup
       {[hash |-> c, counter |-> k - 1, script |-> history[c][k], by |-> r]}
  /\ UNCHANGED <<history, told>>

\* "Verified": r's own record is about version k of c.
TellVerified(r, c, k) ==
  /\ told[r] = Nothing
  /\ \E v \in records : v.by = r /\ v.hash = c /\ v.counter = k
  /\ told' = [told EXCEPT ![r] = [code |-> 5, about |-> <<c, k>>]]
  /\ UNCHANGED <<history, records>>

\* "Already verified": r has no record, another requester has one.
TellAlready(r, c, k) ==
  /\ told[r] = Nothing
  /\ \A v \in records : v.by # r
  /\ \E v \in records : v.hash = c /\ v.counter = k
  /\ told' = [told EXCEPT ![r] = [code |-> 6, about |-> <<c, k>>]]
  /\ UNCHANGED <<history, records>>

\* Any other answer leaves the registry as it is, and r without a record.
TellOther(r, code) ==
  /\ told[r] = Nothing
  /\ \A v \in records : v.by # r
  /\ told' = [told EXCEPT ![r] = [code |-> code, about |-> Nothing]]
  /\ UNCHANGED <<history, records>>

RegistryNext ==
  \/ \E c \in Ids, s \in ScriptValues : Update(c, s)
  \/ \E r \in Clients, c \in Ids :
       \/ \E k \in DOMAIN history[c] : Record(r, c, k)
       \/ \E v \in records : \/ TellVerified(r, c, v.counter)
                             \/ TellAlready(r, c, v.counter)
  \/ \E r \in Clients, code \in {0, 1, 2, 3, 4, 8, 500} : TellOther(r, code)

RegistrySpec == RegistryInit /\ [][RegistryNext]_registryVars
=============================================================================
