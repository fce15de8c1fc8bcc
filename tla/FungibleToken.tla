---------------------------- MODULE FungibleToken ----------------------------
(***************************************************************************)
(* FungibleToken.java, the contract in the Gradle project of the image,    *)
(* with the Neo virtual machine around it: a transaction calls the         *)
(* contract any number of times, directly or through other contracts, in   *)
(* a view of the storage that is committed at its end, or dropped when an  *)
(* exception is not caught.                                                *)
(*                                                                         *)
(* The machine is external.  getInteger of a key that is not there is 0,   *)
(* as getBalance and deductFromBalance take for granted.  Seeded faults    *)
(* stand before the definition they resemble.                              *)
(***************************************************************************)
EXTENDS Integers, FiniteSets

CONSTANTS
  Owner,          \* owner
  Users,          \* other accounts
  Contracts,      \* contracts, this one among them
  Token,          \* this contract's own hash
  Payable,        \* contracts with an onNEP17Payment that is marked safe
  Invalid,        \* an argument that is not a Hash160
  InitialSupply,  \* initialSupply
  MaxUpdates,     \* bound: updates of the contract
  None

Accounts == {Owner} \cup Users \cup Contracts
Hashes   == Accounts \cup {Invalid}
Amounts  == -1 .. InitialSupply + 1

ASSUME SupplyAssumption == InitialSupply \in Nat \ {0} /\ MaxUpdates \in Nat
ASSUME AccountsAssumption ==
  /\ Token \in Contracts /\ Payable \subseteq Contracts \ {Token}
  /\ Owner \notin Users \cup Contracts /\ Users \cap Contracts = {}
  /\ Invalid \notin Accounts /\ None \notin Accounts

VARIABLES
  chain,     \* the contract's storage, as committed
  view,      \* the same, as the running transaction sees it
  signers,   \* the signers of that transaction; None if there is none
  callers    \* the contracts it has executed

vars == <<chain, view, signers, callers>>

-----------------------------------------------------------------------------
(* Storage: status, totalSupplyKey, assetMap, the update counter, and for  *)
(* each account the balance of the Transfer events that name it.           *)

Absent(status) == [status |-> status, supply |-> 0, asset |-> <<>>,
                   updates |-> 0, fired |-> [a \in Accounts |-> 0]]

Put(asset, key, value) ==
  [a \in DOMAIN asset \cup {key} |-> IF a = key THEN value ELSE asset[a]]
Delete(asset, key) == [a \in DOMAIN asset \ {key} |-> asset[a]]

getBalance(asset, key) == IF key \in DOMAIN asset THEN asset[key] ELSE 0
addToBalance(asset, key, value) ==
  Put(asset, key, getBalance(asset, key) + value)
deductFromBalance(asset, key, value) ==
  IF getBalance(asset, key) = value THEN Delete(asset, key)
  ELSE Put(asset, key, getBalance(asset, key) - value)

Move(asset, from, to, amount) ==
  addToBalance(deductFromBalance(asset, from, amount), to, amount)

\* transfer, lines 72-75
MovedStale(asset, from, to, amount) ==
  IF amount = 0 THEN asset
  ELSE Put(deductFromBalance(asset, from, amount), to,
           getBalance(asset, to) + amount)
Moved(asset, from, to, amount) ==
  IF from # to /\ amount # 0 THEN Move(asset, from, to, amount) ELSE asset

\* onTransfer.fire
Fired(fired, from, to, amount) ==
  [a \in Accounts |-> fired[a] + (IF a = to THEN amount ELSE 0)
                               - (IF a = from THEN amount ELSE 0)]

-----------------------------------------------------------------------------
(* The virtual machine.                                                    *)

Init ==
  /\ chain = Absent("new")
  /\ view = chain
  /\ signers = None
  /\ callers = {}

CheckWitness(hash) == hash \in signers

\* verify: the contract signs a transaction only along with its owner.
verify(S) == Owner \in S

Begin(S) ==
  /\ signers = None
  /\ Token \in S => verify(S)
  /\ signers' = S
  /\ UNCHANGED <<chain, view, callers>>

Commit ==
  /\ signers # None
  /\ chain' = view
  /\ signers' = None
  /\ callers' = {}
  /\ UNCHANGED view

\* An exception nobody catches, out of gas included.
Fault ==
  /\ signers # None
  /\ view' = chain
  /\ signers' = None
  /\ callers' = {}
  /\ UNCHANGED chain

\* The code of contract k runs, and may call this one.
Execute(k) ==
  /\ signers # None
  /\ callers' = callers \cup {k}
  /\ UNCHANGED <<chain, view, signers>>

\* A call of this contract from the transaction's script (None) or from a
\* contract.  A call that throws, or returns false, before it has written
\* anything is Fault if it is not caught, and no step at all if it is.
Called(caller) ==
  /\ signers # None
  /\ view.status = "deployed"
  /\ caller \in callers \cup {None}

Write(v) ==
  /\ view' = v
  /\ UNCHANGED <<chain, signers, callers>>

-----------------------------------------------------------------------------
(* The contract.                                                           *)

\* The checks of transfer, lines 59-71.
MaySpendSlip(from, caller) == from \in Accounts
MaySpend(from, caller)     == CheckWitness(from) \/ from = caller
CoversSlip(asset, from, amount) == getBalance(asset, from) + 1 >= amount
Covers(asset, from, amount)     == getBalance(asset, from) >= amount

AfterTransfer(from, to, amount) ==
  [view EXCEPT !.asset = Moved(@, from, to, amount),
               !.fired = Fired(@, from, to, amount)]

\* To a contract: the manifest permits calls to ContractManagement only, so
\* that onNEP17Payment cannot be called unless it is safe (and then writes
\* nothing).  The exception this raises comes after the writes; a contract
\* that catches it may find them kept, depending on the node's version.
transfer(caller, from, to, amount) ==
  /\ Called(caller)
  /\ from \in Accounts /\ to \in Accounts
  /\ amount >= 0
  /\ MaySpend(from, caller)
  /\ Covers(view.asset, from, amount)
  /\ to \in Contracts => to \in Payable \/ caller # None
  /\ Write(AfterTransfer(from, to, amount))

\* _deploy, which ContractManagement calls for a new contract and, with
\* update set, for an updated one.
DeployAgain(v, update) ==
  [v EXCEPT !.status = "deployed", !.supply = InitialSupply,
            !.asset = Put(@, Owner, InitialSupply)]
Deployed(v, update) ==
  IF update THEN v
  ELSE [v EXCEPT !.status = "deployed", !.supply = InitialSupply,
                 !.asset = Put(@, Owner, InitialSupply)]

deploy ==
  /\ signers # None
  /\ view.status = "new"
  /\ CheckWitness(Owner)
  /\ Write(Deployed(view, FALSE))

\* update; ContractManagement refuses an empty script or manifest on its own
\* account, so that both are given.  The new code is taken to be this code.
update(caller) ==
  /\ Called(caller)
  /\ CheckWitness(Owner)
  /\ view.updates < MaxUpdates
  /\ Write(Deployed([view EXCEPT !.updates = @ + 1], TRUE))

\* destroy; ContractManagement deletes the storage, and the hash is not used
\* again.
destroy(caller) ==
  /\ Called(caller)
  /\ CheckWitness(Owner)
  /\ Write(Absent("destroyed"))

Next ==
  \/ \E S \in SUBSET Accounts : Begin(S)
  \/ Commit \/ Fault \/ deploy
  \/ \E k \in Contracts : Execute(k)
  \/ \E caller \in Contracts \cup {None} :
       \/ update(caller) \/ destroy(caller)
       \/ \E from, to \in Hashes, amount \in Amounts :
            transfer(caller, from, to, amount)

Spec == Init /\ [][Next]_vars
-----------------------------------------------------------------------------
(* Properties.                                                             *)

IsStorage(v) ==
  /\ v.status \in {"new", "deployed", "destroyed"}
  /\ v.supply \in {0, InitialSupply}
  /\ DOMAIN v.asset \subseteq Accounts
  /\ \A a \in DOMAIN v.asset : v.asset[a] \in Nat
  /\ v.updates \in 0 .. MaxUpdates
  /\ v.fired \in [Accounts -> Int]

TypeOK ==
  /\ IsStorage(chain) /\ IsStorage(view)
  /\ signers \in (SUBSET Accounts) \cup {None}
  /\ callers \subseteq Contracts

\* The tokens that are held, one by one: the first to the last of each entry.
Holdings(asset) == UNION { {a} \X (1 .. asset[a]) : a \in DOMAIN asset }

\* Tokens are neither made nor lost: as many are held as totalSupply says, in
\* the middle of a transaction too, and no entry of assetMap is 0
\* (deductFromBalance deletes it instead), also for transfers of everything,
\* of nothing and to oneself, and across updates.
Conserved ==
  \A v \in {chain, view} :
    /\ Cardinality(Holdings(v.asset)) = v.supply
    /\ \A a \in DOMAIN v.asset : v.asset[a] # 0

\* Whoever follows the Transfer events knows the balances: an account's is
\* the sum of what came and went by event, plus, for the owner, the initial
\* supply, for which deploy fires no event.
EventsExplainBalances ==
  \A v \in {chain, view} : v.status = "deployed" =>
    \A a \in Accounts :
      getBalance(v.asset, a) = v.fired[a] + (IF a = Owner THEN InitialSupply ELSE 0)

\* No transaction takes tokens from an account that has neither signed it
\* nor, being a contract, been executed by it, nor changes supply, code or
\* existence of the contract without the owner: save that destroying the
\* contract takes everything from everybody.
Consent ==
  [][ /\ \A a \in Accounts :
           /\ getBalance(chain'.asset, a) < getBalance(chain.asset, a)
           /\ chain'.status = "deployed"
           => a \in signers \cup callers
      /\ \/ chain'.status = chain.status /\ chain'.updates = chain.updates
         \/ Owner \in signers ]_vars
=============================================================================
