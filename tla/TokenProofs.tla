---------------------------- MODULE TokenProofs ----------------------------
(***************************************************************************)
(* Proofs about FungibleToken, for any accounts, contracts and supply.     *)
(***************************************************************************)
EXTENDS FungibleToken, FiniteSetTheorems, TLAPS

(* The inductive invariant.                                                *)

\* Nothing is stored before deploy has run, and a transaction cannot undo
\* the deployment.
FreshEmpty ==
  /\ \A v \in {chain, view} : v.status = "new" =>
       DOMAIN v.asset = {} /\ \A a \in Accounts : v.fired[a] = 0
  /\ view.status = "new" => chain.status = "new"

\* What Commit will make of the running transaction is what Consent allows.
ConsentSoFar ==
  /\ signers = None => view = chain /\ callers = {}
  /\ signers # None =>
       /\ \A a \in Accounts :
            /\ getBalance(view.asset, a) < getBalance(chain.asset, a)
            /\ view.status = "deployed"
            => a \in signers \cup callers
       /\ \/ view.status = chain.status /\ view.updates = chain.updates
          \/ Owner \in signers

TokenInv == TypeOK /\ FreshEmpty /\ EventsExplainBalances /\ ConsentSoFar

-----------------------------------------------------------------------------
(* Storage.                                                                *)

\* The balances after a Put.
LEMMA PutBalance ==
  ASSUME NEW asset, NEW key, NEW value
  PROVE  \A a : getBalance(Put(asset, key, value), a) =
                  IF a = key THEN value ELSE getBalance(asset, a)
  BY DEF getBalance, Put

\* The balances after a Delete.
LEMMA DeleteBalance ==
  ASSUME NEW asset, NEW key
  PROVE  \A a : getBalance(Delete(asset, key), a) =
                  IF a = key THEN 0 ELSE getBalance(asset, a)
  BY DEF getBalance, Delete

\* A map of balances: the entries are natural numbers, for accounts.
IsAsset(asset) ==
  DOMAIN asset \subseteq Accounts /\ \A a \in DOMAIN asset : asset[a] \in Nat

\* A balance is a natural number.
LEMMA BalanceType ==
  ASSUME NEW asset, IsAsset(asset), NEW a
  PROVE  getBalance(asset, a) \in Nat
  BY DEF IsAsset, getBalance

\* Put yields an asset map.
LEMMA PutType ==
  ASSUME NEW asset, IsAsset(asset), NEW key \in Accounts, NEW value \in Nat
  PROVE  IsAsset(Put(asset, key, value))
  BY DEF IsAsset, Put

\* Delete yields an asset map.
LEMMA DeleteType ==
  ASSUME NEW asset, IsAsset(asset), NEW key
  PROVE  IsAsset(Delete(asset, key))
  BY DEF IsAsset, Delete

\* What deductFromBalance and addToBalance do to every balance.
LEMMA DeductBalance ==
  ASSUME NEW asset, IsAsset(asset), NEW key \in Accounts, NEW value \in Nat,
         getBalance(asset, key) >= value
  PROVE  /\ IsAsset(deductFromBalance(asset, key, value))
         /\ \A a : getBalance(deductFromBalance(asset, key, value), a) =
              IF a = key THEN getBalance(asset, key) - value
              ELSE getBalance(asset, a)
<1>1. getBalance(asset, key) \in Nat
  BY BalanceType
<1>2. CASE getBalance(asset, key) = value
  <2>1. deductFromBalance(asset, key, value) = Delete(asset, key)
    BY <1>2 DEF deductFromBalance
  <2>2. IsAsset(Delete(asset, key))
    BY DeleteType
  <2>3. \A a : getBalance(Delete(asset, key), a) =
               IF a = key THEN 0 ELSE getBalance(asset, a)
    BY DeleteBalance
  <2>4. getBalance(asset, key) - value = 0
    BY <1>1, <1>2
  <2> QED
    BY <2>1, <2>2, <2>3, <2>4
<1>3. CASE getBalance(asset, key) # value
  <2> DEFINE rest == getBalance(asset, key) - value
  <2>1. deductFromBalance(asset, key, value) = Put(asset, key, rest)
    BY <1>3 DEF deductFromBalance
  <2>2. rest \in Nat /\ rest = getBalance(asset, key) - value
    BY <1>1
  <2> HIDE DEF rest
  <2>3. IsAsset(Put(asset, key, rest))
    BY <2>2, PutType
  <2>4. \A a : getBalance(Put(asset, key, rest), a) =
               IF a = key THEN rest ELSE getBalance(asset, a)
    BY PutBalance
  <2> QED
    BY <2>1, <2>2, <2>3, <2>4
<1> QED
  BY <1>2, <1>3

\* The balances after an amount is added to one of them.
LEMMA AddBalance ==
  ASSUME NEW asset, IsAsset(asset), NEW key \in Accounts, NEW value \in Nat
  PROVE  /\ IsAsset(addToBalance(asset, key, value))
         /\ \A a : getBalance(addToBalance(asset, key, value), a) =
              IF a = key THEN getBalance(asset, key) + value
              ELSE getBalance(asset, a)
<1> DEFINE sum == getBalance(asset, key) + value
<1>1. addToBalance(asset, key, value) = Put(asset, key, sum)
  BY DEF addToBalance
<1>2. sum \in Nat /\ sum = getBalance(asset, key) + value
  BY BalanceType
<1> HIDE DEF sum
<1>3. IsAsset(Put(asset, key, sum))
  BY <1>2, PutType
<1>4. \A a : getBalance(Put(asset, key, sum), a) =
             IF a = key THEN sum ELSE getBalance(asset, a)
  BY PutBalance
<1> QED
  BY <1>1, <1>2, <1>3, <1>4

\* A transfer takes the amount from one balance and adds it to the other, and
\* leaves a balance alone when both are the same.
LEMMA MovedBalance ==
  ASSUME NEW asset, IsAsset(asset), NEW from \in Accounts, NEW to \in Accounts,
         NEW amount \in Nat, getBalance(asset, from) >= amount
  PROVE  /\ IsAsset(Moved(asset, from, to, amount))
         /\ \A a : getBalance(Moved(asset, from, to, amount), a) =
              getBalance(asset, a) + (IF a = to THEN amount ELSE 0)
                                   - (IF a = from THEN amount ELSE 0)
<1>1. \A a : getBalance(asset, a) \in Nat
  BY BalanceType
<1>2. CASE from # to /\ amount # 0
  <2> DEFINE less == deductFromBalance(asset, from, amount)
  <2>1. Moved(asset, from, to, amount) = addToBalance(less, to, amount)
    BY <1>2 DEF Moved, Move
  <2>2. /\ IsAsset(less)
        /\ \A a : getBalance(less, a) =
             IF a = from THEN getBalance(asset, from) - amount
             ELSE getBalance(asset, a)
    BY DeductBalance
  <2> HIDE DEF less
  <2>3. /\ IsAsset(addToBalance(less, to, amount))
        /\ \A a : getBalance(addToBalance(less, to, amount), a) =
             IF a = to THEN getBalance(less, to) + amount
             ELSE getBalance(less, a)
    BY <2>2, AddBalance
  <2> QED
    BY <1>1, <1>2, <2>1, <2>2, <2>3
<1>3. CASE ~(from # to /\ amount # 0)
  BY <1>1, <1>3 DEF Moved
<1> QED
  BY <1>2, <1>3

-----------------------------------------------------------------------------
(* The invariant is inductive.                                             *)

\* A storage's asset map.
LEMMA StorageAsset ==
  ASSUME NEW v, IsStorage(v)
  PROVE  IsAsset(v.asset)
  BY DEF IsStorage, IsAsset

\* TokenInv holds at the start.
LEMMA InitInv == Init => TokenInv
<1> SUFFICES ASSUME Init PROVE TokenInv
  OBVIOUS
<1>1. chain = Absent("new") /\ view = chain /\ signers = None /\ callers = {}
  BY DEF Init
<1>2. /\ chain.status = "new" /\ chain.supply = 0 /\ DOMAIN chain.asset = {}
      /\ chain.updates = 0 /\ chain.fired = [a \in Accounts |-> 0]
  BY <1>1 DEF Absent
<1>3. IsStorage(chain)
  BY <1>2, SupplyAssumption DEF IsStorage
<1>4. TypeOK
  <2>1. IsStorage(view)
    BY <1>1, <1>3, Zenon
  <2>2. signers \in (SUBSET Accounts) \cup {None} /\ callers \subseteq Contracts
    BY <1>1
  <2> QED
    BY <1>3, <2>1, <2>2 DEF TypeOK
<1>5. FreshEmpty /\ EventsExplainBalances /\ ConsentSoFar
  BY <1>1, <1>2 DEF FreshEmpty, EventsExplainBalances, ConsentSoFar
<1> QED
  BY <1>4, <1>5 DEF TokenInv

\* A call that leaves the transaction open only has to answer for the view.
LEMMA WriteInv ==
  ASSUME TokenInv, signers # None, NEW v, Write(v), IsStorage(v),
         v.status # "new",
         v.status = "deployed" =>
           \A a \in Accounts : getBalance(v.asset, a) =
             v.fired[a] + (IF a = Owner THEN InitialSupply ELSE 0),
         v.status = "deployed" =>
           \A a \in Accounts : \/ getBalance(v.asset, a) >= getBalance(view.asset, a)
                                \/ a \in signers \cup callers,
         \/ v.status = view.status /\ v.updates = view.updates
         \/ Owner \in signers,
         v.status = "deployed" => view.status \in {"new", "deployed"}
  PROVE  TokenInv'
<1> USE DEF TokenInv
<1>1. view' = v /\ chain' = chain /\ signers' = signers /\ callers' = callers
  BY DEF Write
<1>2. TypeOK'
  BY <1>1 DEF TypeOK, IsStorage
<1>3. FreshEmpty'
  BY <1>1 DEF FreshEmpty
<1>4. EventsExplainBalances'
  BY <1>1 DEF EventsExplainBalances
<1>5. ConsentSoFar'
  <2>1. ASSUME NEW a \in Accounts, v.status = "deployed",
               getBalance(v.asset, a) < getBalance(chain.asset, a)
        PROVE  a \in signers \cup callers
    <3>1. /\ getBalance(v.asset, a) \in Nat /\ getBalance(view.asset, a) \in Nat
          /\ getBalance(chain.asset, a) \in Nat
      BY StorageAsset, BalanceType DEF TypeOK
    <3>2. CASE view.status = "deployed"
      BY <2>1, <3>1, <3>2 DEF ConsentSoFar
    <3>3. CASE view.status = "new"
      BY <2>1, <3>1, <3>3 DEF ConsentSoFar, FreshEmpty, getBalance
    <3> QED
      BY <2>1, <3>2, <3>3
  <2>2. \/ v.status = chain.status /\ v.updates = chain.updates
        \/ Owner \in signers
    BY DEF ConsentSoFar
  <2> QED
    BY <1>1, <2>1, <2>2 DEF ConsentSoFar
<1> QED
  BY <1>2, <1>3, <1>4, <1>5

\* TokenInv is kept by transfer.
LEMMA TransferInv ==
  ASSUME TokenInv, NEW caller, NEW from, NEW to, NEW amount \in Int,
         transfer(caller, from, to, amount)
  PROVE  TokenInv'
<1> DEFINE v == AfterTransfer(from, to, amount)
<1>1. /\ signers # None /\ view.status = "deployed"
      /\ from \in Accounts /\ to \in Accounts /\ amount \in Nat
      /\ from \in signers \cup callers
      /\ getBalance(view.asset, from) >= amount
      /\ Write(v)
  BY AccountsAssumption DEF transfer, Called, MaySpend, CheckWitness, Covers
<1>2. IsStorage(view) /\ IsAsset(view.asset)
  BY StorageAsset DEF TokenInv, TypeOK
<1>3. /\ IsAsset(Moved(view.asset, from, to, amount))
      /\ \A a : getBalance(Moved(view.asset, from, to, amount), a) =
           getBalance(view.asset, a) + (IF a = to THEN amount ELSE 0)
                                     - (IF a = from THEN amount ELSE 0)
  BY <1>1, <1>2, MovedBalance
<1>4. /\ v.status = view.status /\ v.supply = view.supply
      /\ v.updates = view.updates
      /\ v.asset = Moved(view.asset, from, to, amount)
      /\ v.fired = Fired(view.fired, from, to, amount)
  BY <1>2 DEF AfterTransfer, IsStorage
<1>5. /\ v.fired \in [Accounts -> Int]
      /\ \A a \in Accounts : v.fired[a] =
           view.fired[a] + (IF a = to THEN amount ELSE 0)
                         - (IF a = from THEN amount ELSE 0)
  BY <1>1, <1>2, <1>4 DEF Fired, IsStorage
<1> HIDE DEF v
<1>6. IsStorage(v)
  BY <1>2, <1>3, <1>4, <1>5 DEF IsStorage, IsAsset
<1>7. \A a \in Accounts : getBalance(v.asset, a) =
        v.fired[a] + (IF a = Owner THEN InitialSupply ELSE 0)
  <2> TAKE a \in Accounts
  <2>1. getBalance(view.asset, a) =
          view.fired[a] + (IF a = Owner THEN InitialSupply ELSE 0)
    BY <1>1 DEF TokenInv, EventsExplainBalances
  <2>2. view.fired[a] \in Int /\ InitialSupply \in Int
    BY <1>2, SupplyAssumption DEF IsStorage
  <2> QED
    BY <1>1, <1>3, <1>4, <1>5, <2>1, <2>2
<1>8. \A a \in Accounts : \/ getBalance(v.asset, a) >= getBalance(view.asset, a)
                          \/ a \in signers \cup callers
  <2> TAKE a \in Accounts
  <2>1. getBalance(view.asset, a) \in Nat
    BY <1>2, BalanceType
  <2> QED
    BY <1>1, <1>3, <1>4, <2>1
<1> QED
  BY <1>1, <1>4, <1>6, <1>7, <1>8, WriteInv

\* TokenInv is kept by deploy.
LEMMA DeployInv == TokenInv /\ deploy => TokenInv'
<1> SUFFICES ASSUME TokenInv, deploy PROVE TokenInv'
  OBVIOUS
<1> DEFINE v == Deployed(view, FALSE)
<1>1. /\ signers # None /\ view.status = "new" /\ Owner \in signers
      /\ Write(v)
  BY DEF deploy, CheckWitness
<1>2. IsStorage(view) /\ IsAsset(view.asset)
  BY StorageAsset DEF TokenInv, TypeOK
<1>3. /\ v.status = "deployed" /\ v.supply = InitialSupply
      /\ v.updates = view.updates /\ v.fired = view.fired
      /\ v.asset = Put(view.asset, Owner, InitialSupply)
  BY <1>2 DEF Deployed, IsStorage
<1> HIDE DEF v
<1>4. Owner \in Accounts /\ InitialSupply \in Nat
  BY SupplyAssumption DEF Accounts
<1>5. IsAsset(v.asset)
  BY <1>2, <1>3, <1>4, PutType
<1>6. IsStorage(v)
  BY <1>2, <1>3, <1>5 DEF IsStorage, IsAsset
<1>7. \A a \in Accounts : getBalance(v.asset, a) =
                          IF a = Owner THEN InitialSupply ELSE 0
  <2>1. DOMAIN view.asset = {}
    BY <1>1 DEF TokenInv, FreshEmpty
  <2>2. \A a : getBalance(view.asset, a) = 0
    BY <2>1 DEF getBalance
  <2> QED
    BY <1>3, <2>2, PutBalance
<1>8. \A a \in Accounts : v.fired[a] = 0 /\ getBalance(view.asset, a) = 0
  BY <1>1, <1>3 DEF TokenInv, FreshEmpty, getBalance
<1>9. \A a \in Accounts :
        /\ getBalance(v.asset, a) =
             v.fired[a] + (IF a = Owner THEN InitialSupply ELSE 0)
        /\ getBalance(v.asset, a) >= getBalance(view.asset, a)
  BY <1>4, <1>7, <1>8
<1> QED
  BY <1>1, <1>3, <1>6, <1>9, WriteInv

\* TokenInv is kept by update.
LEMMA UpdateInv ==
  ASSUME TokenInv, NEW caller, update(caller)
  PROVE  TokenInv'
<1> DEFINE v == [view EXCEPT !.updates = @ + 1]
<1>1. /\ signers # None /\ view.status = "deployed" /\ Owner \in signers
      /\ view.updates < MaxUpdates
      /\ Write(v)
  BY DEF update, Called, CheckWitness, Deployed
<1>2. IsStorage(view)
  BY DEF TokenInv, TypeOK
<1>3. /\ v.status = view.status /\ v.supply = view.supply
      /\ v.asset = view.asset /\ v.fired = view.fired
      /\ v.updates = view.updates + 1
  BY <1>2 DEF IsStorage
<1> HIDE DEF v
<1>4. IsStorage(v)
  BY <1>1, <1>2, <1>3, SupplyAssumption DEF IsStorage
<1>5. \A a \in Accounts :
        /\ getBalance(v.asset, a) =
             v.fired[a] + (IF a = Owner THEN InitialSupply ELSE 0)
        /\ getBalance(v.asset, a) >= getBalance(view.asset, a)
  <2>1. \A a : getBalance(view.asset, a) \in Nat
    BY <1>2, StorageAsset, BalanceType
  <2> QED
    BY <1>1, <1>3, <2>1 DEF TokenInv, EventsExplainBalances
<1> QED
  BY <1>1, <1>3, <1>4, <1>5, WriteInv

\* TokenInv is kept by destroy.
LEMMA DestroyInv ==
  ASSUME TokenInv, NEW caller, destroy(caller)
  PROVE  TokenInv'
<1> DEFINE v == Absent("destroyed")
<1>1. signers # None /\ Owner \in signers /\ Write(v)
  BY DEF destroy, Called, CheckWitness
<1>2. /\ v.status = "destroyed" /\ v.supply = 0 /\ DOMAIN v.asset = {}
      /\ v.updates = 0 /\ v.fired = [a \in Accounts |-> 0]
  BY DEF Absent
<1> HIDE DEF v
<1>3. IsStorage(v)
  BY <1>2, SupplyAssumption DEF IsStorage
<1> QED
  BY <1>1, <1>2, <1>3, WriteInv

\* TokenInv is kept by every step.
LEMMA NextInv == TokenInv /\ [Next]_vars => TokenInv'
<1> SUFFICES ASSUME TokenInv, [Next]_vars PROVE TokenInv'
  OBVIOUS
<1> USE DEF TokenInv
<1>1. ASSUME NEW S \in SUBSET Accounts, Begin(S) PROVE TokenInv'
  <2>1. /\ signers = None /\ signers' = S /\ chain' = chain /\ view' = view
        /\ callers' = callers /\ view = chain /\ callers = {}
    BY <1>1 DEF Begin, ConsentSoFar
  <2>2. TypeOK'
    BY <2>1 DEF TypeOK, IsStorage
  <2>3. FreshEmpty' /\ EventsExplainBalances'
    BY <2>1 DEF FreshEmpty, EventsExplainBalances
  <2>4. \A a : getBalance(chain.asset, a) \in Nat
    BY StorageAsset, BalanceType DEF TypeOK
  <2>5. ConsentSoFar'
    BY <2>1, <2>4 DEF ConsentSoFar
  <2> QED
    BY <2>2, <2>3, <2>5
<1>2. ASSUME Commit PROVE TokenInv'
  <2>1. chain' = view /\ view' = view /\ signers' = None /\ callers' = {}
    BY <1>2 DEF Commit
  <2>2. TypeOK'
    <3>1. IsStorage(view)
      BY DEF TypeOK
    <3>2. IsStorage(chain)' /\ IsStorage(view)'
      BY <2>1, <3>1 DEF IsStorage
    <3>3. signers' \in (SUBSET Accounts) \cup {None} /\ callers' \subseteq Contracts
      BY <2>1
    <3> QED
      BY <3>2, <3>3 DEF TypeOK
  <2> QED
    BY <2>1, <2>2 DEF FreshEmpty, EventsExplainBalances, ConsentSoFar
<1>3. ASSUME Fault PROVE TokenInv'
  <2>1. chain' = chain /\ view' = chain /\ signers' = None /\ callers' = {}
    BY <1>3 DEF Fault
  <2>2. TypeOK'
    <3>1. IsStorage(chain)
      BY DEF TypeOK
    <3>2. IsStorage(chain)' /\ IsStorage(view)'
      BY <2>1, <3>1 DEF IsStorage
    <3>3. signers' \in (SUBSET Accounts) \cup {None} /\ callers' \subseteq Contracts
      BY <2>1
    <3> QED
      BY <3>2, <3>3 DEF TypeOK
  <2> QED
    BY <2>1, <2>2 DEF FreshEmpty, EventsExplainBalances, ConsentSoFar
<1>4. ASSUME NEW k \in Contracts, Execute(k) PROVE TokenInv'
  <2>1. /\ signers # None /\ chain' = chain /\ view' = view
        /\ signers' = signers /\ callers' = callers \cup {k}
    BY <1>4 DEF Execute
  <2>2. TypeOK'
    BY <2>1 DEF TypeOK, IsStorage
  <2>3. FreshEmpty' /\ EventsExplainBalances'
    BY <2>1 DEF FreshEmpty, EventsExplainBalances
  <2>4. ConsentSoFar'
    BY <2>1 DEF ConsentSoFar
  <2> QED
    BY <2>2, <2>3, <2>4
<1>5. ASSUME UNCHANGED vars PROVE TokenInv'
  <2>1. /\ chain' = chain /\ view' = view /\ signers' = signers
        /\ callers' = callers
    BY <1>5 DEF vars
  <2>2. TypeOK'
    BY <2>1 DEF TypeOK, IsStorage
  <2> QED
    BY <2>1, <2>2 DEF FreshEmpty, EventsExplainBalances, ConsentSoFar
<1>6. Amounts \subseteq Int
  BY DEF Amounts
<1> QED
  BY <1>1, <1>2, <1>3, <1>4, <1>5, <1>6, DeployInv, UpdateInv, DestroyInv,
     TransferInv
  DEF Next

-----------------------------------------------------------------------------
(* The tokens held.                                                        *)

\* Nothing in assetMap is 0.
NoZero(asset) == \A a \in DOMAIN asset : asset[a] # 0

\* What is held, by balance.
LEMMA HoldingsAre ==
  ASSUME NEW asset
  PROVE  \A h : h \in Holdings(asset) <=>
           \E a : h \in {a} \X (1 .. getBalance(asset, a))
<1>1. \A h : h \in Holdings(asset) <=>
        \E a \in DOMAIN asset : h \in {a} \X (1 .. asset[a])
  BY DEF Holdings
<1>2. \A a \in DOMAIN asset : getBalance(asset, a) = asset[a]
  BY DEF getBalance
<1>3. \A a : a \notin DOMAIN asset => 1 .. getBalance(asset, a) = {}
  BY DEF getBalance
<1> QED
  BY <1>1, <1>2, <1>3

\* The tokens of one account are as many as its balance.
LEMMA OwnHoldings ==
  ASSUME NEW key, NEW value \in Nat
  PROVE  /\ IsFiniteSet({key} \X (1 .. value))
         /\ Cardinality({key} \X (1 .. value)) = value
<1>1. IsFiniteSet({key}) /\ Cardinality({key}) = 1
  BY FS_Singleton
<1>2. IsFiniteSet(1 .. value) /\ Cardinality(1 .. value) = value
  BY FS_Interval
<1>3. /\ IsFiniteSet({key} \X (1 .. value))
      /\ Cardinality({key} \X (1 .. value)) =
           Cardinality({key}) * Cardinality(1 .. value)
  BY <1>1, <1>2, FS_Product, Zenon
<1> QED
  BY <1>1, <1>2, <1>3

\* When a single balance changes, the tokens held grow or shrink by as much.
LEMMA OneBalanceChanges ==
  ASSUME NEW old, IsAsset(old), IsFiniteSet(Holdings(old)),
         NEW new, IsAsset(new), NEW key,
         \A a : a # key => getBalance(new, a) = getBalance(old, a)
  PROVE  /\ IsFiniteSet(Holdings(new))
         /\ Cardinality(Holdings(new)) =
              Cardinality(Holdings(old)) + getBalance(new, key)
                                         - getBalance(old, key)
<1> DEFINE Own(asset) == {key} \X (1 .. getBalance(asset, key))
           rest == { h \in Holdings(old) : h[1] # key }
<1>1. Holdings(old) = rest \cup Own(old)
  BY HoldingsAre
<1>2. Holdings(new) = rest \cup Own(new)
  <2>1. \A h : h \in Holdings(new) /\ h[1] # key <=> h \in rest
    BY HoldingsAre
  <2>2. \A h : h \in Holdings(new) /\ h[1] = key <=> h \in Own(new)
    BY HoldingsAre
  <2> QED
    BY <2>1, <2>2
<1>3. rest \cap Own(old) = {} /\ rest \cap Own(new) = {}
  OBVIOUS
<1>4. getBalance(old, key) \in Nat /\ getBalance(new, key) \in Nat
  BY BalanceType
<1>5. /\ IsFiniteSet(Own(old)) /\ Cardinality(Own(old)) = getBalance(old, key)
      /\ IsFiniteSet(Own(new)) /\ Cardinality(Own(new)) = getBalance(new, key)
  BY <1>4, OwnHoldings
<1>6. IsFiniteSet(rest)
  BY FS_Subset
<1> HIDE DEF Own, rest
<1>7. /\ IsFiniteSet(rest \cup Own(new))
      /\ Cardinality(rest \cup Own(old)) =
           Cardinality(rest) + Cardinality(Own(old)) - Cardinality({})
      /\ Cardinality(rest \cup Own(new)) =
           Cardinality(rest) + Cardinality(Own(new)) - Cardinality({})
  BY <1>3, <1>5, <1>6, FS_Union
<1>8. Cardinality(rest) \in Nat /\ Cardinality({}) = 0
  BY <1>6, FS_CardinalityType, FS_EmptySet
<1> QED
  BY <1>1, <1>2, <1>4, <1>5, <1>7, <1>8

\* An empty assetMap holds nothing.
LEMMA NothingHeld ==
  ASSUME NEW asset, DOMAIN asset = {}
  PROVE  IsFiniteSet(Holdings(asset)) /\ Cardinality(Holdings(asset)) = 0
<1>1. Holdings(asset) = {}
  BY DEF Holdings
<1> QED
  BY <1>1, FS_EmptySet

\* A transfer keeps the number of tokens, and leaves no entry at 0.
LEMMA MovedHoldings ==
  ASSUME NEW asset, IsAsset(asset), NoZero(asset),
         IsFiniteSet(Holdings(asset)),
         NEW from \in Accounts, NEW to \in Accounts, NEW amount \in Nat,
         getBalance(asset, from) >= amount
  PROVE  /\ IsFiniteSet(Holdings(Moved(asset, from, to, amount)))
         /\ Cardinality(Holdings(Moved(asset, from, to, amount))) =
              Cardinality(Holdings(asset))
         /\ NoZero(Moved(asset, from, to, amount))
<1>1. CASE from # to /\ amount # 0
  <2> DEFINE less == deductFromBalance(asset, from, amount)
             more == addToBalance(less, to, amount)
  <2>1. Moved(asset, from, to, amount) = more
    BY <1>1 DEF Moved, Move
  <2>2. NoZero(less)
    BY BalanceType DEF NoZero, deductFromBalance, Put, Delete
  <2>3. /\ IsAsset(less)
        /\ \A a : getBalance(less, a) =
             IF a = from THEN getBalance(asset, from) - amount
             ELSE getBalance(asset, a)
    BY DeductBalance
  <2> HIDE DEF less
  <2>4. getBalance(less, to) \in Nat
    BY <2>3, BalanceType
  <2>5. NoZero(more)
    BY <1>1, <2>2, <2>4 DEF NoZero, addToBalance, Put
  <2>6. /\ IsAsset(more)
        /\ \A a : getBalance(more, a) =
             IF a = to THEN getBalance(less, to) + amount
             ELSE getBalance(less, a)
    BY <2>3, AddBalance
  <2> HIDE DEF more
  <2>7. /\ IsFiniteSet(Holdings(less))
        /\ Cardinality(Holdings(less)) =
             Cardinality(Holdings(asset)) + getBalance(less, from)
                                          - getBalance(asset, from)
    BY <2>3, OneBalanceChanges
  <2>8. /\ IsFiniteSet(Holdings(more))
        /\ Cardinality(Holdings(more)) =
             Cardinality(Holdings(less)) + getBalance(more, to)
                                         - getBalance(less, to)
    BY <2>3, <2>6, <2>7, OneBalanceChanges
  <2>9. /\ Cardinality(Holdings(asset)) \in Nat
        /\ getBalance(asset, from) \in Nat
    BY FS_CardinalityType, BalanceType
  <2> QED
    BY <2>1, <2>3, <2>4, <2>5, <2>6, <2>7, <2>8, <2>9
<1>2. CASE ~(from # to /\ amount # 0)
  BY <1>2 DEF Moved
<1> QED
  BY <1>1, <1>2

\* A storage whose entries add up to its supply.
Backed(v) ==
  /\ IsFiniteSet(Holdings(v.asset))
  /\ Cardinality(Holdings(v.asset)) = v.supply
  /\ NoZero(v.asset)

SupplyInv == Backed(chain) /\ Backed(view)

\* SupplyInv holds at the start.
LEMMA InitSupply == Init => SupplyInv
<1> SUFFICES ASSUME Init PROVE SupplyInv
  OBVIOUS
<1>1. DOMAIN chain.asset = {} /\ chain.supply = 0 /\ view = chain
  BY DEF Init, Absent
<1>2. Backed(chain)
  BY <1>1, NothingHeld DEF Backed, NoZero
<1> QED
  BY <1>1, <1>2 DEF SupplyInv

\* A method that leaves a backed view keeps SupplyInv.
LEMMA WriteSupply ==
  ASSUME SupplyInv, NEW v, Write(v), Backed(v)
  PROVE  SupplyInv'
<1>1. view' = v /\ chain' = chain
  BY DEF Write
<1> QED
  BY <1>1 DEF SupplyInv, Backed

\* SupplyInv is kept by transfer.
LEMMA TransferSupply ==
  ASSUME TokenInv, SupplyInv, NEW caller, NEW from, NEW to, NEW amount \in Int,
         transfer(caller, from, to, amount)
  PROVE  SupplyInv'
<1> DEFINE v == AfterTransfer(from, to, amount)
<1>1. /\ from \in Accounts /\ to \in Accounts /\ amount \in Nat
      /\ getBalance(view.asset, from) >= amount
      /\ Write(v)
  BY DEF transfer, Covers
<1>2. IsAsset(view.asset) /\ Backed(view)
  BY StorageAsset DEF TokenInv, TypeOK, SupplyInv
<1>3. /\ v.supply = view.supply
      /\ v.asset = Moved(view.asset, from, to, amount)
  BY DEF TokenInv, TypeOK, IsStorage, AfterTransfer
<1> HIDE DEF v
<1>4. Backed(v)
  BY <1>1, <1>2, <1>3, MovedHoldings DEF Backed
<1> QED
  BY <1>1, <1>4, WriteSupply

\* SupplyInv is kept by deploy: the owner is given the supply when there is
\* nothing else.
LEMMA DeploySupply == TokenInv /\ SupplyInv /\ deploy => SupplyInv'
<1> SUFFICES ASSUME TokenInv, SupplyInv, deploy PROVE SupplyInv'
  OBVIOUS
<1> DEFINE v == Deployed(view, FALSE)
<1>1. DOMAIN view.asset = {} /\ Write(v)
  BY DEF deploy, TokenInv, FreshEmpty
<1>2. /\ v.supply = InitialSupply
      /\ v.asset = Put(view.asset, Owner, InitialSupply)
  BY DEF Deployed, TokenInv, TypeOK, IsStorage
<1> HIDE DEF v
<1>3. InitialSupply \in Nat \ {0} /\ Owner \in Accounts
  BY SupplyAssumption DEF Accounts
<1>4. IsAsset(view.asset) /\ IsAsset(v.asset)
  BY <1>2, <1>3, StorageAsset, PutType DEF TokenInv, TypeOK
<1>5. \A a : getBalance(v.asset, a) =
               IF a = Owner THEN InitialSupply ELSE getBalance(view.asset, a)
  BY <1>2, PutBalance
<1>6. getBalance(view.asset, Owner) = 0
  BY <1>1 DEF getBalance
<1>7. IsFiniteSet(Holdings(view.asset)) /\ Cardinality(Holdings(view.asset)) = 0
  BY <1>1, NothingHeld
<1>8. /\ IsFiniteSet(Holdings(v.asset))
      /\ Cardinality(Holdings(v.asset)) =
           Cardinality(Holdings(view.asset)) + getBalance(v.asset, Owner)
                                             - getBalance(view.asset, Owner)
  BY <1>4, <1>5, <1>7, OneBalanceChanges
<1>9. NoZero(v.asset)
  BY <1>1, <1>2, <1>3 DEF NoZero, Put
<1>10. Backed(v)
  BY <1>2, <1>3, <1>5, <1>6, <1>7, <1>8, <1>9 DEF Backed
<1> QED
  BY <1>1, <1>10, WriteSupply

\* SupplyInv is kept by update, which leaves supply and balances alone.
LEMMA UpdateSupply ==
  ASSUME TokenInv, SupplyInv, NEW caller, update(caller)
  PROVE  SupplyInv'
<1> DEFINE v == [view EXCEPT !.updates = @ + 1]
<1>1. Write(v)
  BY DEF update, Deployed
<1>2. v.supply = view.supply /\ v.asset = view.asset
  OBVIOUS
<1>3. Backed(v)
  BY <1>2 DEF SupplyInv, Backed
<1> QED
  BY <1>1, <1>3, WriteSupply

\* SupplyInv is kept by destroy, which leaves no supply and no balance.
LEMMA DestroySupply ==
  ASSUME SupplyInv, NEW caller, destroy(caller)
  PROVE  SupplyInv'
<1> DEFINE v == Absent("destroyed")
<1>1. Write(v) /\ v.supply = 0 /\ DOMAIN v.asset = {}
  BY DEF destroy, Absent
<1> HIDE DEF v
<1>2. Backed(v)
  BY <1>1, NothingHeld DEF Backed, NoZero
<1> QED
  BY <1>1, <1>2, WriteSupply

\* SupplyInv is kept by every step.
LEMMA NextSupply == TokenInv /\ SupplyInv /\ [Next]_vars => SupplyInv'
<1> SUFFICES ASSUME TokenInv, SupplyInv, [Next]_vars PROVE SupplyInv'
  OBVIOUS
<1>1. CASE chain' \in {chain, view} /\ view' \in {chain, view}
  BY <1>1 DEF SupplyInv, Backed
<1>2. \/ Commit \/ Fault \/ UNCHANGED vars
      \/ \E S \in SUBSET Accounts : Begin(S)
      \/ \E k \in Contracts : Execute(k)
      => chain' \in {chain, view} /\ view' \in {chain, view}
  BY DEF Commit, Fault, vars, Begin, Execute
<1>3. Amounts \subseteq Int
  BY DEF Amounts
<1> QED
  BY <1>1, <1>2, <1>3, TransferSupply, DeploySupply, UpdateSupply, DestroySupply
  DEF Next

-----------------------------------------------------------------------------
(* The theorems.                                                           *)

\* The invariant holds throughout.
THEOREM TokenInvariance == Spec => []TokenInv
  BY InitInv, NextInv, PTL DEF Spec

\* Balances stay natural numbers of known accounts, whatever is transferred.
THEOREM TokenTypeCorrect == Spec => []TypeOK
<1>1. TokenInv => TypeOK
  BY DEF TokenInv
<1> QED
  BY <1>1, TokenInvariance, PTL

\* No method makes, loses or double-counts a token, whatever is transferred
\* between whom, and none leaves an entry of 0 behind.
THEOREM ConservedHolds == Spec => []Conserved
<1>1. SupplyInv => Conserved
  BY DEF SupplyInv, Backed, NoZero, Conserved
<1> QED
  BY <1>1, TokenInvariance, InitSupply, NextSupply, PTL DEF Spec

\* Every balance is what the Transfer events say, plus the owner's initial
\* supply.
THEOREM EventsExplainBalancesHolds == Spec => []EventsExplainBalances
<1>1. TokenInv => EventsExplainBalances
  BY DEF TokenInv
<1> QED
  BY <1>1, TokenInvariance, PTL

\* No committed transaction takes from an account that took no part in it,
\* or touches the contract itself without its owner.
THEOREM ConsentHolds == Spec => Consent
<1> DEFINE step ==
      /\ \A a \in Accounts :
           /\ getBalance(chain'.asset, a) < getBalance(chain.asset, a)
           /\ chain'.status = "deployed"
           => a \in signers \cup callers
      /\ \/ chain'.status = chain.status /\ chain'.updates = chain.updates
         \/ Owner \in signers
<1>1. TokenInv /\ [Next]_vars => [step]_vars
  <2> SUFFICES ASSUME TokenInv, Next PROVE step
    OBVIOUS
  <2>1. CASE Commit
    BY <2>1 DEF Commit, TokenInv, ConsentSoFar
  <2>2. CASE ~Commit
    <3>1. chain' = chain
      BY <2>2 DEF Next, Begin, Fault, Execute, deploy, update, destroy,
                  transfer, Write
    <3>2. \A a : getBalance(chain.asset, a) \in Nat
      BY StorageAsset, BalanceType DEF TokenInv, TypeOK
    <3> QED
      BY <3>1, <3>2
  <2> QED
    BY <2>1, <2>2
<1> HIDE DEF step
<1>2. Spec => [][step]_vars
  BY <1>1, TokenInvariance, PTL DEF Spec
<1> QED
  BY <1>2 DEF step, Consent
=============================================================================
