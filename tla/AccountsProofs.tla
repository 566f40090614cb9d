--------------------------- MODULE AccountsProofs ---------------------------
(***************************************************************************)
(* What each ledger handler preserves, for every ledger and transaction.   *)
(***************************************************************************)
EXTENDS Accounts, TLAPS

(* l2 is a ledger that keeps what l settled and mints nothing. *)
LedgerStep(l, l2) ==
  /\ l2 \in Ledger
  /\ l2.minted = l.minted
  /\ \A a \in Addr : l.nonce[a] <= l2.nonce[a]
  /\ \A s \in Slug : l.owner[s] # None => l2.owner[s] = l.owner[s]

(* A ledger step follows a ledger step. *)
LEMMA LedgerStepTransitive ==
  ASSUME NEW l \in Ledger, NEW l2, NEW l3, LedgerStep(l, l2), LedgerStep(l2, l3)
  PROVE  LedgerStep(l, l3)
<1>1. l.nonce \in [Addr -> Nonce] /\ l2.nonce \in [Addr -> Nonce]
      /\ l3.nonce \in [Addr -> Nonce]
  BY DEF LedgerStep, Ledger
<1>2. \A a \in Addr : l.nonce[a] <= l3.nonce[a]
  BY <1>1, AccountsAssumption DEF LedgerStep, Nonce
<1>3. \A s \in Slug : l.owner[s] # None => l3.owner[s] = l.owner[s]
  BY DEF LedgerStep
<1> QED
  BY <1>2, <1>3 DEF LedgerStep

(* deliver_tx takes the fee and the nonce of an accepted transaction. *)
LEMMA ChargeStep ==
  ASSUME NEW l \in Ledger, NEW tx, tx.sender \in Addr, tx.fee \in Coin,
         Accepted(l, tx)
  PROVE  LedgerStep(l, Charge(l, tx))
<1> DEFINE l2 == Charge(l, tx)
<1>1. /\ l.bal \in [Addr -> Coin] /\ l.nonce \in [Addr -> Nonce]
      /\ l.burned \in Nat
  BY DEF Ledger
<1>2. [l.bal EXCEPT ![tx.sender] = @ - tx.fee] \in [Addr -> Coin]
  BY <1>1, AccountsAssumption DEF Accepted, Coin
<1>3. [l.nonce EXCEPT ![tx.sender] = @ + 1] \in [Addr -> Nonce]
  BY <1>1, AccountsAssumption DEF Accepted, NonceIsNext, Nonce
<1>4. l.burned + tx.fee \in Nat
  BY <1>1, AccountsAssumption DEF Coin
<1>5. l2 \in Ledger
  BY <1>2, <1>3, <1>4 DEF Charge, Ledger
<1>6. \A a \in Addr : l.nonce[a] <= l2.nonce[a]
  BY <1>1, AccountsAssumption DEF Charge, Nonce, Ledger
<1>7. l2.minted = l.minted /\ l2.owner = l.owner
  BY DEF Charge, Ledger
<1> QED
  BY <1>5, <1>6, <1>7 DEF LedgerStep

(***************************************************************************)
(* Writing balances, stakes, existing accounts, validators and burned      *)
(* coins of the right types is a ledger step.                              *)
(***************************************************************************)
LEMMA MoneyStep ==
  ASSUME NEW l \in Ledger, NEW l2 \in Ledger, l2.minted = l.minted,
         l2.nonce = l.nonce, l2.owner = l.owner
  PROVE  LedgerStep(l, l2)
<1>1. l.nonce \in [Addr -> Nonce]
  BY DEF Ledger
<1> QED
  BY <1>1, AccountsAssumption DEF LedgerStep, Nonce

(* A transfer, also one that stops after the debit, is a ledger step. *)
LEMMA TransferStep ==
  ASSUME NEW l \in Ledger, NEW tx \in TransferTx
  PROVE  LedgerStep(l, Transfer(l, tx))
<1> DEFINE debited == [l EXCEPT !.bal[tx.sender] = @ - tx.amount]
           credited == [debited EXCEPT !.exists = @ \cup {tx.recipient},
                          !.bal[tx.recipient] = l.bal[tx.recipient] + tx.amount]
<1>1. /\ tx.sender \in Addr /\ tx.recipient \in Addr /\ tx.amount \in Coin
      /\ l.bal \in [Addr -> Coin] /\ l.exists \subseteq Addr
  BY DEF Ledger, TransferTx
<1>2. CASE l.bal[tx.sender] < tx.amount
  <2>1. Transfer(l, tx) = l
    BY <1>1, <1>2, AccountsAssumption DEF Transfer, Coin
  <2> QED
    BY <2>1, MoneyStep
<1>3. CASE l.bal[tx.sender] >= tx.amount
  <2>1. [l.bal EXCEPT ![tx.sender] = @ - tx.amount] \in [Addr -> Coin]
    BY <1>1, <1>3, AccountsAssumption DEF Coin
  <2>2. debited \in Ledger
    BY <2>1 DEF Ledger
  <2>3. /\ debited.minted = l.minted /\ debited.nonce = l.nonce
        /\ debited.owner = l.owner
    BY DEF Ledger
  <2>4. CASE l.bal[tx.recipient] + tx.amount > MaxCoin
    <3>1. Transfer(l, tx) = debited
      BY <1>1, <1>3, <2>4, AccountsAssumption DEF Transfer, Coin
    <3> QED
      BY <3>1, <2>2, <2>3, MoneyStep
  <2>5. CASE ~(l.bal[tx.recipient] + tx.amount > MaxCoin)
    <3>1. Transfer(l, tx) = credited
      BY <1>1, <1>3, <2>5, AccountsAssumption DEF Transfer, Coin
    <3>2. l.bal[tx.recipient] + tx.amount \in Coin
      BY <1>1, <2>5, AccountsAssumption DEF Coin
    <3>3. debited.exists \cup {tx.recipient} \subseteq Addr
          /\ [debited.bal EXCEPT ![tx.recipient] =
                 l.bal[tx.recipient] + tx.amount] \in [Addr -> Coin]
      BY <1>1, <2>2, <3>2 DEF Ledger
    <3>4. credited \in Ledger
      BY <2>2, <3>3 DEF Ledger
    <3>5. /\ credited.minted = l.minted /\ credited.nonce = l.nonce
          /\ credited.owner = l.owner
      BY <2>2, <2>3 DEF Ledger
    <3> QED
      BY <3>1, <3>4, <3>5, MoneyStep
  <2> QED
    BY <2>4, <2>5
<1> QED
  BY <1>1, <1>2, <1>3, AccountsAssumption DEF Coin

(* A stake, also one that stops after the debit, is a ledger step. *)
LEMMA StakeStep ==
  ASSUME NEW l \in Ledger, NEW tx \in StakeTx
  PROVE  LedgerStep(l, Stake(l, tx))
<1> DEFINE s == tx.sender
           debited == [l EXCEPT !.bal[s] = @ - tx.amount]
           staked == [debited EXCEPT !.stake[s] = @ + tx.amount]
           listed == [staked EXCEPT !.validators = @ \cup {s},
                                    !.vstake[s]  = staked.stake[s]]
           refused == \/ l.bal[s] < tx.amount
                      \/ l.stake[s] = 0 /\ tx.amount < MinStake
           overflow == l.stake[s] + tx.amount > MaxCoin
<1>1. /\ s \in Addr /\ tx.amount \in Coin
      /\ l.bal \in [Addr -> Coin] /\ l.stake \in [Addr -> Coin]
  BY DEF Ledger, StakeTx
<1>2. CASE refused
  <2>1. Stake(l, tx) = l
    BY <1>1, <1>2, AccountsAssumption DEF Stake, Coin
  <2> QED
    BY <2>1, MoneyStep
<1>3. CASE ~refused
  <2>1. [l.bal EXCEPT ![s] = @ - tx.amount] \in [Addr -> Coin]
    BY <1>1, <1>3, AccountsAssumption DEF Coin
  <2>2. debited \in Ledger
    BY <2>1 DEF Ledger
  <2>3. /\ debited.minted = l.minted /\ debited.nonce = l.nonce
        /\ debited.owner = l.owner /\ debited.stake = l.stake
    BY DEF Ledger
  <2>4. CASE overflow
    <3>1. Stake(l, tx) = debited
      BY <1>1, <1>3, <2>4, AccountsAssumption DEF Stake, Coin
    <3> QED
      BY <3>1, <2>2, <2>3, MoneyStep
  <2>5. CASE ~overflow
    <3>1. Stake(l, tx) = IF tx.withKey THEN listed ELSE staked
      BY <1>1, <1>3, <2>5, AccountsAssumption DEF Stake, Coin
    <3>2. [debited.stake EXCEPT ![s] = @ + tx.amount] \in [Addr -> Coin]
      BY <1>1, <2>3, <2>5, AccountsAssumption DEF Coin
    <3>3. staked \in Ledger
      BY <2>2, <3>2 DEF Ledger
    <3>4. /\ staked.minted = l.minted /\ staked.nonce = l.nonce
          /\ staked.owner = l.owner
      BY <2>2, <2>3 DEF Ledger
    <3>5. /\ staked.validators \cup {s} \subseteq Addr
          /\ [staked.vstake EXCEPT ![s] = staked.stake[s]] \in [Addr -> Coin]
      BY <1>1, <3>3 DEF Ledger
    <3>6. listed \in Ledger
      BY <3>3, <3>5 DEF Ledger
    <3>7. /\ listed.minted = l.minted /\ listed.nonce = l.nonce
          /\ listed.owner = l.owner
      BY <3>3, <3>4 DEF Ledger
    <3> QED
      BY <3>1, <3>3, <3>4, <3>6, <3>7, MoneyStep
  <2> QED
    BY <2>4, <2>5
<1> QED
  BY <1>2, <1>3

(* An unstake, also one that stops after the stake was debited. *)
LEMMA UnstakeStep ==
  ASSUME NEW l \in Ledger, NEW tx \in UnstakeTx
  PROVE  LedgerStep(l, Unstake(l, tx))
<1> DEFINE s == tx.sender
           unlocked == [l EXCEPT !.stake[s] = @ - tx.amount]
           paid == [unlocked EXCEPT !.bal[s] = @ + tx.amount]
<1>1. /\ s \in Addr /\ tx.amount \in Coin
      /\ l.bal \in [Addr -> Coin] /\ l.stake \in [Addr -> Coin]
  BY DEF Ledger, UnstakeTx
<1>2. CASE l.stake[s] < tx.amount
  <2>1. Unstake(l, tx) = l
    BY <1>1, <1>2, AccountsAssumption DEF Unstake, Coin
  <2> QED
    BY <2>1, MoneyStep
<1>3. CASE ~(l.stake[s] < tx.amount)
  <2>1. [l.stake EXCEPT ![s] = @ - tx.amount] \in [Addr -> Coin]
    BY <1>1, <1>3, AccountsAssumption DEF Coin
  <2>2. unlocked \in Ledger
    BY <2>1 DEF Ledger
  <2>3. /\ unlocked.minted = l.minted /\ unlocked.nonce = l.nonce
        /\ unlocked.owner = l.owner /\ unlocked.bal = l.bal
    BY DEF Ledger
  <2>4. CASE l.bal[s] + tx.amount > MaxCoin
    <3>1. Unstake(l, tx) = unlocked
      BY <1>1, <1>3, <2>4, AccountsAssumption DEF Unstake, Coin
    <3> QED
      BY <3>1, <2>2, <2>3, MoneyStep
  <2>5. CASE ~(l.bal[s] + tx.amount > MaxCoin)
    <3>1. Unstake(l, tx) = paid
      BY <1>1, <1>3, <2>5, AccountsAssumption DEF Unstake, Coin
    <3>2. [unlocked.bal EXCEPT ![s] = @ + tx.amount] \in [Addr -> Coin]
      BY <1>1, <2>3, <2>5, AccountsAssumption DEF Coin
    <3>3. paid \in Ledger
      BY <2>2, <3>2 DEF Ledger
    <3>4. /\ paid.minted = l.minted /\ paid.nonce = l.nonce
          /\ paid.owner = l.owner
      BY <2>2, <2>3 DEF Ledger
    <3> QED
      BY <3>1, <3>3, <3>4, MoneyStep
  <2> QED
    BY <2>4, <2>5
<1> QED
  BY <1>2, <1>3

(* AddNamespace only gives away a slug without an owner. *)
LEMMA AddNamespaceStep ==
  ASSUME NEW l \in Ledger, NEW tx \in AddNamespaceTx
  PROVE  LedgerStep(l, AddNamespace(l, tx))
<1> DEFINE s == tx.sender
           granted == [l EXCEPT !.bal[s]         = @ - tx.registrationFee,
                                !.owner[tx.slug] = s,
                                !.burned         = @ + tx.registrationFee]
           free == /\ l.owner[tx.slug] = None
                   /\ tx.registrationFee > 0
                   /\ tx.registrationFee <= l.bal[s]
<1>1. /\ s \in Addr /\ tx.slug \in Slug /\ tx.registrationFee \in Coin
      /\ l.bal \in [Addr -> Coin] /\ l.owner \in [Slug -> Addr \cup {None}]
      /\ l.burned \in Nat /\ l.nonce \in [Addr -> Nonce]
  BY DEF Ledger, AddNamespaceTx
<1>2. CASE ~free
  <2>1. AddNamespace(l, tx) = l
    BY <1>2 DEF AddNamespace
  <2> QED
    BY <2>1, MoneyStep
<1>3. CASE free
  <2>1. AddNamespace(l, tx) = granted
    BY <1>3 DEF AddNamespace
  <2>2. [l.bal EXCEPT ![s] = @ - tx.registrationFee] \in [Addr -> Coin]
    BY <1>1, <1>3, AccountsAssumption DEF Coin
  <2>3. [l.owner EXCEPT ![tx.slug] = s] \in [Slug -> Addr \cup {None}]
    BY <1>1
  <2>4. l.burned + tx.registrationFee \in Nat
    BY <1>1, AccountsAssumption DEF Coin
  <2>5. granted \in Ledger
    BY <2>2, <2>3, <2>4 DEF Ledger
  <2>6. granted.minted = l.minted /\ granted.nonce = l.nonce
    BY DEF Ledger
  <2>7. \A t \in Slug : l.owner[t] # None => granted.owner[t] = l.owner[t]
    BY <1>1, <1>3 DEF Ledger
  <2>8. \A a \in Addr : l.nonce[a] <= l.nonce[a]
    BY <1>1, AccountsAssumption DEF Nonce
  <2> QED
    BY <2>1, <2>5, <2>6, <2>7, <2>8 DEF LedgerStep
<1> QED
  BY <1>2, <1>3

(* A credited reward is minted once and settles nothing else. *)
LEMMA CreditStep ==
  ASSUME NEW l \in Ledger, NEW p \in Addr, NEW r \in Nat, CanCredit(l, p, r)
  PROVE  /\ Credit(l, p, r) \in Ledger
         /\ Credit(l, p, r).minted = l.minted + r
         /\ Credit(l, p, r).nonce = l.nonce
         /\ Credit(l, p, r).owner = l.owner
<1>1. /\ l.bal \in [Addr -> Coin] /\ l.exists \subseteq Addr
      /\ l.minted \in Nat
  BY DEF Ledger
<1>2. [l.bal EXCEPT ![p] = @ + r] \in [Addr -> Coin]
  BY <1>1, AccountsAssumption DEF CanCredit, Coin
<1>3. l.exists \cup {p} \subseteq Addr /\ l.minted + r \in Nat
  BY <1>1
<1> QED
  BY <1>2, <1>3 DEF Credit, Ledger

(* The ledger of the configured accounts is a ledger. *)
LEMMA ConfiguredIsLedger == ConfiguredLedger \in Ledger
<1>1. 0 \in Coin /\ 0 \in Nonce
  BY AccountsAssumption DEF Coin, Nonce
<1> QED
  BY <1>1, AccountsAssumption DEF ConfiguredLedger, Ledger, Coin

(* InitChain adds accounts and validators and nothing else. *)
LEMMA InitValidatorsStep ==
  ASSUME NEW l \in Ledger
  PROVE  /\ InitValidators(l) \in Ledger
         /\ InitValidators(l).minted = l.minted
         /\ InitValidators(l).nonce = l.nonce
         /\ InitValidators(l).owner = l.owner
<1>1. l.bal \in [Addr -> Coin] /\ l.exists \subseteq Addr /\ 0 \in Coin
  BY AccountsAssumption DEF Ledger, Coin
<1>2. [a \in Addr |-> IF a \in GenesisValidators \ l.exists
                      THEN GenesisPower[a] ELSE l.bal[a]] \in [Addr -> Coin]
  BY <1>1, AccountsAssumption DEF Coin
<1>3. [a \in Addr |-> IF a \in GenesisValidators
                      THEN GenesisPower[a] ELSE 0] \in [Addr -> Coin]
  BY <1>1, AccountsAssumption DEF Coin
<1>4. l.exists \cup GenesisValidators \subseteq Addr
  BY <1>1, AccountsAssumption
<1> QED
  BY <1>2, <1>3, <1>4, AccountsAssumption DEF InitValidators, Ledger

=============================================================================
