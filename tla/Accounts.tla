------------------------------ MODULE Accounts ------------------------------
(***************************************************************************)
(* The ledger half of the application state: accounts, staking accounts,   *)
(* the list of consensus validators and the namespace registry, with the   *)
(* transaction handlers that change them.  A handler is an operator from a *)
(* ledger to the ledger the code leaves behind, also on its error paths.   *)
(*                                                                         *)
(* A missing account and an account CADO of balance 0 and nonce 0 differ   *)
(* only in the lookup that deliver_tx makes for the sender, so the ledger  *)
(* keeps the set of existing accounts beside total functions.  A missing   *)
(* staking account behaves like one of balance 0: a stake treats both as   *)
(* an opening stake, and an unstake, whose amount is positive, fails.      *)
(***************************************************************************)
EXTENDS Integers, FiniteSets

CONSTANTS
  Addr,               \* account addresses
  Slug,               \* namespace slugs
  None,               \* the Option::None of the code
  MaxCoin,            \* MAX_COIN, the largest amount a Coin holds
  MaxNonce,           \* u32::MAX, the last nonce of an account
  MinFee,             \* the dynamic fee required of a transaction
  MinStake,           \* min_stake_amount, the smallest opening stake
  ValidatorsPerEpoch, \* validators_per_epoch, the size of the active set
  Rank,               \* the order of addresses that breaks ties of stake
  GenesisAccounts,    \* addresses with an account in the node's configuration
  GenesisBalance,     \* their balances
  GenesisValidators,  \* validators of the genesis file
  GenesisPower        \* their voting power

ASSUME AccountsAssumption ==
  /\ MaxCoin \in Nat /\ MaxNonce \in Nat /\ ValidatorsPerEpoch \in Nat
  /\ MinFee \in Nat \ {0} /\ MinStake \in Nat \ {0}
  /\ GenesisAccounts \subseteq Addr /\ GenesisValidators \subseteq Addr
  /\ GenesisBalance \in [Addr -> 0..MaxCoin]
  /\ GenesisPower \in [Addr -> 0..MaxCoin]
  /\ Rank \in [Addr -> Nat]

Coin == 0..MaxCoin
Nonce == 0..MaxNonce

(***************************************************************************)
(* The last two fields are history: the coins that left circulation as     *)
(* fees, and the coins that entered it as rewards.                         *)
(***************************************************************************)
Ledger ==
  [exists     : SUBSET Addr,            \* account CADOs
   bal        : [Addr -> Coin],         \* Account::balance
   nonce      : [Addr -> Nonce],        \* Account::nonce
   stake      : [Addr -> Coin],         \* StakingAccount::stake_balance
   validators : SUBSET Addr,            \* envelope.validators, by address
   vstake     : [Addr -> Coin],         \* ValidatorInfo::stake
   owner      : [Slug -> Addr \cup {None}],  \* namespace registry
   burned     : Nat,                    \* fees and namespace fees taken
   minted     : Nat]                    \* rewards credited

(***************************************************************************)
(* init_abci_server stages the configured accounts; InitChain adds an      *)
(* account for each validator of the genesis file that has none, with the  *)
(* voting power as its balance, and sets the list of validators.           *)
(***************************************************************************)
ConfiguredLedger ==
  [exists     |-> GenesisAccounts,
   bal        |-> [a \in Addr |-> IF a \in GenesisAccounts
                                  THEN GenesisBalance[a] ELSE 0],
   nonce      |-> [a \in Addr |-> 0],
   stake      |-> [a \in Addr |-> 0],
   validators |-> {},
   vstake     |-> [a \in Addr |-> 0],
   owner      |-> [s \in Slug |-> None],
   burned     |-> 0,
   minted     |-> 0]

InitValidators(l) ==
  [l EXCEPT !.exists     = @ \cup GenesisValidators,
            !.bal        = [a \in Addr |-> IF a \in GenesisValidators \ l.exists
                                           THEN GenesisPower[a] ELSE l.bal[a]],
            !.validators = GenesisValidators,
            !.vstake     = [a \in Addr |-> IF a \in GenesisValidators
                                           THEN GenesisPower[a] ELSE 0]]

-----------------------------------------------------------------------------
(***************************************************************************)
(* The checks deliver_tx makes before it writes anything, and the write:   *)
(* the fee and the nonce are taken before the payload is processed, and    *)
(* stay taken when the payload fails.                                      *)
(***************************************************************************)
NonceIsNext(l, tx) ==
  /\ l.nonce[tx.sender] < MaxNonce
  /\ tx.nonce = l.nonce[tx.sender] + 1

Accepted(l, tx) ==
  /\ tx.fee >= MinFee
  /\ tx.sender \in l.exists
  /\ NonceIsNext(l, tx)
  /\ tx.fee <= l.bal[tx.sender]

Charge(l, tx) ==
  [l EXCEPT !.bal[tx.sender]   = @ - tx.fee,
            !.nonce[tx.sender] = @ + 1,
            !.burned           = @ + tx.fee]

-----------------------------------------------------------------------------
(***************************************************************************)
(* Transfer.  The sender is debited and staged before the recipient's new  *)
(* balance is computed from the balance read at the start; when that       *)
(* exceeds MaxCoin the handler returns with the debit in place.            *)
(***************************************************************************)
(* Mutant: the sum is not checked. *)
TransferUnchecked(l, tx) ==
  IF l.bal[tx.sender] < tx.amount
  THEN l
  ELSE [l EXCEPT !.exists = @ \cup {tx.recipient},
                 !.bal[tx.sender] = @ - tx.amount,
                 !.bal[tx.recipient] = @ + tx.amount]

Transfer(l, tx) ==
  LET debited == [l EXCEPT !.bal[tx.sender] = @ - tx.amount]
  IN  CASE l.bal[tx.sender] < tx.amount -> l
        [] l.bal[tx.sender] >= tx.amount
             /\ l.bal[tx.recipient] + tx.amount > MaxCoin -> debited
        [] OTHER ->
             [debited EXCEPT !.exists = @ \cup {tx.recipient},
                             !.bal[tx.recipient] =
                               l.bal[tx.recipient] + tx.amount]

(***************************************************************************)
(* Stake.  An opening stake meets the minimum.  The account is debited     *)
(* before the staking account is credited.  The list of validators follows *)
(* only when the transaction carries a public key.                         *)
(***************************************************************************)
Stake(l, tx) ==
  LET s       == tx.sender
      debited == [l EXCEPT !.bal[s] = @ - tx.amount]
      staked  == [debited EXCEPT !.stake[s] = @ + tx.amount]
  IN  CASE \/ l.bal[s] < tx.amount
           \/ l.stake[s] = 0 /\ tx.amount < MinStake -> l
        [] /\ l.bal[s] >= tx.amount
           /\ l.stake[s] # 0 \/ tx.amount >= MinStake
           /\ l.stake[s] + tx.amount > MaxCoin -> debited
        [] OTHER ->
             IF tx.withKey
             THEN [staked EXCEPT !.validators = @ \cup {s},
                                 !.vstake[s]  = staked.stake[s]]
             ELSE staked


Unstake(l, tx) ==
  LET s        == tx.sender
      unlocked == [l EXCEPT !.stake[s] = @ - tx.amount]
  IN  CASE l.stake[s] < tx.amount -> l
        [] l.stake[s] >= tx.amount /\ l.bal[s] + tx.amount > MaxCoin -> unlocked
        [] OTHER -> [unlocked EXCEPT !.bal[s] = @ + tx.amount]

(* AddNamespace: a free slug, a positive fee the sender can pay. *)
AddNamespace(l, tx) ==
  IF /\ l.owner[tx.slug] = None
     /\ tx.registrationFee > 0
     /\ tx.registrationFee <= l.bal[tx.sender]
  THEN [l EXCEPT !.bal[tx.sender] = @ - tx.registrationFee,
                 !.owner[tx.slug] = tx.sender,
                 !.burned         = @ + tx.registrationFee]
  ELSE l

(***************************************************************************)
(* credit_verified_proof_reward: the reward is minted onto the provider's  *)
(* account, which is created if there is none; an amount above MaxCoin is  *)
(* an error.                                                               *)
(***************************************************************************)
CanCredit(l, p, reward) == l.bal[p] + reward <= MaxCoin

Credit(l, p, reward) ==
  [l EXCEPT !.exists = @ \cup {p},
            !.bal[p] = @ + reward,
            !.minted = @ + reward]

-----------------------------------------------------------------------------
(***************************************************************************)
(* compare_validator_priority and select_validators_for_epoch: by stake,   *)
(* then by address; the first ValidatorsPerEpoch of the list are active.   *)
(* Validators without stake are not filtered out.                          *)
(***************************************************************************)
HasPriority(l, a, b) ==
  \/ l.vstake[a] > l.vstake[b]
  \/ l.vstake[a] = l.vstake[b] /\ Rank[a] < Rank[b]

SelectValidators(l) ==
  {a \in l.validators :
     Cardinality({b \in l.validators : HasPriority(l, b, a)})
       < ValidatorsPerEpoch}

-----------------------------------------------------------------------------
(***************************************************************************)
(* The payloads a block can carry: what the constructors let through when  *)
(* a transaction is deserialised.                                          *)
(***************************************************************************)
TransferTx ==
  {tx \in [sender : Addr, nonce : Nat, fee : Coin, recipient : Addr,
           amount : Coin] :
     tx.sender # tx.recipient /\ tx.amount > 0}

StakeTx ==
  {tx \in [sender : Addr, nonce : Nat, fee : Coin, amount : Coin,
           withKey : BOOLEAN] : tx.amount > 0}

UnstakeTx ==
  {tx \in [sender : Addr, nonce : Nat, fee : Coin, amount : Coin] :
     tx.amount > 0}

AddNamespaceTx ==
  [sender : Addr, nonce : Nat, fee : Coin, slug : Slug, registrationFee : Coin]

=============================================================================
