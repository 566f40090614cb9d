------------------------------ MODULE MCLedger ------------------------------
(***************************************************************************)
(* Instances about money: transfers, stakes, unstakes and namespaces of    *)
(* three accounts, of which c has none until InitChain or a transfer makes *)
(* one.                                                                    *)
(***************************************************************************)
EXTENDS ApplicationInv, TLC

CONSTANTS a, b, c, s1, none,
  Amounts  \* what transfers, stakes and unstakes move

MCAddr == {a, b, c}
MCSlug == {s1}
MCRank == a :> 1 @@ b :> 2 @@ c :> 3
Fee == 1

(* All that is issued fits a Coin of 12 ... *)
FitAccounts == {a, b}
FitBalance == a :> 6 @@ b :> 3 @@ c :> 0

(* ... or it does not: a Coin of 7 and 16 coins at genesis. *)
WideBalance == a :> 7 @@ b :> 7 @@ c :> 0

MCValidators == {c}
MCPower == a :> 0 @@ b :> 0 @@ c :> 2

Nonces == 1..MaxNonce

MCTransfers ==
  {[sender |-> x, nonce |-> n, fee |-> Fee, recipient |-> y, amount |-> m] :
     x \in {a, b}, y \in MCAddr, n \in Nonces, m \in Amounts} \cap TransferTx

MCStakes ==
  {[sender |-> x, nonce |-> n, fee |-> Fee, amount |-> m, withKey |-> k] :
     x \in {a}, n \in Nonces, m \in Amounts, k \in BOOLEAN}

MCUnstakes ==
  {[sender |-> a, nonce |-> n, fee |-> Fee, amount |-> m] :
     n \in Nonces, m \in Amounts}

MCNamespaces ==
  {[sender |-> x, nonce |-> n, fee |-> Fee, slug |-> s1,
    registrationFee |-> f] : x \in {a, c}, n \in Nonces, f \in {0, 1}}

NoTx == {}

=============================================================================
