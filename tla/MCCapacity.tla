----------------------------- MODULE MCCapacity -----------------------------
(***************************************************************************)
(* Instances about proofs of capacity: two providers that register, change *)
(* their root, leave, and prove or fail to prove what they store.          *)
(***************************************************************************)
EXTENDS ApplicationInv, TLC

CONSTANTS cp1, cp2, r1, r2, none,
  ProofHeights,  \* block heights the proofs claim
  Flags          \* the failed flags the proofs carry

MCAddr == {cp1, cp2}
MCRank == cp1 :> 1 @@ cp2 :> 2
MCBalance == cp1 :> 10 @@ cp2 :> 10
MCPower == cp1 :> 1 @@ cp2 :> 1
Fee == 1
Nonces == 1..MaxNonce

MCRegisters ==
  {[sender |-> x, nonce |-> n, fee |-> Fee, root |-> r1] :
     x \in MCAddr, n \in {1, 2}}

MCUnregisters == {[sender |-> cp1, nonce |-> n, fee |-> Fee] : n \in Nonces}

MCUpdates ==
  {[sender |-> cp1, nonce |-> n, fee |-> Fee, root |-> r2] : n \in Nonces}

(* All report on cp1.  A proof is built over the root r1 or over none. *)
SignedProofs ==
  {[sender |-> x, nonce |-> n, fee |-> Fee, provider |-> cp1, height |-> h,
    id |-> [validator |-> x, provider |-> cp1, height |-> h, spelling |-> s],
    failed |-> f, proof |-> g, signed |-> TRUE] :
     x \in MCAddr, n \in Nonces, h \in ProofHeights, s \in Spelling,
     f \in Flags, g \in {r1, none}}

MCProofs ==
  SignedProofs \cup
    {[tx EXCEPT !.signed = FALSE] :
       tx \in {t \in SignedProofs : t.sender = cp2 /\ ~t.failed /\ t.proof = r1}}

NoTx == {}

=============================================================================
