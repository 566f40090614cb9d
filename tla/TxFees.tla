------------------------------- MODULE TxFees -------------------------------
(***************************************************************************)
(* What a transaction costs (common/src/fee.rs), and the transactions the  *)
(* client library and the node build: payload, fee, signature, in the      *)
(* order each builder does it.  CheckTx prices the signed transaction, the *)
(* builders price it before the fee is filled in.                          *)
(*                                                                         *)
(* A fee configuration is a record of the amounts and of the multipliers   *)
(* in basis points.                                                        *)
(***************************************************************************)
EXTENDS TxWire

(* FeeConfig::validate. *)
FeeConfigValid(cfg) == \A f \in DOMAIN cfg : cfg[f] > 0

(* ProtocolConstants::local_dev. *)
LocalDev ==
  [base_fee |-> 1000, size_fee_per_kb |-> 100, gas_price |-> 1,
   transfer |-> 10000, stake |-> 15000, content_manifest |-> 25000,
   verified_proof |-> 20000, device_operation |-> 18000]

-----------------------------------------------------------------------------
(* calculate_dynamic_fee *)

(* estimate_transaction_size: the JSON text, "payload" and "type" included. *)
TxSize(w) ==
  LET envelope == [sig |-> w.sig, nonce |-> w.nonce,
                   public_key |-> w.public_key, fee |-> w.fee]
  IN ObjectLength(envelope) + Len("payload") + 4
       + ObjectLength(w.payload) + Len("type") + 4 + Len(w.type) + 2

SizeFee(bytes, cfg) == ((bytes + 1023) \div 1024) * cfg.size_fee_per_kb

Multiplier(type, cfg) ==
  CASE type \in {"Transfer", "AddNamespace"} -> cfg.transfer
    [] type \in {"Stake", "Unstake"} -> cfg.stake
    [] type \in {"RegisterCapacity", "UnregisterCapacity",
                 "UpdateCapacityMerkleRoot"} -> cfg.device_operation
    [] type = "VerifiedProof" -> cfg.verified_proof
    [] type = "PostMessage" -> cfg.content_manifest

(* Negative where the code's subtraction underflows. *)
ComplexityFee(type, cfg) ==
  (cfg.base_fee * Multiplier(type, cfg)) \div 10000 - cfg.base_fee

EstimatedGas(type) ==
  CASE type = "Transfer" -> 21000
    [] type \in {"Stake", "Unstake", "VerifiedProof"} -> 50000
    [] type = "PostMessage" -> 120000
    [] type = "RegisterCapacity" -> 60000
    [] type \in {"UnregisterCapacity", "UpdateCapacityMerkleRoot",
                 "AddNamespace"} -> 40000

GasFee(type, cfg) == EstimatedGas(type) * cfg.gas_price

(* The payload is priced by the type it decodes to, inner.  The sum is a   *)
(* fee where the complexity fee does not underflow.                        *)
DynamicFee(w, inner, cfg) ==
  cfg.base_fee + SizeFee(TxSize(w), cfg) + ComplexityFee(inner, cfg)
    + GasFee(inner, cfg)

(* The fee test of CheckTx and of DeliverTx. *)
FeeAdmitted(w, inner, cfg) ==
  /\ ComplexityFee(inner, cfg) >= 0
  /\ CoinNew(w.fee)
  /\ w.fee.n >= DynamicFee(w, inner, cfg)

-----------------------------------------------------------------------------
(* The envelope. *)

TxNew(type, payload, nonce) ==
  [sig |-> Hex(0), nonce |-> Num(nonce), type |-> type, payload |-> payload,
   public_key |-> Hex(64), fee |-> Num(0), signed |-> Refused]

TxSign(w) == [w EXCEPT !.sig = Hex(128), !.signed = w.payload]

(* Most builders price the unsigned transaction. *)
PricedUnsigned(w, cfg) == TxSign([w EXCEPT !.fee = Num(DynamicFee(w, w.type, cfg))])


(* Proofs and posts are priced with a dummy signature of full length.      *)
PricedWithDummySig(w, buffer, cfg) ==
  TxSign([w EXCEPT !.fee = Num(DynamicFee(TxSign(w), w.type, cfg) + buffer)])

(* What a builder makes of a payload: nothing when the constructor refuses. *)
Unsigned(type, payload, nonce) ==
  IF payload = Refused THEN {} ELSE {TxNew(type, payload, nonce)}

-----------------------------------------------------------------------------
(* The builders: the set of transactions (at most one) they send.          *)

ClientTransfer(sender, recipient, amount, nonce, cfg) ==
  {PricedUnsigned(w, cfg) :
     w \in Unsigned("Transfer",
             TransferTx([sender |-> sender, recipient |-> recipient,
                         amount |-> amount]), nonce)}

ClientStake(sender, amount, nonce, cfg) ==
  {PricedUnsigned(w, cfg) :
     w \in Unsigned("Stake",
             StakeTx([sender |-> sender, amount |-> amount,
                      public_key |-> Hex(64)]), nonce)}

ClientUnstake(sender, amount, nonce, cfg) ==
  {PricedUnsigned(w, cfg) :
     w \in Unsigned("Unstake",
             UnstakeTx([sender |-> sender, amount |-> amount]), nonce)}

ClientAddNamespace(sender, slug, fee, nonce, cfg) ==
  IF NormalizedSlug(slug).c = "unsafe" THEN {}
  ELSE {PricedUnsigned(w, cfg) :
          w \in Unsigned("AddNamespace",
                  AddNamespaceTx([sender |-> sender,
                                  namespace_slug |-> NormalizedSlug(slug),
                                  registration_fee |-> fee]), nonce)}

NodeRegisterCapacity(sender, bytes, chunks, nonce, cfg) ==
  {PricedUnsigned(w, cfg) :
     w \in Unsigned("RegisterCapacity",
             RegisterCapacityTx([sender |-> sender, capacity_bytes |-> bytes,
                                 merkle_root |-> Hex(64), seed |-> Hex(64),
                                 chunk_count |-> chunks]), nonce)}

NodeUpdateRoot(sender, nonce, cfg) ==
  {PricedUnsigned(w, cfg) :
     w \in Unsigned("UpdateCapacityMerkleRoot",
             UpdateCapacityMerkleRootTx([sender |-> sender,
                                         merkle_root |-> Hex(64)]), nonce)}

(* build_signed_tx of the proof submitter: failed is set after the check.  *)
NodeVerifiedProof(sender, provider, id, height, time, proofs, failed, nonce, cfg) ==
  {PricedWithDummySig(w, 0, cfg) :
     w \in Unsigned("VerifiedProof",
             VerifiedProofTx([sender |-> sender, capacity_provider |-> provider,
                              challenge_id |-> id, block_height |-> height,
                              verified_at_block |-> height,
                              verified_at_timestamp |-> time, proofs |-> proofs,
                              generated_at |-> time, provider_pubkey |-> Hex(64),
                              provider_signature |-> Hex(128),
                              failed |-> failed]), nonce)}

(* handle_pinboard_submit adds a buffer of 200 to the fee of a post.       *)
FeeBuffer == 200

NodePostMessage(sender, signer, topic, tags, namespace, nonce, cfg) ==
  {PricedWithDummySig(w, FeeBuffer, cfg) :
     w \in Unsigned("PostMessage",
             PostMessageTx([sender |-> sender, original_signer |-> signer,
                            original_signer_pubkey |-> Hex(64),
                            content_key |-> Hex(64), message_id |-> Hex(64),
                            expires_height |-> Num(1000),
                            visibility |-> Str("text", 6), topic |-> topic,
                            tags |-> tags, content_type |-> Str("mime", 10),
                            fee_amount |-> Digits(0),
                            received_timestamp |-> Num(MinTimestamp),
                            user_signature |-> Hex(128),
                            namespace |-> namespace]), nonce)}
=============================================================================
