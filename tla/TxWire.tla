------------------------------- MODULE TxWire -------------------------------
(***************************************************************************)
(* The JSON form of a transaction: how the nine payload types are built,   *)
(* what DeliverTx's structure validation asks of the JSON                  *)
(* (common/src/validation.rs) and which payload type serde's untagged      *)
(* decoding makes of it (common/src/tx).                                   *)
(*                                                                         *)
(* A JSON value is a record: its kind t, the class c of a string (what the *)
(* validators can tell about its characters) and a number n: the value of  *)
(* a number, a decimal string or an address, the length of any other       *)
(* string, and the length of the text of an array.  An object is a record  *)
(* of values.                                                              *)
(***************************************************************************)
EXTENDS Integers, Sequences, Functions, FiniteSetsExt

CONSTANTS
  MaxCoin,      \* token::MAX_COIN
  MaxU32,       \* u32::MAX, the largest nonce and the largest fee on the wire
  MinTimestamp, \* 2020-01-01
  MaxTimestamp  \* 2100-01-01

Str(class, n) == [t |-> "string", c |-> class, n |-> n]
Num(n) == [t |-> "number", c |-> "", n |-> n]
Bool(b) == [t |-> "bool", c |-> "", n |-> IF b THEN 1 ELSE 0]
Arr(n) == [t |-> "array", c |-> "", n |-> n]
Null == [t |-> "null", c |-> "", n |-> 0]

Hex(n) == Str("hex", n)
Digits(n) == Str("digits", n)
Address(a) == Str("address", a)

(* The address of the key that signs. *)
KeyAddress == Address(1)

(* What a decoder or a constructor returns for a payload it does not take. *)
Refused == [none |-> Null]

-----------------------------------------------------------------------------
(* Lengths of the JSON text.                                               *)

NumberLength(n) ==
  CASE n < 10 -> 1 [] n < 100 -> 2 [] n < 1000 -> 3 [] n < 10000 -> 4
    [] n < 100000 -> 5 [] n < 1000000 -> 6 [] n < 10000000 -> 7
    [] n < 100000000 -> 8 [] n < 1000000000 -> 9 [] OTHER -> 10

StringLength(v) ==
  CASE v.c = "address" -> 42
    [] v.c = "digits" -> NumberLength(v.n)
    [] OTHER -> v.n

ValueLength(v) ==
  CASE v.t = "string" -> StringLength(v) + 2
    [] v.t = "number" -> NumberLength(v.n)
    [] v.t = "bool" -> 5 - v.n
    [] v.t = "null" -> 4
    [] v.t = "array" -> v.n

(* {"name":value,...}: a quoted name and a colon, commas and two braces.   *)
ObjectLength(o) ==
  LET length(f) == Len(f) + 4 + ValueLength(o[f])
  IN 1 + MapThenSumSet(length, DOMAIN o)

-----------------------------------------------------------------------------
(* What the validators and the decoders ask of one value.                  *)

IsAddress(v) == v.t = "string" /\ v.c = "address"

IsNumber(v) == v.t = "number"

(* validate_hex_string. *)
HexString(v, maxBytes) ==
  /\ v.t = "string"
  /\ v.c = "hex"
  /\ v.n > 0 /\ v.n <= 2 * maxBytes /\ v.n % 2 = 0

(* hex_vec_u8_32: exactly 32 bytes. *)
IsHash(v) == v.t = "string" /\ v.c = "hex" /\ v.n = 64

(* validate_safe_string. *)
SafeString(v, max) ==
  /\ v.t = "string"
  /\ v.c # "unsafe"
  /\ StringLength(v) \in 1..max

(* tx_amount_string: an amount is written and read as a decimal string.    *)
IsAmount(v) == v.t = "string" /\ v.c = "digits"

(* Coin::new refuses more than the maximum. *)
CoinNew(v) == v.n <= MaxCoin

(* The structure validation also takes a JSON number for an amount.        *)
AmountInRange(v) ==
  /\ IsAmount(v) \/ IsNumber(v)
  /\ v.n > 0 /\ CoinNew(v)

(* validate_positive_integer. *)
PositiveInteger(v, min, max) == IsNumber(v) /\ v.n \in min..max

Timestamp(v) == IsNumber(v) /\ v.n \in MinTimestamp..MaxTimestamp

Has(o, fields) == fields \subseteq DOMAIN o

-----------------------------------------------------------------------------
(* The constructors: the payload they make of their arguments, or Refused. *)

Checked(ok, o) == IF ok THEN o ELSE Refused

TransferTx(o) ==
  Checked(o.sender # o.recipient /\ CoinNew(o.amount) /\ o.amount.n # 0, o)

UnstakeTx(o) == Checked(o.amount.n # 0 /\ CoinNew(o.amount), o)

StakeTx(o) ==
  Checked(/\ o.amount.n # 0 /\ CoinNew(o.amount)
          /\ o.public_key = Null \/ o.public_key = Hex(64), o)

VerifiedProofTx(o) ==
  Checked(/\ SafeString(o.challenge_id, 100)
          /\ o.block_height.n > 0 /\ o.verified_at_block.n > 0
          /\ o.verified_at_block.n >= o.block_height.n
          /\ Timestamp(o.verified_at_timestamp)
          /\ o.proofs.n > 2
          /\ Timestamp(o.generated_at)
          /\ o.provider_pubkey.n > 0 /\ o.provider_signature.n > 0, o)

RegisterCapacityTx(o) == Checked(o.capacity_bytes.n # 0, o)

UnregisterCapacityTx(o) == Checked(o.unregister = Bool(TRUE), o)

UpdateCapacityMerkleRootTx(o) == o

(* normalize_namespace_slug: "Slug" is a slug after trimming and lowering. *)
NormalizedSlug(v) ==
  IF v.c \in {"slug", "Slug", "reserved"} /\ v.n \in 3..32
  THEN Str(IF v.c = "Slug" THEN "slug" ELSE v.c, v.n)
  ELSE Str("unsafe", 0)

AddNamespaceTx(o) ==
  LET canonical == NormalizedSlug(o.namespace_slug)
  IN Checked(/\ canonical.c = "slug"
             /\ o.registration_fee.n # 0 /\ CoinNew(o.registration_fee),
             [o EXCEPT !.namespace_slug = canonical])

(* resolve_optional_namespace: blank is no namespace; otherwise letters.   *)
OptionalNamespace(v) ==
  CASE v = Null \/ v.c = "blank" -> Null
    [] v.c \in {"letters", "Letters"} /\ v.n \in 3..32 -> Str("letters", v.n)
    [] OTHER -> Str("unsafe", 0)

PostMessageTx(o) ==
  LET namespace == OptionalNamespace(o.namespace)
  IN Checked(/\ o.content_type.c = "mime"
             /\ o.tags.c # "unsafe"
             /\ namespace.c # "unsafe",
             [o EXCEPT !.namespace = namespace])

-----------------------------------------------------------------------------
(* Untagged decoding: a payload is the first type, in the order of the     *)
(* enum, whose fields are there with the right kinds and whose constructor *)
(* takes them.                                                             *)

PayloadInner ==
  << "Transfer", "Unstake", "Stake", "VerifiedProof", "RegisterCapacity",
     "UnregisterCapacity", "UpdateCapacityMerkleRoot", "PostMessage",
     "AddNamespace" >>

(* The fields of the wire structs; Option and default fields may be absent. *)
Fields(type) ==
  CASE type = "Transfer" -> {"sender", "recipient", "amount"}
    [] type = "Unstake" -> {"sender", "amount"}
    [] type = "Stake" -> {"sender", "amount"}
    [] type = "VerifiedProof" ->
         {"sender", "capacity_provider", "challenge_id", "block_height",
          "verified_at_block", "verified_at_timestamp", "proofs",
          "generated_at", "provider_pubkey", "provider_signature"}
    [] type = "RegisterCapacity" ->
         {"sender", "capacity_bytes", "merkle_root", "seed", "chunk_count"}
    [] type = "UnregisterCapacity" -> {"sender", "unregister"}
    [] type = "UpdateCapacityMerkleRoot" -> {"sender", "merkle_root"}
    [] type = "PostMessage" ->
         {"sender", "original_signer", "original_signer_pubkey", "content_key",
          "message_id", "expires_height", "visibility", "content_type",
          "fee_amount", "received_timestamp", "user_signature"}
    [] type = "AddNamespace" -> {"sender", "namespace_slug", "registration_fee"}

Default(type) ==
  CASE type = "Stake" -> [public_key |-> Null]
    [] type = "VerifiedProof" -> [failed |-> Bool(FALSE)]
    [] type = "PostMessage" -> [topic |-> Null, tags |-> Arr(2), namespace |-> Null]
    [] OTHER -> << >>


DenyUnknownFields == {"Unstake", "AddNamespace"}

(* The kind serde expects of a field. *)
FieldDecodes(f, v) ==
  CASE f \in {"sender", "recipient", "capacity_provider", "original_signer"} -> IsAddress(v)
    [] f \in {"amount", "registration_fee", "fee_amount"} -> IsAmount(v)
    [] f \in {"merkle_root", "seed"} -> IsHash(v)
    [] f = "chunk_count" -> IsNumber(v) /\ v.n <= MaxU32
    [] f \in {"capacity_bytes", "block_height", "verified_at_block",
              "verified_at_timestamp", "generated_at", "expires_height",
              "received_timestamp"} -> IsNumber(v)
    [] f \in {"unregister", "failed"} -> v.t = "bool"
    [] f \in {"proofs", "tags"} -> v.t = "array"
    [] f \in {"public_key", "topic", "namespace"} -> v = Null \/ v.t = "string"
    [] OTHER -> v.t = "string"

(* The struct's fields, unknown ones dropped and absent ones defaulted.    *)
Unchecked(type, o) ==
  LET known == Fields(type) \cup DOMAIN Default(type)
  IN [f \in known |-> IF f \in DOMAIN o THEN o[f] ELSE Default(type)[f]]

New(type, o) ==
  CASE type = "Transfer" -> TransferTx(o)
    [] type = "Unstake" -> UnstakeTx(o)
    [] type = "Stake" -> StakeTx(o)
    [] type = "VerifiedProof" -> VerifiedProofTx(o)
    [] type = "RegisterCapacity" -> RegisterCapacityTx(o)
    [] type = "UnregisterCapacity" -> UnregisterCapacityTx(o)
    [] type = "UpdateCapacityMerkleRoot" -> UpdateCapacityMerkleRootTx(o)
    [] type = "PostMessage" -> PostMessageTx(o)
    [] type = "AddNamespace" -> AddNamespaceTx(o)

DecodesAs(type, o) ==
  LET tx == Unchecked(type, o)
  IN /\ Has(o, Fields(type))
     /\ type \in DenyUnknownFields => DOMAIN o \subseteq DOMAIN tx
     /\ \A f \in DOMAIN tx : FieldDecodes(f, tx[f])
     /\ New(type, tx) # Refused

Decode(o) ==
  LET takes == {i \in DOMAIN PayloadInner : DecodesAs(PayloadInner[i], o)}
  IN IF takes = {} THEN [type |-> "none", tx |-> Refused]
     ELSE LET type == PayloadInner[Min(takes)]
          IN [type |-> type, tx |-> New(type, Unchecked(type, o))]

-----------------------------------------------------------------------------
(* DeliverTx's structure validation of the JSON, before it is decoded.     *)

ValidTransferPayload(o) ==
  /\ Has(o, {"sender", "recipient", "amount"})
  /\ IsAddress(o.sender) /\ IsAddress(o.recipient)
  /\ o.sender # o.recipient
  /\ AmountInRange(o.amount)

ValidStakePayload(o) ==
  /\ Has(o, {"sender", "amount"})
  /\ IsAddress(o.sender)
  /\ AmountInRange(o.amount)
  /\ Has(o, {"public_key"}) => HexString(o.public_key, 32)

ValidUnstakePayload(o) ==
  /\ Has(o, {"sender", "amount"})
  /\ IsAddress(o.sender)
  /\ AmountInRange(o.amount)

ValidAddNamespacePayload(o) ==
  /\ Has(o, {"sender", "namespace_slug", "registration_fee"})
  /\ IsAddress(o.sender)
  /\ SafeString(o.namespace_slug, 64)
  /\ IsAmount(o.registration_fee) \/ IsNumber(o.registration_fee)
  /\ CoinNew(o.registration_fee)
  /\ AddNamespaceTx(o) # Refused

ValidRegisterCapacityPayload(o) ==
  /\ Has(o, {"sender", "capacity_bytes", "merkle_root", "seed", "chunk_count"})
  /\ IsAddress(o.sender) /\ SafeString(o.sender, 100)
  /\ IsNumber(o.capacity_bytes) /\ o.capacity_bytes.n >= 1
  /\ HexString(o.merkle_root, 32)
  /\ HexString(o.seed, 32)
  /\ IsNumber(o.chunk_count) /\ o.chunk_count.n >= 1

ValidUnregisterCapacityPayload(o) ==
  /\ Has(o, {"sender", "unregister"})
  /\ IsAddress(o.sender) /\ SafeString(o.sender, 100)
  /\ o.unregister = Bool(TRUE)

ValidUpdateCapacityMerkleRootPayload(o) ==
  /\ Has(o, {"sender", "merkle_root"})
  /\ IsAddress(o.sender) /\ SafeString(o.sender, 100)
  /\ HexString(o.merkle_root, 32)

(* Who proves which challenge, and when. *)
ValidProofClaim(o) ==
  /\ Has(o, Fields("VerifiedProof"))
  /\ IsAddress(o.sender) /\ IsAddress(o.capacity_provider)
  /\ SafeString(o.challenge_id, 100)
  /\ IsNumber(o.block_height) /\ o.block_height.n > 0
  /\ IsNumber(o.verified_at_block) /\ o.verified_at_block.n > 0
  /\ o.verified_at_block.n >= o.block_height.n


ValidVerifiedProofPayload(o) ==
  /\ ValidProofClaim(o)
  /\ Timestamp(o.verified_at_timestamp)
  /\ o.proofs.t = "array" /\ o.proofs.n > 2
  /\ Timestamp(o.generated_at)
  /\ HexString(o.provider_pubkey, 32)
  /\ HexString(o.provider_signature, 64)
  /\ Has(o, {"failed"}) => o.failed.t = "bool"

(* content_type, topic, tags and namespace are left to the decoder. *)
ValidPostMessagePayload(o) ==
  Has(o, {"sender", "original_signer", "original_signer_pubkey", "content_key",
          "message_id", "expires_height", "visibility", "fee_amount",
          "received_timestamp", "user_signature"})

ValidPayload(type, o) ==
  CASE type = "Transfer" -> ValidTransferPayload(o)
    [] type = "Stake" -> ValidStakePayload(o)
    [] type = "Unstake" -> ValidUnstakePayload(o)
    [] type = "RegisterCapacity" -> ValidRegisterCapacityPayload(o)
    [] type = "UnregisterCapacity" -> ValidUnregisterCapacityPayload(o)
    [] type = "UpdateCapacityMerkleRoot" -> ValidUpdateCapacityMerkleRootPayload(o)
    [] type = "VerifiedProof" -> ValidVerifiedProofPayload(o)
    [] type = "PostMessage" -> ValidPostMessagePayload(o)
    [] type = "AddNamespace" -> ValidAddNamespacePayload(o)
    [] OTHER -> FALSE

(* A transaction on the wire: the payload's type and object, the other     *)
(* four fields of the envelope, and the payload the signature is over.     *)
ValidEnvelope(w) ==
  /\ HexString(w.sig, 64)
  /\ PositiveInteger(w.nonce, 0, MaxU32)
  /\ HexString(w.public_key, 32)
  /\ PositiveInteger(w.fee, 0, MaxU32)

(* validate_transaction_structure. *)
StructureValid(w) == ValidEnvelope(w) /\ ValidPayload(w.type, w.payload)

(* serde's view of the envelope: a signature is empty or complete.         *)
EnvelopeDecodes(w) ==
  /\ w.sig = Hex(0) \/ w.sig = Hex(128)
  /\ IsNumber(w.nonce) /\ w.nonce.n <= MaxU32
  /\ w.public_key = Hex(64)
  /\ IsNumber(w.fee)

(* Tx::verify: the signature is over the text the decoded payload is       *)
(* written back to, and the key is the sender's.                           *)
Verified(w, tx) ==
  /\ w.sig = Hex(128)
  /\ w.signed = tx
  /\ tx.sender = KeyAddress

(* validate_json_string counts the brackets of the whole text, the ones    *)
(* inside strings too: text of class "bracket" has one without a partner.  *)
BracketsMatch(o) == \A f \in DOMAIN o : o[f].c # "bracket"
=============================================================================
