---------------------------- MODULE MCTxPipeline ----------------------------
(***************************************************************************)
(* Transactions for TLC: the JSON of every payload struct whose fields     *)
(* take the values at which the validators and the constructors change     *)
(* their mind, and what the client library and the node build.             *)
(***************************************************************************)
EXTENDS TxPipeline

Addresses == {Address(1), Address(2)}
Amounts == {Digits(0), Digits(1), Digits(MaxCoin), Digits(MaxCoin + 1)}
Times == {Num(MinTimestamp - 1), Num(MinTimestamp), Num(MaxTimestamp),
          Num(MaxTimestamp + 1)}
Heights == {Num(0), Num(1), Num(2)}
HexTexts == {Hex(0), Hex(62), Hex(64), Hex(66), Str("text", 64)}
Slugs == {Str(c, n) : c \in {"slug", "Slug", "reserved", "text", "unsafe"},
                      n \in {2, 3, 32, 33}}
Namespaces == {Null, Str("blank", 2), Str("letters", 3), Str("Letters", 3),
               Str("letters", 2), Str("slug", 5)}
Tags == {Arr(2), Arr(30), [Arr(300) EXCEPT !.c = "unsafe"]}

(* The JSON of a struct of the type, whatever its fields hold.             *)
Structs(type) ==
  CASE type = "Transfer" ->
         [sender : Addresses, recipient : Addresses, amount : Amounts]
    [] type = "Unstake" -> [sender : Addresses, amount : Amounts]
    [] type = "Stake" ->
         [sender : Addresses, amount : Amounts, public_key : {Null} \cup HexTexts]
    [] type = "VerifiedProof" ->
         [sender : {Address(1)}, capacity_provider : {Address(2)},
          challenge_id : {Str("text", 0), Str("text", 100), Str("text", 101),
                          Str("unsafe", 20)},
          block_height : Heights, verified_at_block : Heights,
          verified_at_timestamp : Times, proofs : {Arr(2), Arr(40)},
          generated_at : {Num(MinTimestamp), Num(MaxTimestamp + 1)},
          provider_pubkey : {Hex(0), Hex(64), Hex(66)}, provider_signature : {Hex(0), Hex(128)},
          failed : {Bool(FALSE)}]
    [] type = "RegisterCapacity" ->
         [sender : Addresses, capacity_bytes : {Num(0), Num(1)},
          merkle_root : {Hex(64)}, seed : {Hex(64)},
          chunk_count : {Num(0), Num(1), Num(MaxU32)}]
    [] type = "UnregisterCapacity" ->
         [sender : Addresses, unregister : {Bool(FALSE), Bool(TRUE)}]
    [] type = "UpdateCapacityMerkleRoot" ->
         [sender : Addresses, merkle_root : {Hex(64)}]
    [] type = "PostMessage" ->
         [sender : Addresses, original_signer : Addresses,
          original_signer_pubkey : {Hex(64)}, content_key : {Hex(64)},
          message_id : {Hex(64)}, expires_height : {Num(0), Num(9)},
          visibility : {Str("text", 6)}, topic : {Null, Str("text", 5)},
          tags : Tags, content_type : {Str("mime", 10), Str("text", 10)},
          fee_amount : {Digits(0)}, received_timestamp : {Num(MinTimestamp)},
          user_signature : {Hex(128)}, namespace : Namespaces]
    [] type = "AddNamespace" ->
         [sender : Addresses, namespace_slug : Slugs, registration_fee : Amounts]

Types == Range(PayloadInner)

(* Every transaction the client library and the node may build: amounts,   *)
(* lengths and nonces at their extremes; proofs and topics of every length *)
(* around the first two kilobytes, where the size fee steps.               *)
Nonces == {0, MaxU32}
ProofLengths == {2} \cup 200..240 \cup 1230..1260
TopicLengths == 40..100 \cup 1070..1110

ClientTxs(fees) ==
  UNION {ClientTransfer(Address(1), r, a, n, fees)
           \cup ClientStake(Address(1), a, n, fees)
           \cup ClientUnstake(Address(1), a, n, fees) :
         r \in Addresses, a \in Amounts, n \in Nonces}
    \cup UNION {ClientAddNamespace(Address(1), s, a, n, fees) :
                s \in Slugs, a \in Amounts, n \in Nonces}

CapacityTxs(fees) ==
  UNION {NodeRegisterCapacity(Address(1), Num(b), Num(c), n, fees)
           \cup NodeUpdateRoot(Address(1), n, fees) :
         b \in {0, 1, MaxU32}, c \in {1, MaxU32}, n \in Nonces}

ProofTxs(fees) ==
  UNION {NodeVerifiedProof(Address(1), Address(2), Str("text", 40), Num(7),
                           Num(MinTimestamp), Arr(l), failed, 0, fees) :
         l \in ProofLengths, failed \in {Bool(FALSE), Bool(TRUE)}}

PostTxs(fees) ==
  UNION {NodePostMessage(Address(1), Address(2), Str(c, l), tags,
                         namespace, 0, fees) :
         c \in {"text", "bracket"}, l \in TopicLengths, tags \in Tags,
         namespace \in {Null, Str("Letters", 3)}}

MCBuilt(c) == ClientTxs(c) \cup CapacityTxs(c) \cup ProofTxs(c) \cup PostTxs(c)

(* The local fee schedule, a size fee as large as the buffer of a post, a  *)
(* fee with more digits and one with fewer.                                *)
MCSchedules ==
  {LocalDev, [LocalDev EXCEPT !.size_fee_per_kb = 200],
   [LocalDev EXCEPT !.gas_price = 100], [LocalDev EXCEPT !.base_fee = 1]}

(* Signed with a fee that is enough, and with one the wire cannot carry.   *)
SignedStruct(type, o, fee) ==
  TxSign([TxNew(type, o, 0) EXCEPT !.fee = Num(fee)])

(* Stakes as a client may write them that does not name the public key.    *)
KeylessStakes ==
  {SignedStruct("Stake", o, MaxU32) : o \in [sender : Addresses, amount : Amounts]}

MCSigned ==
  KeylessStakes
    \cup UNION {{SignedStruct(type, o, fee) : o \in Structs(type),
                                             fee \in {MaxU32, MaxU32 + 1}} : type \in Types}
=============================================================================
