------------------------------ MODULE Capacity ------------------------------
(***************************************************************************)
(* The capacity half of the application state: the leases of the capacity  *)
(* providers, the capacity validator of the epoch and the providers it     *)
(* challenges, the epoch records, and the accounting of proofs.            *)
(*                                                                         *)
(* A provider's stake is not here: RegisterCapacity opens it at zero and   *)
(* no handler ever raises it.  Of a provider's entry the Merkle root       *)
(* stands for everything a proof is judged against.                        *)
(***************************************************************************)
EXTENDS Accounts

CONSTANTS
  MaxHeight,                \* bound: the last block height
  BlocksPerEpoch,           \* blocks_per_epoch
  RegistrationDuration,     \* registration_duration_blocks
  ChallengesPerEpoch,       \* challenges_per_epoch
  FailedProofsBeforeSlash,  \* failed_proofs_before_slash
  Reward,                   \* verified_proof_reward_base_amount
  Root,                     \* Merkle roots
  Spelling                  \* the hex spellings of one challenge digest

ASSUME CapacityAssumption ==
  /\ MaxHeight \in Nat /\ BlocksPerEpoch \in Nat \ {0}
  /\ RegistrationDuration \in Nat \ {0} /\ ChallengesPerEpoch \in Nat \ {0}
  /\ FailedProofsBeforeSlash \in Nat \ {0} /\ Reward \in Nat \ {0}
  /\ None \notin Addr /\ None \notin Root

Height == 0..MaxHeight
EpochOf(h) == h \div BlocksPerEpoch

(* CapacityValidatorInfo: a lease runs through block reg + dur. *)
Lease == [root : Root, reg : Nat, dur : Nat]

(* ActiveCapacityValidator. *)
Assignment == [validator : Addr, epoch : Height, challenged : SUBSET Addr]

(* EpochRecord, with the challenged providers' roots as they were then. *)
EpochRecord ==
  [epoch : Height, active : SUBSET Addr,
   acv : Assignment \cup {None}, frozen : [Addr -> Root \cup {None}]]

(***************************************************************************)
(* A challenge_id of a transaction: a spelling of the digest of the        *)
(* validator, the provider and the height.  parse_hex takes upper and      *)
(* lower case, with and without 0x, so a digest has several spellings.     *)
(* The digest is identified with what it hashes.                           *)
(***************************************************************************)
ChallengeId ==
  [validator : Addr, provider : Addr, height : Nat, spelling : Spelling]

Digest(id) == <<id.validator, id.provider, id.height>>

CapacityState ==
  [provs    : [Addr -> Lease \cup {None}],        \* capacity_validators
   acv      : Assignment \cup {None},             \* active_capacity_validator
   fails    : [Addr -> Nat],                      \* failed_proof_counts
   records  : [Height -> EpochRecord \cup {None}],
   rewarded : SUBSET ChallengeId,   \* verified_proof_rewarded_cache
   failed   : SUBSET ChallengeId,   \* failed_proof_counted_cache
   slashes  : [Addr -> Nat]]        \* history: slashes of a provider

EmptyCapacity ==
  [provs    |-> [a \in Addr |-> None],
   acv      |-> None,
   fails    |-> [a \in Addr |-> 0],
   records  |-> [e \in Height |-> None],
   rewarded |-> {},
   failed   |-> {},
   slashes  |-> [a \in Addr |-> 0]]

-----------------------------------------------------------------------------
(***************************************************************************)
(* Registration.  The block being delivered is height + 1: block_height    *)
(* advances in EndBlock.                                                   *)
(***************************************************************************)
RegisterCapacity(c, height, tx) ==
  [c EXCEPT !.provs[tx.sender] =
     [root |-> tx.root, reg |-> height + 1, dur |-> RegistrationDuration]]

UnregisterCapacity(c, tx) == [c EXCEPT !.provs[tx.sender] = None]

UpdateCapacityMerkleRoot(c, tx) ==
  IF c.provs[tx.sender] = None
  THEN c
  ELSE [c EXCEPT !.provs[tx.sender].root = tx.root]

-----------------------------------------------------------------------------
(* The start of an epoch: the leases that ended are dropped, ... *)
Expired(lease, height) == height > lease.reg + lease.dur

ExpireRegistrations(c, height) ==
  [c EXCEPT !.provs =
     [a \in Addr |-> IF c.provs[a] # None /\ Expired(c.provs[a], height)
                     THEN None ELSE c.provs[a]]]

(***************************************************************************)
(* ... and a validator and the providers it challenges are drawn from the  *)
(* eligible ones.  The seeded shuffles are any choice.  A validator is in  *)
(* its own pool only when it is the only one eligible.                     *)
(***************************************************************************)
Eligible(c, height) ==
  {a \in Addr : c.provs[a] # None /\ ~Expired(c.provs[a], height)}

ChallengePool(eligible, v) == IF eligible = {v} THEN {v} ELSE eligible \ {v}

Assignments(c, height, epoch) ==
  LET eligible == Eligible(c, height)
      Chosen(v, ps) ==
        LET pool == ChallengePool(eligible, v)
        IN  /\ ps \subseteq pool
            /\ Cardinality(ps) = IF ChallengesPerEpoch < Cardinality(pool)
                                 THEN ChallengesPerEpoch ELSE Cardinality(pool)
  IN  IF eligible = {}
      THEN {None}
      ELSE {a \in [validator : eligible, epoch : {epoch},
                   challenged : SUBSET eligible] :
              Chosen(a.validator, a.challenged)}

BuildEpochRecord(c, epoch, active) ==
  [epoch  |-> epoch,
   active |-> active,
   acv    |-> c.acv,
   frozen |-> [a \in Addr |->
                 IF c.acv # None /\ a \in c.acv.challenged /\ c.provs[a] # None
                 THEN c.provs[a].root ELSE None]]

StoreEpochRecord(c, record) == [c EXCEPT !.records[record.epoch] = record]

-----------------------------------------------------------------------------
(***************************************************************************)
(* VerifiedProof.  proof_epoch_in_window, then gates 1 to 4 of             *)
(* bind_verified_proof against the record of the proof's epoch.            *)
(***************************************************************************)
InWindow(height, epoch) ==
  /\ height > 0
  /\ \/ EpochOf(height) = epoch
     \/ epoch > 0 /\ EpochOf(height) = epoch - 1

(* Mutant: gate 1 does not compare the sender. *)
BoundToAnySender(c, epoch, tx) ==
  /\ InWindow(tx.height, epoch)
  /\ LET record == c.records[EpochOf(tx.height)]
     IN  /\ record # None
         /\ record.acv # None
         /\ tx.provider \in record.acv.challenged
         /\ record.frozen[tx.provider] # None
  /\ Digest(tx.id) = <<tx.sender, tx.provider, tx.height>>

Bound(c, epoch, tx) ==
  /\ InWindow(tx.height, epoch)
  /\ LET record == c.records[EpochOf(tx.height)]
     IN  /\ record # None
         /\ record.epoch = EpochOf(tx.height)
         /\ record.acv # None
         /\ record.acv.epoch = EpochOf(tx.height)
         /\ tx.sender = record.acv.validator
         /\ tx.provider \in record.acv.challenged
         /\ record.frozen[tx.provider] # None
  /\ Digest(tx.id) = <<tx.sender, tx.provider, tx.height>>

(* validate_challenge_proof, against the root the epoch record froze. *)
ProofValid(c, tx) == tx.proof = c.records[EpochOf(tx.height)].frozen[tx.provider]

(* Mutants: only the open block is searched; only rewards are. *)
UndecidedInBlock(c, markers, id) == id \notin c.rewarded /\ id \notin c.failed

UndecidedByReward(c, markers, id) ==
  id \notin c.rewarded /\ id \notin markers.rewarded

(* Gate 0: no outcome in this block nor in the committed markers. *)
Undecided(c, markers, id) ==
  /\ id \notin c.rewarded /\ id \notin markers.rewarded
  /\ id \notin c.failed /\ id \notin markers.failed

(* Mutant: a slash does not reset the count. *)
RecordFailureWithoutReset(c, tx) ==
  LET p == tx.provider
  IN  [c EXCEPT !.fails[p]   = @ + 1,
                !.slashes[p] = IF c.fails[p] + 1 >= FailedProofsBeforeSlash
                               THEN @ + 1 ELSE @,
                !.failed     = @ \cup {tx.id}]

RecordFailure(c, tx) ==
  LET p       == tx.provider
      slashed == c.fails[p] + 1 >= FailedProofsBeforeSlash
  IN  [c EXCEPT !.fails[p]   = IF slashed THEN 0 ELSE @ + 1,
                !.slashes[p] = IF slashed THEN @ + 1 ELSE @,
                !.failed     = @ \cup {tx.id}]

(* A reward extends the lease of a provider that is still registered. *)
ExtendLease(c, height, p) ==
  IF c.provs[p] = None
  THEN c
  ELSE [c EXCEPT !.provs[p].dur =
          ((height + 1) - c.provs[p].reg) + RegistrationDuration]

RecordReward(c, height, tx) ==
  [ExtendLease(c, height, tx.provider) EXCEPT !.rewarded = @ \cup {tx.id}]

-----------------------------------------------------------------------------
RegisterCapacityTx == [sender : Addr, nonce : Nat, fee : Coin, root : Root]

UnregisterCapacityTx == [sender : Addr, nonce : Nat, fee : Coin]

UpdateCapacityMerkleRootTx ==
  [sender : Addr, nonce : Nat, fee : Coin, root : Root]

(***************************************************************************)
(* signed: the provider's signature verifies over the challenge response.  *)
(* proof: the root its chunk proofs lead to, None if to none.              *)
(***************************************************************************)
VerifiedProofTx ==
  [sender : Addr, nonce : Nat, fee : Coin, provider : Addr, height : Nat,
   id : ChallengeId, failed : BOOLEAN, proof : Root \cup {None},
   signed : BOOLEAN]

=============================================================================
