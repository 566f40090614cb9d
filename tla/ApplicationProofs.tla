-------------------------- MODULE ApplicationProofs --------------------------
(***************************************************************************)
(* Consistent is an inductive invariant of Application, and what follows   *)
(* from it, for every value of the constants.                              *)
(***************************************************************************)
EXTENDS ApplicationInv, AccountsProofs, CapacityProofs, FiniteSetTheorems

(* A marker is one id: what adding one does to a set and to its size. *)
LEMMA AddOne ==
  ASSUME NEW S, NEW x, IsFiniteSet(S), x \notin S
  PROVE  /\ IsFiniteSet(S \cup {x})
         /\ Cardinality(S) \in Nat
         /\ Cardinality(S \cup {x}) = Cardinality(S) + 1
BY FS_AddElement, FS_CardinalityType, SMTT(60)

(* What counts a provider's failures is a number. *)
LEMMA CountedType ==
  ASSUME NEW e \in Envelope, NEW a \in Addr
  PROVE  FailuresCounted(e, a) \in Nat
<1>1. e.cap \in CapacityState
  BY DEF Envelope
<1>2. e.cap.slashes[a] \in Nat /\ e.cap.fails[a] \in Nat
  BY <1>1 DEF CapacityState
<1>3. FailedProofsBeforeSlash \in Nat
  BY CapacityAssumption
<1> QED
  BY <1>2, <1>3 DEF FailuresCounted

(* Nonces are numbers. *)
LEMMA NonceType ==
  ASSUME NEW e \in Envelope
  PROVE  e.led.nonce \in [Addr -> Nat]
<1>1. e.led \in Ledger
  BY DEF Envelope
<1>2. e.led.nonce \in [Addr -> Nonce]
  BY <1>1 DEF Ledger
<1>3. Nonce \subseteq Nat
  BY AccountsAssumption DEF Nonce
<1> QED
  BY <1>2, <1>3, Zenon

(* A challenge stays one while records are kept and epochs go up. *)
LEMMA WasChallengeKept ==
  ASSUME NEW e \in Envelope, NEW e2 \in Envelope, NEW id \in ChallengeId,
         e.epoch <= e2.epoch, WasChallenge(e, id),
         \A k \in Height : e.cap.records[k] # None =>
           e2.cap.records[k] = e.cap.records[k]
  PROVE  WasChallenge(e2, id)
<1>1. e.epoch \in Height /\ e2.epoch \in Height /\ id.height \in Nat
  BY DEF Envelope, ChallengeId
<1>2. EpochOf(id.height) \in Nat
  BY <1>1, EpochOfHeight
<1>3. EpochOf(id.height) \in Height /\ EpochOf(id.height) <= e2.epoch
  BY <1>1, <1>2, CapacityAssumption, SMTT(60) DEF WasChallenge, Height
<1>4. e2.cap.records[EpochOf(id.height)] = e.cap.records[EpochOf(id.height)]
  BY <1>3, Zenon DEF WasChallenge
<1> QED
  BY <1>3, <1>4, Zenon DEF WasChallenge

(* Books are kept by what decides no challenge and mints nothing. *)
LEMMA BooksKept ==
  ASSUME NEW e \in Envelope, NEW e2 \in Envelope,
         NEW R \in SUBSET ChallengeId, NEW F \in SUBSET ChallengeId,
         Books(e, R, F), e.epoch <= e2.epoch,
         e2.led.minted = e.led.minted,
         \A a \in Addr : FailuresCounted(e2, a) <= FailuresCounted(e, a),
         \A k \in Height : e.cap.records[k] # None =>
           e2.cap.records[k] = e.cap.records[k],
         IsFiniteSet(F)
  PROVE  Books(e2, R, F)
<1>1. \A id \in R \cup F : WasChallenge(e2, id)
  BY WasChallengeKept DEF Books
<1>2. ASSUME NEW a \in Addr
      PROVE  FailuresCounted(e2, a) <= Cardinality(FailuresOf(a, F))
  <2>1. IsFiniteSet(FailuresOf(a, F))
    BY FS_Subset DEF FailuresOf
  <2>2. Cardinality(FailuresOf(a, F)) \in Nat
    BY <2>1, FS_CardinalityType
  <2>3. FailuresCounted(e, a) \in Nat /\ FailuresCounted(e2, a) \in Nat
    BY CountedType
  <2> QED
    BY <2>2, <2>3 DEF Books
<1> QED
  BY <1>1, <1>2 DEF Books

(* A reward adds one id to the rewarded ones and mints the reward once. *)
LEMMA BooksReward ==
  ASSUME NEW e \in Envelope, NEW e2 \in Envelope,
         NEW R \in SUBSET ChallengeId, NEW F \in SUBSET ChallengeId,
         NEW id \in ChallengeId, id \notin R, id \notin F,
         IsFiniteSet(R), Books(e, R, F), e2.epoch = e.epoch,
         e2.led.minted = e.led.minted + Reward,
         e2.cap.fails = e.cap.fails, e2.cap.slashes = e.cap.slashes,
         e2.cap.records = e.cap.records, WasChallenge(e, id)
  PROVE  Books(e2, R \cup {id}, F)
<1>1. \A i \in (R \cup {id}) \cup F : WasChallenge(e2, i)
  BY Zenon DEF Books, WasChallenge
<1>2. e2.led.minted = Reward * Cardinality(R \cup {id})
  <2>1. /\ Cardinality(R \cup {id}) = Cardinality(R) + 1
        /\ Cardinality(R) \in Nat
    BY AddOne, Zenon
  <2>2. e.led.minted = Reward * Cardinality(R) /\ Reward \in Nat
    BY CapacityAssumption DEF Books
  <2>3. Reward * (Cardinality(R) + 1) = Reward * Cardinality(R) + Reward
    BY <2>1, <2>2
  <2> QED
    BY <2>1, <2>2, <2>3
<1>3. (R \cup {id}) \cap F = {}
  BY DEF Books
<1>4. \A a \in Addr : FailuresCounted(e2, a) <= Cardinality(FailuresOf(a, F))
  BY DEF Books, FailuresCounted
<1> QED
  BY <1>1, <1>2, <1>3, <1>4, ZenonT(60) DEF Books

(* A failure adds one id to the failed ones of its provider. *)
LEMMA BooksFailure ==
  ASSUME NEW e \in Envelope, NEW e2 \in Envelope,
         NEW R \in SUBSET ChallengeId, NEW F \in SUBSET ChallengeId,
         NEW id \in ChallengeId, id \notin R, id \notin F,
         IsFiniteSet(F), Books(e, R, F), e2.epoch = e.epoch,
         e2.led.minted = e.led.minted, e2.cap.records = e.cap.records,
         FailuresCounted(e2, id.provider) <= FailuresCounted(e, id.provider) + 1,
         \A a \in Addr \ {id.provider} :
           FailuresCounted(e2, a) = FailuresCounted(e, a),
         WasChallenge(e, id)
  PROVE  Books(e2, R, F \cup {id})
<1>1. \A i \in R \cup (F \cup {id}) : WasChallenge(e2, i)
  BY Zenon DEF Books, WasChallenge
<1>2. R \cap (F \cup {id}) = {}
  BY DEF Books
<1>3. ASSUME NEW a \in Addr
      PROVE  FailuresCounted(e2, a) <= Cardinality(FailuresOf(a, F \cup {id}))
  <2>1. IsFiniteSet(FailuresOf(a, F))
    BY FS_Subset DEF FailuresOf
  <2>2. FailuresCounted(e, a) \in Nat /\ FailuresCounted(e2, a) \in Nat
    BY CapacityAssumption, SMTT(60) DEF FailuresCounted, Envelope, CapacityState
  <2>3. CASE a = id.provider
    <3>1. FailuresOf(a, F \cup {id}) = FailuresOf(a, F) \cup {id}
      BY <2>3 DEF FailuresOf
    <3>2. /\ Cardinality(FailuresOf(a, F \cup {id}))
               = Cardinality(FailuresOf(a, F)) + 1
          /\ Cardinality(FailuresOf(a, F)) \in Nat
      BY <2>1, <3>1, AddOne, Zenon DEF FailuresOf
    <3> QED
      BY <2>2, <2>3, <3>2, SMTT(60) DEF Books
  <2>4. CASE a # id.provider
    <3>1. FailuresOf(a, F \cup {id}) = FailuresOf(a, F)
      BY <2>4 DEF FailuresOf
    <3> QED
      BY <2>4, <3>1 DEF Books
  <2> QED
    BY <2>3, <2>4
<1> QED
  BY <1>1, <1>2, <1>3, ZenonT(60) DEF Books

-----------------------------------------------------------------------------
(* What every accepted transaction keeps of the open block's state. *)
Delivered(e, e2) ==
  /\ e2 \in Envelope
  /\ e2.height = e.height /\ e2.epoch = e.epoch
  /\ \A a \in Addr : e.led.nonce[a] <= e2.led.nonce[a]
  /\ \A s \in Slug : e.led.owner[s] # None => e2.led.owner[s] = e.led.owner[s]
  /\ CapStep(e.cap, e2.cap, e.height)

(* An invariant's view of the lemmas about the capacity state alone. *)
LEMMA WellTimedIsTimely ==
  ASSUME NEW e, WellTimed(e)
  PROVE  Timely(e.cap, e.height)
BY DEF WellTimed, Timely

(* The parts of the invariant that no transaction can disturb. *)
LEMMA DeliveredKeeps ==
  ASSUME Consistent, phase = "block",
         UNCHANGED <<committed, disk, phase, crashes>>,
         Delivered(current, current')
  PROVE  /\ TypeOK' /\ Phases' /\ Persisted' /\ Cleared(committed)'
         /\ WellTimed(committed)' /\ WellTimed(current)'
         /\ Books(committed, disk.rewarded, disk.failed)'
<1>1. TypeOK'
  BY DEF Consistent, TypeOK, Delivered
<1>2. Phases'
  <2>1. Keeps(committed, current) /\ current.height = committed.height
        /\ committed.height < MaxHeight
    BY DEF Consistent, Phases
  <2>2. /\ committed.led.nonce \in [Addr -> Nat]
        /\ current.led.nonce \in [Addr -> Nat]
        /\ current'.led.nonce \in [Addr -> Nat]
    BY AccountsAssumption, SMTT(60) DEF Consistent, TypeOK, Delivered, Envelope, Ledger, Nonce
  <2>3. Keeps(committed, current')
    <3>1. \A a \in Addr : committed.led.nonce[a] <= current'.led.nonce[a]
      BY <2>1, <2>2 DEF Keeps, Delivered
    <3>2. \A s \in Slug : committed.led.owner[s] # None =>
            current'.led.owner[s] = committed.led.owner[s]
      BY <2>1 DEF Keeps, Delivered
    <3>3. \A k \in Height : committed.cap.records[k] # None =>
            current'.cap.records[k] = committed.cap.records[k]
      BY <2>1 DEF Keeps, Delivered, CapStep
    <3> QED
      BY <3>1, <3>2, <3>3 DEF Keeps
  <2>4. Keeps(committed, current)'
    BY <2>3 DEF Keeps
  <2> QED
    BY <2>1, <2>4 DEF Phases, Delivered
<1>3. Persisted'
  BY SMTT(60) DEF Consistent, Persisted, Pristine, Cleared
<1>4. Cleared(committed)' /\ WellTimed(committed)'
      /\ Books(committed, disk.rewarded, disk.failed)'
  BY Zenon DEF Consistent, Cleared, WellTimed, Books, WasChallenge, FailuresCounted,
         FailuresOf
<1>5. WellTimed(current)'
  BY DEF Consistent, WellTimed, Delivered, CapStep, Timely
<1> QED
  BY <1>1, <1>2, <1>3, <1>4, <1>5

(* A rewarded provider stays renewed. *)
LEMMA RenewalKept ==
  ASSUME Consistent, phase = "block", Delivered(current, current'),
         \A id \in current'.cap.rewarded :
           id \in current.cap.rewarded
             \/ Renewed(current'.cap, current.height, id.provider)
  PROVE  RewardRenewsLease'
<1>1. \A id \in current.cap.rewarded :
        id.provider \in Addr /\ Renewed(current.cap, current.height, id.provider)
  BY Zenon DEF Consistent, RewardRenewsLease, Renewed, TypeOK, Envelope,
         CapacityState, ChallengeId
<1>2. \A id \in current'.cap.rewarded :
        Renewed(current'.cap, current'.height, id.provider)
  BY <1>1 DEF Delivered, CapStep
<1> QED
  BY <1>2, Zenon DEF RewardRenewsLease, Renewed

(* A transaction that decides no challenge keeps the invariant. *)
LEMMA QuietDelivery ==
  ASSUME Consistent, phase = "block",
         UNCHANGED <<committed, disk, phase, crashes>>,
         NEW l2, NEW c2, LedgerStep(current.led, l2),
         CapStep(current.cap, c2, current.height), NoOutcome(current.cap, c2),
         current' = [current EXCEPT !.led = l2, !.cap = c2]
  PROVE  Consistent'
<1>1. current \in Envelope
  BY DEF Consistent, TypeOK
<1>2. Delivered(current, current') /\ current'.led = l2 /\ current'.cap = c2
  <2>1. /\ l2 \in Ledger
        /\ \A a \in Addr : current.led.nonce[a] <= l2.nonce[a]
        /\ \A s \in Slug : current.led.owner[s] # None =>
             l2.owner[s] = current.led.owner[s]
    BY DEF LedgerStep
  <2>2. /\ current' \in Envelope /\ current'.led = l2 /\ current'.cap = c2
        /\ current'.height = current.height /\ current'.epoch = current.epoch
    BY <1>1, <2>1, Zenon DEF Envelope, CapStep
  <2> QED
    BY <2>1, <2>2 DEF Delivered
<1>3. /\ TypeOK' /\ Phases' /\ Persisted' /\ Cleared(committed)'
      /\ WellTimed(committed)' /\ WellTimed(current)'
      /\ Books(committed, disk.rewarded, disk.failed)'
  BY <1>2, DeliveredKeeps
<1>4. /\ current'.cap.rewarded = current.cap.rewarded
      /\ current'.cap.failed = current.cap.failed
      /\ RewardedIds' = RewardedIds /\ FailedIds' = FailedIds
  BY <1>2 DEF NoOutcome, RewardedIds, FailedIds
<1>5. RewardRenewsLease'
  BY <1>2, <1>4, RenewalKept
<1>6. Books(current, RewardedIds, FailedIds)'
  <2>1. /\ RewardedIds \in SUBSET ChallengeId /\ FailedIds \in SUBSET ChallengeId
        /\ current'.epoch = current.epoch /\ current.epoch \in Nat
    BY <1>1, <1>2, CapacityAssumption, SMTT(60)
    DEF Consistent, TypeOK, Disk, Envelope, CapacityState, RewardedIds,
        FailedIds, Delivered, Height
  <2>2. IsFiniteSet(FailedIds)
    BY FS_Union, Zenon DEF Consistent, Persisted, FailedIds
  <2>3. \A a \in Addr : /\ FailuresCounted(current', a) = FailuresCounted(current, a)
                        /\ FailuresCounted(current, a) \in Nat
    BY <1>1, <1>2, CapacityAssumption, SMTT(60)
    DEF NoOutcome, FailuresCounted, Envelope, CapacityState
  <2>4. current'.led.minted = current.led.minted
        /\ current'.cap.records = current.cap.records
    BY <1>2 DEF LedgerStep, CapStep
  <2>5. current' \in Envelope
    BY <1>2 DEF Delivered
  <2>6. \A a \in Addr : FailuresCounted(current', a) <= FailuresCounted(current, a)
    BY <2>3
  <2>7. Books(current, RewardedIds, FailedIds) /\ current.epoch <= current'.epoch
    BY <2>1 DEF Consistent
  <2>8. Books(current', RewardedIds, FailedIds)
    BY <1>1, <2>1, <2>2, <2>4, <2>5, <2>6, <2>7, BooksKept, Zenon
  <2> QED
    BY <2>8, <1>4, Zenon DEF Books, WasChallenge, FailuresCounted
<1>7. IsFiniteSet(current.cap.rewarded)' /\ IsFiniteSet(current.cap.failed)'
  BY <1>4 DEF Consistent
<1> QED
  BY <1>3, <1>5, <1>6, <1>7, ZenonT(60) DEF Consistent

(* A judged proof is of a challenge of its epoch without an outcome yet. *)
LEMMA JudgedIsChallenge ==
  ASSUME current \in Envelope, NEW tx \in VerifiedProofTx, Judged(tx)
  PROVE  /\ WasChallenge(current, tx.id)
         /\ tx.id \notin RewardedIds /\ tx.id \notin FailedIds
         /\ tx.id.provider = tx.provider
<1>1. tx.id \notin RewardedIds /\ tx.id \notin FailedIds
  BY DEF Judged, Undecided, RewardedIds, FailedIds
<1>2. Bound(current.cap, current.epoch, tx)
  BY SMTT(60) DEF Judged
<1>3. /\ tx.id.validator = tx.sender /\ tx.id.provider = tx.provider
      /\ tx.id.height = tx.height
  BY <1>2, Zenon DEF Bound, Digest
<1>4. EpochOf(tx.height) <= current.epoch
  <2>1. current.epoch \in Nat /\ tx.height \in Nat
    BY CapacityAssumption, SMTT(60) DEF Envelope, VerifiedProofTx, Height
  <2>2. EpochOf(tx.height) = current.epoch \/ EpochOf(tx.height) = current.epoch - 1
    BY <1>2, Zenon DEF Bound, InWindow
  <2> QED
    BY <2>1, <2>2
<1> QED
  BY <1>1, <1>2, <1>3, <1>4, ZenonT(60) DEF Bound, WasChallenge

(* The sets of ids are finite sets of ids. *)
LEMMA IdsAreFinite ==
  ASSUME Consistent
  PROVE  /\ RewardedIds \in SUBSET ChallengeId /\ IsFiniteSet(RewardedIds)
         /\ FailedIds \in SUBSET ChallengeId /\ IsFiniteSet(FailedIds)
<1>1. RewardedIds \in SUBSET ChallengeId /\ FailedIds \in SUBSET ChallengeId
  BY ZenonT(60) DEF Consistent, TypeOK, Disk, Envelope, CapacityState, RewardedIds, FailedIds
<1>2. IsFiniteSet(RewardedIds) /\ IsFiniteSet(FailedIds)
  BY FS_Union, Zenon DEF Consistent, Persisted, RewardedIds, FailedIds
<1> QED
  BY <1>1, <1>2, SMTT(60)

(* A rewarded proof keeps the invariant. *)
LEMMA RewardDelivery ==
  ASSUME Consistent, RewardProof
  PROVE  Consistent'
<1>1. PICK tx \in Proofs :
        /\ Deliver(tx) /\ Rewarding(tx)
        /\ current' =
             [current EXCEPT !.led = Credit(Charge(@, tx), tx.provider, Reward),
                             !.cap = RecordReward(@, current.height, tx)]
  BY Zenon DEF RewardProof
<1> DEFINE l1 == Charge(current.led, tx)
           l2 == Credit(l1, tx.provider, Reward)
           c2 == RecordReward(current.cap, current.height, tx)
<1>2. /\ tx \in VerifiedProofTx /\ tx.sender \in Addr /\ tx.fee \in Coin
      /\ tx.provider \in Addr /\ tx.id \in ChallengeId
  BY ApplicationAssumption DEF VerifiedProofTx
<1>3. /\ current \in Envelope /\ current.led \in Ledger
      /\ current.cap \in CapacityState /\ current.height \in Nat
      /\ Timely(current.cap, current.height)
  BY WellTimedIsTimely, CapacityAssumption, SMTT(60)
  DEF Consistent, TypeOK, Envelope, Height
<1>4. /\ phase = "block" /\ Accepted(current.led, tx) /\ Judged(tx)
      /\ UNCHANGED <<committed, disk, phase, crashes>>
      /\ CanCredit(l1, tx.provider, Reward)
  BY <1>1, Zenon DEF Deliver, Rewarding
<1>5. LedgerStep(current.led, l1)
  BY <1>2, <1>3, <1>4, ChargeStep, ZenonT(60)
<1>6. /\ l2 \in Ledger /\ l2.minted = l1.minted + Reward
      /\ l2.nonce = l1.nonce /\ l2.owner = l1.owner
  BY <1>2, <1>4, <1>5, CreditStep, CapacityAssumption, ZenonT(60) DEF LedgerStep
<1>7. /\ CapStep(current.cap, c2, current.height)
      /\ Renewed(c2, current.height, tx.provider)
      /\ c2.rewarded = current.cap.rewarded \cup {tx.id}
      /\ c2.failed = current.cap.failed
      /\ c2.fails = current.cap.fails /\ c2.slashes = current.cap.slashes
  BY <1>2, <1>3, RecordRewardStep, ZenonT(60)
<1>8. current' = [current EXCEPT !.led = l2, !.cap = c2]
  BY <1>1
<1> HIDE DEF l1, l2, c2
<1>9. /\ current' \in Envelope /\ current'.led = l2 /\ current'.cap = c2
      /\ current'.height = current.height /\ current'.epoch = current.epoch
  BY <1>3, <1>6, <1>7, <1>8, ZenonT(60) DEF Envelope, CapStep
<1>10. Delivered(current, current')
  BY <1>5, <1>6, <1>7, <1>9, ZenonT(60) DEF Delivered, LedgerStep
<1>11. /\ TypeOK' /\ Phases' /\ Persisted' /\ Cleared(committed)'
       /\ WellTimed(committed)' /\ WellTimed(current)'
       /\ Books(committed, disk.rewarded, disk.failed)'
  BY <1>4, <1>10, DeliveredKeeps, ZenonT(60)
<1>12. /\ WasChallenge(current, tx.id) /\ tx.id.provider = tx.provider
       /\ tx.id \notin RewardedIds /\ tx.id \notin FailedIds
  BY <1>2, <1>3, <1>4, JudgedIsChallenge, ZenonT(60)
<1>13. RewardRenewsLease'
  BY <1>4, <1>7, <1>9, <1>10, <1>12, RenewalKept, ZenonT(60)
<1>14. RewardedIds' = RewardedIds \cup {tx.id} /\ FailedIds' = FailedIds
  BY <1>4, <1>7, <1>9, ZenonT(60) DEF RewardedIds, FailedIds
<1>15. Books(current', RewardedIds \cup {tx.id}, FailedIds)
  <2>1. Books(current, RewardedIds, FailedIds)
    BY DEF Consistent
  <2>2. current'.led.minted = current.led.minted + Reward
    BY <1>5, <1>6, <1>9, ZenonT(60) DEF LedgerStep
  <2>3. current'.cap.records = current.cap.records
    BY <1>7, <1>9, SMTT(60) DEF CapStep
  <2> QED
    BY <1>2, <1>3, <1>7, <1>9, <1>12, <2>1, <2>2, <2>3, IdsAreFinite, BooksReward, ZenonT(60)
<1>16. Books(current, RewardedIds, FailedIds)'
  BY <1>14, <1>15, ZenonT(60) DEF Books, WasChallenge, FailuresCounted
<1>17. IsFiniteSet(current.cap.rewarded)' /\ IsFiniteSet(current.cap.failed)'
  <2>1. IsFiniteSet(current.cap.rewarded \cup {tx.id})
    BY FS_AddElement, Zenon DEF Consistent
  <2> QED
    BY <1>7, <1>9, <2>1, ZenonT(60) DEF Consistent
<1> QED
  BY <1>11, <1>13, <1>16, <1>17, ZenonT(60) DEF Consistent

(* A failed proof that is counted keeps the invariant. *)
LEMMA FailureDelivery ==
  ASSUME Consistent, CountFailedProof
  PROVE  Consistent'
<1>1. PICK tx \in Proofs :
        /\ Deliver(tx) /\ Failing(tx)
        /\ current' = [current EXCEPT !.led = Charge(@, tx),
                                      !.cap = RecordFailure(@, tx)]
  BY Zenon DEF CountFailedProof
<1> DEFINE l2 == Charge(current.led, tx)
           c2 == RecordFailure(current.cap, tx)
<1>2. /\ tx \in VerifiedProofTx /\ tx.sender \in Addr /\ tx.fee \in Coin
      /\ tx.provider \in Addr /\ tx.id \in ChallengeId
  BY ApplicationAssumption DEF VerifiedProofTx
<1>3. /\ current \in Envelope /\ current.led \in Ledger
      /\ current.cap \in CapacityState /\ current.height \in Nat
      /\ Timely(current.cap, current.height)
  BY WellTimedIsTimely, CapacityAssumption, SMTT(60)
  DEF Consistent, TypeOK, Envelope, Height
<1>4. /\ phase = "block" /\ Accepted(current.led, tx) /\ Judged(tx)
      /\ UNCHANGED <<committed, disk, phase, crashes>>
  BY <1>1 DEF Deliver, Failing
<1>5. LedgerStep(current.led, l2)
  BY <1>2, <1>3, <1>4, ChargeStep, ZenonT(60)
<1>6. /\ CapStep(current.cap, c2, current.height)
      /\ c2.rewarded = current.cap.rewarded
      /\ c2.failed = current.cap.failed \cup {tx.id}
      /\ Counted(c2, tx.provider) <= Counted(current.cap, tx.provider) + 1
      /\ \A a \in Addr \ {tx.provider} : Counted(c2, a) = Counted(current.cap, a)
  BY <1>2, <1>3, RecordFailureStep, Zenon
<1>7. current' = [current EXCEPT !.led = l2, !.cap = c2]
  BY <1>1
<1> HIDE DEF l2, c2
<1>8. /\ current' \in Envelope /\ current'.led = l2 /\ current'.cap = c2
      /\ current'.height = current.height /\ current'.epoch = current.epoch
  BY <1>3, <1>5, <1>6, <1>7, ZenonT(60) DEF Envelope, CapStep, LedgerStep
<1>9. Delivered(current, current')
  BY <1>5, <1>6, <1>8, Zenon DEF Delivered, LedgerStep
<1>10. /\ TypeOK' /\ Phases' /\ Persisted' /\ Cleared(committed)'
       /\ WellTimed(committed)' /\ WellTimed(current)'
       /\ Books(committed, disk.rewarded, disk.failed)'
  BY <1>4, <1>9, DeliveredKeeps, ZenonT(60)
<1>11. /\ WasChallenge(current, tx.id) /\ tx.id.provider = tx.provider
       /\ tx.id \notin RewardedIds /\ tx.id \notin FailedIds
  BY <1>2, <1>3, <1>4, JudgedIsChallenge, ZenonT(60)
<1>12. RewardRenewsLease'
  BY <1>4, <1>6, <1>8, <1>9, RenewalKept, ZenonT(60)
<1>13. RewardedIds' = RewardedIds /\ FailedIds' = FailedIds \cup {tx.id}
  BY <1>4, <1>6, <1>8, ZenonT(60) DEF RewardedIds, FailedIds
<1>14. Books(current', RewardedIds, FailedIds \cup {tx.id})
  <2>1. Books(current, RewardedIds, FailedIds)
    BY DEF Consistent
  <2>2. /\ current'.led.minted = current.led.minted
        /\ current'.cap.records = current.cap.records
    BY <1>5, <1>6, <1>8, ZenonT(60) DEF LedgerStep, CapStep
  <2>3. /\ FailuresCounted(current', tx.id.provider)
             <= FailuresCounted(current, tx.id.provider) + 1
        /\ \A a \in Addr \ {tx.id.provider} :
             FailuresCounted(current', a) = FailuresCounted(current, a)
    BY <1>6, <1>8, <1>11, ZenonT(60) DEF Counted, FailuresCounted
  <2> QED
    BY <1>2, <1>3, <1>8, <1>11, <2>1, <2>2, <2>3, IdsAreFinite, BooksFailure, ZenonT(60)
<1>15. Books(current, RewardedIds, FailedIds)'
  BY <1>13, <1>14, Zenon DEF Books, WasChallenge, FailuresCounted
<1>16. IsFiniteSet(current.cap.rewarded)' /\ IsFiniteSet(current.cap.failed)'
  <2>1. IsFiniteSet(current.cap.failed \cup {tx.id})
    BY FS_AddElement, Zenon DEF Consistent
  <2> QED
    BY <1>6, <1>8, <2>1, Zenon DEF Consistent
<1> QED
  BY <1>10, <1>12, <1>15, <1>16, ZenonT(60) DEF Consistent

(* A capacity state is a step from itself. *)
LEMMA CapUnchanged ==
  ASSUME NEW c \in CapacityState, NEW h, Timely(c, h)
  PROVE  CapStep(c, c, h) /\ NoOutcome(c, c)
BY DEF CapStep, NoOutcome

(* Every transaction that decides no challenge keeps the invariant. *)
LEMMA OtherDeliveries ==
  ASSUME Consistent,
         \/ DeliverTransfer \/ DeliverStake \/ DeliverUnstake
         \/ DeliverAddNamespace \/ DeliverRegisterCapacity
         \/ DeliverUnregisterCapacity \/ DeliverUpdateRoot \/ RejectProof
  PROVE  Consistent'
<1> DEFINE led == current.led
           cap == current.cap
<1>1. /\ current \in Envelope /\ led \in Ledger /\ cap \in CapacityState
      /\ current.height \in Nat /\ Timely(cap, current.height)
  BY WellTimedIsTimely, CapacityAssumption, SMTT(60)
  DEF Consistent, TypeOK, Envelope, Height
<1>2. CapStep(cap, cap, current.height) /\ NoOutcome(cap, cap)
  BY <1>1, CapUnchanged
<1>3. ASSUME NEW tx, tx.sender \in Addr, tx.fee \in Coin, Deliver(tx)
      PROVE  /\ LedgerStep(led, Charge(led, tx)) /\ Charge(led, tx) \in Ledger
             /\ phase = "block" /\ UNCHANGED <<committed, disk, phase, crashes>>
  BY <1>1, <1>3, ChargeStep, ZenonT(60) DEF Deliver, LedgerStep
<1>4. ASSUME NEW l2, current' = [current EXCEPT !.led = l2],
             LedgerStep(led, l2), phase = "block",
             UNCHANGED <<committed, disk, phase, crashes>>
      PROVE  Consistent'
  <2>1. current' = [current EXCEPT !.led = l2, !.cap = cap]
    BY <1>1, <1>4, Zenon DEF Envelope
  <2> QED
    BY <1>2, <1>4, <2>1, QuietDelivery, Zenon
<1>5. CASE DeliverTransfer
  <2>1. PICK tx \in Transfers :
          /\ Deliver(tx)
          /\ current' = [current EXCEPT !.led = Transfer(Charge(@, tx), tx)]
    BY <1>5 DEF DeliverTransfer
  <2>2. tx \in TransferTx /\ tx.sender \in Addr /\ tx.fee \in Coin
    BY ApplicationAssumption DEF TransferTx
  <2>3. LedgerStep(led, Transfer(Charge(led, tx), tx))
    BY <1>1, <1>3, <2>1, <2>2, TransferStep, LedgerStepTransitive, ZenonT(60)
  <2> QED
    BY <1>3, <1>4, <2>1, <2>2, <2>3, ZenonT(60)
<1>6. CASE DeliverStake
  <2>1. PICK tx \in Stakes :
          /\ Deliver(tx)
          /\ current' = [current EXCEPT !.led = Stake(Charge(@, tx), tx)]
    BY <1>6 DEF DeliverStake
  <2>2. tx \in StakeTx /\ tx.sender \in Addr /\ tx.fee \in Coin
    BY ApplicationAssumption, Zenon DEF StakeTx
  <2>3. LedgerStep(led, Stake(Charge(led, tx), tx))
    BY <1>1, <1>3, <2>1, <2>2, StakeStep, LedgerStepTransitive, ZenonT(60)
  <2> QED
    BY <1>3, <1>4, <2>1, <2>2, <2>3, ZenonT(60)
<1>7. CASE DeliverUnstake
  <2>1. PICK tx \in Unstakes :
          /\ Deliver(tx)
          /\ current' = [current EXCEPT !.led = Unstake(Charge(@, tx), tx)]
    BY <1>7 DEF DeliverUnstake
  <2>2. tx \in UnstakeTx /\ tx.sender \in Addr /\ tx.fee \in Coin
    BY ApplicationAssumption, SMTT(60) DEF UnstakeTx
  <2>3. LedgerStep(led, Unstake(Charge(led, tx), tx))
    BY <1>1, <1>3, <2>1, <2>2, UnstakeStep, LedgerStepTransitive, ZenonT(60)
  <2> QED
    BY <1>3, <1>4, <2>1, <2>2, <2>3, ZenonT(60)
<1>8. CASE DeliverAddNamespace
  <2>1. PICK tx \in Namespaces :
          /\ Deliver(tx)
          /\ current' = [current EXCEPT !.led = AddNamespace(Charge(@, tx), tx)]
    BY <1>8 DEF DeliverAddNamespace
  <2>2. tx \in AddNamespaceTx /\ tx.sender \in Addr /\ tx.fee \in Coin
    BY ApplicationAssumption, Zenon DEF AddNamespaceTx
  <2>3. LedgerStep(led, AddNamespace(Charge(led, tx), tx))
    BY <1>1, <1>3, <2>1, <2>2, AddNamespaceStep, LedgerStepTransitive, ZenonT(60)
  <2> QED
    BY <1>3, <1>4, <2>1, <2>2, <2>3, ZenonT(60)
<1>9. CASE DeliverRegisterCapacity
  <2>1. PICK tx \in Registers :
          /\ Deliver(tx)
          /\ current' = [current EXCEPT
                           !.led = Charge(@, tx),
                           !.cap = RegisterCapacity(@, current.height, tx)]
    BY <1>9, Zenon DEF DeliverRegisterCapacity
  <2>2. tx \in RegisterCapacityTx /\ tx.sender \in Addr /\ tx.fee \in Coin
    BY ApplicationAssumption DEF RegisterCapacityTx
  <2>3. /\ CapStep(cap, RegisterCapacity(cap, current.height, tx), current.height)
        /\ NoOutcome(cap, RegisterCapacity(cap, current.height, tx))
    BY <1>1, <2>2, RegisterStep, ZenonT(60)
  <2> QED
    BY <1>3, <2>1, <2>2, <2>3, QuietDelivery, ZenonT(60)
<1>10. CASE DeliverUnregisterCapacity
  <2>1. PICK tx \in Unregisters :
          /\ Deliver(tx)
          /\ current' = [current EXCEPT !.led = Charge(@, tx),
                                        !.cap = UnregisterCapacity(@, tx)]
    BY <1>10, Zenon DEF DeliverUnregisterCapacity
  <2>2. tx \in UnregisterCapacityTx /\ tx.sender \in Addr /\ tx.fee \in Coin
    BY ApplicationAssumption DEF UnregisterCapacityTx
  <2>3. /\ CapStep(cap, UnregisterCapacity(cap, tx), current.height)
        /\ NoOutcome(cap, UnregisterCapacity(cap, tx))
    BY <1>1, <2>2, UnregisterStep, ZenonT(60)
  <2> QED
    BY <1>3, <2>1, <2>2, <2>3, QuietDelivery, ZenonT(60)
<1>11. CASE DeliverUpdateRoot
  <2>1. PICK tx \in Updates :
          /\ Deliver(tx)
          /\ current' = [current EXCEPT !.led = Charge(@, tx),
                                        !.cap = UpdateCapacityMerkleRoot(@, tx)]
    BY <1>11, Zenon DEF DeliverUpdateRoot
  <2>2. tx \in UpdateCapacityMerkleRootTx /\ tx.sender \in Addr
        /\ tx.fee \in Coin
    BY ApplicationAssumption DEF UpdateCapacityMerkleRootTx
  <2>3. /\ CapStep(cap, UpdateCapacityMerkleRoot(cap, tx), current.height)
        /\ NoOutcome(cap, UpdateCapacityMerkleRoot(cap, tx))
    BY <1>1, <2>2, UpdateStep, Zenon
  <2> QED
    BY <1>3, <2>1, <2>2, <2>3, QuietDelivery, Zenon
<1>12. CASE RejectProof
  <2>1. PICK tx \in Proofs :
          Deliver(tx) /\ current' = [current EXCEPT !.led = Charge(@, tx)]
    BY <1>12 DEF RejectProof
  <2>2. tx.sender \in Addr /\ tx.fee \in Coin
    BY ApplicationAssumption DEF VerifiedProofTx
  <2> QED
    BY <1>3, <1>4, <2>1, <2>2, ZenonT(60)
<1> QED
  BY <1>5, <1>6, <1>7, <1>8, <1>9, <1>10, <1>11, <1>12, ZenonT(60)

-----------------------------------------------------------------------------
(* The state of a fresh start, and what InitChain makes of it. *)
LEMMA FreshIsConsistent ==
  /\ FreshState \in Envelope
  /\ Cleared(FreshState) /\ WellTimed(FreshState) /\ Pristine(FreshState)
  /\ Books(FreshState, {}, {})
<1>1. EmptyCapacity \in CapacityState
  BY DEF EmptyCapacity, CapacityState
<1>2. 0 \in Height
  BY CapacityAssumption, SMTT(60) DEF Height
<1>3. FreshState \in Envelope
  BY <1>1, <1>2, ConfiguredIsLedger, Zenon DEF FreshState, Envelope
<1>4. Cleared(FreshState) /\ WellTimed(FreshState) /\ Pristine(FreshState)
  BY Zenon DEF FreshState, Cleared, WellTimed, Pristine, EmptyCapacity, ConfiguredLedger
<1>5. Books(FreshState, {}, {})
  <2>1. Cardinality({}) = 0
    BY FS_EmptySet
  <2>2. FreshState.led.minted = Reward * 0
    BY CapacityAssumption, SMTT(60) DEF FreshState, ConfiguredLedger
  <2>3. \A a \in Addr : FailuresOf(a, {}) = {} /\ FailuresCounted(FreshState, a) = 0
    BY CapacityAssumption, SMTT(60)
    DEF FailuresOf, FailuresCounted, FreshState, EmptyCapacity
  <2> QED
    BY <2>1, <2>2, <2>3, SMTT(60) DEF Books
<1> QED
  BY <1>3, <1>4, <1>5, ZenonT(60)

(* The invariant holds at the start. *)
LEMMA InitConsistent == Init => Consistent
<1> SUFFICES ASSUME Init PROVE Consistent
  BY SMTT(60)
<1>1. TypeOK
  BY FreshIsConsistent, ApplicationAssumption, SMTT(60) DEF Init, TypeOK, Disk
<1>2. Phases /\ Persisted
  BY FreshIsConsistent, FS_EmptySet DEF Init, Phases, Persisted
<1>3. RewardedIds = {} /\ FailedIds = {}
  BY FreshIsConsistent DEF Init, RewardedIds, FailedIds, Cleared
<1>4. Books(committed, disk.rewarded, disk.failed)
      /\ Books(current, RewardedIds, FailedIds)
  BY <1>3, FreshIsConsistent DEF Init
<1>5. Cleared(committed) /\ WellTimed(committed) /\ WellTimed(current)
      /\ Cleared(current)
  BY FreshIsConsistent DEF Init
<1>6. IsFiniteSet(current.cap.rewarded) /\ IsFiniteSet(current.cap.failed)
      /\ RewardRenewsLease
  BY <1>5, FS_EmptySet DEF Cleared, RewardRenewsLease
<1> QED
  BY <1>1, <1>2, <1>4, <1>5, <1>6, ZenonT(60) DEF Consistent

(***************************************************************************)
(* A step that leaves the open block's state equal to the committed one,   *)
(* with no outcome of its own, need only be shown to keep the latter.      *)
(***************************************************************************)
LEMMA SettledIsConsistent ==
  ASSUME TypeOK', Phases', Persisted', Cleared(committed)',
         WellTimed(committed)', (current = committed)',
         Books(committed, disk.rewarded, disk.failed)'
  PROVE  Consistent'
<1>1. Cleared(current)' /\ WellTimed(current)'
  BY DEF Cleared, WellTimed
<1>2. (RewardedIds = disk.rewarded)' /\ (FailedIds = disk.failed)'
  BY <1>1, SMTT(60) DEF RewardedIds, FailedIds, Cleared
<1>3. Books(current, RewardedIds, FailedIds)'
  BY <1>2, ZenonT(60) DEF Books, WasChallenge, FailuresCounted
<1>4. IsFiniteSet(current.cap.rewarded)' /\ IsFiniteSet(current.cap.failed)'
      /\ RewardRenewsLease'
  BY <1>1, FS_EmptySet, Zenon DEF Cleared, RewardRenewsLease
<1> QED
  BY <1>1, <1>3, <1>4, ZenonT(60) DEF Consistent

(* InitChain. *)
LEMMA InitChainConsistent ==
  ASSUME Consistent, InitChain
  PROVE  Consistent'
<1>1. /\ phase = "start" /\ disk.tip = None /\ committed = FreshState
      /\ committed \in Envelope /\ committed.led \in Ledger
      /\ committed.cap \in CapacityState
  BY Zenon DEF InitChain, Consistent, Phases, TypeOK, Envelope
<1> DEFINE led == InitValidators(committed.led)
<1>2. PICK acv \in Assignments(committed.cap, 0, 0) :
        committed' = [committed EXCEPT !.led = led,
                                       !.active = SelectValidators(led),
                                       !.cap.acv = acv]
  BY Zenon DEF InitChain
<1>3. /\ led \in Ledger /\ led.minted = committed.led.minted
      /\ led.nonce = committed.led.nonce /\ led.owner = committed.led.owner
  BY <1>1, InitValidatorsStep
<1>4. SelectValidators(led) \subseteq Addr
  BY <1>3 DEF SelectValidators, Ledger
<1>5. acv \in Assignment \cup {None}
  <2>1. 0 \in Height
    BY CapacityAssumption DEF Height
  <2> QED
    BY <1>1, <2>1, AssignmentsType
<1> HIDE DEF led
<1> DEFINE cap == [committed.cap EXCEPT !.acv = acv]
<1>6. /\ cap \in CapacityState /\ cap.records = committed.cap.records
      /\ cap.provs = committed.cap.provs /\ NoOutcome(committed.cap, cap)
  BY <1>1, <1>5 DEF CapacityState, NoOutcome
<1>7. /\ committed' \in Envelope /\ committed'.led = led /\ committed'.cap = cap
      /\ committed'.height = committed.height
      /\ committed'.epoch = committed.epoch
  <2>1. committed' = [committed EXCEPT !.led = led,
                        !.active = SelectValidators(led), !.cap = cap]
    BY <1>2
  <2> HIDE DEF cap
  <2> QED
    BY <1>1, <1>3, <1>4, <1>6, <2>1, Zenon DEF Envelope
<1> HIDE DEF cap
<1>8. UNCHANGED <<disk, crashes>> /\ current' = committed' /\ phase' = "idle"
  BY DEF InitChain
<1>9. TypeOK'
  BY <1>7, <1>8, ZenonT(60) DEF Consistent, TypeOK
<1>10. Phases'
  BY <1>8 DEF Phases
<1>11. Cleared(committed)' /\ WellTimed(committed)' /\ Pristine(committed)'
  BY <1>1, <1>3, <1>6, <1>7, ZenonT(60)
  DEF Consistent, Persisted, Cleared, WellTimed, Pristine, NoOutcome
<1>12. Persisted'
  BY <1>1, <1>8, <1>11, ZenonT(60) DEF Consistent, Persisted
<1>13. Books(committed, disk.rewarded, disk.failed)'
  BY <1>3, <1>6, <1>7, <1>8, ZenonT(60)
  DEF Consistent, Books, WasChallenge, FailuresCounted, NoOutcome
<1> QED
  BY <1>8, <1>9, <1>10, <1>11, <1>12, <1>13, SettledIsConsistent, ZenonT(60)

(* BeginBlock. *)
LEMMA BeginBlockConsistent ==
  ASSUME Consistent, BeginBlock
  PROVE  Consistent'
<1>1. /\ phase = "idle" /\ committed.height < MaxHeight /\ current' = committed
      /\ phase' = "block" /\ UNCHANGED <<committed, disk, crashes>>
  BY DEF BeginBlock
<1>2. TypeOK'
  BY <1>1 DEF Consistent, TypeOK
<1>3. Keeps(committed, current)'
  <2>1. committed.led.nonce \in [Addr -> Nat]
    BY AccountsAssumption, SMTT(60) DEF Consistent, TypeOK, Envelope, Ledger, Nonce
  <2> QED
    BY <1>1, <2>1, SMTT(60) DEF Keeps
<1>4. Phases'
  BY <1>1, <1>3 DEF Phases
<1>5. Persisted' /\ Cleared(committed)' /\ WellTimed(committed)'
  BY <1>1, ZenonT(60) DEF Consistent, Persisted, Cleared, WellTimed, Pristine
<1>6. Books(committed, disk.rewarded, disk.failed)'
  BY <1>1, ZenonT(60) DEF Consistent, Books, WasChallenge, FailuresCounted
<1> QED
  BY <1>1, <1>2, <1>4, <1>5, <1>6, SettledIsConsistent, ZenonT(60)

(***************************************************************************)
(* EndBlock, for whatever it does to the capacity state: only the record   *)
(* of a later epoch may be written, and no challenge is decided.           *)
(***************************************************************************)
LEMMA EndedIsConsistent ==
  ASSUME Consistent, phase = "block", phase' = "ended",
         UNCHANGED <<committed, disk, crashes>>,
         current' \in Envelope, current'.height = current.height + 1,
         current.epoch <= current'.epoch, current'.led = current.led,
         NoOutcome(current.cap, current'.cap),
         Timely(current'.cap, current'.height),
         \A k \in Height : current.cap.records[k] # None =>
           current'.cap.records[k] = current.cap.records[k],
         \A k \in Height : current'.cap.records[k] # None =>
           k <= current'.epoch
  PROVE  Consistent'
<1>1. TypeOK'
  BY ZenonT(60) DEF Consistent, TypeOK
<1>2. Phases'
  <2>1. Keeps(committed, current) /\ current.height = committed.height
    BY Zenon DEF Consistent, Phases
  <2>2. Keeps(committed, current)'
    BY <2>1 DEF Keeps
  <2> QED
    BY <2>1, <2>2, SMTT(60) DEF Phases
<1>3. Persisted' /\ Cleared(committed)' /\ WellTimed(committed)'
  BY ZenonT(60) DEF Consistent, Persisted, Pristine, Cleared, WellTimed
<1>4. Books(committed, disk.rewarded, disk.failed)'
  BY Zenon DEF Consistent, Books, WasChallenge, FailuresCounted
<1>5. WellTimed(current)'
  BY SMTT(60) DEF WellTimed, Timely
<1>6. IsFiniteSet(current.cap.rewarded)' /\ IsFiniteSet(current.cap.failed)'
      /\ RewardedIds' = RewardedIds /\ FailedIds' = FailedIds
  BY SMTT(60) DEF Consistent, NoOutcome, RewardedIds, FailedIds
<1>7. Books(current', RewardedIds, FailedIds)
  <2>1. /\ IsFiniteSet(FailedIds) /\ current \in Envelope
        /\ RewardedIds \in SUBSET ChallengeId /\ FailedIds \in SUBSET ChallengeId
        /\ Books(current, RewardedIds, FailedIds)
    BY IdsAreFinite, ZenonT(60) DEF Consistent, TypeOK
  <2>2. \A a \in Addr : FailuresCounted(current', a) <= FailuresCounted(current, a)
    <3>1. \A a \in Addr : FailuresCounted(current, a) \in Nat
      BY <2>1, CountedType
    <3> QED
      BY <3>1, SMTT(60) DEF FailuresCounted, NoOutcome
  <2> QED
    BY <2>1, <2>2, BooksKept, ZenonT(60)
<1>8. Books(current, RewardedIds, FailedIds)'
  BY <1>6, <1>7, Zenon DEF Books, WasChallenge, FailuresCounted
<1>9. RewardRenewsLease'
  BY Zenon DEF RewardRenewsLease
<1> QED
  BY <1>1, <1>2, <1>3, <1>4, <1>5, <1>6, <1>8, <1>9, ZenonT(60) DEF Consistent

(* EndBlock. *)
LEMMA EndBlockConsistent ==
  ASSUME Consistent, EndBlock
  PROVE  Consistent'
<1> DEFINE height == current.height + 1
           epoch == EpochOf(height)
<1>1. /\ phase = "block" /\ phase' = "ended"
      /\ UNCHANGED <<committed, disk, crashes>>
      /\ current \in Envelope /\ current.cap \in CapacityState
      /\ current.led \in Ledger /\ current.height \in Nat
      /\ current.epoch \in Nat /\ WellTimed(current)
      /\ current.height < MaxHeight
  BY CapacityAssumption, SMTT(60)
  DEF EndBlock, Consistent, TypeOK, Envelope, Phases, Height
<1>2. height \in Height /\ epoch \in Height /\ height \in Nat /\ epoch \in Nat
  <2>1. height \in Nat /\ height <= MaxHeight
    BY <1>1, CapacityAssumption
  <2>2. epoch \in Nat /\ epoch <= height
    BY <2>1, EpochOfHeight, SMTT(60)
  <2> QED
    BY <2>1, <2>2, CapacityAssumption DEF Height
<1> HIDE DEF epoch
<1>3. CASE epoch > current.epoch
  <2>1. StartEpoch(height, epoch)
    BY <1>3, SMTT(60) DEF EndBlock, epoch
  <2> DEFINE active == SelectValidators(current.led)
             cap == ExpireRegistrations(current.cap, current.height + 1)
  <2>2. PICK acv \in Assignments(cap, current.height + 1, epoch) :
          current' = [current EXCEPT
                        !.height = height,
                        !.epoch  = epoch,
                        !.active = active,
                        !.cap    = EpochStarted(current.cap, current.height + 1,
                                                epoch, active, acv)]
    BY <2>1, ZenonT(60) DEF StartEpoch, EpochStarted
  <2> DEFINE c2 == EpochStarted(current.cap, current.height + 1, epoch,
                                active, acv)
  <2>3. active \in SUBSET Addr
    BY <1>1 DEF SelectValidators, Ledger
  <2>4. Timely(current.cap, current.height)
    BY <1>1, WellTimedIsTimely
  <2>5. /\ c2 \in CapacityState /\ NoOutcome(current.cap, c2)
        /\ Timely(c2, current.height + 1)
        /\ \A k \in Height \ {epoch} : c2.records[k] = current.cap.records[k]
    <3>1. acv \in Assignments(ExpireRegistrations(current.cap, current.height + 1),
                              current.height + 1, epoch)
      BY <2>2
    <3>2. current.cap \in CapacityState /\ current.height \in Nat /\ epoch \in Height
      BY <1>1, <1>2
    <3> HIDE DEF active, cap
    <3> QED
      BY <2>3, <2>4, <3>1, <3>2, StartEpochStep, ZenonT(30)
  <2> HIDE DEF c2, active
  <2>6. current' = [current EXCEPT !.height = height, !.epoch = epoch,
                      !.active = active, !.cap = c2]
    BY <2>2 DEF c2, active
  <2>7. /\ current' \in Envelope /\ current'.height = height
        /\ current'.epoch = epoch /\ current'.led = current.led
        /\ current'.cap = c2
    BY <1>1, <1>2, <2>3, <2>5, <2>6, ZenonT(60) DEF Envelope
  <2>8. current.cap.records[epoch] = None
    BY <1>1, <1>2, <1>3, SMTT(60) DEF WellTimed
  <2>9. \A k \in Height : current.cap.records[k] # None =>
          current'.cap.records[k] = current.cap.records[k]
    BY <2>5, <2>7, <2>8, Zenon
  <2>10. \A k \in Height : current'.cap.records[k] # None => k <= current'.epoch
    <3> SUFFICES ASSUME NEW k \in Height, current'.cap.records[k] # None
                 PROVE  k <= epoch
      BY <2>7
    <3>1. k \in Nat
      BY CapacityAssumption, SMTT(60) DEF Height
    <3>2. CASE k # epoch
      <4>1. current.cap.records[k] # None
        BY <2>5, <2>7, <3>2, ZenonT(60)
      <4> QED
        BY <1>1, <1>2, <1>3, <3>1, <4>1, SMTT(60) DEF WellTimed
    <3> QED
      BY <1>2, <3>1, <3>2
  <2> QED
    BY <1>1, <1>2, <1>3, <2>5, <2>7, <2>9, <2>10, EndedIsConsistent, SMTT(60)
<1>4. CASE ~(epoch > current.epoch)
  <2>1. current' = [current EXCEPT !.height = height]
    BY <1>4 DEF EndBlock, epoch
  <2>2. /\ current' \in Envelope /\ current'.height = height
        /\ current'.epoch = current.epoch /\ current'.led = current.led
        /\ current'.cap = current.cap
    BY <1>1, <1>2, <2>1, ZenonT(60) DEF Envelope
  <2>3. NoOutcome(current.cap, current'.cap)
    BY <2>2, SMTT(60) DEF NoOutcome
  <2>4. Timely(current'.cap, current'.height)
    <3>1. \A a \in Addr : current.cap.provs[a] # None =>
            current.cap.provs[a].reg \in Nat
      BY <1>1, CapacityAssumption DEF CapacityState, Lease, Height
    <3> QED
      BY <1>1, <2>2, <3>1, SMTT(60) DEF WellTimed, Timely
  <2> QED
    BY <1>1, <2>2, <2>3, <2>4, EndedIsConsistent, SMTT(60) DEF WellTimed
<1> QED
  BY <1>3, <1>4

(* Commit. *)
LEMMA CommitConsistent ==
  ASSUME Consistent, Commit
  PROVE  Consistent'
<1>1. /\ phase = "ended" /\ phase' = "idle" /\ crashes' = crashes
      /\ committed' = Sealed(current) /\ current' = committed'
  BY SMTT(60) DEF Commit
<1>2. /\ disk'.tip = committed'
      /\ disk'.snapshot = IF current.height % BlocksPerEpoch = 0
                          THEN committed' ELSE disk.snapshot
      /\ disk'.rewarded = RewardedIds /\ disk'.failed = FailedIds
      /\ disk' \in [tip : {disk'.tip}, snapshot : {disk'.snapshot},
                    rewarded : {RewardedIds}, failed : {FailedIds}]
  BY SMTT(60) DEF Commit, RewardedIds, FailedIds
<1>3. /\ current \in Envelope /\ current.led \in Ledger
      /\ current.cap \in CapacityState /\ current.height \in Nat
      /\ committed \in Envelope /\ committed.height \in Nat
      /\ disk \in Disk
  BY CapacityAssumption, SMTT(60) DEF Consistent, TypeOK, Envelope, Height
<1> DEFINE active == IF EpochOf(current.height + 1) > current.epoch
                     THEN SelectValidators(current.led) ELSE current.active
           cap == [current.cap EXCEPT !.rewarded = {}, !.failed = {}]
<1>4. active \in SUBSET Addr
  BY <1>3, Zenon DEF SelectValidators, Ledger, Envelope
<1>5. /\ cap \in CapacityState /\ cap.records = current.cap.records
      /\ cap.provs = current.cap.provs /\ cap.fails = current.cap.fails
      /\ cap.slashes = current.cap.slashes
      /\ cap.rewarded = {} /\ cap.failed = {}
  BY <1>3, Zenon DEF CapacityState
<1>6. committed' = [current EXCEPT !.active = active, !.cap = cap]
  BY <1>1, <1>3, Zenon DEF Sealed, Envelope
<1> HIDE DEF active, cap
<1>7. /\ committed' \in Envelope /\ committed'.led = current.led
      /\ committed'.cap = cap /\ committed'.height = current.height
      /\ committed'.epoch = current.epoch
  BY <1>3, <1>4, <1>5, <1>6, Zenon DEF Envelope
<1>8. /\ RewardedIds \in SUBSET ChallengeId /\ IsFiniteSet(RewardedIds)
      /\ FailedIds \in SUBSET ChallengeId /\ IsFiniteSet(FailedIds)
  BY IdsAreFinite
<1>9. TypeOK'
  <2>1. disk'.tip \in Envelope /\ disk'.snapshot \in Envelope \cup {None}
    BY <1>2, <1>3, <1>7, ZenonT(60) DEF Disk
  <2>2. disk' \in Disk
    BY <1>2, <1>8, <2>1, ZenonT(60) DEF Disk
  <2> QED
    BY <1>1, <1>7, <2>2, ZenonT(60) DEF Consistent, TypeOK
<1>10. Phases'
  BY <1>1, SMTT(60) DEF Phases
<1>11. Cleared(committed)' /\ WellTimed(committed)'
  BY <1>5, <1>7, ZenonT(60) DEF Consistent, Cleared, WellTimed
<1>12. Persisted'
  <2>1. disk'.tip # None
    BY <1>2, <1>7, NoneIsNoState, ZenonT(60)
  <2>2. committed' = [disk'.tip EXCEPT !.cap.fails = committed'.cap.fails]
    BY <1>2, <1>5, <1>7, ZenonT(60) DEF Envelope, CapacityState
  <2>3. ASSUME disk'.snapshot # None, disk'.snapshot # disk'.tip
        PROVE  disk'.snapshot.height < disk'.tip.height
    <3>1. disk'.snapshot = disk.snapshot
      BY <1>2, <2>3
    <3>2. disk.tip # None /\ disk.snapshot.height <= disk.tip.height
      BY <2>3, <3>1, ZenonT(60) DEF Consistent, Persisted
    <3>3. /\ disk.tip \in Envelope /\ disk.snapshot \in Envelope
          /\ disk.tip.height \in Nat /\ disk.snapshot.height \in Nat
      BY <1>3, <2>3, <3>1, <3>2, CapacityAssumption, SMTT(60) DEF Disk, Envelope, Height
    <3>4. committed.height = disk.tip.height
      BY <3>2, <3>3, ZenonT(60) DEF Consistent, Persisted, Envelope
    <3>5. current.height = committed.height + 1
      BY <1>1, ZenonT(60) DEF Consistent, Phases
    <3> QED
      BY <1>2, <1>3, <1>7, <3>1, <3>2, <3>3, <3>4, <3>5, SMTT(60)
  <2>4. /\ disk'.tip.height \in Nat
        /\ disk'.snapshot # None => disk'.snapshot.height \in Nat
    BY <1>2, <1>3, <1>7, CapacityAssumption, SMTT(60) DEF Disk, Envelope, Height
  <2>5. disk'.snapshot # None =>
          /\ disk'.snapshot.height <= disk'.tip.height
          /\ disk'.snapshot.height = disk'.tip.height =>
               disk'.snapshot = disk'.tip
    BY <2>3, <2>4
  <2>6. Cleared(disk.tip)'
    BY <1>2, <1>11, Zenon DEF Cleared
  <2> QED
    BY <1>2, <1>8, <2>1, <2>2, <2>5, <2>6, ZenonT(60) DEF Persisted
<1>13. Books(committed', RewardedIds, FailedIds)
  <2>1. \A a \in Addr : /\ FailuresCounted(current, a) \in Nat
                         /\ FailuresCounted(committed', a)
                              = FailuresCounted(current, a)
    BY <1>3, <1>5, <1>7, CapacityAssumption, SMTT(60)
    DEF FailuresCounted, Envelope, CapacityState
  <2>2. \A a \in Addr : FailuresCounted(committed', a)
                           <= FailuresCounted(current, a)
    BY <2>1
  <2>3. current.epoch <= committed'.epoch
    BY <1>3, <1>7, CapacityAssumption, SMTT(60) DEF Envelope, Height
  <2>4. Books(current, RewardedIds, FailedIds)
    BY SMTT(60) DEF Consistent
  <2> QED
    BY <1>3, <1>5, <1>7, <1>8, <2>2, <2>3, <2>4, BooksKept, ZenonT(60)
<1>14. Books(committed, disk.rewarded, disk.failed)'
  BY <1>2, <1>13, ZenonT(60) DEF Books, WasChallenge, FailuresCounted
<1> QED
  BY <1>1, <1>9, <1>10, <1>11, <1>12, <1>14, SettledIsConsistent, ZenonT(60)

(***************************************************************************)
(* A snapshot of the tip's height is the tip, so what a restart restores   *)
(* is the committed state with its failure counts at zero.                 *)
(***************************************************************************)
LEMMA RestoredIsCommitted ==
  ASSUME Consistent, disk.tip # None, Restorable
  PROVE  /\ Restored = [disk.tip EXCEPT !.cap.fails = [a \in Addr |-> 0]]
         /\ Restored \in Envelope
         /\ Restored.height = committed.height /\ Restored.epoch = committed.epoch
         /\ Restored.led = committed.led
         /\ Restored.cap = [committed.cap EXCEPT !.fails = [a \in Addr |-> 0]]
<1>1. /\ disk.snapshot = disk.tip
      /\ committed = [disk.tip EXCEPT !.cap.fails = committed.cap.fails]
  BY SMTT(60) DEF Consistent, Persisted, Restorable
<1>2. disk.tip \in Envelope /\ disk.tip.cap \in CapacityState
      /\ committed \in Envelope
  BY Zenon DEF Consistent, TypeOK, Disk, Envelope
<1>3. Restored = [disk.tip EXCEPT !.cap.fails = [a \in Addr |-> 0]]
  BY <1>1 DEF Restored
<1> DEFINE cap == [disk.tip.cap EXCEPT !.fails = [a \in Addr |-> 0]]
<1>4. cap \in CapacityState
  BY <1>2, Zenon DEF CapacityState
<1>5. Restored = [disk.tip EXCEPT !.cap = cap]
  BY <1>3
<1>6. cap = [committed.cap EXCEPT !.fails = [a \in Addr |-> 0]]
  <2>1. committed.cap = [disk.tip.cap EXCEPT !.fails = committed.cap.fails]
    BY <1>1, <1>2 DEF Envelope
  <2> QED
    BY <1>2, <2>1, Zenon DEF CapacityState
<1>7. /\ committed.height = disk.tip.height /\ committed.epoch = disk.tip.epoch
      /\ committed.led = disk.tip.led
  BY <1>1, <1>2 DEF Envelope
<1> HIDE DEF cap
<1>8. /\ Restored \in Envelope /\ Restored.height = disk.tip.height
      /\ Restored.epoch = disk.tip.epoch /\ Restored.led = disk.tip.led
      /\ Restored.cap = cap
  BY <1>2, <1>4, <1>5 DEF Envelope
<1> QED
  BY <1>3, <1>6, <1>7, <1>8, ZenonT(60)

(* A restart, whichever way it goes. *)
LEMMA RestartConsistent ==
  ASSUME Consistent, Restart
  PROVE  Consistent'
<1>1. /\ disk' = disk /\ crashes' \in 0..MaxCrashes
  BY ApplicationAssumption
  DEF Consistent, TypeOK, Restart, RestartFresh, RestartFromSnapshot,
      RestartFails, Stop
<1>2. CASE RestartFresh
  <2>1. /\ disk.tip = None /\ committed' = FreshState /\ current' = FreshState
        /\ phase' = "start"
    BY <1>2, SMTT(60) DEF RestartFresh
  <2>2. TypeOK'
    BY <1>1, <2>1, FreshIsConsistent, ZenonT(60) DEF Consistent, TypeOK
  <2>3. Phases'
    BY <1>1, <2>1, Zenon DEF Phases, FreshState
  <2>4. Cleared(committed)' /\ WellTimed(committed)' /\ Pristine(committed)'
    BY <2>1, FreshIsConsistent, Zenon DEF Cleared, WellTimed, Pristine
  <2>5. Persisted'
    BY <1>1, <2>1, <2>4, ZenonT(60) DEF Consistent, Persisted
  <2>6. disk'.rewarded = {} /\ disk'.failed = {}
    BY <1>1, <2>1, ZenonT(60) DEF Consistent, Persisted
  <2>7. Books(committed, disk.rewarded, disk.failed)'
    BY <2>1, <2>6, FreshIsConsistent, ZenonT(60) DEF Books, WasChallenge, FailuresCounted
  <2> QED
    BY <2>1, <2>2, <2>3, <2>4, <2>5, <2>7, SettledIsConsistent, ZenonT(60)
<1>3. CASE RestartFromSnapshot
  <2>1. /\ disk.tip # None /\ Restorable /\ phase' = "idle"
        /\ committed' = Restored /\ current' = Restored
    BY <1>3, SMTT(60) DEF RestartFromSnapshot
  <2>2. /\ committed \in Envelope /\ committed.cap \in CapacityState
        /\ disk \in Disk /\ Books(committed, disk.rewarded, disk.failed)
    BY Zenon DEF Consistent, TypeOK, Envelope
  <2>3. /\ committed' = [disk.tip EXCEPT !.cap.fails = [a \in Addr |-> 0]]
        /\ committed' \in Envelope
        /\ committed'.height = committed.height
        /\ committed'.epoch = committed.epoch /\ committed'.led = committed.led
        /\ committed'.cap = [committed.cap EXCEPT !.fails = [a \in Addr |-> 0]]
    BY <2>1, RestoredIsCommitted, Zenon
  <2>4. /\ committed'.cap.records = committed.cap.records
        /\ committed'.cap.provs = committed.cap.provs
        /\ committed'.cap.slashes = committed.cap.slashes
        /\ committed'.cap.fails = [a \in Addr |-> 0]
        /\ committed'.cap.rewarded = committed.cap.rewarded
        /\ committed'.cap.failed = committed.cap.failed
    BY <2>2, <2>3, SMTT(60) DEF CapacityState
  <2>5. TypeOK'
    BY <1>1, <2>1, <2>3, ZenonT(60) DEF Consistent, TypeOK
  <2>6. Phases'
    BY <2>1, SMTT(60) DEF Phases
  <2>7. Cleared(committed)' /\ WellTimed(committed)'
    BY <2>3, <2>4, ZenonT(60) DEF Consistent, Cleared, WellTimed
  <2>8. Persisted'
    BY <1>1, <2>1, <2>3, <2>4, ZenonT(60) DEF Consistent, Persisted, Cleared
  <2>9. Books(committed', disk.rewarded, disk.failed)
    <3>1. \A a \in Addr : FailuresCounted(committed', a)
                             <= FailuresCounted(committed, a)
      <4>1. \A a \in Addr : committed.cap.fails[a] \in Nat
                             /\ committed.cap.slashes[a] \in Nat
        BY <2>2 DEF CapacityState
      <4>2. \A a \in Addr : FailedProofsBeforeSlash * committed.cap.slashes[a] \in Nat
        BY <4>1, CapacityAssumption
      <4> QED
        BY <2>4, <4>1, <4>2, SMTT(60) DEF FailuresCounted
    <3>2. committed.epoch <= committed'.epoch
      BY <2>2, <2>3, CapacityAssumption, SMTT(60) DEF Envelope, Height
    <3>3. IsFiniteSet(disk.failed) /\ disk.failed \in SUBSET ChallengeId
          /\ disk.rewarded \in SUBSET ChallengeId
      BY <2>2, ZenonT(60) DEF Consistent, Persisted, Disk
    <3> QED
      BY <2>2, <2>3, <2>4, <3>1, <3>2, <3>3, BooksKept, Zenon
  <2>10. Books(committed, disk.rewarded, disk.failed)'
    BY <1>1, <2>9, ZenonT(60) DEF Books, WasChallenge, FailuresCounted
  <2> QED
    BY <2>1, <2>5, <2>6, <2>7, <2>8, <2>10, SettledIsConsistent, ZenonT(60)
<1>4. CASE RestartFails
  <2>1. phase' = "halted" /\ UNCHANGED <<committed, current, disk>>
    BY <1>1, <1>4, SMTT(60) DEF RestartFails
  <2>2. TypeOK'
    BY <1>1, <2>1, ZenonT(60) DEF Consistent, TypeOK
  <2>3. Phases' /\ RewardRenewsLease'
    BY <2>1 DEF Phases, RewardRenewsLease
  <2> QED
    BY <2>1, <2>2, <2>3, ZenonT(60)
    DEF Consistent, Persisted, Pristine, Cleared, WellTimed, Books, WasChallenge,
        FailuresCounted, RewardedIds, FailedIds
<1> QED
  BY <1>2, <1>3, <1>4, SMTT(60) DEF Restart

(* Every step, and a stuttering one. *)
LEMMA StepConsistent ==
  ASSUME Consistent, [Next]_vars
  PROVE  Consistent'
<1>1. CASE InitChain
  BY <1>1, InitChainConsistent
<1>2. CASE BeginBlock
  BY <1>2, BeginBlockConsistent
<1>3. CASE DeliverTx
  BY <1>3, OtherDeliveries, RewardDelivery, FailureDelivery, ZenonT(60) DEF DeliverTx
<1>4. CASE EndBlock
  BY <1>4, EndBlockConsistent, ZenonT(60)
<1>5. CASE Commit
  BY <1>5, CommitConsistent, Zenon
<1>6. CASE Restart
  BY <1>6, RestartConsistent, Zenon
<1>7. CASE UNCHANGED vars
  BY <1>7, ZenonT(60)
  DEF vars, Consistent, TypeOK, Phases, Persisted, Pristine, Cleared, WellTimed,
      Books, WasChallenge, FailuresCounted, RewardedIds, FailedIds, Keeps,
      RewardRenewsLease
<1> QED
  BY <1>1, <1>2, <1>3, <1>4, <1>5, <1>6, <1>7, ZenonT(60) DEF Next

(***************************************************************************)
(* What a step does to the committed state: Commit replaces it by the open *)
(* block's, which extends it; a restart finds it again, or finds nothing   *)
(* because nothing was committed yet.                                      *)
(***************************************************************************)
LEMMA CommittedIsKept ==
  ASSUME Consistent, [Next]_vars
  PROVE  Keeps(committed, committed')
<1>1. committed.led.nonce \in [Addr -> Nat]
  <2>1. committed \in Envelope
    BY DEF Consistent, TypeOK
  <2> QED
    BY <2>1, NonceType
<1>2. CASE committed'.led.nonce = committed.led.nonce
           /\ committed'.led.owner = committed.led.owner
           /\ committed'.cap.records = committed.cap.records
  BY <1>1, <1>2, SMTT(60) DEF Keeps
<1>3. CASE InitChain
  <2>1. committed \in Envelope /\ committed.led \in Ledger
        /\ committed.cap \in CapacityState
    BY DEF Consistent, TypeOK, Envelope
  <2> DEFINE led == InitValidators(committed.led)
  <2>2. led.nonce = committed.led.nonce /\ led.owner = committed.led.owner
    BY <2>1, InitValidatorsStep, ZenonT(60)
  <2> HIDE DEF led
  <2>3. PICK acv : committed' = [committed EXCEPT !.led = led,
                                       !.active = SelectValidators(led),
                                       !.cap.acv = acv]
    BY <1>3, Zenon DEF InitChain, led
  <2>4. committed'.led = led /\ committed'.cap.records = committed.cap.records
    BY <2>1, <2>3, ZenonT(60) DEF Envelope, CapacityState
  <2> QED
    BY <1>2, <2>2, <2>4, ZenonT(60)
<1>4. CASE Commit
  <2>1. Keeps(committed, current) /\ current \in Envelope
        /\ current.cap \in CapacityState /\ committed' = Sealed(current)
    BY <1>4, Zenon DEF Commit, Consistent, Phases, TypeOK, Envelope
  <2>2. committed'.led = current.led
        /\ committed'.cap.records = current.cap.records
    BY <2>1, Zenon DEF Sealed, Envelope, CapacityState
  <2> QED
    BY <2>1, <2>2, ZenonT(60) DEF Keeps
<1>5. CASE RestartFresh
  <2>1. committed' = FreshState /\ Pristine(committed)
    BY <1>5 DEF RestartFresh, Consistent, Persisted
  <2> QED
    BY <1>2, <2>1, FreshIsConsistent DEF Pristine
<1>6. CASE RestartFromSnapshot
  <2>1. /\ committed'.led = committed.led
        /\ committed'.cap = [committed.cap EXCEPT !.fails = [a \in Addr |-> 0]]
    BY <1>6, RestoredIsCommitted, ZenonT(60) DEF RestartFromSnapshot
  <2>2. committed.cap \in CapacityState
    BY DEF Consistent, TypeOK, Envelope
  <2>3. committed'.cap.records = committed.cap.records
    BY <2>1, <2>2 DEF CapacityState
  <2> QED
    BY <1>2, <2>1, <2>3, Zenon
<1>7. CASE committed' = committed
  BY <1>2, <1>7, ZenonT(60)
<1>8. DeliverTx => committed' = committed
  BY Zenon DEF DeliverTx, DeliverTransfer, DeliverStake, DeliverUnstake,
         DeliverAddNamespace, DeliverRegisterCapacity, DeliverUnregisterCapacity,
         DeliverUpdateRoot, CountFailedProof, RewardProof, RejectProof, Deliver
<1>9. BeginBlock \/ EndBlock \/ RestartFails \/ UNCHANGED vars
        => committed' = committed
  BY DEF BeginBlock, EndBlock, RestartFails, vars
<1> QED
  BY <1>3, <1>4, <1>5, <1>6, <1>7, <1>8, <1>9, ZenonT(60) DEF Next, Restart

-----------------------------------------------------------------------------
(***************************************************************************)
(* The invariant: the open block extends the committed state, a snapshot   *)
(* of the tip's height is the tip, and the books agree with the markers.   *)
(***************************************************************************)
THEOREM ApplicationConsistent == Spec => []Consistent
<1>1. Init => Consistent
  BY InitConsistent
<1>2. Consistent /\ [Next]_vars => Consistent'
  BY StepConsistent
<1> QED
  BY <1>1, <1>2, PTL DEF Spec

(* No handler's arithmetic takes a balance, stake or nonce out of range. *)
THEOREM ApplicationTyped == Spec => []TypeOK
<1>1. Consistent => TypeOK
  BY SMTT(60) DEF Consistent
<1> QED
  BY <1>1, ApplicationConsistent, PTL

(* Gate 0 of process_verified_proof_tx: no challenge_id has two outcomes. *)
THEOREM OneOutcome == Spec => []OneOutcomePerChallengeId
<1>1. Consistent => OneOutcomePerChallengeId
  BY SMTT(60) DEF Consistent, Books, OneOutcomePerChallengeId
<1> QED
  BY <1>1, ApplicationConsistent, PTL

(* credit_verified_proof_reward runs once for each rewarded challenge_id. *)
THEOREM RewardsMatch == Spec => []RewardsMatchMarkers
<1>1. Consistent => RewardsMatchMarkers
  BY SMTT(60) DEF Consistent, Books, RewardsMatchMarkers
<1> QED
  BY <1>1, ApplicationConsistent, PTL

(* validate_verified_proof_binding: only challenges of a record are decided. *)
THEOREM DecidedWereChallenges == Spec => []OutcomesWereChallenges
<1>1. Consistent => OutcomesWereChallenges
  BY SMTT(60) DEF Consistent, Books, OutcomesWereChallenges
<1> QED
  BY <1>1, ApplicationConsistent, PTL

(* record_failed_capacity_proof: a slash stands for a full set of failures. *)
THEOREM SlashesEarned == Spec => []SlashesAreEarned
<1>1. Consistent => SlashesAreEarned
  BY SMTT(60) DEF Consistent, Books, SlashesAreEarned
<1> QED
  BY <1>1, ApplicationConsistent, PTL

(* process_verified_proof_tx leases a rewarded provider for a full duration. *)
THEOREM RewardRenews == Spec => []RewardRenewsLease
<1>1. Consistent => RewardRenewsLease
  BY DEF Consistent
<1> QED
  BY <1>1, ApplicationConsistent, PTL

(* initialize_with_data restores the last committed state, or stops. *)
THEOREM RestartKeeps == Spec => []RestartKeepsCommitted
<1>1. Consistent => RestartKeepsCommitted
  BY DEF Consistent, Persisted, RestartKeepsCommitted
<1> QED
  BY <1>1, ApplicationConsistent, PTL

(* No committed nonce goes down: a charged transaction is never replayed. *)
THEOREM NoncesGoUp == Spec => NoncesNeverGoBack
<1>1. Consistent /\ [Next]_vars =>
        [\A a \in Addr : committed.led.nonce[a] <= committed'.led.nonce[a]]_vars
  BY CommittedIsKept DEF Keeps
<1> QED
  BY <1>1, ApplicationConsistent, PTL DEF Spec, NoncesNeverGoBack

(* validate_add_namespace_not_taken: a committed slug keeps its owner. *)
THEOREM OwnersStay == Spec => OwnersAreForever
<1>1. Consistent /\ [Next]_vars =>
        [\A s \in Slug : committed.led.owner[s] # None =>
           committed'.led.owner[s] = committed.led.owner[s]]_vars
  BY CommittedIsKept DEF Keeps
<1> QED
  BY <1>1, ApplicationConsistent, PTL DEF Spec, OwnersAreForever

(* store_epoch_record writes the record of an epoch once. *)
THEOREM RecordsStay == Spec => RecordsAreForever
<1>1. Consistent /\ [Next]_vars =>
        [\A e \in Height : committed.cap.records[e] # None =>
           committed'.cap.records[e] = committed.cap.records[e]]_vars
  BY CommittedIsKept, Zenon DEF Keeps
<1> QED
  BY <1>1, ApplicationConsistent, PTL DEF Spec, RecordsAreForever

=============================================================================
