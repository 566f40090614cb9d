--------------------------- MODULE CapacityProofs ---------------------------
(***************************************************************************)
(* What each capacity handler preserves.  Capacity extends Accounts, whose *)
(* lemmas are in AccountsProofs.                                           *)
(***************************************************************************)
EXTENDS Capacity, TLAPS

(* No lease begins after the block being delivered at height h. *)
Timely(c, h) ==
  \A a \in Addr : c.provs[a] # None => c.provs[a].reg <= h + 1

(* a, if registered, is leased for a full duration from this block. *)
Renewed(c, h, a) ==
  c.provs[a] # None =>
    c.provs[a].reg + c.provs[a].dur >= h + 1 + RegistrationDuration

(* What every handler keeps of the capacity state while a block is open. *)
CapStep(c, c2, h) ==
  /\ c2 \in CapacityState
  /\ c2.records = c.records
  /\ Timely(c2, h)
  /\ \A a \in Addr : Renewed(c, h, a) => Renewed(c2, h, a)

(* The handler decides no challenge. *)
NoOutcome(c, c2) ==
  /\ c2.rewarded = c.rewarded /\ c2.failed = c.failed
  /\ c2.fails = c.fails /\ c2.slashes = c.slashes

(* The epoch of a height is no later than the height itself. *)
LEMMA EpochOfHeight ==
  ASSUME NEW h \in Nat
  PROVE  EpochOf(h) \in Nat /\ EpochOf(h) <= h
<1> DEFINE e == h \div BlocksPerEpoch
<1>1. BlocksPerEpoch \in Nat /\ BlocksPerEpoch > 0
  BY CapacityAssumption
<1>2. e \in Int /\ h = BlocksPerEpoch * e + (h % BlocksPerEpoch)
      /\ h % BlocksPerEpoch \in 0..(BlocksPerEpoch - 1)
  BY <1>1
<1> HIDE DEF e
<1>3. e >= 0
  <2>1. SUFFICES ASSUME e <= -1 PROVE FALSE
    BY <1>2
  <2>2. BlocksPerEpoch * e <= -BlocksPerEpoch
    BY <1>1, <1>2, <2>1
  <2> QED
    BY <1>1, <1>2, <2>2
<1>4. BlocksPerEpoch * e >= e
  BY <1>1, <1>2, <1>3
<1>5. e <= h
  BY <1>1, <1>2, <1>4
<1> QED
  BY <1>2, <1>3, <1>5 DEF EpochOf, e

(* RegisterCapacity opens or renews a full lease from this block. *)
LEMMA RegisterStep ==
  ASSUME NEW c \in CapacityState, NEW h \in Nat, Timely(c, h),
         NEW tx \in RegisterCapacityTx
  PROVE  /\ CapStep(c, RegisterCapacity(c, h, tx), h)
         /\ NoOutcome(c, RegisterCapacity(c, h, tx))
<1> DEFINE c2 == RegisterCapacity(c, h, tx)
           lease == [root |-> tx.root, reg |-> h + 1,
                     dur |-> RegistrationDuration]
<1>1. tx.sender \in Addr /\ tx.root \in Root
      /\ c.provs \in [Addr -> Lease \cup {None}]
  BY DEF RegisterCapacityTx, CapacityState
<1>2. lease \in Lease
  BY <1>1, CapacityAssumption DEF Lease
<1>3. c2 \in CapacityState /\ c2.records = c.records /\ NoOutcome(c, c2)
      /\ c2.provs = [c.provs EXCEPT ![tx.sender] = lease]
  BY <1>1, <1>2 DEF RegisterCapacity, CapacityState, NoOutcome
<1>4. Timely(c2, h)
  BY <1>1, <1>3 DEF Timely
<1>5. \A a \in Addr : Renewed(c, h, a) => Renewed(c2, h, a)
  BY <1>1, <1>3, CapacityAssumption DEF Renewed
<1> QED
  BY <1>3, <1>4, <1>5 DEF CapStep

(* UnregisterCapacity only removes a lease. *)
LEMMA UnregisterStep ==
  ASSUME NEW c \in CapacityState, NEW h \in Nat, Timely(c, h),
         NEW tx \in UnregisterCapacityTx
  PROVE  /\ CapStep(c, UnregisterCapacity(c, tx), h)
         /\ NoOutcome(c, UnregisterCapacity(c, tx))
<1> DEFINE c2 == UnregisterCapacity(c, tx)
<1>1. tx.sender \in Addr /\ c.provs \in [Addr -> Lease \cup {None}]
  BY DEF UnregisterCapacityTx, CapacityState
<1>2. c2 \in CapacityState /\ c2.records = c.records /\ NoOutcome(c, c2)
      /\ c2.provs = [c.provs EXCEPT ![tx.sender] = None]
  BY <1>1 DEF UnregisterCapacity, CapacityState, NoOutcome
<1>3. Timely(c2, h) /\ \A a \in Addr : Renewed(c, h, a) => Renewed(c2, h, a)
  BY <1>1, <1>2 DEF Timely, Renewed
<1> QED
  BY <1>2, <1>3 DEF CapStep

(* UpdateCapacityMerkleRoot keeps the time of a lease. *)
LEMMA UpdateStep ==
  ASSUME NEW c \in CapacityState, NEW h \in Nat, Timely(c, h),
         NEW tx \in UpdateCapacityMerkleRootTx
  PROVE  /\ CapStep(c, UpdateCapacityMerkleRoot(c, tx), h)
         /\ NoOutcome(c, UpdateCapacityMerkleRoot(c, tx))
<1> DEFINE c2 == UpdateCapacityMerkleRoot(c, tx)
           s == tx.sender
           moved == [c.provs[s] EXCEPT !.root = tx.root]
<1>1. s \in Addr /\ tx.root \in Root /\ c.provs \in [Addr -> Lease \cup {None}]
  BY DEF UpdateCapacityMerkleRootTx, CapacityState
<1>2. CASE c.provs[s] = None
  <2>1. c2 = c
    BY <1>2 DEF UpdateCapacityMerkleRoot
  <2> QED
    BY <2>1 DEF CapStep, NoOutcome
<1>3. CASE c.provs[s] # None
  <2>1. c.provs[s] \in Lease
    BY <1>1, <1>3
  <2>2. moved \in Lease /\ moved.reg = c.provs[s].reg /\ moved.dur = c.provs[s].dur
    BY <1>1, <2>1 DEF Lease
  <2>3. c2 = [c EXCEPT !.provs[s] = moved]
    BY <1>3, <1>1 DEF UpdateCapacityMerkleRoot, CapacityState
  <2> HIDE DEF moved
  <2>4. c2 \in CapacityState /\ c2.records = c.records /\ NoOutcome(c, c2)
        /\ c2.provs = [c.provs EXCEPT ![s] = moved]
    BY <1>1, <2>2, <2>3 DEF CapacityState, NoOutcome
  <2>5. Timely(c2, h)
    BY <1>1, <1>3, <2>2, <2>4 DEF Timely
  <2>6. \A a \in Addr : Renewed(c, h, a) => Renewed(c2, h, a)
    BY <1>1, <1>3, <2>2, <2>4 DEF Renewed
  <2> QED
    BY <2>4, <2>5, <2>6 DEF CapStep
<1> QED
  BY <1>2, <1>3

(* The failures that the slashes and the open count of a provider stand for. *)
Counted(c, a) == FailedProofsBeforeSlash * c.slashes[a] + c.fails[a]

(***************************************************************************)
(* A failed proof is counted once, for its provider: the count goes up by  *)
(* at most one, since a slash resets it only when it is due.               *)
(***************************************************************************)
LEMMA RecordFailureStep ==
  ASSUME NEW c \in CapacityState, NEW h \in Nat, Timely(c, h),
         NEW tx \in VerifiedProofTx
  PROVE  LET c2 == RecordFailure(c, tx)
         IN  /\ CapStep(c, c2, h)
             /\ c2.rewarded = c.rewarded
             /\ c2.failed = c.failed \cup {tx.id}
             /\ Counted(c2, tx.provider) <= Counted(c, tx.provider) + 1
             /\ \A a \in Addr \ {tx.provider} : Counted(c2, a) = Counted(c, a)
<1> DEFINE c2 == RecordFailure(c, tx)
           p == tx.provider
           slashed == c.fails[p] + 1 >= FailedProofsBeforeSlash
           fails2 == [c.fails EXCEPT ![p] = IF slashed THEN 0 ELSE @ + 1]
           slashes2 == [c.slashes EXCEPT ![p] = IF slashed THEN @ + 1 ELSE @]
<1>1. /\ p \in Addr /\ tx.id \in ChallengeId
      /\ c.fails \in [Addr -> Nat] /\ c.slashes \in [Addr -> Nat]
      /\ c.failed \subseteq ChallengeId
  BY DEF VerifiedProofTx, CapacityState
<1>2. /\ fails2 \in [Addr -> Nat] /\ slashes2 \in [Addr -> Nat]
      /\ c.failed \cup {tx.id} \subseteq ChallengeId
  BY <1>1
<1>3. c2 = [c EXCEPT !.fails = fails2, !.slashes = slashes2,
                     !.failed = c.failed \cup {tx.id}]
  BY <1>1 DEF RecordFailure, CapacityState
<1>4. /\ c2 \in CapacityState /\ c2.records = c.records /\ c2.provs = c.provs
      /\ c2.rewarded = c.rewarded /\ c2.failed = c.failed \cup {tx.id}
      /\ c2.fails = fails2 /\ c2.slashes = slashes2
  <2> HIDE DEF fails2, slashes2
  <2> QED
    BY <1>2, <1>3 DEF CapacityState
<1>5. CapStep(c, c2, h)
  BY <1>4 DEF CapStep, Timely, Renewed
<1>6. \A a \in Addr \ {p} : Counted(c2, a) = Counted(c, a)
  BY <1>1, <1>4 DEF Counted
<1>7. Counted(c2, p) <= Counted(c, p) + 1
  <2> DEFINE T == FailedProofsBeforeSlash
             n == c.slashes[p]
  <2>1. T \in Nat /\ n \in Nat /\ c.fails[p] \in Nat
    BY <1>1, CapacityAssumption
  <2>2. T * (n + 1) = T * n + T /\ T * n \in Nat
    BY <2>1
  <2>3. CASE slashed
    <3>1. c2.slashes[p] = n + 1 /\ c2.fails[p] = 0
      BY <1>1, <1>4, <2>3
    <3> QED
      BY <2>1, <2>2, <2>3, <3>1 DEF Counted
  <2>4. CASE ~slashed
    <3>1. c2.slashes[p] = n /\ c2.fails[p] = c.fails[p] + 1
      BY <1>1, <1>4, <2>4
    <3> QED
      BY <2>1, <2>2, <3>1 DEF Counted
  <2> QED
    BY <2>3, <2>4
<1> QED
  BY <1>4, <1>5, <1>6, <1>7

(***************************************************************************)
(* A reward leaves its provider, if registered, with a full lease; the     *)
(* subtraction in the new duration never goes below zero.                  *)
(***************************************************************************)
LEMMA RecordRewardStep ==
  ASSUME NEW c \in CapacityState, NEW h \in Nat, Timely(c, h),
         NEW tx \in VerifiedProofTx
  PROVE  LET c2 == RecordReward(c, h, tx)
         IN  /\ CapStep(c, c2, h)
             /\ Renewed(c2, h, tx.provider)
             /\ c2.rewarded = c.rewarded \cup {tx.id}
             /\ c2.failed = c.failed
             /\ c2.fails = c.fails /\ c2.slashes = c.slashes
<1> DEFINE c2 == RecordReward(c, h, tx)
           p == tx.provider
           ext == ExtendLease(c, h, p)
           longer == [c.provs[p] EXCEPT !.dur =
                        ((h + 1) - c.provs[p].reg) + RegistrationDuration]
<1>1. /\ p \in Addr /\ tx.id \in ChallengeId /\ c.rewarded \subseteq ChallengeId
      /\ c.provs \in [Addr -> Lease \cup {None}]
  BY DEF VerifiedProofTx, CapacityState
<1>2. /\ ext \in CapacityState /\ ext.records = c.records /\ NoOutcome(c, ext)
      /\ Timely(ext, h) /\ Renewed(ext, h, p)
      /\ \A a \in Addr : Renewed(c, h, a) => Renewed(ext, h, a)
  <2>1. CASE c.provs[p] = None
    <3>1. ext = c
      BY <2>1 DEF ExtendLease
    <3> QED
      BY <2>1, <3>1 DEF NoOutcome, Renewed
  <2>2. CASE c.provs[p] # None
    <3>1. c.provs[p] \in Lease /\ c.provs[p].reg <= h + 1
      BY <1>1, <2>2 DEF Timely
    <3>2. /\ c.provs[p].reg \in Nat /\ c.provs[p].dur \in Nat
          /\ ((h + 1) - c.provs[p].reg) + RegistrationDuration \in Nat
      BY <3>1, CapacityAssumption DEF Lease
    <3>3. /\ longer \in Lease /\ longer.reg = c.provs[p].reg
          /\ longer.reg + longer.dur = h + 1 + RegistrationDuration
      BY <3>1, <3>2, CapacityAssumption DEF Lease
    <3>4. ext = [c EXCEPT !.provs[p] = longer]
      BY <1>1, <2>2 DEF ExtendLease, CapacityState
    <3> HIDE DEF longer, ext
    <3>5. /\ ext \in CapacityState /\ ext.records = c.records
          /\ NoOutcome(c, ext) /\ ext.provs = [c.provs EXCEPT ![p] = longer]
      BY <1>1, <3>3, <3>4 DEF CapacityState, NoOutcome
    <3>6. Timely(ext, h)
      BY <1>1, <3>1, <3>3, <3>5 DEF Timely
    <3>7. \A a \in Addr : Renewed(c, h, a) \/ a = p => Renewed(ext, h, a)
      BY <1>1, <3>2, <3>3, <3>5, CapacityAssumption DEF Renewed
    <3> QED
      BY <1>1, <3>5, <3>6, <3>7
  <2> QED
    BY <2>1, <2>2
<1>3. c2 = [ext EXCEPT !.rewarded = ext.rewarded \cup {tx.id}]
  BY DEF RecordReward
<1> HIDE DEF ext
<1>4. /\ c2 \in CapacityState /\ c2.records = ext.records
      /\ c2.provs = ext.provs /\ c2.rewarded = ext.rewarded \cup {tx.id}
      /\ c2.failed = ext.failed /\ c2.fails = ext.fails
      /\ c2.slashes = ext.slashes
  BY <1>1, <1>2, <1>3 DEF CapacityState, NoOutcome
<1> HIDE DEF c2
<1>5. Timely(c2, h) /\ \A a \in Addr : Renewed(c2, h, a) <=> Renewed(ext, h, a)
  BY <1>2, <1>4 DEF Timely, Renewed
<1>6. CapStep(c, c2, h) /\ Renewed(c2, h, p)
  BY <1>1, <1>2, <1>4, <1>5 DEF CapStep
<1> QED
  BY <1>2, <1>4, <1>6 DEF NoOutcome, c2

(* Whatever the shuffles draw is an assignment of the epoch, or none. *)
LEMMA AssignmentsType ==
  ASSUME NEW c \in CapacityState, NEW h, NEW e \in Height
  PROVE  Assignments(c, h, e) \subseteq Assignment \cup {None}
<1>1. Eligible(c, h) \subseteq Addr
  BY DEF Eligible
<1>2. [validator : Eligible(c, h), epoch : {e}, challenged : SUBSET Eligible(c, h)]
        \subseteq Assignment
  BY <1>1 DEF Assignment
<1> QED
  BY <1>2 DEF Assignments

(* The capacity state StartEpoch leaves, for the assignment it chose. *)
EpochStarted(c, height, e, active, acv) ==
  LET assigned == [ExpireRegistrations(c, height) EXCEPT !.acv = acv]
  IN  StoreEpochRecord(assigned, BuildEpochRecord(assigned, e, active))

(***************************************************************************)
(* The start of an epoch writes that epoch's record and no other, decides  *)
(* no challenge and lets no lease begin later.                             *)
(***************************************************************************)
LEMMA StartEpochStep ==
  ASSUME NEW c \in CapacityState, NEW h \in Nat, Timely(c, h),
         NEW e \in Height, NEW active \in SUBSET Addr,
         NEW acv \in Assignments(ExpireRegistrations(c, h + 1), h + 1, e)
  PROVE  LET c2 == EpochStarted(c, h + 1, e, active, acv)
         IN  /\ c2 \in CapacityState
             /\ NoOutcome(c, c2)
             /\ Timely(c2, h + 1)
             /\ \A k \in Height \ {e} : c2.records[k] = c.records[k]
<1> DEFINE live == ExpireRegistrations(c, h + 1)
           assigned == [live EXCEPT !.acv = acv]
           record == BuildEpochRecord(assigned, e, active)
           c2 == StoreEpochRecord(assigned, record)
<1>1. c.provs \in [Addr -> Lease \cup {None}]
      /\ c.records \in [Height -> EpochRecord \cup {None}]
  BY DEF CapacityState
<1>2. /\ live \in CapacityState /\ live.records = c.records /\ NoOutcome(c, live)
      /\ \A a \in Addr : live.provs[a] = c.provs[a] \/ live.provs[a] = None
  BY <1>1 DEF ExpireRegistrations, CapacityState, NoOutcome
<1>3. acv \in Assignment \cup {None}
  BY <1>2, AssignmentsType
<1> HIDE DEF live
<1>4. /\ assigned \in CapacityState /\ assigned.records = c.records
      /\ NoOutcome(c, assigned) /\ assigned.provs = live.provs
  BY <1>2, <1>3 DEF CapacityState, NoOutcome
<1> HIDE DEF assigned
<1>5. record \in EpochRecord /\ record.epoch = e
  <2>1. /\ assigned.acv \in Assignment \cup {None}
        /\ assigned.provs \in [Addr -> Lease \cup {None}]
    BY <1>4 DEF CapacityState
  <2>2. \A a \in Addr : assigned.provs[a] # None => assigned.provs[a].root \in Root
    BY <2>1 DEF Lease
  <2> QED
    BY <2>1, <2>2 DEF BuildEpochRecord, EpochRecord
<1> HIDE DEF record
<1>6. c2 = [assigned EXCEPT !.records = [assigned.records EXCEPT ![e] = record]]
  BY <1>5 DEF StoreEpochRecord
<1>7. [assigned.records EXCEPT ![e] = record]
        \in [Height -> EpochRecord \cup {None}]
  BY <1>1, <1>4, <1>5
<1>8. /\ c2 \in CapacityState /\ c2.provs = live.provs /\ NoOutcome(c, c2)
      /\ c2.records = [c.records EXCEPT ![e] = record]
  BY <1>4, <1>6, <1>7 DEF CapacityState, NoOutcome
<1>9. Timely(c2, h + 1)
  <2>1. SUFFICES ASSUME NEW a \in Addr, c2.provs[a] # None
                 PROVE  c2.provs[a].reg <= h + 2
    BY DEF Timely
  <2>2. c2.provs[a] = c.provs[a]
    BY <1>2, <1>8, <2>1
  <2>3. c.provs[a] \in Lease /\ c.provs[a].reg <= h + 1
    BY <1>1, <2>1, <2>2 DEF Timely
  <2> QED
    BY <2>2, <2>3 DEF Lease
<1>10. \A k \in Height \ {e} : c2.records[k] = c.records[k]
  BY <1>1, <1>8
<1> QED
  BY <1>8, <1>9, <1>10 DEF live, assigned, record, EpochStarted

=============================================================================
