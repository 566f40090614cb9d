---------------------------- MODULE Application ----------------------------
(***************************************************************************)
(* The consensus connection: the ABCI calls Tendermint makes, in the order *)
(* it makes them, over the committed state, the state of the open block    *)
(* and what RocksDB keeps; and a process that may stop at any point and is *)
(* started again.                                                          *)
(*                                                                         *)
(* The transactions a block may carry are constants, one set for each kind *)
(* of payload.  A block that was open when the process stopped is executed *)
(* again, with any transactions: Tendermint would replay the same ones.    *)
(***************************************************************************)
EXTENDS Capacity

CONSTANTS
  Transfers, Stakes, Unstakes, Namespaces,
  Registers, Unregisters, Updates, Proofs,
  MaxCrashes   \* bound: how often the process stops

ASSUME ApplicationAssumption ==
  /\ Transfers \subseteq TransferTx /\ Stakes \subseteq StakeTx
  /\ Unstakes \subseteq UnstakeTx /\ Namespaces \subseteq AddNamespaceTx
  /\ Registers \subseteq RegisterCapacityTx
  /\ Unregisters \subseteq UnregisterCapacityTx
  /\ Updates \subseteq UpdateCapacityMerkleRootTx
  /\ Proofs \subseteq VerifiedProofTx
  /\ MaxCrashes \in Nat

VARIABLES
  committed,  \* committed_state
  current,    \* current_state; the committed state while no block is open
  disk,       \* RocksDB
  phase,      \* where the ABCI protocol stands
  crashes     \* how often the process stopped

vars == <<committed, current, disk, phase, crashes>>

(* The fields of AppStateEnvelope, with the CADOs it caches. *)
Envelope ==
  [height : Height, epoch : Height, active : SUBSET Addr,
   led : Ledger, cap : CapacityState]

ASSUME NoneIsNoState == None \notin Envelope

(***************************************************************************)
(* tip: AppStateTip and the CADOs as of that height.  snapshot: the        *)
(* AppStateSnapshot of the last height that starts an epoch.  rewarded,    *)
(* failed: the outcome markers of challenges.                              *)
(***************************************************************************)
Disk ==
  [tip      : Envelope \cup {None},
   snapshot : Envelope \cup {None},
   rewarded : SUBSET ChallengeId,
   failed   : SUBSET ChallengeId]

FreshState ==
  [height |-> 0, epoch |-> 0, active |-> {},
   led |-> ConfiguredLedger, cap |-> EmptyCapacity]

(***************************************************************************)
(* init_abci_server without a persisted tip stages the configured accounts *)
(* and waits for InitChain.                                                *)
(***************************************************************************)
Init ==
  /\ committed = FreshState
  /\ current = FreshState
  /\ disk = [tip |-> None, snapshot |-> None, rewarded |-> {}, failed |-> {}]
  /\ phase = "start"
  /\ crashes = 0

InitChain ==
  /\ phase = "start"
  /\ \E acv \in Assignments(committed.cap, 0, 0) :
       LET led == InitValidators(committed.led)
       IN  committed' = [committed EXCEPT !.led     = led,
                                          !.active  = SelectValidators(led),
                                          !.cap.acv = acv]
  /\ current' = committed'
  /\ phase' = "idle"
  /\ UNCHANGED <<disk, crashes>>

BeginBlock ==
  /\ phase = "idle"
  /\ committed.height < MaxHeight
  /\ current' = committed
  /\ phase' = "block"
  /\ UNCHANGED <<committed, disk, crashes>>

-----------------------------------------------------------------------------
(***************************************************************************)
(* DeliverTx, one action for each kind of payload.  A transaction that is  *)
(* not accepted changes nothing.                                           *)
(***************************************************************************)
Deliver(tx) ==
  /\ phase = "block"
  /\ Accepted(current.led, tx)
  /\ UNCHANGED <<committed, disk, phase, crashes>>

DeliverTransfer ==
  \E tx \in Transfers :
    /\ Deliver(tx)
    /\ current' = [current EXCEPT !.led = Transfer(Charge(@, tx), tx)]

DeliverStake ==
  \E tx \in Stakes :
    /\ Deliver(tx)
    /\ current' = [current EXCEPT !.led = Stake(Charge(@, tx), tx)]

DeliverUnstake ==
  \E tx \in Unstakes :
    /\ Deliver(tx)
    /\ current' = [current EXCEPT !.led = Unstake(Charge(@, tx), tx)]

DeliverAddNamespace ==
  \E tx \in Namespaces :
    /\ Deliver(tx)
    /\ current' = [current EXCEPT !.led = AddNamespace(Charge(@, tx), tx)]

DeliverRegisterCapacity ==
  \E tx \in Registers :
    /\ Deliver(tx)
    /\ current' = [current EXCEPT !.led = Charge(@, tx),
                                  !.cap = RegisterCapacity(@, current.height, tx)]

DeliverUnregisterCapacity ==
  \E tx \in Unregisters :
    /\ Deliver(tx)
    /\ current' = [current EXCEPT !.led = Charge(@, tx),
                                  !.cap = UnregisterCapacity(@, tx)]

DeliverUpdateRoot ==
  \E tx \in Updates :
    /\ Deliver(tx)
    /\ current' = [current EXCEPT !.led = Charge(@, tx),
                                  !.cap = UpdateCapacityMerkleRoot(@, tx)]

(***************************************************************************)
(* process_verified_proof_tx.  A proof is judged when its challenge has no *)
(* outcome yet, it is bound to the epoch record and it is signed.  Then a  *)
(* failed proof counts if it is indeed invalid, and a good one is rewarded *)
(* if the reward fits the provider's balance.  Any other proof costs its   *)
(* fee and leaves no outcome.                                              *)
(***************************************************************************)
Judged(tx) ==
  /\ Undecided(current.cap, disk, tx.id)
  /\ Bound(current.cap, current.epoch, tx)
  /\ tx.signed

Failing(tx) == Judged(tx) /\ tx.failed /\ ~ProofValid(current.cap, tx)

Rewarding(tx) ==
  /\ Judged(tx) /\ ~tx.failed /\ ProofValid(current.cap, tx)
  /\ CanCredit(Charge(current.led, tx), tx.provider, Reward)

CountFailedProof ==
  \E tx \in Proofs :
    /\ Deliver(tx) /\ Failing(tx)
    /\ current' = [current EXCEPT !.led = Charge(@, tx),
                                  !.cap = RecordFailure(@, tx)]

RewardProof ==
  \E tx \in Proofs :
    /\ Deliver(tx) /\ Rewarding(tx)
    /\ current' =
         [current EXCEPT !.led = Credit(Charge(@, tx), tx.provider, Reward),
                         !.cap = RecordReward(@, current.height, tx)]

RejectProof ==
  \E tx \in Proofs :
    /\ Deliver(tx) /\ ~Failing(tx) /\ ~Rewarding(tx)
    /\ current' = [current EXCEPT !.led = Charge(@, tx)]

-----------------------------------------------------------------------------
(***************************************************************************)
(* EndBlock advances the height.  At the first block of an epoch it drops  *)
(* the leases that ended, selects the validators and the capacity          *)
(* validator of the epoch, and stores the epoch's record.                  *)
(***************************************************************************)
StartEpoch(height, epoch) ==
  LET cap    == ExpireRegistrations(current.cap, height)
      active == SelectValidators(current.led)
  IN  \E acv \in Assignments(cap, height, epoch) :
        LET assigned == [cap EXCEPT !.acv = acv]
            record   == BuildEpochRecord(assigned, epoch, active)
        IN  current' = [current EXCEPT
                          !.height = height,
                          !.epoch  = epoch,
                          !.active = active,
                          !.cap    = StoreEpochRecord(assigned, record)]

EndBlock ==
  LET height == current.height + 1
  IN  /\ phase = "block"
      /\ IF EpochOf(height) > current.epoch
         THEN StartEpoch(height, EpochOf(height))
         ELSE current' = [current EXCEPT !.height = height]
      /\ phase' = "ended"
      /\ UNCHANGED <<committed, disk, crashes>>

(***************************************************************************)
(* Commit.  Before the last block of an epoch is stored, the validators    *)
(* are selected again.  One RocksDB transaction then writes the staged     *)
(* CADOs, the markers, the tip and, at the first block of an epoch, the    *)
(* snapshot; the caches are emptied.                                       *)
(***************************************************************************)
Sealed(e) ==
  [e EXCEPT !.active = IF EpochOf(e.height + 1) > e.epoch
                       THEN SelectValidators(e.led) ELSE @,
            !.cap.rewarded = {},
            !.cap.failed   = {}]

Commit ==
  /\ phase = "ended"
  /\ committed' = Sealed(current)
  /\ current' = committed'
  /\ disk' = [tip      |-> committed',
              snapshot |-> IF current.height % BlocksPerEpoch = 0
                           THEN committed' ELSE disk.snapshot,
              rewarded |-> disk.rewarded \cup current.cap.rewarded,
              failed   |-> disk.failed \cup current.cap.failed]
  /\ phase' = "idle"
  /\ UNCHANGED crashes

-----------------------------------------------------------------------------
(***************************************************************************)
(* The process stops and init_abci_server runs again.  With a persisted    *)
(* tip, initialize_with_data wants a snapshot of the tip's height, and any *)
(* other case is fatal.  AppStateSnapshot has no failed_proof_counts.      *)
(***************************************************************************)
(* Mutant: the heights of snapshot and tip are not compared. *)
RestorableAtAnyHeight == disk.snapshot # None

Restorable ==
  /\ disk.snapshot # None
  /\ disk.snapshot.height = disk.tip.height

Restored == [disk.snapshot EXCEPT !.cap.fails = [a \in Addr |-> 0]]

Stop ==
  /\ phase # "halted"
  /\ crashes < MaxCrashes
  /\ crashes' = crashes + 1
  /\ UNCHANGED disk

RestartFresh ==
  /\ Stop
  /\ disk.tip = None
  /\ committed' = FreshState
  /\ current' = FreshState
  /\ phase' = "start"

RestartFromSnapshot ==
  /\ Stop
  /\ disk.tip # None
  /\ Restorable
  /\ committed' = Restored
  /\ current' = Restored
  /\ phase' = "idle"

RestartFails ==
  /\ Stop
  /\ disk.tip # None
  /\ ~Restorable
  /\ phase' = "halted"
  /\ UNCHANGED <<committed, current>>

-----------------------------------------------------------------------------
DeliverTx ==
  \/ DeliverTransfer \/ DeliverStake \/ DeliverUnstake \/ DeliverAddNamespace
  \/ DeliverRegisterCapacity \/ DeliverUnregisterCapacity \/ DeliverUpdateRoot
  \/ CountFailedProof \/ RewardProof \/ RejectProof

Restart == RestartFresh \/ RestartFromSnapshot \/ RestartFails

Next == InitChain \/ BeginBlock \/ DeliverTx \/ EndBlock \/ Commit \/ Restart

Spec == Init /\ [][Next]_vars

=============================================================================
