-------------------------- MODULE ApplicationProps --------------------------
(* What the consensus connection is meant to guarantee. *)
EXTENDS Application, Functions

(* Every variable holds a value of its type; in particular no balance, stake *)
(* or nonce leaves its range, whatever arithmetic the handlers do.           *)
TypeOK ==
  /\ committed \in Envelope
  /\ current \in Envelope
  /\ disk \in Disk
  /\ phase \in {"start", "idle", "block", "ended", "halted"}
  /\ crashes \in 0..MaxCrashes

-----------------------------------------------------------------------------
Sum(f) == FoldFunction(+, 0, f)
Issued(l) == Sum(InitValidators(ConfiguredLedger).bal) + l.minted
Held(l) == Sum(l.bal) + Sum(l.stake) + l.burned


(***************************************************************************)
(* No account's committed nonce goes down, also not when the process       *)
(* restarts: a transaction that a committed block charged is never         *)
(* accepted again.                                                         *)
(***************************************************************************)
NoncesNeverGoBack ==
  [][\A a \in Addr : committed.led.nonce[a] <= committed'.led.nonce[a]]_vars

(***************************************************************************)
(* A committed namespace keeps its owner, across blocks and restarts.      *)
(***************************************************************************)
OwnersAreForever ==
  [][\A s \in Slug : committed.led.owner[s] # None =>
       committed'.led.owner[s] = committed.led.owner[s]]_vars

-----------------------------------------------------------------------------
RewardedIds == disk.rewarded \cup current.cap.rewarded
FailedIds == disk.failed \cup current.cap.failed

(***************************************************************************)
(* Gate 0 of process_verified_proof_tx: a challenge_id, as it is spelled,  *)
(* is rewarded or counted as a failure, never both, over any number of     *)
(* blocks and restarts.                                                    *)
(***************************************************************************)
OneOutcomePerChallengeId == RewardedIds \cap FailedIds = {}

(***************************************************************************)
(* Each rewarded challenge_id minted the reward once: the coins minted in  *)
(* the open block's state match the markers, those on disk and those of    *)
(* the block.                                                              *)
(***************************************************************************)
RewardsMatchMarkers ==
  current.led.minted = Reward * Cardinality(RewardedIds)

WasChallenge(e, id) ==
  /\ EpochOf(id.height) <= e.epoch
  /\ LET record == e.cap.records[EpochOf(id.height)]
     IN  /\ record # None
         /\ record.acv # None
         /\ record.acv.validator = id.validator
         /\ id.provider \in record.acv.challenged
         /\ record.frozen[id.provider] # None

(***************************************************************************)
(* A decided challenge was one: its epoch's record names its validator,    *)
(* lists its provider as challenged, and froze a root to judge it by.      *)
(***************************************************************************)
OutcomesWereChallenges ==
  \A id \in RewardedIds \cup FailedIds : WasChallenge(current, id)

(***************************************************************************)
(* An epoch's record never changes once it is committed: every node judges *)
(* a late proof by the same record.                                        *)
(***************************************************************************)
RecordsAreForever ==
  [][\A e \in Height : committed.cap.records[e] # None =>
       committed'.cap.records[e] = committed.cap.records[e]]_vars

FailuresOf(p, ids) == {id \in ids : id.provider = p}

FailuresCounted(e, p) ==
  FailedProofsBeforeSlash * e.cap.slashes[p] + e.cap.fails[p]

(***************************************************************************)
(* A provider is slashed only for as many failed challenges as the         *)
(* protocol asks for: its slashes and its open count never stand for more  *)
(* failures than have a marker.                                            *)
(***************************************************************************)
SlashesAreEarned ==
  \A p \in Addr :
    FailuresCounted(current, p) <= Cardinality(FailuresOf(p, FailedIds))

(***************************************************************************)
(* A provider rewarded in the open block, and still registered, is leased  *)
(* for a full duration from this block, whenever it registered and         *)
(* whatever it did to its registration in between.                         *)
(***************************************************************************)
RewardRenewsLease ==
  phase = "block" =>
    \A id \in current.cap.rewarded :
      LET lease == current.cap.provs[id.provider]
      IN  lease # None =>
            lease.reg + lease.dur >= current.height + 1 + RegistrationDuration

(***************************************************************************)
(* Once a process is up on a persisted tip, its state is the one last      *)
(* committed, but for the failure counts, which the snapshot leaves out.   *)
(***************************************************************************)
RestartKeepsCommitted ==
  phase \in {"idle", "block", "ended"} /\ disk.tip # None =>
    committed = [disk.tip EXCEPT !.cap.fails = committed.cap.fails]

-----------------------------------------------------------------------------
(***************************************************************************)
(* node_app/README.md, "Tendermint sync cases": with data on both sides    *)
(* and Tendermint at or past the application's height, a restart is a      *)
(* "normal resume".                                                        *)
(***************************************************************************)
RestartResumes == phase # "halted"
=============================================================================
