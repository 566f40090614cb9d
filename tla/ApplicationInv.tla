--------------------------- MODULE ApplicationInv ---------------------------
(***************************************************************************)
(* The inductive invariant behind the safety properties of Application.    *)
(***************************************************************************)
EXTENDS ApplicationProps

(* Leases begin no later than the next block; records are of epochs begun. *)
WellTimed(e) ==
  /\ \A a \in Addr : e.cap.provs[a] # None => e.cap.provs[a].reg <= e.height + 1
  /\ \A k \in Height : e.cap.records[k] # None => k <= e.epoch

(* The books of e agree with the ids rewarded and the ids failed. *)
Books(e, rewarded, failed) ==
  /\ rewarded \cap failed = {}
  /\ e.led.minted = Reward * Cardinality(rewarded)
  /\ \A id \in rewarded \cup failed : WasChallenge(e, id)
  /\ \A a \in Addr :
       FailuresCounted(e, a) <= Cardinality(FailuresOf(a, failed))

(* e2 keeps what e settled for good. *)
Keeps(e, e2) ==
  /\ \A a \in Addr : e.led.nonce[a] <= e2.led.nonce[a]
  /\ \A s \in Slug : e.led.owner[s] # None => e2.led.owner[s] = e.led.owner[s]
  /\ \A k \in Height : e.cap.records[k] # None =>
       e2.cap.records[k] = e.cap.records[k]

(* Nothing is settled yet. *)
Pristine(e) ==
  /\ e.led.nonce = [a \in Addr |-> 0]
  /\ e.led.owner = [s \in Slug |-> None]
  /\ e.cap.records = [k \in Height |-> None]

Cleared(e) == e.cap.rewarded = {} /\ e.cap.failed = {}

(* Where the phases stand. *)
Phases ==
  /\ phase = "start" => disk.tip = None /\ committed = FreshState
  /\ phase \in {"start", "idle"} => current = committed
  /\ phase = "block" =>
       current.height = committed.height /\ committed.height < MaxHeight
  /\ phase = "ended" => current.height = committed.height + 1
  /\ phase \in {"block", "ended"} => Keeps(committed, current)

(* What the disk holds. *)
Persisted ==
  /\ IsFiniteSet(disk.rewarded) /\ IsFiniteSet(disk.failed)
  /\ disk.tip = None =>
       /\ disk.snapshot = None
       /\ disk.rewarded = {} /\ disk.failed = {}
       /\ Pristine(committed)
  /\ disk.tip # None =>
       /\ Cleared(disk.tip)
       /\ committed = [disk.tip EXCEPT !.cap.fails = committed.cap.fails]
       /\ disk.snapshot # None =>
            /\ disk.snapshot.height <= disk.tip.height
            /\ disk.snapshot.height = disk.tip.height =>
                 disk.snapshot = disk.tip

(***************************************************************************)
(* Together: the open block extends the committed state, the committed     *)
(* state is the tip's, a snapshot of the tip's height is the tip, and the  *)
(* books agree with the markers in memory and on disk.                     *)
(***************************************************************************)
Consistent ==
  /\ TypeOK
  /\ Phases
  /\ Persisted
  /\ Cleared(committed)
  /\ IsFiniteSet(current.cap.rewarded) /\ IsFiniteSet(current.cap.failed)
  /\ WellTimed(committed) /\ WellTimed(current)
  /\ Books(committed, disk.rewarded, disk.failed)
  /\ Books(current, RewardedIds, FailedIds)
  /\ RewardRenewsLease

=============================================================================
