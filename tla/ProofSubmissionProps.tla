------------------------ MODULE ProofSubmissionProps ------------------------
(* Properties of a round of capacity challenges. *)
EXTENDS ProofSubmission

(***************************************************************************)
(* A claim stops every later submission of its challenge, so it must never *)
(* be ahead of the chain: what submit_verified_proof has claimed has its   *)
(* outcome in committed state, whatever was lost, late or repeated.        *)
(***************************************************************************)
ClaimsAreOnChain == claims \subseteq com.decided

IsState(s) ==
  /\ s.root \in Root \cup {None} /\ s.epoch \in Epoch
  /\ s = [nonce |-> s.nonce, root |-> s.root, epoch |-> s.epoch,
          mine |-> s.mine, frozen |-> s.frozen, decided |-> s.decided]

(***************************************************************************)
(* Why ClaimsAreOnChain holds: decisions are never undone, a submission    *)
(* that awaits its block is told of success only when the open block has   *)
(* decided its challenge, and the answer comes after the commit.           *)
(***************************************************************************)
SubmissionInv ==
  /\ IsState(cur) /\ IsState(com)
  /\ com.decided \subseteq cur.decided
  /\ queue \subseteq Proof
  /\ local \in Root /\ net \subseteq Message
  /\ lane # None =>
       /\ lane = [tx |-> lane.tx, step |-> lane.step, ok |-> lane.ok]
       /\ lane.tx.proof \in Proof /\ lane.ok \in BOOLEAN \cup {None}
       /\ lane.ok = TRUE => lane.tx.proof.ch \in cur.decided
       /\ lane.step \in {"answered", "claim"} =>
            /\ lane.ok \in BOOLEAN
            /\ lane.ok = TRUE => lane.tx.proof.ch \in com.decided
       /\ lane.step = "claim" => lane.ok = TRUE
  /\ ClaimsAreOnChain


FaultFree == mishaps = 0 /\ others = 0 /\ ~refused

Quiet == lane = None /\ mempool = {} /\ cur.nonce = com.nonce


(***************************************************************************)
(* Fairness.  The submitter's task runs on and Tendermint answers or times *)
(* out; tokio's mutex serves its waiters in order; the chain keeps         *)
(* producing blocks and takes transactions from the pool.                  *)
(***************************************************************************)
Fairness ==
  /\ WF_vars(Submitter)
  /\ WF_vars(\E p \in queue : Start(p))
  /\ WF_vars(EndBlock) /\ WF_vars(Commit)
  /\ SF_vars(\E tx \in mempool : DeliverTx(tx))

FairSpec == Spec /\ Fairness

(***************************************************************************)
(* Nothing holds send_serial for ever: every submission that waits for it  *)
(* gets it, and every one that has it ends, whatever fails on the way.     *)
(***************************************************************************)
SubmissionsEnd ==
  (queue # {} \/ lane # None) ~> (queue = {} /\ lane = None)

(***************************************************************************)
(* Without faults, and with nonces left, every judged proof is claimed.    *)
(***************************************************************************)
ProofsAreClaimed ==
  \A e \in Epoch \ {0} :
    (\E p \in queue : p.ch = e) ~>
      (e \in claims \/ ~FaultFree \/ ChainNonce = None)

=============================================================================
