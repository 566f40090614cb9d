----------------------- MODULE ProofSubmissionProofs -----------------------
(***************************************************************************)
(* That claims never run ahead of the chain, for any number of roots,      *)
(* epochs, nonces and mishaps.                                             *)
(***************************************************************************)
EXTENDS ProofSubmissionProps, TLAPS

(* The part of SubmissionInv that speaks of the submission in progress.    *)
LaneOK(l, now, then) ==
  l # None =>
    /\ l = [tx |-> l.tx, step |-> l.step, ok |-> l.ok]
    /\ l.tx.proof \in Proof /\ l.ok \in BOOLEAN \cup {None}
    /\ l.ok = TRUE => l.tx.proof.ch \in now.decided
    /\ l.step \in {"answered", "claim"} =>
         /\ l.ok \in BOOLEAN
         /\ l.ok = TRUE => l.tx.proof.ch \in then.decided
    /\ l.step = "claim" => l.ok = TRUE

ChainOK(now, then) ==
  IsState(now) /\ IsState(then) /\ then.decided \subseteq now.decided

P2pOK == local \in Root /\ net \subseteq Message

(* SubmissionInv, by the variables its conjuncts are about. *)
LEMMA InvParts ==
  SubmissionInv <=> /\ ChainOK(cur, com) /\ LaneOK(lane, cur, com)
                    /\ queue \subseteq Proof /\ P2pOK
                    /\ claims \subseteq com.decided
  BY DEF SubmissionInv, ChainOK, LaneOK, P2pOK, ClaimsAreOnChain

LEMMA InvPartsNext ==
  SubmissionInv' <=> /\ ChainOK(cur', com') /\ LaneOK(lane', cur', com')
                     /\ queue' \subseteq Proof /\ P2pOK'
                     /\ claims' \subseteq com'.decided
  BY DEF SubmissionInv, ChainOK, LaneOK, P2pOK, ClaimsAreOnChain

(* A submission stays consistent when the chain decides more challenges. *)
LEMMA LaneMonotone ==
  ASSUME NEW l, NEW now, NEW then, NEW later, NEW thenceforth,
         LaneOK(l, now, then),
         now.decided \subseteq later.decided,
         then.decided \subseteq thenceforth.decided
  PROVE  LaneOK(l, later, thenceforth)
  BY DEF LaneOK

(* No submission is in progress. *)
LEMMA NoLane ==
  ASSUME NEW now, NEW then
  PROVE  LaneOK(None, now, then)
  BY DEF LaneOK

(* The initial states. *)
LEMMA InitInv == Init => SubmissionInv
<1> SUFFICES ASSUME Init PROVE SubmissionInv
  OBVIOUS
<1>1. PICK r \in Root : /\ local = r
                        /\ com = [nonce |-> 0, root |-> r, epoch |-> 0, mine |-> {},
                                  frozen |-> [e \in Epoch |-> None], decided |-> {}]
  BY DEF Init
<1>2. 0 \in Epoch
  BY ProofSubmissionAssumption DEF Epoch
<1>3. ChainOK(cur, com) /\ com.decided = {}
  <2>1. cur = com
    BY DEF Init
  <2> QED
    BY <1>1, <1>2, <2>1 DEF ChainOK, IsState
<1> QED
  BY <1>1, <1>3, InvParts, NoLane DEF Init, P2pOK

(* DeliverTx tells the submission of its success only as it decides the    *)
(* challenge.                                                              *)
LEMMA DeliverTxInv ==
  ASSUME SubmissionInv, NEW tx \in mempool, DeliverTx(tx)
  PROVE  SubmissionInv'
<1> DEFINE next == NextNonce(cur.nonce) = tx.nonce
           good == next /\ (tx.proof # None => Admissible(cur, tx.proof))
<1>1. ChainOK(cur, com) /\ LaneOK(lane, cur, com)
  BY InvParts
<1>2. cur' = [cur EXCEPT !.nonce = IF next THEN tx.nonce ELSE @,
                         !.decided = IF good /\ tx.proof # None
                                     THEN @ \cup {tx.proof.ch} ELSE @]
  BY DEF DeliverTx
<1>3. /\ UNCHANGED <<com, queue, local, net, claims>>
      /\ lane' = IF lane # None /\ lane.tx = tx /\ lane.step = "wait"
                 THEN [lane EXCEPT !.ok = good] ELSE lane
  BY DEF DeliverTx, p2p
<1>4. /\ cur'.decided = IF good /\ tx.proof # None
                        THEN cur.decided \cup {tx.proof.ch} ELSE cur.decided
      /\ IsState(cur')
  BY <1>1, <1>2 DEF ChainOK, IsState
<1>5. ChainOK(cur', com')
  BY <1>1, <1>3, <1>4 DEF ChainOK
<1>6. LaneOK(lane', cur', com')
  <2>1. CASE lane # None /\ lane.tx = tx /\ lane.step = "wait"
    <3>1. /\ lane = [tx |-> tx, step |-> "wait", ok |-> lane.ok]
          /\ tx.proof \in Proof
      BY <1>1, <2>1 DEF LaneOK
    <3>2. tx.proof # None
      BY <3>1, NoneIsNoProof
    <3>3. lane' = [tx |-> tx, step |-> "wait", ok |-> good]
      BY <1>3, <2>1, <3>1
    <3>4. good => tx.proof.ch \in cur'.decided
      BY <1>4, <3>2
    <3>5. good \in BOOLEAN
      OBVIOUS
    <3> HIDE DEF good
    <3>6. (good = TRUE) => tx.proof.ch \in cur'.decided
      BY <3>4
    <3> QED
      BY <3>1, <3>3, <3>5, <3>6 DEF LaneOK
  <2>2. CASE ~(lane # None /\ lane.tx = tx /\ lane.step = "wait")
    BY <1>1, <1>3, <1>4, <2>2, LaneMonotone
  <2> QED
    BY <2>1, <2>2
<1> QED
  BY <1>3, <1>5, <1>6, InvParts, InvPartsNext DEF P2pOK

(* The chain's other steps: nothing is decided, and an answer is given     *)
(* after the block's state is committed.                                   *)
LEMMA ChainInv ==
  ASSUME SubmissionInv, ProviderTx \/ EndBlock \/ Commit
  PROVE  SubmissionInv'
<1>1. /\ ChainOK(cur, com) /\ LaneOK(lane, cur, com) /\ P2pOK
      /\ queue \subseteq Proof /\ claims \subseteq com.decided
  BY InvParts
<1>2. CASE ProviderTx
  <2>1. PICK r \in {local, None} : cur' = [cur EXCEPT !.root = r]
    BY <1>2 DEF ProviderTx
  <2>2. IsState(cur') /\ cur'.decided = cur.decided
    BY <1>1, <2>1 DEF ChainOK, IsState, P2pOK
  <2>3. UNCHANGED <<com, lane, queue, local, net, claims>>
    BY <1>2 DEF ProviderTx, p2p, node
  <2>4. LaneOK(lane', cur', com')
    BY <1>1, <2>2, <2>3, LaneMonotone
  <2> QED
    BY <1>1, <2>2, <2>3, <2>4, InvPartsNext DEF ChainOK, P2pOK
<1>3. CASE EndBlock
  <2>1. UNCHANGED <<com, lane, queue, local, claims>>
    BY <1>3 DEF EndBlock, node
  <2>2. CASE UNCHANGED <<cur, net>>
    BY <1>1, <2>1, <2>2, InvPartsNext DEF P2pOK
  <2>3. ASSUME NEW own \in BOOLEAN, cur.epoch < MaxEpoch,
               cur' = [cur EXCEPT
                         !.epoch = cur.epoch + 1, !.frozen[cur.epoch + 1] = cur.root,
                         !.mine = IF own THEN @ \cup {cur.epoch + 1} ELSE @],
               net' = IF IsActiveValidator(cur')
                      THEN net \cup Challenges(cur') ELSE net
        PROVE  SubmissionInv'
    <3>1. cur.epoch + 1 \in Epoch
      BY <1>1, <2>3, ProofSubmissionAssumption DEF ChainOK, IsState, Epoch
    <3>2. /\ IsState(cur') /\ cur'.decided = cur.decided
          /\ cur'.root = cur.root /\ cur'.epoch = cur.epoch + 1
      BY <1>1, <2>3, <3>1 DEF ChainOK, IsState
    <3>3. Challenges(cur') \subseteq Message
      BY <3>1, <3>2 DEF Challenges, Message, IsState
    <3>4. P2pOK'
      BY <1>1, <2>1, <2>3, <3>3 DEF P2pOK
    <3>5. LaneOK(lane', cur', com')
      BY <1>1, <2>1, <3>2, LaneMonotone
    <3> QED
      BY <1>1, <2>1, <3>2, <3>4, <3>5, InvPartsNext DEF ChainOK
  <2> QED
    BY <1>3, <2>2, <2>3 DEF EndBlock
<1>4. CASE Commit
  <2>1. /\ com' = cur /\ UNCHANGED <<cur, local, net, queue, claims>>
        /\ lane' = IF lane # None /\ lane.step = "wait" /\ lane.ok # None
                   THEN [lane EXCEPT !.step = "answered"] ELSE lane
    BY <1>4 DEF Commit, p2p
  <2>2. ChainOK(cur', com') /\ claims' \subseteq com'.decided
    BY <1>1, <2>1 DEF ChainOK
  <2>3. LaneOK(lane', cur', com')
    <3>1. CASE lane # None /\ lane.step = "wait" /\ lane.ok # None
      <4>1. lane = [tx |-> lane.tx, step |-> lane.step, ok |-> lane.ok]
        BY <1>1, <3>1 DEF LaneOK
      <4>2. lane' = [tx |-> lane.tx, step |-> "answered", ok |-> lane.ok]
        BY <2>1, <3>1, <4>1
      <4> QED
        BY <1>1, <2>1, <3>1, <4>2 DEF LaneOK
    <3>2. CASE ~(lane # None /\ lane.step = "wait" /\ lane.ok # None)
      BY <1>1, <2>1, <3>2, LaneMonotone DEF ChainOK
    <3> QED
      BY <3>1, <3>2
  <2> QED
    BY <1>1, <2>1, <2>2, <2>3, InvPartsNext DEF P2pOK
<1> QED
  BY <1>2, <1>3, <1>4

(* Challenges and answers. *)
LEMMA P2pInv ==
  ASSUME SubmissionInv,
         SlotsChange \/ \E m \in net : Answer(m) \/ Receive(m)
  PROVE  SubmissionInv'
<1>1. /\ ChainOK(cur, com) /\ LaneOK(lane, cur, com) /\ P2pOK
      /\ queue \subseteq Proof /\ claims \subseteq com.decided
  BY InvParts
<1>2. CASE SlotsChange
  BY <1>1, <1>2, InvPartsNext DEF SlotsChange, P2pOK, chain, node
<1>3. ASSUME NEW m \in net, Answer(m)
      PROVE  SubmissionInv'
  <2>1. UNCHANGED <<cur, com, lane, queue, local, claims>>
    BY <1>3 DEF Answer, chain, node
  <2>2. \A r \in {local, None} : [kind |-> "response", ch |-> m.ch, root |-> r] \in Message
    BY <1>1, <1>3 DEF P2pOK, Message
  <2>3. net' \subseteq Message
    BY <1>1, <1>3, <2>2 DEF Answer, P2pOK
  <2> QED
    BY <1>1, <2>1, <2>3, InvPartsNext DEF P2pOK
<1>4. ASSUME NEW m \in net, Receive(m)
      PROVE  SubmissionInv'
  <2>1. UNCHANGED <<cur, com, lane, local, claims>> /\ net' \subseteq net
    BY <1>4 DEF Receive, chain
  <2>2. Judged(m) \in Proof
    BY <1>1, <1>4 DEF Judged, P2pOK, Message, Proof
  <2>3. queue' \subseteq Proof
    BY <1>1, <1>4, <2>2 DEF Receive
  <2> QED
    BY <1>1, <2>1, <2>3, InvPartsNext DEF P2pOK
<1> QED
  BY <1>2, <1>3, <1>4

(* A submission starts: nothing is known of its transaction yet. *)
LEMMA StartInv ==
  ASSUME SubmissionInv, \E p \in queue : Start(p) \/ StartFails(p)
  PROVE  SubmissionInv'
<1>1. /\ ChainOK(cur, com) /\ LaneOK(lane, cur, com) /\ P2pOK
      /\ queue \subseteq Proof /\ claims \subseteq com.decided
  BY InvParts
<1>2. ASSUME NEW p \in queue, Start(p)
      PROVE  SubmissionInv'
  <2>1. UNCHANGED <<cur, com, local, net, claims>> /\ queue' \subseteq queue
    BY <1>2 DEF Start, chain, p2p
  <2>2. CASE lane' = lane
    BY <1>1, <2>1, <2>2, InvPartsNext DEF P2pOK
  <2>3. CASE lane' = [tx |-> SignedTx(p, Assigned), step |-> "broadcast", ok |-> None]
    <3>1. SignedTx(p, Assigned).proof = p
      BY DEF SignedTx
    <3>2. None # TRUE
      BY NoneIsNotTrue
    <3>3. LaneOK(lane', cur', com')
      BY <1>1, <1>2, <2>3, <3>1, <3>2 DEF LaneOK
    <3> QED
      BY <1>1, <2>1, <3>3, InvPartsNext DEF P2pOK
  <2> QED
    BY <1>2, <2>2, <2>3 DEF Start
<1>3. ASSUME NEW p \in queue, StartFails(p)
      PROVE  SubmissionInv'
  BY <1>1, <1>3, InvPartsNext DEF StartFails, chain, p2p, P2pOK
<1> QED
  BY <1>2, <1>3

(* A submission ends, and nothing is claimed. *)
LEMMA EndInv ==
  ASSUME SubmissionInv, lane' = None,
         UNCHANGED <<cur, com, local, net, claims>>, queue' \subseteq queue
  PROVE  SubmissionInv'
  BY InvParts, InvPartsNext, NoLane DEF P2pOK

(* The steps of the submission in progress: a claim follows a success.     *)
LEMMA SubmitterInv ==
  ASSUME SubmissionInv,
         Submitter \/ BroadcastFails \/ AnswerLost \/ Crash
  PROVE  SubmissionInv'
<1>1. /\ ChainOK(cur, com) /\ LaneOK(lane, cur, com) /\ P2pOK
      /\ queue \subseteq Proof /\ claims \subseteq com.decided
  BY InvParts
<1>2. ASSUME NEW step \in {"wait", "resync"}, lane # None,
             lane.step = "broadcast", lane' = [lane EXCEPT !.step = step],
             UNCHANGED <<cur, com, local, net, queue, claims>>
      PROVE  SubmissionInv'
  <2>1. lane = [tx |-> lane.tx, step |-> lane.step, ok |-> lane.ok]
    BY <1>1, <1>2 DEF LaneOK
  <2>2. lane' = [tx |-> lane.tx, step |-> step, ok |-> lane.ok]
    BY <1>2, <2>1
  <2>3. LaneOK(lane', cur', com')
    BY <1>1, <1>2, <2>2 DEF LaneOK
  <2> QED
    BY <1>1, <1>2, <2>3, InvPartsNext DEF P2pOK
<1>3. CASE Broadcast
  BY <1>2, <1>3, EndInv DEF Broadcast, At, EndWith, chain, p2p
<1>4. CASE BroadcastFails
  BY <1>2, <1>4, EndInv DEF BroadcastFails, At, EndWith, chain, p2p
<1>5. CASE ReceiveAnswer
  <2>1. UNCHANGED <<cur, com, local, net, queue, claims>>
    BY <1>5 DEF ReceiveAnswer, chain, p2p
  <2>2. CASE lane' = None
    BY <2>1, <2>2, EndInv
  <2>3. CASE lane.ok /\ lane' = [lane EXCEPT !.step = "claim"]
    <3>1. /\ lane # None /\ lane.step = "answered"
          /\ lane = [tx |-> lane.tx, step |-> lane.step, ok |-> lane.ok]
          /\ lane.ok \in BOOLEAN
      BY <1>1, <1>5 DEF ReceiveAnswer, At, LaneOK
    <3>2. lane.ok = TRUE
      BY <2>3, <3>1
    <3>3. lane' = [tx |-> lane.tx, step |-> "claim", ok |-> TRUE]
      BY <2>3, <3>1, <3>2
    <3>4. LaneOK(lane', cur', com')
      BY <1>1, <2>1, <3>1, <3>2, <3>3 DEF LaneOK
    <3> QED
      BY <1>1, <2>1, <3>4, InvPartsNext DEF P2pOK
  <2> QED
    BY <1>5, <2>2, <2>3 DEF ReceiveAnswer, EndWith
<1>6. CASE TimesOut \/ Resync
  BY <1>6, EndInv DEF TimesOut, Resync, EndWith, chain, p2p
<1>7. CASE Claim
  <2>1. /\ lane' = None /\ UNCHANGED <<cur, com, local, net, queue>>
        /\ claims' = claims \cup {lane.tx.proof.ch} \/ claims' = claims
    BY <1>7 DEF Claim, chain, p2p
  <2>2. lane.tx.proof.ch \in com.decided
    BY <1>1, <1>7 DEF Claim, At, LaneOK
  <2> QED
    BY <1>1, <2>1, <2>2, InvPartsNext, NoLane DEF P2pOK
<1>8. CASE AnswerLost
  <2>1. /\ lane # None /\ UNCHANGED <<cur, com, local, net, queue, claims>>
        /\ lane' = [lane EXCEPT !.step = "resync", !.ok = None]
    BY <1>8 DEF AnswerLost, chain, p2p
  <2>2. lane' = [tx |-> lane.tx, step |-> "resync", ok |-> None]
    BY <1>1, <2>1 DEF LaneOK
  <2>3. LaneOK(lane', cur', com')
    BY <1>1, <2>1, <2>2, NoneIsNotTrue DEF LaneOK
  <2> QED
    BY <1>1, <2>1, <2>3, InvPartsNext DEF P2pOK
<1>9. CASE Crash
  BY <1>9, EndInv DEF Crash, chain, p2p
<1> QED
  BY <1>3, <1>4, <1>5, <1>6, <1>7, <1>8, <1>9 DEF Submitter

(* Every step keeps the invariant. *)
LEMMA NextInv == SubmissionInv /\ [Next]_vars => SubmissionInv'
<1> SUFFICES ASSUME SubmissionInv, [Next]_vars PROVE SubmissionInv'
  OBVIOUS
<1>1. CASE \E tx \in mempool : DeliverTx(tx)
  BY <1>1, DeliverTxInv
<1>2. CASE ProviderTx \/ EndBlock \/ Commit
  BY <1>2, ChainInv
<1>3. CASE SlotsChange \/ \E m \in net : Answer(m) \/ Receive(m)
  BY <1>3, P2pInv
<1>4. CASE \E p \in queue : Start(p) \/ StartFails(p)
  BY <1>4, StartInv
<1>5. CASE Submitter \/ BroadcastFails \/ AnswerLost \/ Crash
  BY <1>5, SubmitterInv
<1>6. CASE RegisterCapacityOnchain \/ SubmitMerkleRootUpdate \/ UNCHANGED vars
  <2>1. UNCHANGED <<cur, com, local, net, queue, lane, claims>>
    BY <1>6 DEF RegisterCapacityOnchain, SubmitMerkleRootUpdate, SendOther,
                vars, chain, p2p, node
  <2> QED
    BY <2>1, InvParts, InvPartsNext DEF P2pOK
<1> QED
  BY <1>1, <1>2, <1>3, <1>4, <1>5, <1>6 DEF Next

(* The inductive invariant of a submission: what the node believes of its  *)
(* transaction has happened on the chain.                                  *)
THEOREM SubmissionConsistent == Spec => []SubmissionInv
  BY InitInv, NextInv, PTL DEF Spec

(* verified_proof_chain_submitter.rs persists a claim only for a challenge *)
(* whose outcome is committed, over crashes, lost and repeated answers,    *)
(* timeouts and other senders of the wallet.                               *)
THEOREM ClaimsFollowChain == Spec => []ClaimsAreOnChain
<1>1. SubmissionInv => ClaimsAreOnChain
  BY DEF SubmissionInv
<1> QED
  BY <1>1, SubmissionConsistent, PTL
=============================================================================
