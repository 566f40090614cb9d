-------------------------- MODULE ProofSubmission --------------------------
(***************************************************************************)
(* A round of capacity challenges, from EndBlock to the recorded outcome:  *)
(* the node whose wallet is the capacity validator of the epoch publishes  *)
(* a challenge, the provider answers it, and the node submits the verdict  *)
(* as a VerifiedProof transaction through its own Tendermint node.  The    *)
(* submitter numbers its transactions from a local cursor, one at a time,  *)
(* and remembers in RocksDB what it has submitted.                         *)
(*                                                                         *)
(* One provider is challenged per epoch, and it is not the validator.  A   *)
(* challenge is named by its epoch.                                        *)
(***************************************************************************)
EXTENDS Naturals, FiniteSets

CONSTANTS
  Root,         \* Merkle roots of the provider's slots
  None,         \* no root, no nonce, no task
  MaxNonce,     \* the largest nonce (u32::MAX)
  MaxEpoch,     \* bound: the last epoch
  MaxRounds,    \* bound: epochs whose capacity validator is this node
  MaxChanges,   \* bound: changes of the provider's slots, and updates on chain
  MaxOthers,    \* bound: other transactions of the validator's wallet
  MaxMishaps    \* bound: crashes, failed calls, lost and repeated answers

ASSUME ProofSubmissionAssumption ==
  /\ None \notin Root /\ None \notin Nat /\ Root # {}
  /\ {MaxNonce, MaxEpoch, MaxRounds, MaxChanges, MaxOthers, MaxMishaps} \subseteq Nat

VARIABLES
  cur,       \* current_state: the state DeliverTx and EndBlock work on
  com,       \* committed_state: what CheckTx, queries and the P2P code read
  ended,     \* EndBlock of the open block has run
  mempool,   \* Tendermint's pool of admitted transactions
  local,     \* the root of the provider's slots as they are on its disk
  net,       \* P2P messages under way; one that stays is one gossip lost
  queue,     \* spawned submissions that wait for send_serial
  lane,      \* the submission that holds send_serial
  cursor,    \* SequentialOptimisticNonceSender.next_tx_nonce
  claims,    \* persisted (sender, challenge_id) claims
  changes, updates, others, mishaps,   \* the bounds' counters
  refused    \* history: a submitted proof was charged and then refused

chain   == <<cur, com, ended>>
p2p     == <<local, net>>
node    == <<queue, lane, cursor, claims>>
history == <<changes, updates, others, mishaps, refused>>
vars    == <<chain, mempool, p2p, node, history>>

Epoch == 0..MaxEpoch
Nonce == 0..MaxNonce

(***************************************************************************)
(* A VerifiedProof carries the root its chunk proofs lead to, None if to   *)
(* none, and the validator's verdict.  A transaction is a proof, a nonce   *)
(* and a stamp, its verified_at_timestamp, which tells two transactions of *)
(* one proof apart.  One without a proof is a RegisterCapacity or Update-  *)
(* CapacityMerkleRoot of the same wallet.                                  *)
(***************************************************************************)
Stamp == 0..MaxMishaps
Proof == [ch : Epoch, root : Root \cup {None}, failed : BOOLEAN]

(* None is no proof and no result. *)
ASSUME NoneIsNoProof == None \notin Proof
ASSUME NoneIsNotTrue == None # TRUE

Message == [kind : {"challenge", "response"}, ch : Epoch,
            root : Root \cup {None}]

(* Nonce::next. *)
NextNonce(n) == IF n < MaxNonce THEN n + 1 ELSE None

Init ==
  /\ \E r \in Root :
       /\ local = r
       /\ com = [nonce |-> 0, root |-> r, epoch |-> 0, mine |-> {},
                 frozen |-> [e \in Epoch |-> None], decided |-> {}]
  /\ cur = com /\ ended = FALSE
  /\ mempool = {} /\ net = {} /\ queue = {} /\ lane = None
  /\ cursor = None /\ claims = {}
  /\ changes = 0 /\ updates = 0 /\ others = 0 /\ mishaps = 0 /\ refused = FALSE

Mishap == mishaps < MaxMishaps /\ mishaps' = mishaps + 1

-----------------------------------------------------------------------------
(* CheckTx: the exact next nonce of the committed account. *)
CheckTx(state, tx) == NextNonce(state.nonce) = tx.nonce

(* validate_challenge_proof: the chunk proofs lead to the expected root. *)
ProofValid(root, expected) == root = expected

(* The gates of a VerifiedProof whose sender is this node's wallet.        *)
Admissible(state, proof) ==
  /\ proof.ch \notin state.decided
  /\ proof.ch <= state.epoch /\ state.epoch <= proof.ch + 1
  /\ proof.ch \in state.mine
  /\ state.frozen[proof.ch] # None
  /\ proof.failed = ~ProofValid(proof.root, state.frozen[proof.ch])

(***************************************************************************)
(* DeliverTx.  Nonce and fee are charged before the transaction is         *)
(* processed: a proof that is then refused has used its nonce.             *)
(***************************************************************************)
DeliverTx(tx) ==
  LET next == NextNonce(cur.nonce) = tx.nonce
      good == next /\ (tx.proof # None => Admissible(cur, tx.proof))
  IN  /\ tx \in mempool /\ ~ended
      /\ mempool' = mempool \ {tx}
      /\ cur' = [cur EXCEPT
                   !.nonce   = IF next THEN tx.nonce ELSE @,
                   !.decided = IF good /\ tx.proof # None
                               THEN @ \cup {tx.proof.ch} ELSE @]
      /\ lane' = IF lane # None /\ lane.tx = tx /\ lane.step = "wait"
                 THEN [lane EXCEPT !.ok = good] ELSE lane
      /\ refused' = (refused \/ (next /\ ~good))
      /\ UNCHANGED <<com, ended, p2p, queue, cursor, claims,
                     changes, updates, others, mishaps>>

(***************************************************************************)
(* The provider's own transactions: UpdateCapacityMerkleRoot with the root *)
(* of its slots, UnregisterCapacity, and RegisterCapacity.                 *)
(***************************************************************************)
ProviderTx ==
  /\ ~ended /\ updates < MaxChanges
  /\ \E r \in {local, None} \ {cur.root} : cur' = [cur EXCEPT !.root = r]
  /\ updates' = updates + 1
  /\ UNCHANGED <<com, ended, mempool, p2p, node, changes, others, mishaps,
                 refused>>

(* This node's wallet is the capacity validator of the state's epoch. *)
IsActiveValidator(state) == state.epoch \in state.mine

(* generate_challenges_internal: nothing without a registered root. *)
Challenges(state) ==
  IF state.root = None
  THEN {}
  ELSE {[kind |-> "challenge", ch |-> state.epoch, root |-> state.root]}

(***************************************************************************)
(* EndBlock.  A new epoch draws its capacity validator and freezes the     *)
(* provider's root; the validator's node publishes the challenge at once,  *)
(* before Commit.                                                          *)
(***************************************************************************)
EndBlock ==
  /\ ~ended /\ ended' = TRUE
  /\ \/ UNCHANGED <<cur, net>>
     \/ /\ cur.epoch < MaxEpoch
        /\ \E e \in {cur.epoch + 1}, own \in BOOLEAN :
             /\ own => Cardinality(cur.mine) < MaxRounds
             /\ cur' = [cur EXCEPT
                          !.epoch = e, !.frozen[e] = cur.root,
                          !.mine = IF own THEN @ \cup {e} ELSE @]
        /\ net' = IF IsActiveValidator(cur')
                  THEN net \cup Challenges(cur') ELSE net
  /\ UNCHANGED <<com, mempool, local, node, history>>

(***************************************************************************)
(* Commit, after which Tendermint rechecks its pool against the new state  *)
(* and answers broadcast_tx_commit for the transactions of the block.      *)
(***************************************************************************)
Commit ==
  /\ ended /\ ended' = FALSE
  /\ com' = cur
  /\ mempool' = {tx \in mempool : CheckTx(cur, tx)}
  /\ lane' = IF lane # None /\ lane.step = "wait" /\ lane.ok # None
             THEN [lane EXCEPT !.step = "answered"] ELSE lane
  /\ UNCHANGED <<cur, p2p, queue, cursor, claims, history>>

-----------------------------------------------------------------------------
(* The provider stores or deletes content: its slots have another root. *)
SlotsChange ==
  /\ changes < MaxChanges /\ changes' = changes + 1
  /\ \E r \in Root \ {local} : local' = r
  /\ UNCHANGED <<chain, mempool, net, node, updates, others, mishaps, refused>>

(***************************************************************************)
(* handle_capacity_challenge.  The provider answers only while its slots   *)
(* have the challenge's root.  The chunks it reads may be damaged: then    *)
(* its proofs lead to no root.                                             *)
(***************************************************************************)
Answer(m) ==
  /\ m \in net /\ m.kind = "challenge"
  /\ IF m.root = local
     THEN \E r \in {local, None} :
            net' = (net \ {m})
                     \cup {[kind |-> "response", ch |-> m.ch, root |-> r]}
     ELSE net' = net \ {m}
  /\ UNCHANGED <<chain, mempool, local, node, history>>

(* The node evaluates answers: it is the committed epoch's capacity        *)
(* validator, and the provider is registered with a root.                  *)
Evaluates == IsActiveValidator(com) /\ com.root # None


(* The verdict, by the root the provider is registered with by now. *)
Judged(m) ==
  [ch |-> m.ch, root |-> m.root, failed |-> ~ProofValid(m.root, com.root)]

(***************************************************************************)
(* handle_capacity_challenge_response spawns the submission of its         *)
(* verdict.  A repeated message is a mishap.                               *)
(***************************************************************************)
Receive(m) ==
  /\ m \in net /\ m.kind = "response"
  /\ queue' = IF Evaluates THEN queue \cup {Judged(m)} ELSE queue
  /\ \/ net' = net \ {m} /\ UNCHANGED mishaps
     \/ UNCHANGED net /\ Mishap
  /\ UNCHANGED <<chain, mempool, local, lane, cursor, claims,
                 changes, updates, others, refused>>

-----------------------------------------------------------------------------
(* The next nonce get_next_nonce_for_account_cado reads from the chain. *)
ChainNonce == NextNonce(com.nonce)

(* take_next_nonce: the nonce to use, None when the chain has no next one. *)
Assigned == IF cursor = None THEN ChainNonce ELSE cursor

(* build_signed_verified_proof_hex, at a time no pooled transaction has. *)
SignedTx(proof, nonce) ==
  [proof |-> proof, nonce |-> nonce,
   stamp |-> CHOOSE s \in Stamp :
               \A tx \in mempool : tx.proof # None => tx.stamp # s]

(* has_verified_proof_submission_claim. *)
HasClaim(ch) == ch \in claims

(***************************************************************************)
(* submit_verified_proof takes send_serial, looks for a claim, and takes a *)
(* nonce.  The first nonce, and the one after u32::MAX, is read from the   *)
(* chain; without one the submission fails.                                *)
(***************************************************************************)
Start(proof) ==
  /\ lane = None /\ proof \in queue
  /\ queue' = queue \ {proof}
  /\ IF HasClaim(proof.ch) \/ Assigned = None
     THEN UNCHANGED <<lane, cursor>>
     ELSE /\ lane' = [tx |-> SignedTx(proof, Assigned),
                      step |-> "broadcast", ok |-> None]
          /\ cursor' = NextNonce(Assigned)
  /\ UNCHANGED <<chain, mempool, p2p, claims, history>>

(* The nonce cannot be read: the cursor stays unset. *)
StartFails(proof) ==
  /\ lane = None /\ proof \in queue /\ ~HasClaim(proof.ch)
  /\ cursor = None /\ Mishap
  /\ queue' = queue \ {proof}
  /\ UNCHANGED <<chain, mempool, p2p, lane, cursor, claims,
                 changes, updates, others, refused>>

(* The submission ends, and the cursor is set by reuse_nonce. *)
EndWith(nonce) == lane' = None /\ cursor' = nonce

At(step) == lane # None /\ lane.step = step

(***************************************************************************)
(* send_tx_rpc.  A transaction CheckTx refuses is a TransactionError; one  *)
(* it admits waits for its block.                                          *)
(***************************************************************************)
Broadcast ==
  /\ At("broadcast")
  /\ IF CheckTx(com, lane.tx)
     THEN /\ mempool' = mempool \cup {lane.tx}
          /\ lane' = [lane EXCEPT !.step = "wait"]
          /\ UNCHANGED cursor
     ELSE EndWith(lane.tx.nonce) /\ UNCHANGED mempool
  /\ UNCHANGED <<chain, p2p, queue, claims, history>>

(* Building fails; or the request is not answered, admitted or not. *)
BroadcastFails ==
  /\ At("broadcast") /\ Mishap
  /\ \/ EndWith(lane.tx.nonce) /\ UNCHANGED mempool
     \/ /\ lane' = [lane EXCEPT !.step = "resync"]
        /\ \/ UNCHANGED mempool
           \/ /\ CheckTx(com, lane.tx)
              /\ mempool' = mempool \cup {lane.tx}
        /\ UNCHANGED cursor
  /\ UNCHANGED <<chain, p2p, queue, claims, changes, updates, others, refused>>

(* Mutants: a refusal counts as a success; a success reuses the nonce. *)
ReceiveAnswerUnread ==
  /\ At("answered")
  /\ lane' = [lane EXCEPT !.step = "claim"] /\ UNCHANGED cursor
  /\ UNCHANGED <<chain, mempool, p2p, queue, claims, history>>


(* parse_rpc_response on the answer of a transaction that was in a block. *)
ReceiveAnswer ==
  /\ At("answered")
  /\ IF lane.ok
     THEN lane' = [lane EXCEPT !.step = "claim"] /\ UNCHANGED cursor
     ELSE EndWith(lane.tx.nonce)
  /\ UNCHANGED <<chain, mempool, p2p, queue, claims, history>>

(* Mutant: only a transaction in the pool is given up. *)
TimesOutPooled ==
  /\ At("wait") /\ lane.tx \in mempool /\ Mishap
  /\ EndWith(lane.tx.nonce)
  /\ UNCHANGED <<chain, mempool, p2p, queue, claims,
                 changes, updates, others, refused>>

(***************************************************************************)
(* Tendermint gives up waiting for the block: the answer has no result,    *)
(* which is a TransactionError too.  It must when the pool no longer holds *)
(* the transaction; before that it is a mishap.                            *)
(***************************************************************************)
TimesOut ==
  /\ At("wait")
  /\ \/ lane.ok = None /\ lane.tx \notin mempool /\ UNCHANGED mishaps
     \/ Mishap
  /\ EndWith(lane.tx.nonce)
  /\ UNCHANGED <<chain, mempool, p2p, queue, claims,
                 changes, updates, others, refused>>

(* The connection breaks while the answer is awaited: a NetworkError. *)
AnswerLost ==
  /\ lane # None /\ lane.step \in {"wait", "answered"} /\ Mishap
  /\ lane' = [lane EXCEPT !.step = "resync", !.ok = None]
  /\ UNCHANGED <<chain, mempool, p2p, queue, cursor, claims,
                 changes, updates, others, refused>>

(* After a NetworkError the cursor is read from the chain, if it can be. *)
Resync ==
  /\ At("resync")
  /\ \/ /\ EndWith(IF ChainNonce # None THEN ChainNonce ELSE lane.tx.nonce)
        /\ UNCHANGED mishaps
     \/ EndWith(lane.tx.nonce) /\ Mishap
  /\ UNCHANGED <<chain, mempool, p2p, queue, claims,
                 changes, updates, others, refused>>

(* Mutant: the claim is not written. *)
ClaimDropped ==
  /\ At("claim") /\ lane' = None
  /\ UNCHANGED <<chain, mempool, p2p, queue, cursor, claims, history>>

(* insert_verified_proof_submission_claim; the write may fail. *)
Claim ==
  /\ At("claim")
  /\ \/ claims' = claims \cup {lane.tx.proof.ch} /\ UNCHANGED mishaps
     \/ UNCHANGED claims /\ Mishap
  /\ lane' = None
  /\ UNCHANGED <<chain, mempool, p2p, queue, cursor,
                 changes, updates, others, refused>>

(***************************************************************************)
(* The node's process stops and starts again.  Tendermint replays an open  *)
(* block and keeps its pool; the submitter has only its claims.            *)
(***************************************************************************)
Crash ==
  /\ Mishap
  /\ queue' = {} /\ lane' = None /\ cursor' = None
  /\ UNCHANGED <<chain, mempool, p2p, claims, changes, updates, others, refused>>

(***************************************************************************)
(* Other senders of the wallet, which read the nonce from the chain.  One  *)
(* that is overtaken between the read and CheckTx changes nothing.         *)
(***************************************************************************)
SendOther ==
  /\ others < MaxOthers /\ others' = others + 1
  /\ ChainNonce # None
  /\ mempool' = mempool \cup {[proof |-> None, nonce |-> ChainNonce,
                               stamp |-> 0]}
  /\ UNCHANGED <<chain, p2p, node, changes, updates, mishaps, refused>>

(* register_capacity_onchain: is_registered is always false. *)
RegisterCapacityOnchain == SendOther

SubmitMerkleRootUpdate == SendOther

-----------------------------------------------------------------------------
Submitter ==
  \/ Broadcast \/ ReceiveAnswer \/ TimesOut \/ Resync \/ Claim

Next ==
  \/ \E tx \in mempool : DeliverTx(tx)
  \/ ProviderTx \/ EndBlock \/ Commit \/ SlotsChange
  \/ \E m \in net : Answer(m) \/ Receive(m)
  \/ \E p \in queue : Start(p) \/ StartFails(p)
  \/ Submitter \/ BroadcastFails \/ AnswerLost \/ Crash
  \/ RegisterCapacityOnchain \/ SubmitMerkleRootUpdate

Spec == Init /\ [][Next]_vars

=============================================================================
