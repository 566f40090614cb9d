----------------------------- MODULE TxPipeline -----------------------------
(***************************************************************************)
(* A signed transaction on its way: CheckTx decodes and prices it,         *)
(* DeliverTx checks its text and its structure, decodes it, verifies it,   *)
(* prices it again and executes what it decoded.  Nonces and balances are  *)
(* the business of Application and ProofSubmission.                        *)
(***************************************************************************)
EXTENDS TxFees

CONSTANTS
  Signed,    \* transactions signed by anybody
  Schedules, \* fee schedules of a genesis
  Built(_)   \* what this code's own builders send under a schedule

VARIABLES
  wire,   \* the transaction
  cfg,    \* the chain's fee schedule
  own,    \* this code built it
  stage,  \* "built", "pooled", "refused", "executed" or "failed"
  inner   \* what DeliverTx executes: a type and a payload

vars == <<wire, cfg, own, stage, inner>>

Nothing == [type |-> "none", tx |-> Refused]

MaxTxBytes == 10 * 1024 * 1024
MaxHexBytes == 1024 * 1024

Init ==
  /\ stage = "built" /\ inner = Nothing
  /\ cfg \in Schedules /\ FeeConfigValid(cfg)
  /\ \/ own = TRUE /\ wire \in Built(cfg)
     \/ own = FALSE /\ wire \in Signed

Decodes(w) == EnvelopeDecodes(w) /\ Decode(w.payload) # Nothing

(* check_tx: no look at the structure, only whether it decodes. *)
CheckTxAdmits(w) ==
  /\ 2 * TxSize(w) <= MaxTxBytes
  /\ Decodes(w)
  /\ Verified(w, Decode(w.payload).tx)
  /\ FeeAdmitted(w, Decode(w.payload).type, cfg)

CheckTx ==
  /\ stage = "built"
  /\ stage' = IF CheckTxAdmits(wire) THEN "pooled" ELSE "refused"
  /\ UNCHANGED <<wire, cfg, own, inner>>

(* validate_transaction_size. *)
SizeAllowed(w) == TxSize(w) <= 10 * 1024 * 1024

(* deliver_tx, steps 1 to 7. *)
TextAccepted(w) ==
  /\ 2 * TxSize(w) <= MaxTxBytes /\ TxSize(w) <= MaxHexBytes
  /\ BracketsMatch(w.payload)
  /\ SizeAllowed(w)
  /\ StructureValid(w)

(* deliver_tx from step 9 to the fee. *)
DeliverTxAccepts(w) ==
  /\ TextAccepted(w)
  /\ Decodes(w)
  /\ Verified(w, Decode(w.payload).tx)
  /\ FeeAdmitted(w, Decode(w.payload).type, cfg)

(* The block may hold a transaction that another node's CheckTx admitted.  *)
DeliverTx ==
  /\ stage \in {"built", "pooled"}
  /\ IF DeliverTxAccepts(wire)
     THEN stage' = "executed" /\ inner' = Decode(wire.payload)
     ELSE stage' = "failed" /\ UNCHANGED inner
  /\ UNCHANGED <<wire, cfg, own>>

Next == CheckTx \/ DeliverTx

Spec == Init /\ [][Next]_vars

-----------------------------------------------------------------------------


(* The fee of a proof is estimated with a signature of full length and a   *)
(* fee of 0, so it is exact unless the digits of the fee itself cross a    *)
(* kilobyte; then it is one step of the size fee short.                    *)
ProofFeeExact ==
  LET unpriced == TxSize([wire EXCEPT !.fee = Num(0)])
      crosses == \E k \in 1..4 : unpriced <= 1024 * k /\ 1024 * k < TxSize(wire)
  IN wire.fee.n + (IF crosses THEN cfg.size_fee_per_kb ELSE 0)
       = DynamicFee(wire, wire.type, cfg)


=============================================================================
