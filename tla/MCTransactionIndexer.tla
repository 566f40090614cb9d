------------------------ MODULE MCTransactionIndexer ------------------------
(***************************************************************************)
(* Instance of the indexer: a proof of a provider and a report that it     *)
(* failed one, each from a validator of its own.                           *)
(***************************************************************************)
EXTENDS TransactionIndexerProps, TLC

CONSTANTS proof, report, v1, v2, p

MCSender   == proof :> v1 @@ report :> v2
MCType     == proof :> "VerifiedProof" @@ report :> "VerifiedProof"
MCProvider == proof :> p @@ report :> p
=============================================================================
