------------------------- MODULE MCProofSubmission -------------------------
(* A round of capacity challenges, for TLC. *)
EXTENDS ProofSubmissionProps
=============================================================================
