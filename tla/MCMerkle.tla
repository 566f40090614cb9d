------------------------------ MODULE MCMerkle ------------------------------
(***************************************************************************)
(* Merkle trees of one to six leaves: full ones, odd at the leaves (3, 5), *)
(* odd at a level above (5, 6), and a single leaf.                         *)
(***************************************************************************)
EXTENDS CapacityProofMerkleTree, TLC

(* Hashes are only compared. *)
HashesAlike == Permutations(Hash)
=============================================================================
