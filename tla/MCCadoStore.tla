---------------------------- MODULE MCCadoStore ----------------------------
EXTENDS CadoStore

Account == CadoPath("account", "a1")
Epoch == CadoPath("epoch_record", "e1")
Chunk1 == CadoPath("snapshot_chunk", "c1")
Chunk2 == CadoPath("snapshot_chunk", "c2")

MCPath == {Account, Epoch, Chunk1, Chunk2}

(* The two chunks may have equal contents, and one of them another. *)
MCContents == [p \in MCPath |-> IF p \in {Chunk2, Epoch} THEN {1} ELSE {1, 2}]
=============================================================================
