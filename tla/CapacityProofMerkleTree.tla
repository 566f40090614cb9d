---------------------- MODULE CapacityProofMerkleTree ----------------------
(***************************************************************************)
(* The Merkle tree over the chunks of a capacity file: building it, level  *)
(* by level, updating some leaves and the paths above them, generating the *)
(* proof of a leaf and verifying one, each loop of the code with one step  *)
(* for each turn.                                                          *)
(*                                                                         *)
(* A level is a function from the indices of the code, which start at 0.   *)
(* A hash stands for what it hashes: hash_pair is the pair.                *)
(***************************************************************************)
EXTENDS Integers, Sequences

CONSTANTS
  Hash,    \* hashes of chunks
  Sizes,   \* numbers of leaves
  None

ASSUME MerkleAssumption == Sizes \subseteq Nat \ {0}

VARIABLES
  pc,      \* which loop runs; "ready" between calls
  tree,    \* its levels, the leaves first
  root,
  level,   \* the level the loop is at
  dirty,   \* nodes_to_update
  leaf,    \* the index a proof is asked for
  index,   \* current_index
  proof,
  claim,   \* the leaf hash that is verified
  hash,    \* current_hash
  old,     \* history: the tree before the last update
  honest,  \* history: the proof is the one generated
  trail    \* history: the indices the proof was generated at

walk == <<level, dirty, leaf, index>>
call == <<walk, proof, claim, hash, honest, trail>>
vars == <<pc, tree, root, call, old>>

(* Mutant: the two hashes are taken in one order, whichever is left. *)
HashPairSorted(left, right) == {left, right}

HashPair(left, right) == <<left, right>>

Last(s) == s[Len(s)]

(***************************************************************************)
(* The pairs of chunks(2); an odd node at the end is hashed with itself.   *)
(***************************************************************************)
Halves(d) == {n \div 2 : n \in d}

Parents(nodes) ==
  [p \in Halves(DOMAIN nodes) |->
     HashPair(nodes[2 * p], IF 2 * p + 1 \in DOMAIN nodes THEN nodes[2 * p + 1]
                                                          ELSE nodes[2 * p])]

Init ==
  /\ \E n \in Sizes : \E leaves \in [0..(n - 1) -> Hash] : tree = <<leaves>>
  /\ pc = "build" /\ root = None /\ old = None
  /\ level = 1 /\ dirty = {} /\ leaf = 0 /\ index = 0
  /\ proof = << >> /\ claim = None /\ hash = None /\ honest = TRUE
  /\ trail = << >>

-----------------------------------------------------------------------------
BuildLevel ==
  /\ pc = "build" /\ 1 \in DOMAIN Last(tree)
  /\ tree' = Append(tree, Parents(Last(tree)))
  /\ UNCHANGED <<pc, root, call, old>>

BuildRoot ==
  /\ pc = "build" /\ 1 \notin DOMAIN Last(tree)
  /\ root' = Last(tree)[0]
  /\ pc' = "ready"
  /\ UNCHANGED <<tree, call, old>>

-----------------------------------------------------------------------------
(* update_leaves: the leaves first; of two updates of one the last stays. *)
UpdateLeaves ==
  /\ pc = "ready"
  /\ \E ids \in (SUBSET DOMAIN tree[1]) \ {{}} : \E new \in [ids -> Hash] :
       /\ tree' = [tree EXCEPT ![1] =
            [n \in DOMAIN tree[1] |-> IF n \in ids THEN new[n] ELSE tree[1][n]]]
       /\ dirty' = ids
  /\ level' = 1
  /\ old' = tree
  /\ pc' = "update"
  /\ UNCHANGED <<root, leaf, index, proof, claim, hash, honest, trail>>

Sibling(n) == IF n % 2 = 0 THEN n + 1 ELSE n - 1

(* Mutant: the last node of an odd level has no sibling and keeps its hash. *)
ParentHashAlone(nodes, n) ==
  LET even == n % 2 = 0
      left == IF even THEN nodes[n] ELSE nodes[Sibling(n)]
  IN  IF even /\ Sibling(n) \notin DOMAIN nodes THEN nodes[n]
      ELSE HashPair(left, IF even THEN nodes[Sibling(n)] ELSE nodes[n])

(* Mutant: the node that changed is taken for the left one. *)
ParentHashLeft(nodes, n) ==
  HashPair(nodes[n], IF Sibling(n) \in DOMAIN nodes THEN nodes[Sibling(n)] ELSE nodes[n])

(* What the parent of a node becomes. *)
ParentHash(nodes, n) ==
  LET even  == n % 2 = 0
      left  == IF even THEN nodes[n] ELSE nodes[Sibling(n)]
      right == IF even /\ Sibling(n) \in DOMAIN nodes THEN nodes[Sibling(n)]
                                                      ELSE nodes[n]
  IN  HashPair(left, right)

(* The level above, at the parents of the nodes that changed. *)
UpdateLevel ==
  /\ pc = "update" /\ level < Len(tree)
  /\ tree' = [tree EXCEPT ![level + 1] =
       [p \in DOMAIN tree[level + 1] |->
          IF p \in Halves(dirty)
          THEN ParentHash(tree[level], CHOOSE n \in dirty : n \div 2 = p)
          ELSE tree[level + 1][p]]]
  /\ dirty' = Halves(dirty)
  /\ level' = level + 1
  /\ UNCHANGED <<pc, root, leaf, index, proof, claim, hash, old, honest, trail>>

UpdateRoot ==
  /\ pc = "update" /\ level = Len(tree)
  /\ root' = Last(tree)[0]
  /\ dirty' = {}
  /\ pc' = "ready"
  /\ UNCHANGED <<tree, level, leaf, index, proof, claim, hash, old, honest, trail>>

-----------------------------------------------------------------------------
(* generate_proof, of any leaf. *)
GenerateProof ==
  /\ pc = "ready"
  /\ \E i \in DOMAIN tree[1] : leaf' = i /\ index' = i /\ trail' = <<i>>
  /\ level' = 1 /\ proof' = << >>
  /\ pc' = "generate"
  /\ UNCHANGED <<tree, root, dirty, claim, hash, old, honest>>

(* Mutant: an odd node at the end adds nothing to the proof. *)
GenerateStepShort ==
  /\ pc = "generate" /\ level < Len(tree)
  /\ LET nodes == tree[level]
     IN  proof' = IF Sibling(index) \in DOMAIN nodes
                  THEN Append(proof, nodes[Sibling(index)]) ELSE proof
  /\ index' = index \div 2 /\ level' = level + 1
  /\ trail' = Append(trail, index \div 2)
  /\ UNCHANGED <<pc, tree, root, dirty, leaf, claim, hash, old, honest>>

GenerateStep ==
  /\ pc = "generate" /\ level < Len(tree)
  /\ LET nodes == tree[level]
     IN  proof' = Append(proof, IF Sibling(index) \in DOMAIN nodes
                                THEN nodes[Sibling(index)] ELSE nodes[index])
  /\ index' = index \div 2 /\ level' = level + 1
  /\ trail' = Append(trail, index \div 2)
  /\ UNCHANGED <<pc, tree, root, dirty, leaf, claim, hash, old, honest>>

(***************************************************************************)
(* verify_proof, of any leaf hash for the index that was asked.  The proof *)
(* is the one generated, or has another hash in one place.                 *)
(***************************************************************************)
VerifyProof ==
  /\ pc = "generate" /\ level = Len(tree)
  /\ \E h \in Hash : claim' = h /\ hash' = h
  /\ \/ proof' = proof /\ honest' = TRUE
     \/ /\ \E k \in DOMAIN proof, h \in Hash : proof' = [proof EXCEPT ![k] = h]
        /\ honest' = FALSE
  /\ index' = leaf /\ level' = 1
  /\ pc' = "verify"
  /\ UNCHANGED <<tree, root, dirty, leaf, old, trail>>

VerifyStep ==
  /\ pc = "verify" /\ level <= Len(proof)
  /\ hash' = IF index % 2 = 0 THEN HashPair(hash, proof[level])
                              ELSE HashPair(proof[level], hash)
  /\ index' = index \div 2 /\ level' = level + 1
  /\ UNCHANGED <<pc, tree, root, dirty, leaf, proof, claim, old, honest, trail>>

(* The answer, before the next call. *)
Verdict == pc = "verify" /\ level > Len(proof)

Valid == hash = root

Return ==
  /\ Verdict
  /\ pc' = "ready"
  /\ level' = 1 /\ leaf' = 0 /\ index' = 0
  /\ proof' = << >> /\ claim' = None /\ hash' = None /\ honest' = TRUE
  /\ trail' = << >>
  /\ UNCHANGED <<tree, root, dirty, old>>

Next ==
  \/ BuildLevel \/ BuildRoot
  \/ UpdateLeaves \/ UpdateLevel \/ UpdateRoot
  \/ GenerateProof \/ GenerateStep
  \/ VerifyProof \/ VerifyStep \/ Return

Spec == Init /\ [][Next]_vars

-----------------------------------------------------------------------------
(* Every level is the pairs of the one below, the last is the root alone. *)
Built(t) ==
  /\ \A l \in 1..(Len(t) - 1) : t[l + 1] = Parents(t[l])
  /\ DOMAIN Last(t) = {0}

(***************************************************************************)
(* Between calls the tree is the one that build makes of the leaves, after *)
(* any number of incremental updates of any of them.                       *)
(***************************************************************************)
UpdateIsRebuild == pc = "ready" => Built(tree) /\ root = Last(tree)[0]

(***************************************************************************)
(* The root changes with the leaves: what delete_content_from_slots takes  *)
(* for "unchanged" is unchanged.                                           *)
(***************************************************************************)
RootTellsLeaves ==
  pc = "ready" /\ old # None => (root = Last(old)[0] <=> tree[1] = old[1])

(* A leaf hash that verifies for an index is the leaf's, honest proof or not. *)
ProofsSound == Verdict /\ Valid => claim = tree[1][leaf]

(* The generated proof of a leaf verifies. *)
ProofsComplete == Verdict /\ honest /\ claim = tree[1][leaf] => Valid

-----------------------------------------------------------------------------
Elements(s) == {s[k] : k \in DOMAIN s}

IsSequence(s) == s \in Seq(Elements(s))

(* The indices of a level: all up to the last. *)
Prefix(d) == 0 \in d /\ \A n \in d : n \in Nat /\ 0..n \subseteq d

(* A tree whose levels have the sizes they should, whatever the nodes. *)
Shape(t) ==
  /\ IsSequence(t) /\ t # << >>
  /\ \A l \in DOMAIN t : /\ Prefix(DOMAIN t[l])
                         /\ t[l] = [n \in DOMAIN t[l] |-> t[l][n]]
  /\ \A l \in 1..(Len(t) - 1) : DOMAIN t[l + 1] = Halves(DOMAIN t[l])

(* Up to level k the nodes are the pairs of those below. *)
BuiltUpTo(t, k) == \A l \in 1..(k - 1) : t[l + 1] = Parents(t[l])

(* Above the level the update is at, only parents of what changed are not. *)
UpdateInv ==
  /\ level \in DOMAIN tree /\ dirty \subseteq DOMAIN tree[level]
  /\ BuiltUpTo(tree, level)
  /\ \A l \in level..(Len(tree) - 1) : \A p \in DOMAIN tree[l + 1] :
       l > level \/ p \notin Halves(dirty) => tree[l + 1][p] = Parents(tree[l])[p]

(* The trees before and after an update are the same at a level or at none. *)
OldInv ==
  /\ Shape(old) /\ Built(old) /\ Len(old) = Len(tree)
  /\ \A l \in DOMAIN tree : DOMAIN old[l] = DOMAIN tree[l]
  /\ pc = "update" =>
       \A l \in 1..level : tree[l] = old[l] <=> tree[1] = old[1]
  /\ pc # "update" => (root = Last(old)[0] <=> tree[1] = old[1])

(* What generate_proof adds at a level. *)
SiblingHash(nodes, n) ==
  IF Sibling(n) \in DOMAIN nodes THEN nodes[Sibling(n)] ELSE nodes[n]

GenerateInv ==
  /\ level \in DOMAIN tree /\ leaf \in DOMAIN tree[1]
  /\ index \in DOMAIN tree[level]
  /\ IsSequence(proof) /\ Len(proof) = level - 1
  /\ IsSequence(trail) /\ Len(trail) = level
  /\ trail[1] = leaf /\ trail[level] = index
  /\ \A l \in 1..(level - 1) : /\ trail[l + 1] = trail[l] \div 2
                               /\ proof[l] = SiblingHash(tree[l], trail[l])

(* The hash so far is that of the node it stands for, or wrong for good. *)
VerifyInv ==
  /\ level \in DOMAIN tree /\ leaf \in DOMAIN tree[1]
  /\ index \in DOMAIN tree[level]
  /\ IsSequence(proof) /\ Len(proof) = Len(tree) - 1
  /\ IsSequence(trail) /\ Len(trail) = Len(tree)
  /\ trail[level] = index
  /\ \A l \in 1..(Len(tree) - 1) :
       /\ trail[l + 1] = trail[l] \div 2
       /\ honest => proof[l] = SiblingHash(tree[l], trail[l])
  /\ claim # tree[1][leaf] => hash # tree[level][index]
  /\ honest /\ claim = tree[1][leaf] => hash = tree[level][index]

(***************************************************************************)
(* The inductive invariant: what holds at each turn of the loops of build, *)
(* update_leaves, generate_proof and verify_proof.                         *)
(***************************************************************************)
MerkleInv ==
  /\ pc \in {"build", "ready", "update", "generate", "verify"}
  /\ Shape(tree)
  /\ pc = "build" => BuiltUpTo(tree, Len(tree)) /\ old = None
  /\ pc # "build" => DOMAIN Last(tree) = {0}
  /\ pc = "update" => UpdateInv
  /\ pc \in {"ready", "generate", "verify"} =>
       BuiltUpTo(tree, Len(tree)) /\ root = Last(tree)[0]
  /\ old # None => OldInv
  /\ pc = "generate" => GenerateInv
  /\ pc = "verify" => VerifyInv
=============================================================================
