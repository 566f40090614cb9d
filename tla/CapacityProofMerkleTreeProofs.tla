------------------- MODULE CapacityProofMerkleTreeProofs -------------------
(***************************************************************************)
(* That MerkleInv is inductive, for any number of leaves, and what follows *)
(* from it.                                                                *)
(***************************************************************************)
EXTENDS CapacityProofMerkleTree, TLAPS

(* A sequence is one over its own elements. *)
LEMMA OwnElements ==
  ASSUME NEW S, NEW s \in Seq(S)
  PROVE  IsSequence(s)
<1>1. s \in [1..Len(s) -> S] /\ Len(s) \in Nat
  OBVIOUS
<1>2. s \in [1..Len(s) -> Elements(s)]
  BY <1>1 DEF Elements
<1> QED
  BY <1>1, <1>2 DEF IsSequence

(* Appending to and replacing in a sequence give a sequence. *)
LEMMA SequenceFacts ==
  ASSUME NEW s, IsSequence(s), NEW x
  PROVE  /\ Len(s) \in Nat /\ DOMAIN s = 1..Len(s)
         /\ IsSequence(Append(s, x)) /\ Len(Append(s, x)) = Len(s) + 1
         /\ Append(s, x)[Len(s) + 1] = x
         /\ \A k \in 1..Len(s) : Append(s, x)[k] = s[k]
         /\ \A k \in 1..Len(s) :
              /\ IsSequence([s EXCEPT ![k] = x])
              /\ Len([s EXCEPT ![k] = x]) = Len(s)
              /\ [s EXCEPT ![k] = x][k] = x
              /\ \A j \in 1..Len(s) : j # k => [s EXCEPT ![k] = x][j] = s[j]
<1> DEFINE S == Elements(s) \cup {x}
<1>1. s \in Seq(Elements(s))
  BY DEF IsSequence
<1>2. s \in Seq(S) /\ x \in S
  BY <1>1
<1> HIDE DEF S
<1>3. Append(s, x) \in Seq(S)
  BY <1>2
<1>4. \A k \in 1..Len(s) : [s EXCEPT ![k] = x] \in Seq(S)
  BY <1>2
<1>5. IsSequence(Append(s, x)) /\ \A k \in 1..Len(s) : IsSequence([s EXCEPT ![k] = x])
  BY <1>3, <1>4, OwnElements
<1> QED
  BY <1>2, <1>5

(* A level that is not the last has one above. *)
LEMMA Below ==
  ASSUME NEW n \in Nat, NEW l \in 1..n, l # n
  PROVE  l \in 1..(n - 1) /\ l + 1 \in 1..n
OBVIOUS

-----------------------------------------------------------------------------
(* The parents of the indices up to some are the indices up to its half. *)
LEMMA HalvesPrefix ==
  ASSUME NEW d, Prefix(d)
  PROVE  /\ Prefix(Halves(d))
         /\ \A p \in Halves(d) : p \in Nat /\ 2 * p \in d
         /\ \A n \in d : n \in Nat /\ n \div 2 \in Halves(d)
         /\ \A p : p \in Halves(d) <=> p \in Nat /\ 2 * p \in d
<1>1. \A n \in d : n \in Nat /\ \A m \in Nat : m <= n => m \in d
  BY DEF Prefix
<1>2. \A p \in Halves(d) : p \in Nat /\ 2 * p \in d
  <2> SUFFICES ASSUME NEW n \in d PROVE n \div 2 \in Nat /\ 2 * (n \div 2) \in d
    BY DEF Halves
  <2>1. n \in Nat /\ n \div 2 \in Nat /\ 2 * (n \div 2) <= n
    BY <1>1
  <2> QED
    BY <1>1, <2>1
<1>3. \A p \in Nat : 2 * p \in d => p \in Halves(d)
  <2> SUFFICES ASSUME NEW p \in Nat, 2 * p \in d PROVE p \in Halves(d)
    OBVIOUS
  <2>1. (2 * p) \div 2 = p
    OBVIOUS
  <2> QED
    BY <2>1 DEF Halves
<1>4. 0 \in Halves(d)
  BY <1>3 DEF Prefix
<1>5. \A p \in Halves(d) : \A q \in 0..p : q \in Halves(d)
  <2> SUFFICES ASSUME NEW p \in Halves(d), NEW q \in 0..p PROVE q \in Halves(d)
    OBVIOUS
  <2>1. p \in Nat /\ 2 * p \in d /\ q \in Nat /\ 2 * q \in Nat /\ 2 * q <= 2 * p
    BY <1>2
  <2>2. 2 * q \in d
    BY <1>1, <2>1
  <2> QED
    BY <1>3, <2>1, <2>2
<1>6. \A n \in d : n \in Nat /\ n \div 2 \in Halves(d)
  BY <1>1 DEF Halves
<1> QED
  BY <1>2, <1>3, <1>4, <1>5, <1>6 DEF Prefix

(* A node is the left or the right one of its parent's pair. *)
LEMMA ParentsFacts ==
  ASSUME NEW nodes, Prefix(DOMAIN nodes), NEW n \in DOMAIN nodes
  PROVE  /\ n \in Nat /\ n \div 2 \in DOMAIN Parents(nodes)
         /\ n % 2 = 0 => Parents(nodes)[n \div 2] = HashPair(nodes[n], SiblingHash(nodes, n))
         /\ n % 2 # 0 => /\ Parents(nodes)[n \div 2] = HashPair(nodes[n - 1], nodes[n])
                         /\ SiblingHash(nodes, n) = nodes[n - 1]
                         /\ n - 1 \in DOMAIN nodes
<1>1. n \in Nat /\ n \div 2 \in Halves(DOMAIN nodes)
  BY HalvesPrefix
<1> DEFINE p == n \div 2
<1>2. Parents(nodes)[p] =
        HashPair(nodes[2 * p], IF 2 * p + 1 \in DOMAIN nodes THEN nodes[2 * p + 1]
                                                             ELSE nodes[2 * p])
  BY <1>1 DEF Parents
<1>3. CASE n % 2 = 0
  <2>1. 2 * p = n
    BY <1>1, <1>3
  <2> QED
    BY <1>1, <1>2, <1>3, <2>1 DEF Parents, SiblingHash, Sibling
<1>4. CASE n % 2 # 0
  <2>1. 2 * p + 1 = n /\ 2 * p = n - 1 /\ n - 1 \in 0..n
    BY <1>1, <1>4
  <2>2. n - 1 \in DOMAIN nodes
    BY <2>1 DEF Prefix
  <2> QED
    BY <1>1, <1>2, <1>4, <2>1, <2>2 DEF Parents, SiblingHash, Sibling
<1> QED
  BY <1>3, <1>4

(* What update_leaves computes for a parent is what build does. *)
LEMMA ParentHashFacts ==
  ASSUME NEW nodes, Prefix(DOMAIN nodes), NEW n \in DOMAIN nodes
  PROVE  ParentHash(nodes, n) = Parents(nodes)[n \div 2]
<1>1. CASE n % 2 = 0
  BY <1>1, ParentsFacts DEF ParentHash, SiblingHash
<1>2. CASE n % 2 # 0
  BY <1>2, ParentsFacts DEF ParentHash, Sibling
<1> QED
  BY <1>1, <1>2

(* A parent whose children are the same is the same. *)
LEMMA SameChildren ==
  ASSUME NEW a, NEW b, DOMAIN a = DOMAIN b, Prefix(DOMAIN a), NEW p \in Halves(DOMAIN a),
         \A n \in DOMAIN a : n \div 2 = p => a[n] = b[n]
  PROVE  Parents(a)[p] = Parents(b)[p]
<1>1. p \in Nat /\ 2 * p \in DOMAIN a
  BY HalvesPrefix
<1>2. (2 * p) \div 2 = p /\ (2 * p + 1) \div 2 = p
  BY <1>1
<1>3. a[2 * p] = b[2 * p] /\ (2 * p + 1 \in DOMAIN a => a[2 * p + 1] = b[2 * p + 1])
  BY <1>1, <1>2
<1> QED
  BY <1>3 DEF Parents

(* Two levels of the same size with the same pairs are the same. *)
LEMMA ParentsInjective ==
  ASSUME NEW a, NEW b, DOMAIN a = DOMAIN b, Prefix(DOMAIN a),
         a = [n \in DOMAIN a |-> a[n]], b = [n \in DOMAIN b |-> b[n]],
         Parents(a) = Parents(b)
  PROVE  a = b
<1> SUFFICES ASSUME NEW n \in DOMAIN a PROVE a[n] = b[n]
  OBVIOUS
<1>1. Parents(a)[n \div 2] = Parents(b)[n \div 2]
  OBVIOUS
<1>2. CASE n % 2 = 0
  BY <1>1, <1>2, ParentsFacts DEF HashPair
<1>3. CASE n % 2 # 0
  BY <1>1, <1>3, ParentsFacts DEF HashPair
<1> QED
  BY <1>2, <1>3
-----------------------------------------------------------------------------
(* A tree of leaves alone has the shape. *)
LEMMA InitInv == Init => MerkleInv
<1> SUFFICES ASSUME Init PROVE MerkleInv
  OBVIOUS
<1>1. PICK n \in Sizes : \E leaves \in [0..(n - 1) -> Hash] : tree = <<leaves>>
  BY DEF Init
<1>2. PICK leaves \in [0..(n - 1) -> Hash] : tree = <<leaves>>
  BY <1>1
<1>3. n \in Nat /\ n > 0
  BY MerkleAssumption
<1>4. tree \in Seq({leaves}) /\ Len(tree) = 1 /\ tree[1] = leaves /\ DOMAIN tree = {1}
  BY <1>2
<1>5. IsSequence(tree)
  BY <1>4, OwnElements
<1>6. Prefix(DOMAIN leaves)
  BY <1>3 DEF Prefix
<1>7. Shape(tree)
  <2>1. leaves = [k \in DOMAIN leaves |-> leaves[k]]
    OBVIOUS
  <2>2. tree # << >>
    BY <1>2
  <2>3. \A l \in 1..(Len(tree) - 1) : FALSE
    BY <1>4
  <2>4. \A l \in DOMAIN tree : /\ Prefix(DOMAIN tree[l])
                               /\ tree[l] = [k \in DOMAIN tree[l] |-> tree[l][k]]
    BY <1>4, <1>6, <2>1
  <2> QED
    BY <1>5, <2>2, <2>3, <2>4 DEF Shape
<1> QED
  BY <1>4, <1>7 DEF Init, MerkleInv, BuiltUpTo

(* The facts about a tree of the right shape that the steps use. *)
LEMMA ShapeFacts ==
  ASSUME NEW t, Shape(t)
  PROVE  /\ Len(t) \in Nat /\ Len(t) > 0 /\ DOMAIN t = 1..Len(t) /\ Len(t) \in DOMAIN t
         /\ 1 \in DOMAIN t
         /\ \A l \in 1..(Len(t) - 1) : l \in DOMAIN t /\ l + 1 \in DOMAIN t
<1>1. t \in Seq(Elements(t)) /\ t # << >>
  BY DEF Shape, IsSequence
<1> QED
  BY <1>1

(* The parents of a level fit above it. *)
LEMMA ParentsShape ==
  ASSUME NEW nodes, Prefix(DOMAIN nodes)
  PROVE  /\ DOMAIN Parents(nodes) = Halves(DOMAIN nodes)
         /\ Prefix(DOMAIN Parents(nodes))
         /\ Parents(nodes) = [n \in DOMAIN Parents(nodes) |-> Parents(nodes)[n]]
BY HalvesPrefix DEF Parents

(* A level is added to the tree, or the last one is the root. *)
LEMMA BuildInv ==
  ASSUME MerkleInv, BuildLevel \/ BuildRoot
  PROVE  MerkleInv'
<1> USE DEF call, walk
<1>1. Shape(tree) /\ pc = "build" /\ BuiltUpTo(tree, Len(tree)) /\ old = None
  BY DEF MerkleInv, BuildLevel, BuildRoot
<1>2. /\ Len(tree) \in Nat /\ Len(tree) > 0 /\ DOMAIN tree = 1..Len(tree)
      /\ Len(tree) \in DOMAIN tree
  BY <1>1, ShapeFacts
<1>3. Prefix(DOMAIN Last(tree))
  BY <1>1, <1>2 DEF Shape, Last
<1>4. CASE BuildLevel
  <2> DEFINE x == Parents(Last(tree))
  <2>1. tree' = Append(tree, x) /\ UNCHANGED <<pc, root, call, old>>
    BY <1>4 DEF BuildLevel
  <2>2. /\ DOMAIN x = Halves(DOMAIN Last(tree)) /\ Prefix(DOMAIN x)
        /\ x = [n \in DOMAIN x |-> x[n]]
    BY <1>3, ParentsShape
  <2>3. /\ IsSequence(tree') /\ Len(tree') = Len(tree) + 1 /\ tree'[Len(tree) + 1] = x
        /\ \A k \in 1..Len(tree) : tree'[k] = tree[k]
    BY <1>1, <2>1, SequenceFacts DEF Shape
  <2>4. DOMAIN tree' = 1..(Len(tree) + 1) /\ tree' # << >>
    BY <2>3, <1>2, SequenceFacts
  <2>5. x = Parents(tree[Len(tree)]) /\ DOMAIN x = Halves(DOMAIN tree[Len(tree)])
    BY <2>2 DEF Last
  <2> HIDE DEF x
  <2>6. \A l \in DOMAIN tree' : Prefix(DOMAIN tree'[l])
                                /\ tree'[l] = [n \in DOMAIN tree'[l] |-> tree'[l][n]]
    <3> SUFFICES ASSUME NEW l \in DOMAIN tree'
                 PROVE  Prefix(DOMAIN tree'[l])
                        /\ tree'[l] = [n \in DOMAIN tree'[l] |-> tree'[l][n]]
      OBVIOUS
    <3>1. CASE l = Len(tree) + 1
      BY <2>2, <2>3, <3>1
    <3>2. CASE l # Len(tree) + 1
      BY <1>1, <1>2, <2>3, <2>4, <3>2 DEF Shape
    <3> QED
      BY <3>1, <3>2
  <2>7. \A l \in 1..Len(tree) : /\ tree'[l + 1] = Parents(tree'[l])
                                /\ DOMAIN tree'[l + 1] = Halves(DOMAIN tree'[l])
    <3> SUFFICES ASSUME NEW l \in 1..Len(tree)
                 PROVE  /\ tree'[l + 1] = Parents(tree'[l])
                        /\ DOMAIN tree'[l + 1] = Halves(DOMAIN tree'[l])
      OBVIOUS
    <3>1. CASE l = Len(tree)
      BY <2>3, <2>5, <3>1, <1>2
    <3>2. CASE l # Len(tree)
      <4>1. l \in 1..(Len(tree) - 1) /\ l + 1 \in 1..Len(tree)
        BY <1>2, <3>2, Below
      <4>2. tree'[l] = tree[l] /\ tree'[l + 1] = tree[l + 1]
        BY <2>3, <4>1
      <4>3. tree[l + 1] = Parents(tree[l]) /\ DOMAIN tree[l + 1] = Halves(DOMAIN tree[l])
        BY <1>1, <4>1 DEF Shape, BuiltUpTo
      <4> QED
        BY <4>2, <4>3
    <3> QED
      BY <3>1, <3>2
  <2>8. Shape(tree)' /\ BuiltUpTo(tree, Len(tree))'
    BY <1>2, <2>3, <2>4, <2>6, <2>7 DEF Shape, BuiltUpTo
  <2> QED
    BY <1>1, <2>1, <2>8 DEF MerkleInv
<1>5. CASE BuildRoot
  <2>1. /\ UNCHANGED <<tree, call, old>> /\ pc' = "ready" /\ root' = Last(tree)[0]
        /\ 1 \notin DOMAIN Last(tree)
    BY <1>5 DEF BuildRoot
  <2>2. DOMAIN Last(tree) = {0}
    <3>1. \A n \in DOMAIN Last(tree) : n = 0
      BY <1>3, <2>1 DEF Prefix
    <3> QED
      BY <1>3, <3>1 DEF Prefix
  <2> QED
    BY <1>1, <2>1, <2>2 DEF MerkleInv, Last
<1> QED
  BY <1>4, <1>5

-----------------------------------------------------------------------------
(* An update of leaves leaves the shape, and their parents to be updated. *)
LEMMA UpdateLeavesInv ==
  ASSUME MerkleInv, UpdateLeaves
  PROVE  MerkleInv'
<1>1. /\ Shape(tree) /\ pc = "ready" /\ BuiltUpTo(tree, Len(tree))
      /\ DOMAIN Last(tree) = {0} /\ root = Last(tree)[0]
  BY DEF MerkleInv, UpdateLeaves
<1>2. /\ Len(tree) \in Nat /\ Len(tree) > 0 /\ DOMAIN tree = 1..Len(tree)
      /\ 1 \in DOMAIN tree
  BY <1>1, ShapeFacts
<1>3. PICK ids \in (SUBSET DOMAIN tree[1]) \ {{}} : \E new \in [ids -> Hash] :
        /\ tree' = [tree EXCEPT ![1] =
             [n \in DOMAIN tree[1] |-> IF n \in ids THEN new[n] ELSE tree[1][n]]]
        /\ dirty' = ids
  BY DEF UpdateLeaves
<1>4. PICK new \in [ids -> Hash] :
        /\ tree' = [tree EXCEPT ![1] =
             [n \in DOMAIN tree[1] |-> IF n \in ids THEN new[n] ELSE tree[1][n]]]
        /\ dirty' = ids
  BY <1>3
<1> DEFINE x == [n \in DOMAIN tree[1] |-> IF n \in ids THEN new[n] ELSE tree[1][n]]
<1>5. /\ DOMAIN x = DOMAIN tree[1] /\ x = [n \in DOMAIN x |-> x[n]]
      /\ \A n \in DOMAIN x : n \notin ids => x[n] = tree[1][n]
  OBVIOUS
<1>6. /\ tree' = [tree EXCEPT ![1] = x] /\ dirty' = ids
      /\ level' = 1 /\ old' = tree /\ pc' = "update" /\ root' = root
  BY <1>4 DEF UpdateLeaves
<1> HIDE DEF x
<1>7. /\ IsSequence(tree') /\ Len(tree') = Len(tree) /\ tree'[1] = x
      /\ \A j \in 1..Len(tree) : j # 1 => tree'[j] = tree[j]
  BY <1>1, <1>2, <1>6, SequenceFacts DEF Shape
<1>8. DOMAIN tree' = DOMAIN tree /\ tree' # << >>
  BY <1>2, <1>6, <1>7
<1>9. \A l \in DOMAIN tree : DOMAIN tree'[l] = DOMAIN tree[l]
  BY <1>2, <1>5, <1>7
<1>10. Shape(tree')
  <2>1. \A l \in DOMAIN tree' : /\ Prefix(DOMAIN tree'[l])
                                /\ tree'[l] = [n \in DOMAIN tree'[l] |-> tree'[l][n]]
    BY <1>1, <1>2, <1>5, <1>7, <1>8, <1>9 DEF Shape
  <2>2. \A l \in 1..(Len(tree') - 1) : DOMAIN tree'[l + 1] = Halves(DOMAIN tree'[l])
    BY <1>1, <1>2, <1>7, <1>9, ShapeFacts DEF Shape
  <2> QED
    BY <1>7, <1>8, <2>1, <2>2 DEF Shape
<1>11. UpdateInv'
  <2>1. \A l \in 1..(Len(tree) - 1) : tree[l + 1] = Parents(tree[l])
    BY <1>1 DEF BuiltUpTo
  <2>2. \A l \in 2..(Len(tree) - 1) : tree'[l + 1] = Parents(tree'[l])
    BY <1>2, <1>7, <2>1
  <2>3. ASSUME 1 <= Len(tree) - 1, NEW p \in DOMAIN tree'[2], p \notin Halves(ids)
        PROVE  tree'[2][p] = Parents(tree'[1])[p]
    <3>1. tree'[2] = tree[2] /\ tree[2] = Parents(tree[1])
      BY <1>2, <1>7, <2>1, <2>3
    <3>2. Prefix(DOMAIN tree[1]) /\ p \in Halves(DOMAIN tree[1])
      BY <1>1, <1>2, <2>3, <3>1 DEF Shape, Parents
    <3>3. \A n \in DOMAIN tree[1] : n \div 2 = p => tree[1][n] = x[n]
      BY <2>3, <1>5 DEF Halves
    <3>4. Parents(tree[1])[p] = Parents(x)[p]
      BY <3>2, <3>3, <1>5, SameChildren
    <3> QED
      BY <3>1, <3>4, <1>7
  <2>4. \A l \in 1..(Len(tree) - 1) : \A p \in DOMAIN tree'[l + 1] :
          l > 1 \/ p \notin Halves(ids) => tree'[l + 1][p] = Parents(tree'[l])[p]
    BY <2>2, <2>3
  <2>5. level' \in DOMAIN tree' /\ dirty' \subseteq DOMAIN tree'[1] /\ 1..(level' - 1) = {}
    BY <1>2, <1>3, <1>5, <1>6, <1>7, <1>8
  <2>6. \A l \in level'..(Len(tree') - 1) : \A p \in DOMAIN tree'[l + 1] :
          l > level' \/ p \notin Halves(dirty') => tree'[l + 1][p] = Parents(tree'[l])[p]
    BY <1>6, <1>7, <2>4
  <2> QED
    BY <1>6, <2>5, <2>6 DEF UpdateInv, BuiltUpTo
<1>12. OldInv'
  <2>1. Built(tree)
    BY <1>1 DEF Built, BuiltUpTo
  <2> QED
    BY <1>1, <1>6, <1>7, <1>8, <1>9, <2>1 DEF OldInv
<1>13. DOMAIN Last(tree') = {0}
  BY <1>1, <1>2, <1>7, <1>9 DEF Last
<1> QED
  BY <1>6, <1>10, <1>11, <1>12, <1>13 DEF MerkleInv

(* The level above becomes the pairs of this one. *)
LEMMA UpdateLevelInv ==
  ASSUME MerkleInv, UpdateLevel
  PROVE  MerkleInv'
<1> DEFINE k == level
<1> DEFINE x == [p \in DOMAIN tree[k + 1] |->
                   IF p \in Halves(dirty)
                   THEN ParentHash(tree[k], CHOOSE n \in dirty : n \div 2 = p)
                   ELSE tree[k + 1][p]]
<1>1. /\ Shape(tree) /\ pc = "update" /\ DOMAIN Last(tree) = {0} /\ UpdateInv
      /\ old # None => OldInv
  BY DEF MerkleInv, UpdateLevel
<1>2. /\ tree' = [tree EXCEPT ![k + 1] = x] /\ dirty' = Halves(dirty) /\ level' = k + 1
      /\ UNCHANGED <<pc, root, old>> /\ k < Len(tree)
  BY DEF UpdateLevel
<1>3. Len(tree) \in Nat /\ DOMAIN tree = 1..Len(tree) /\ k \in 1..Len(tree)
  BY <1>1, ShapeFacts DEF UpdateInv
<1>4. k \in 1..(Len(tree) - 1) /\ k + 1 \in 1..Len(tree) /\ k \in Nat /\ k # k + 1 /\ 1 # k + 1
  BY <1>2, <1>3
<1>5. /\ Prefix(DOMAIN tree[k]) /\ Prefix(DOMAIN tree[k + 1])
      /\ DOMAIN tree[k + 1] = Halves(DOMAIN tree[k]) /\ dirty \subseteq DOMAIN tree[k]
  BY <1>1, <1>3, <1>4 DEF Shape, UpdateInv
<1>6. /\ DOMAIN x = DOMAIN tree[k + 1] /\ x = [n \in DOMAIN x |-> x[n]]
      /\ \A p \in DOMAIN tree[k + 1] : p \notin Halves(dirty) => x[p] = tree[k + 1][p]
  OBVIOUS
<1>7. x = Parents(tree[k])
  <2>1. DOMAIN Parents(tree[k]) = DOMAIN x
        /\ Parents(tree[k]) = [n \in DOMAIN x |-> Parents(tree[k])[n]]
    BY <1>5, <1>6, ParentsShape
  <2>2. ASSUME NEW p \in DOMAIN x PROVE x[p] = Parents(tree[k])[p]
    <3>1. CASE p \in Halves(dirty)
      <4> DEFINE n == CHOOSE n \in dirty : n \div 2 = p
      <4>1. n \in dirty /\ n \div 2 = p
        BY <3>1 DEF Halves
      <4>2. x[p] = ParentHash(tree[k], n)
        BY <2>2, <3>1
      <4> HIDE DEF n
      <4> QED
        BY <1>5, <4>1, <4>2, ParentHashFacts
    <3>2. CASE p \notin Halves(dirty)
      <4>1. k \in level..(Len(tree) - 1)
        BY <1>3, <1>4
      <4> QED
        BY <1>1, <1>6, <3>2, <4>1 DEF UpdateInv
    <3> QED
      BY <3>1, <3>2
  <2> HIDE DEF x
  <2> QED
    BY <2>1, <2>2, <1>6
<1> HIDE DEF x, k
<1>8. /\ IsSequence(tree') /\ Len(tree') = Len(tree) /\ tree'[k + 1] = x
      /\ \A j \in 1..Len(tree) : j # k + 1 => tree'[j] = tree[j]
  BY <1>1, <1>2, <1>4, SequenceFacts DEF Shape
<1>9. DOMAIN tree' = DOMAIN tree /\ tree' # << >>
  BY <1>2, <1>3, <1>4, <1>8
<1>10. \A l \in DOMAIN tree : DOMAIN tree'[l] = DOMAIN tree[l]
  BY <1>3, <1>6, <1>8
<1>11. 1 \in DOMAIN tree /\ tree'[1] = tree[1] /\ tree'[k] = tree[k]
  BY <1>3, <1>4, <1>8
<1>12. Shape(tree')
  <2>1. \A l \in DOMAIN tree' : /\ Prefix(DOMAIN tree'[l])
                                /\ tree'[l] = [n \in DOMAIN tree'[l] |-> tree'[l][n]]
    BY <1>1, <1>3, <1>6, <1>8, <1>9, <1>10 DEF Shape
  <2>2. \A l \in 1..(Len(tree') - 1) : DOMAIN tree'[l + 1] = Halves(DOMAIN tree'[l])
    BY <1>1, <1>8, <1>10, ShapeFacts DEF Shape
  <2> QED
    BY <1>8, <1>9, <2>1, <2>2 DEF Shape
<1>13. BuiltUpTo(tree', k + 1)
  <2> SUFFICES ASSUME NEW l \in 1..((k + 1) - 1) PROVE tree'[l + 1] = Parents(tree'[l])
    BY DEF BuiltUpTo
  <2>1. CASE l = k
    BY <1>7, <1>8, <1>11, <2>1
  <2>2. CASE l # k
    <3>1. /\ l \in 1..(k - 1) /\ l \in 1..Len(tree) /\ l + 1 \in 1..Len(tree)
          /\ l # k + 1 /\ l + 1 # k + 1
      BY <1>3, <1>4, <2>2
    <3>2. tree[l + 1] = Parents(tree[l])
      BY <1>1, <3>1 DEF UpdateInv, BuiltUpTo, k
    <3> QED
      BY <1>8, <3>1, <3>2
  <2> QED
    BY <2>1, <2>2
<1>14. ASSUME NEW l \in (k + 1)..(Len(tree) - 1), NEW p \in DOMAIN tree'[l + 1],
              l > k + 1 \/ p \notin Halves(Halves(dirty))
       PROVE  tree'[l + 1][p] = Parents(tree'[l])[p]
  <2>1. /\ l \in level..(Len(tree) - 1) /\ l > level /\ l \in 1..(Len(tree) - 1)
        /\ l \in 1..Len(tree) /\ l + 1 \in 1..Len(tree) /\ l + 1 # k + 1
    BY <1>3, <1>4 DEF k
  <2>2. tree'[l + 1] = tree[l + 1]
    BY <1>8, <2>1
  <2>3. tree[l + 1][p] = Parents(tree[l])[p]
    BY <1>1, <1>14, <2>1, <2>2 DEF UpdateInv
  <2>4. CASE l = k + 1
    <3>1. p \in Halves(DOMAIN tree[k + 1])
      BY <1>1, <2>1, <2>2, <2>4, <1>14 DEF Shape
    <3>2. \A n \in DOMAIN tree[k + 1] : n \div 2 = p => tree[k + 1][n] = x[n]
      BY <1>6, <1>14, <2>4 DEF Halves
    <3>3. Parents(tree[k + 1])[p] = Parents(x)[p]
      BY <1>5, <1>6, <3>1, <3>2, SameChildren
    <3> QED
      BY <1>8, <2>2, <2>3, <2>4, <3>3
  <2>5. CASE l # k + 1
    BY <1>8, <2>1, <2>2, <2>3, <2>5
  <2> QED
    BY <2>4, <2>5
<1>15. UpdateInv'
  <2>1. level' \in DOMAIN tree'
    BY <1>2, <1>3, <1>4, <1>9
  <2>2. dirty' \subseteq DOMAIN tree'[k + 1]
    BY <1>2, <1>5, <1>6, <1>8 DEF Halves
  <2>3. \A l \in level'..(Len(tree') - 1) : \A p \in DOMAIN tree'[l + 1] :
          l > level' \/ p \notin Halves(dirty') => tree'[l + 1][p] = Parents(tree'[l])[p]
    BY <1>2, <1>8, <1>14
  <2> QED
    BY <1>2, <1>13, <2>1, <2>2, <2>3 DEF UpdateInv
<1>16. ASSUME old # None PROVE OldInv'
  <2>1. /\ OldInv /\ Shape(old) /\ Built(old) /\ Len(old) = Len(tree)
        /\ \A l \in DOMAIN tree : DOMAIN old[l] = DOMAIN tree[l]
    BY <1>1, <1>16 DEF OldInv
  <2>2. \A l \in 1..k : tree[l] = old[l] <=> tree[1] = old[1]
    BY <1>1, <2>1 DEF OldInv, k
  <2>3. old[k + 1] = Parents(old[k]) /\ DOMAIN old[k] = DOMAIN tree[k]
    BY <1>3, <1>4, <2>1 DEF Built
  <2>4. /\ old[k] = [n \in DOMAIN old[k] |-> old[k][n]]
        /\ tree[k] = [n \in DOMAIN tree[k] |-> tree[k][n]]
    BY <1>1, <1>3, <1>4, <2>1, ShapeFacts DEF Shape
  <2>5. tree'[k + 1] = old[k + 1] <=> tree[k] = old[k]
    BY <1>5, <1>7, <1>8, <2>3, <2>4, ParentsInjective
  <2>6. \A l \in 1..(k + 1) : tree'[l] = old[l] <=> tree'[1] = old[1]
    <3> SUFFICES ASSUME NEW l \in 1..(k + 1) PROVE tree'[l] = old[l] <=> tree'[1] = old[1]
      OBVIOUS
    <3>1. k \in 1..k
      BY <1>4
    <3>2. CASE l = k + 1
      BY <1>11, <2>2, <2>5, <3>1, <3>2
    <3>3. CASE l # k + 1
      <4>1. l \in 1..k /\ l \in 1..Len(tree)
        BY <1>3, <1>4, <3>3
      <4> QED
        BY <1>8, <1>11, <2>2, <3>3, <4>1
    <3> QED
      BY <3>2, <3>3
  <2> QED
    BY <1>1, <1>2, <1>8, <1>9, <1>10, <2>1, <2>6 DEF OldInv
<1>17. DOMAIN Last(tree') = {0}
  BY <1>1, <1>3, <1>4, <1>8, <1>10, ShapeFacts DEF Last
<1> QED
  BY <1>1, <1>2, <1>12, <1>15, <1>16, <1>17 DEF MerkleInv

(* At the top the whole tree is built, and the roots tell the leaves. *)
LEMMA UpdateRootInv ==
  ASSUME MerkleInv, UpdateRoot
  PROVE  MerkleInv'
<1>1. /\ Shape(tree) /\ pc = "update" /\ DOMAIN Last(tree) = {0} /\ UpdateInv
      /\ old # None => OldInv
  BY DEF MerkleInv, UpdateRoot
<1>2. /\ level = Len(tree) /\ root' = Last(tree)[0] /\ pc' = "ready"
      /\ UNCHANGED <<tree, old>>
  BY DEF UpdateRoot
<1>3. BuiltUpTo(tree, Len(tree))
  BY <1>1, <1>2 DEF UpdateInv
<1>4. ASSUME old # None PROVE OldInv'
  <2>1. /\ OldInv /\ Shape(old) /\ Len(old) = Len(tree) /\ DOMAIN Last(old) = {0}
    BY <1>1, <1>4 DEF OldInv, Built
  <2>2. Len(tree) \in DOMAIN tree /\ Len(old) \in DOMAIN old /\ Len(tree) \in 1..Len(tree)
    BY <1>1, <2>1, ShapeFacts
  <2>3. Last(tree) = Last(old) <=> tree[1] = old[1]
    BY <1>1, <1>2, <2>1, <2>2 DEF OldInv, Last
  <2>4. Last(tree) = [n \in {0} |-> Last(tree)[n]] /\ Last(old) = [n \in {0} |-> Last(old)[n]]
    BY <1>1, <2>1, <2>2 DEF Shape, Last
  <2>5. Last(tree)[0] = Last(old)[0] <=> tree[1] = old[1]
    BY <2>3, <2>4
  <2> QED
    BY <1>2, <2>1, <2>5 DEF OldInv
<1> QED
  BY <1>1, <1>2, <1>3, <1>4 DEF MerkleInv

-----------------------------------------------------------------------------
(* What proofs leave alone: the tree is built and its root known. *)
LEMMA BuiltInv ==
  ASSUME MerkleInv, pc \in {"ready", "generate", "verify"},
         UNCHANGED <<tree, root, old>>, pc' \in {"ready", "generate", "verify"},
         pc' = "generate" => GenerateInv', pc' = "verify" => VerifyInv'
  PROVE  MerkleInv'
<1>1. /\ Shape(tree) /\ DOMAIN Last(tree) = {0} /\ BuiltUpTo(tree, Len(tree))
      /\ root = Last(tree)[0] /\ old # None => OldInv
  BY DEF MerkleInv
<1>2. ASSUME old # None PROVE OldInv'
  BY <1>1, <1>2 DEF OldInv
<1> QED
  BY <1>1, <1>2 DEF MerkleInv

(* The proof of a leaf starts with nothing. *)
LEMMA GenerateProofInv ==
  ASSUME MerkleInv, GenerateProof
  PROVE  MerkleInv'
<1>1. PICK i \in DOMAIN tree[1] : leaf' = i /\ index' = i /\ trail' = <<i>>
  BY DEF GenerateProof
<1>2. /\ level' = 1 /\ proof' = << >> /\ pc = "ready" /\ pc' = "generate"
      /\ UNCHANGED <<tree, root, old>>
  BY DEF GenerateProof
<1>3. 1 \in DOMAIN tree
  BY ShapeFacts DEF MerkleInv
<1>4. trail' \in Seq({i}) /\ Len(trail') = 1 /\ trail'[1] = i
  BY <1>1
<1>5. proof' \in Seq({i}) /\ Len(proof') = 0
  BY <1>2
<1>6. IsSequence(trail') /\ IsSequence(proof')
  BY <1>4, <1>5, OwnElements
<1>7. \A l \in 1..(level' - 1) : FALSE
  BY <1>2
<1>8. GenerateInv'
  BY <1>1, <1>2, <1>3, <1>4, <1>5, <1>6, <1>7 DEF GenerateInv
<1> QED
  BY <1>2, <1>8, BuiltInv

(* Each level adds the sibling of the node on the way. *)
LEMMA GenerateStepInv ==
  ASSUME MerkleInv, GenerateStep
  PROVE  MerkleInv'
<1> DEFINE k == level
<1> DEFINE h == SiblingHash(tree[k], index)
<1>1. /\ proof' = Append(proof, h) /\ trail' = Append(trail, index \div 2)
      /\ index' = index \div 2 /\ level' = k + 1 /\ k < Len(tree)
      /\ pc = "generate" /\ UNCHANGED <<pc, tree, root, leaf, old>>
  BY DEF GenerateStep, SiblingHash
<1>2. /\ Shape(tree) /\ GenerateInv
  BY <1>1 DEF MerkleInv
<1>3. Len(tree) \in Nat /\ DOMAIN tree = 1..Len(tree) /\ k \in 1..Len(tree)
  BY <1>2, ShapeFacts DEF GenerateInv
<1>4. k \in 1..(Len(tree) - 1) /\ k + 1 \in 1..Len(tree) /\ k \in Nat /\ k > 0
  BY <1>1, <1>3
<1>5. index' \in DOMAIN tree[k + 1]
  <2>1. Prefix(DOMAIN tree[k]) /\ index \in DOMAIN tree[k]
        /\ DOMAIN tree[k + 1] = Halves(DOMAIN tree[k])
    BY <1>2, <1>3, <1>4 DEF Shape, GenerateInv
  <2> QED
    BY <1>1, <2>1, HalvesPrefix
<1>6. /\ IsSequence(proof) /\ Len(proof) = k - 1 /\ IsSequence(trail) /\ Len(trail) = k
      /\ trail[1] = leaf /\ trail[k] = index /\ leaf \in DOMAIN tree[1]
      /\ \A l \in 1..(k - 1) : /\ trail[l + 1] = trail[l] \div 2
                               /\ proof[l] = SiblingHash(tree[l], trail[l])
  BY <1>2 DEF GenerateInv
<1> HIDE DEF h, k
<1>7. /\ IsSequence(proof') /\ Len(proof') = k /\ proof'[k] = h
      /\ \A l \in 1..(k - 1) : proof'[l] = proof[l]
  <2>1. (k - 1) + 1 = k
    BY <1>4
  <2> QED
    BY <1>1, <1>6, <2>1, SequenceFacts
<1>8. /\ IsSequence(trail') /\ Len(trail') = k + 1 /\ trail'[k + 1] = index \div 2
      /\ \A l \in 1..k : trail'[l] = trail[l]
  BY <1>1, <1>6, SequenceFacts
<1>9. ASSUME NEW l \in 1..((k + 1) - 1)
      PROVE  /\ trail'[l + 1] = trail'[l] \div 2
             /\ proof'[l] = SiblingHash(tree[l], trail'[l])
  <2>1. l \in 1..k
    BY <1>4
  <2>2. CASE l = k
    BY <1>6, <1>7, <1>8, <2>1, <2>2 DEF h
  <2>3. CASE l # k
    <3>1. l \in 1..(k - 1) /\ l + 1 \in 1..k
      BY <1>4, <2>1, <2>3, Below
    <3> QED
      BY <1>6, <1>7, <1>8, <2>1, <3>1
  <2> QED
    BY <2>2, <2>3
<1>10. trail'[1] = leaf /\ (k + 1) - 1 = k
  BY <1>4, <1>6, <1>8
<1>11. GenerateInv'
  BY <1>1, <1>3, <1>4, <1>5, <1>6, <1>7, <1>8, <1>9, <1>10 DEF GenerateInv
<1> QED
  BY <1>1, <1>11, BuiltInv

-----------------------------------------------------------------------------
(* Verifying starts at the leaf that the proof was asked for. *)
LEMMA VerifyProofInv ==
  ASSUME MerkleInv, VerifyProof
  PROVE  MerkleInv'
<1>1. PICK h \in Hash : claim' = h /\ hash' = h
  BY DEF VerifyProof
<1>2. /\ index' = leaf /\ level' = 1 /\ pc = "generate" /\ pc' = "verify"
      /\ level = Len(tree) /\ UNCHANGED <<tree, root, leaf, old, trail>>
  BY DEF VerifyProof
<1>3. Shape(tree) /\ GenerateInv
  BY <1>2 DEF MerkleInv
<1>4. /\ IsSequence(proof) /\ Len(proof) = Len(tree) - 1
      /\ IsSequence(trail) /\ Len(trail) = Len(tree)
      /\ trail[1] = leaf /\ leaf \in DOMAIN tree[1]
      /\ \A l \in 1..(Len(tree) - 1) : /\ trail[l + 1] = trail[l] \div 2
                                       /\ proof[l] = SiblingHash(tree[l], trail[l])
  BY <1>2, <1>3 DEF GenerateInv
<1>5. IsSequence(proof') /\ Len(proof') = Len(proof) /\ (honest' => proof' = proof)
  <2>1. CASE proof' = proof /\ honest' = TRUE
    BY <1>4, <2>1
  <2>2. CASE /\ \E j \in DOMAIN proof, g \in Hash : proof' = [proof EXCEPT ![j] = g]
             /\ honest' = FALSE
    <3>1. PICK j \in DOMAIN proof, g \in Hash : proof' = [proof EXCEPT ![j] = g]
      BY <2>2
    <3>2. j \in 1..Len(proof)
      BY <1>4, SequenceFacts
    <3> QED
      BY <1>4, <2>2, <3>1, <3>2, SequenceFacts
  <2> QED
    BY <2>1, <2>2 DEF VerifyProof
<1>6. 1 \in DOMAIN tree
  BY <1>3, ShapeFacts
<1>7. VerifyInv'
  BY <1>1, <1>2, <1>4, <1>5, <1>6 DEF VerifyInv
<1> QED
  BY <1>2, <1>7, BuiltInv

(* Each level hashes the pair of the node's parent, or a different one. *)
LEMMA VerifyStepInv ==
  ASSUME MerkleInv, VerifyStep
  PROVE  MerkleInv'
<1> DEFINE k == level
<1> DEFINE nodes == tree[k]
<1>1. /\ hash' = IF index % 2 = 0 THEN HashPair(hash, proof[k]) ELSE HashPair(proof[k], hash)
      /\ index' = index \div 2 /\ level' = k + 1 /\ k <= Len(proof)
      /\ pc = "verify" /\ UNCHANGED <<pc, tree, root, leaf, proof, claim, old, honest, trail>>
  BY DEF VerifyStep
<1>2. Shape(tree) /\ VerifyInv /\ BuiltUpTo(tree, Len(tree))
  BY <1>1 DEF MerkleInv
<1>3. Len(tree) \in Nat /\ DOMAIN tree = 1..Len(tree) /\ k \in 1..Len(tree)
  BY <1>2, ShapeFacts DEF VerifyInv
<1>4. k \in 1..(Len(tree) - 1) /\ k + 1 \in 1..Len(tree)
  BY <1>1, <1>2, <1>3 DEF VerifyInv
<1>5. /\ Prefix(DOMAIN nodes) /\ index \in DOMAIN nodes
      /\ DOMAIN tree[k + 1] = Halves(DOMAIN nodes) /\ tree[k + 1] = Parents(nodes)
  BY <1>2, <1>3, <1>4 DEF Shape, VerifyInv, BuiltUpTo
<1>6. index' \in DOMAIN tree[k + 1]
  BY <1>1, <1>5, HalvesPrefix
<1>7. /\ trail[k] = index /\ trail[k + 1] = index'
      /\ honest => proof[k] = SiblingHash(nodes, index)
  BY <1>1, <1>2, <1>4 DEF VerifyInv
<1>8. /\ claim # tree[1][leaf] => hash # nodes[index]
      /\ honest /\ claim = tree[1][leaf] => hash = nodes[index]
  BY <1>2 DEF VerifyInv
<1> HIDE DEF nodes, k
<1>9. /\ claim # tree[1][leaf] => hash' # tree[k + 1][index']
      /\ honest /\ claim = tree[1][leaf] => hash' = tree[k + 1][index']
  <2>1. CASE index % 2 = 0
    <3>1. /\ tree[k + 1][index'] = HashPair(nodes[index], SiblingHash(nodes, index))
          /\ hash' = HashPair(hash, proof[k])
      BY <1>1, <1>5, <2>1, ParentsFacts
    <3> QED
      BY <1>7, <1>8, <3>1 DEF HashPair
  <2>2. CASE index % 2 # 0
    <3>1. /\ tree[k + 1][index'] = HashPair(SiblingHash(nodes, index), nodes[index])
          /\ hash' = HashPair(proof[k], hash)
      BY <1>1, <1>5, <2>2, ParentsFacts
    <3> QED
      BY <1>7, <1>8, <3>1 DEF HashPair
  <2> QED
    BY <2>1, <2>2
<1>10. VerifyInv'
  BY <1>1, <1>2, <1>3, <1>4, <1>6, <1>7, <1>9 DEF VerifyInv
<1> QED
  BY <1>1, <1>10, BuiltInv

-----------------------------------------------------------------------------
(* MerkleInv holds at the start and every step keeps it. *)
LEMMA NextInv ==
  ASSUME MerkleInv, [Next]_vars
  PROVE  MerkleInv'
<1>1. CASE Return
  <2>1. pc = "verify" /\ pc' = "ready" /\ UNCHANGED <<tree, root, old>>
    BY <1>1 DEF Return, Verdict
  <2> QED
    BY <2>1, BuiltInv
<1>2. CASE UNCHANGED vars
  BY <1>2 DEF vars, call, walk, MerkleInv, UpdateInv, OldInv, GenerateInv, VerifyInv
<1> QED
  BY <1>1, <1>2, BuildInv, UpdateLeavesInv, UpdateLevelInv, UpdateRootInv, GenerateProofInv,
     GenerateStepInv, VerifyProofInv, VerifyStepInv DEF Next

(***************************************************************************)
(* At each turn of the loops of CapacityProofMerkleTree what MerkleInv     *)
(* says of it holds, for any number of leaves.                             *)
(***************************************************************************)
THEOREM MerkleConsistent == Spec => []MerkleInv
BY InitInv, NextInv, PTL DEF Spec

(***************************************************************************)
(* However many leaves update_leaves is given, and how often, the tree is  *)
(* the one build would make.                                               *)
(***************************************************************************)
THEOREM UpdatesRebuild == Spec => []UpdateIsRebuild
<1>1. MerkleInv => UpdateIsRebuild
  BY DEF MerkleInv, UpdateIsRebuild, Built, BuiltUpTo
<1> QED
  BY <1>1, MerkleConsistent, PTL

(***************************************************************************)
(* An update gives another root if and only if it changes a leaf (for a    *)
(* hash without collisions).                                               *)
(***************************************************************************)
THEOREM RootsTellLeaves == Spec => []RootTellsLeaves
<1>1. MerkleInv => RootTellsLeaves
  BY DEF MerkleInv, RootTellsLeaves, OldInv
<1> QED
  BY <1>1, MerkleConsistent, PTL

(* At the verdict the hash stands for the root. *)
LEMMA AtVerdict ==
  ASSUME MerkleInv, Verdict
  PROVE  VerifyInv /\ root = tree[level][index]
<1>1. VerifyInv /\ pc = "verify" /\ Shape(tree) /\ DOMAIN Last(tree) = {0} /\ root = Last(tree)[0]
  BY DEF MerkleInv, Verdict
<1>2. level = Len(tree)
  <2>1. Len(tree) \in Nat /\ level \in 1..Len(tree) /\ Len(proof) = Len(tree) - 1
    BY <1>1, ShapeFacts DEF VerifyInv
  <2> QED
    BY <2>1 DEF Verdict
<1>3. index = 0
  BY <1>1, <1>2 DEF VerifyInv, Last
<1> QED
  BY <1>1, <1>2, <1>3 DEF Last

(***************************************************************************)
(* verify_proof accepts no hash but the leaf's for an index, whatever one  *)
(* hash of the generated proof is replaced by.                             *)
(***************************************************************************)
THEOREM VerifiedProofsAreSound == Spec => []ProofsSound
<1>1. MerkleInv => ProofsSound
  BY AtVerdict DEF ProofsSound, VerifyInv, Valid
<1> QED
  BY <1>1, MerkleConsistent, PTL

(* verify_proof accepts every proof that generate_proof makes. *)
THEOREM GeneratedProofsVerify == Spec => []ProofsComplete
<1>1. MerkleInv => ProofsComplete
  BY AtVerdict DEF ProofsComplete, VerifyInv, Valid
<1> QED
  BY <1>1, MerkleConsistent, PTL
=============================================================================
