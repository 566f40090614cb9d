---------------------------- MODULE MCPinboard ----------------------------
(***************************************************************************)
(* A pinboard of four messages: two share a content, one names a namespace *)
(* of its signer and one a namespace of somebody else.                     *)
(***************************************************************************)
EXTENDS PinboardProps, TLC

CONSTANTS s1, s2, n1, text, tag1, tag2

MCContentOf == 1 :> 1 @@ 2 :> 1 @@ 3 :> 2 @@ 4 :> 2
MCSigner    == 1 :> s1 @@ 2 :> s2 @@ 3 :> s1 @@ 4 :> s1
MCTags      == 1 :> {tag1, tag2} @@ 2 :> {} @@ 3 :> {tag1} @@ 4 :> {}
MCTtl       == 1 :> 1 @@ 2 :> 2 @@ 3 :> 0 @@ 4 :> 1
MCTypes     == [m \in 1 .. 4 |-> text]
MCNamespace == 1 :> NoNamespace @@ 2 :> n1 @@ 3 :> NoNamespace @@ 4 :> n1
MCOwner     == n1 :> s2
=============================================================================
