------------------------------ MODULE MCSlots ------------------------------
(***************************************************************************)
(* Instances of the capacity file: up to three slots and two contents.     *)
(***************************************************************************)
EXTENDS CapacitySlotsInv, TLC

CONSTANTS c1, c2, t1, t2

(* A content of two chunks and one of one. *)
TwoAndOne == c1 :> 2 @@ c2 :> 1
OneEach   == c1 :> 1 @@ c2 :> 1
JustOne   == c2 :> 1

(* Contents of one chunk each differ in their names only. *)
ContentsAlike == Permutations({c1, c2})

(* Bound: what follows a stop and a fault is left to the smaller runs. *)
OneMishap == stops + faults <= 1
=============================================================================
