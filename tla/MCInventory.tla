---------------------------- MODULE MCInventory ----------------------------
(* Rings have a pair of slots; runes fit nowhere and come in stacks of two. *)
EXTENDS Inventory

CONSTANTS c1, c2, ring, rune

MCFits == [e \in Entry |-> IF e = ring THEN <<0, 1>> ELSE <<>>]
MCMaxCount == [e \in Entry |-> IF e = ring THEN 1 ELSE 2]
MCStarter == <<[entry |-> ring, bagOnly |-> FALSE]>>
MCSymmetry == Permutations(Character)
=============================================================================
