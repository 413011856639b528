--------------------------- MODULE MCCreatureCombat ---------------------------
(***************************************************************************)
(* Two players, three places: with a leash of one place a creature pulled    *)
(* away from its home by the second player can be dragged out of reach of    *)
(* the first.                                                                *)
(***************************************************************************)
EXTENDS CreatureCombat
CONSTANTS s1, s2
=============================================================================
