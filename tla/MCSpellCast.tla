---------------------------- MODULE MCSpellCast ------------------------------
(***************************************************************************)
(* A slow spell with a recovery of its own, and a slow and an instant spell *)
(* that share a category.  The slow ones take two ticks and the global      *)
(* cooldown one, so that a spell may be cast again while it is being cast.  *)
(***************************************************************************)
EXTENDS SpellCast

CONSTANTS fireball, shock, nova, shocks

MCCastTime == [sp \in Spell |-> IF sp = nova THEN 0 ELSE 2]
MCRecovery == [sp \in Spell |-> IF sp = fireball THEN 3 ELSE 0]
MCGroup == [sp \in Spell |-> IF sp = fireball THEN NoGroup ELSE shocks]
MCGroupRecovery == [sp \in Spell |-> IF sp = fireball THEN 0 ELSE 2]
MCGcd == [sp \in Spell |-> 1]
=============================================================================
