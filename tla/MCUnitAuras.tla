----------------------------- MODULE MCUnitAuras -----------------------------
(***************************************************************************)
(* A spell that ticks, a lasting one and a passive one compete for two icons. *)
(***************************************************************************)
EXTENDS UnitAuras
CONSTANTS p1, wolf, dot, buff, skill, racial

MCDuration == [s \in TimedSpell |-> IF s = dot THEN 3 ELSE 1]
MCPeriod == [s \in TimedSpell |-> IF s = dot THEN 2 ELSE 0]
MCPassives == <<skill>>
\* The creature, which has no bonuses and no client, has one aura at a time.
OneOnTheWolf == Cardinality(DOMAIN auras[wolf]) <= 1
=============================================================================
