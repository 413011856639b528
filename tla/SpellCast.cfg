\* One character, up to two slow casts, logouts and .cd.
SPECIFICATION FairSpec
CONSTANTS
  fireball = fireball  shock = shock  nova = nova  shocks = shocks
  Spell = {fireball, shock, nova}
  CastTime <- MCCastTime
  Recovery <- MCRecovery
  Group <- MCGroup
  NoGroup = NoGroup
  GroupRecovery <- MCGroupRecovery
  Gcd <- MCGcd
  MaxNow = 5
  MaxCasts = 2
  Never = Never
PROPERTIES EffectsAreSpaced CastEnds
CHECK_DEADLOCK FALSE
