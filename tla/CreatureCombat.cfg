\* Two players, one of them with GM mode, and one creature of two hits.
SPECIFICATION FairSpec
CONSTANTS
  s1 = s1  s2 = s2
  Session = {s1, s2}
  Staff = {s1}
  Afflicter = {s2}
  MaxPlace = 1
  Spawn = 0
  Leash = 0
  ChaseRange = 1
  MaxHealth = 2
  DotTicks = 1
  NoHome = NoHome
  Nobody = Nobody
INVARIANTS TargetIsFighting KillPaidOnce
PROPERTIES EvadeEndsInReset FightsAreSettled
