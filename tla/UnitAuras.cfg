\* A player and a creature; two icons for three auras; a passive spell that is learned
\* and forgotten.
SPECIFICATION AuraSpec
CONSTANTS
  p1 = p1  wolf = wolf  dot = dot  buff = buff  skill = skill  racial = racial
  Player = {p1}
  Creature = {wolf}
  TimedSpell = {dot, buff}
  Passives <- MCPassives
  Innate = {racial}
  Learnable = {skill}
  HealthSpell = {buff, skill}
  Cancellable = {dot, skill}
  Duration <- MCDuration
  Period <- MCPeriod
  Slots = 2
  NoSpell = NoSpell
CONSTRAINT OneOnTheWolf
INVARIANTS  ClientShowsAuras TicksWithinDuration
