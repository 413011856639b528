\* Two characters that the two sessions may swap between them, a player at a time
\* on each, and a working database.
SPECIFICATION FairSpec
CONSTRAINT PlainSecond
CONSTANTS
  s1 = s1  s2 = s2  c1 = c1  c2 = c2
  Session = {s1, s2}
  Character = {c1, c2}
  Place = {"hill", "lake", "far"}
  SanePlace = {"hill", "lake"}
  Origin = "zero"
  StartPosition = "hill"
  Cell = {"west", "east"}
  CellOf <- MCCellOf
  Money = {0, 1}
  Health = {1, 2}
  None = None
  ExclusiveLogin = TRUE
  DbMayFail = FALSE
INVARIANT PresenceAgrees
PROPERTIES CharacterSurvives SaneStaysSane ClosedIsReleased
