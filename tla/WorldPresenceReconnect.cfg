\* The same, where the player may come back before the old session is gone and
\* any statement on the characters table may fail.
SPECIFICATION Spec
CONSTANTS
  s1 = s1  s2 = s2  c1 = c1  c2 = c2
  Session = {s1, s2}
  Character = {c1}
  Place = {"hill", "lake", "far"}
  SanePlace = {"hill", "lake"}
  Origin = "zero"
  StartPosition = "hill"
  Cell = {"west", "east"}
  CellOf <- MCCellOf
  Money = {0}
  Health = {1}
  None = None
  ExclusiveLogin = FALSE
  DbMayFail = TRUE
INVARIANT RegistryNamesPlayers
PROPERTY SuccessorKeepsEntry
