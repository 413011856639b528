\* Two characters; one INSERT, UPDATE or DELETE may be rejected.
SPECIFICATION Spec
CONSTANTS
  c1 = c1  c2 = c2  ring = ring  rune = rune
  Character = {c1, c2}
  Entry = {ring, rune}
  Fits <- MCFits
  EquipSlot = {0, 1}
  PackSlot = {23, 24}
  Starter <- MCStarter
  MaxCount <- MCMaxCount
  MaxItems = 4
  MaxFailures = 1
  NoItem = NoItem
  NoRow = NoRow
  NoSlot = NoSlot
SYMMETRY MCSymmetry
INVARIANTS InventoryBacked StacksAddUp ClientShowsTheBag
CHECK_DEADLOCK FALSE
