\* What became of an item that did not fit into the backpack.
SPECIFICATION Spec
CONSTANTS
  c1 = c1  c2 = c2  ring = ring  rune = rune
  Character = {c1}
  Entry = {ring, rune}
  Fits <- MCFits
  EquipSlot = {0, 1}
  PackSlot = {23, 24}
  Starter <- MCStarter
  MaxCount <- MCMaxCount
  MaxItems = 4
  MaxFailures = 0
  NoItem = NoItem
  NoRow = NoRow
  NoSlot = NoSlot
SYMMETRY MCSymmetry
INVARIANT MailIsKept
CHECK_DEADLOCK FALSE
