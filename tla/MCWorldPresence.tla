-------------------------- MODULE MCWorldPresence --------------------------
(***************************************************************************)
(* Small worlds: three places in two grid cells.  "far" is a coordinate     *)
(* beyond the map limit, which GetCoord clamps into the second cell.        *)
(***************************************************************************)
EXTENDS WorldPresence

CONSTANTS s1, s2, c1, c2

MCCellOf == [p \in Position |-> IF p \in {"hill", "zero"} THEN "west" ELSE "east"]

\* Bound: of two characters one has no coin, is never hurt and stays at the hill;
\* what follows when a teleport has put it elsewhere is not explored.
PlainSecond ==
  /\ db[c2] = [pos |-> "hill", money |-> 0, health |-> 1]
  /\ OnMap(c2) => objects[c2].health = 1 /\ objects[c2].pos = "hill"

=============================================================================
