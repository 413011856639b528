------------------------ MODULE WorldPresenceProofs ------------------------
(***************************************************************************)
(* Theorems about WorldPresence for any number of sessions, characters and  *)
(* places, with or without reconnects and database errors: where sessions   *)
(* stand, what the next save writes, whom nothing holds any more, and that  *)
(* the world implements CharacterContinuity.                                *)
(***************************************************************************)
EXTENDS WorldPresence, TLAPS

PlayerObject == [owner : Session \cup {None}, pos : Position, health : Health]
MapTyped ==
  /\ objects \in [Character -> PlayerObject]
  /\ grid \in [Cell -> [Character -> Session \cup {None}]]
SessionTyped ==
  /\ sock \in [Session -> {"none", "open", "closed", "ended"}]
  /\ playerGuid \in [Session -> Character \cup {None}]
  /\ charName \in [Session -> Character \cup {None}]
  /\ position \in [Session -> Position]
  /\ pending \in [Session -> Position \cup {None}]
  /\ money \in [Session -> Money]
TablesTyped ==
  /\ phase \in {"up", "stopping"}
  /\ registry \in [Character -> Session \cup {None}]
  /\ db \in [Character -> Row]

LEMMA TypeParts == TypeOK <=> MapTyped /\ SessionTyped /\ TablesTyped
BY DEF TypeOK, MapTyped, SessionTyped, TablesTyped, PlayerObject

LEMMA TypePartsNext == TypeOK' <=> MapTyped' /\ SessionTyped' /\ TablesTyped'
BY DEF TypeOK, MapTyped, SessionTyped, TablesTyped, PlayerObject

LEMMA Defaults ==
  /\ (CHOOSE m \in Money : TRUE) \in Money
  /\ NoObject \in PlayerObject
  /\ NoObject.owner = None
  /\ Origin \in Position /\ StartPosition \in Position
  /\ Sane \subseteq Position /\ SanePlace \subseteq Position /\ Place \subseteq Position
  /\ EmptyGrid \in [Cell -> [Character -> Session \cup {None}]]
<1>1. (CHOOSE m \in Money : TRUE) \in Money
  BY PresenceAssumption
<1>2. (CHOOSE h \in Health : TRUE) \in Health
  BY PresenceAssumption
<1>3. NoObject \in PlayerObject /\ NoObject.owner = None
  BY <1>2 DEF NoObject, PlayerObject, Position
<1> QED
  BY <1>1, <1>3, PresenceAssumption DEF Position, Sane, EmptyGrid

-----------------------------------------------------------------------------
\* The three operations of the map keep it typed.
LEMMA RemoveTyped ==
  ASSUME MapTyped, NEW c \in Character, RemoveObject(c)
  PROVE  MapTyped'
<1>1. objects' \in [Character -> PlayerObject]
  BY Defaults DEF MapTyped, RemoveObject
<1>2. CASE OnMap(c)
  <2>1. Coord(c) \in Cell
    BY PresenceAssumption DEF MapTyped, PlayerObject, Coord
  <2> QED
    BY <1>1, <1>2, <2>1 DEF MapTyped, RemoveObject
<1>3. CASE ~OnMap(c)
  BY <1>1, <1>3 DEF MapTyped, RemoveObject
<1> QED
  BY <1>2, <1>3

LEMMA AddTyped ==
  ASSUME MapTyped, NEW c \in Character, NEW obj \in PlayerObject, AddObject(c, obj)
  PROVE  MapTyped'
<1>1. CellOf[obj.pos] \in Cell /\ obj.owner \in Session \cup {None}
  BY PresenceAssumption DEF PlayerObject
<1> QED
  BY <1>1 DEF MapTyped, AddObject

LEMMA UpdateTyped ==
  ASSUME MapTyped, NEW c \in Character, NEW p \in Position, UpdateObjectPosition(c, p)
  PROVE  MapTyped'
<1>1. CASE ~OnMap(c)
  BY <1>1 DEF MapTyped, UpdateObjectPosition, map
<1>2. CASE OnMap(c)
  <2>1. /\ Coord(c) \in Cell /\ CellOf[p] \in Cell
        /\ objects[c].owner \in Session \cup {None}
    BY PresenceAssumption DEF MapTyped, PlayerObject, Coord
  <2>2. objects' \in [Character -> PlayerObject]
    BY <1>2 DEF MapTyped, PlayerObject, UpdateObjectPosition
  <2> QED
    BY <1>2, <2>1, <2>2, SMTT(30) DEF MapTyped, UpdateObjectPosition
<1> QED
  BY <1>1, <1>2

LEMMA ExitTyped ==
  ASSUME TypeOK, NEW s \in Session, NEW c \in Character, FinalizeWorldExit(s, c)
  PROVE  /\ MapTyped'
         /\ registry' \in [Character -> Session \cup {None}]
         /\ db' \in [Character -> Row]
         /\ playerGuid' \in [Session -> Character \cup {None}]
         /\ charName' \in [Session -> Character \cup {None}]
         /\ position' \in [Session -> Position]
         /\ pending' \in [Session -> Position \cup {None}]
         /\ money' \in [Session -> Money]
<1>1. MapTyped'
  BY RemoveTyped, TypeParts DEF FinalizeWorldExit
<1>2. registry' \in [Character -> Session \cup {None}]
  BY DEF FinalizeWorldExit, Unregister, TypeOK
<1>3. db' \in [Character -> Row]
  <2>1. PICK readOk \in DbOutcome, saveOk \in DbOutcome :
          IF saveOk THEN SaveCharacterOnLogout(s, c, readOk) ELSE UNCHANGED db
    BY DEF FinalizeWorldExit
  <2>2. CASE UNCHANGED db
    BY <2>2 DEF TypeOK
  <2>3. CASE SaveCharacterOnLogout(s, c, readOk)
    <3>1. PersistPosition(s, c, readOk) \in Position
      BY Defaults DEF PersistPosition, TypeOK, Row
    <3>2. money[s] \in Money /\ objects[c].health \in Health /\ db[c].health \in Health
      BY DEF TypeOK, Row
    <3> QED
      BY <2>3, <3>1, <3>2 DEF SaveCharacterOnLogout, TypeOK, Row
  <2> QED
    BY <2>1, <2>2, <2>3
<1> QED
  BY <1>1, <1>2, <1>3, Defaults DEF FinalizeWorldExit, TypeOK

LEMMA LeaveTyped ==
  ASSUME TypeOK, NEW s \in Session, LeaveWorld(s)
  PROVE  /\ MapTyped'
         /\ registry' \in [Character -> Session \cup {None}]
         /\ db' \in [Character -> Row]
         /\ playerGuid' \in [Session -> Character \cup {None}]
         /\ charName' \in [Session -> Character \cup {None}]
         /\ position' \in [Session -> Position]
         /\ pending' \in [Session -> Position \cup {None}]
         /\ money' \in [Session -> Money]
<1>1. CASE playerGuid[s] # None
  BY <1>1, ExitTyped DEF LeaveWorld, TypeOK
<1>2. CASE playerGuid[s] = None
  BY <1>2 DEF LeaveWorld, Unregister, TypeOK, MapTyped, map, PlayerObject
<1> QED
  BY <1>1, <1>2

-----------------------------------------------------------------------------
LEMMA InitType == Init => TypeOK
BY Defaults DEF Init, TypeOK, Row, Position, PlayerObject

\* Actions that leave the map and the tables alone, or change them through one
\* of the operations above, keep every variable typed.
LEMMA SessionStepType ==
  ASSUME TypeOK, NEW s \in Session,
         \/ Connect(s) \/ EndLoops(s) \/ SyncMapPosition(s) \/ HandleMoveTeleportAck(s) \/ DropTeleport(s)
         \/ \E p \in SanePlace : HandleMovement(s, p)
         \/ \E p \in Place : HandleForceSpeedChangeAck(s, p)
         \/ \E p \in Position : TeleportTo(s, p)
         \/ \E m \in Money : GmModifyMoneyCopper(s, m)
  PROVE  TypeOK'
<1> USE Defaults
<1>0. MapTyped /\ SessionTyped /\ TablesTyped
  BY TypeParts
<1>1. CASE Connect(s) \/ EndLoops(s)
  BY <1>1 DEF Connect, EndLoops, TypeOK, map
<1>2. CASE SyncMapPosition(s)
  <2>1. playerGuid[s] \in Character /\ position[s] \in Position
    BY <1>2 DEF SyncMapPosition, InWorld, TypeOK
  <2>2. MapTyped'
    BY <1>0, <1>2, <2>1, UpdateTyped DEF SyncMapPosition
  <2> QED
    BY <1>0, <1>2, <2>2, TypePartsNext DEF SyncMapPosition, session, SessionTyped, TablesTyped
<1>3. CASE HandleMoveTeleportAck(s)
  <2>1. playerGuid[s] \in Character /\ pending[s] \in Position
    BY <1>3 DEF HandleMoveTeleportAck, InWorld, TypeOK
  <2>2. MapTyped'
    BY <1>0, <1>3, <2>1, UpdateTyped DEF HandleMoveTeleportAck
  <2> QED
    BY <1>0, <1>3, <2>1, <2>2, TypePartsNext DEF HandleMoveTeleportAck, SessionTyped, TablesTyped
<1>4. CASE DropTeleport(s)
  BY <1>4 DEF DropTeleport, TypeOK, map
<1>5. ASSUME NEW p \in SanePlace, HandleMovement(s, p) PROVE TypeOK'
  <2>1. playerGuid[s] \in Character /\ p \in Position
    BY <1>5 DEF HandleMovement, InWorld, TypeOK
  <2>2. MapTyped'
    BY <1>0, <1>5, <2>1, UpdateTyped DEF HandleMovement
  <2> QED
    BY <1>0, <1>5, <2>1, <2>2, TypePartsNext DEF HandleMovement, SessionTyped, TablesTyped
<1>6. ASSUME NEW p \in Place, HandleForceSpeedChangeAck(s, p) PROVE TypeOK'
  <2>1. playerGuid[s] \in Character /\ p \in Position
    BY <1>6 DEF HandleForceSpeedChangeAck, InWorld, TypeOK
  <2>2. MapTyped'
    BY <1>0, <1>6, <2>1, UpdateTyped DEF HandleForceSpeedChangeAck
  <2> QED
    BY <1>0, <1>6, <2>2, TypePartsNext
    DEF HandleForceSpeedChangeAck, session, SessionTyped, TablesTyped
<1>7. ASSUME NEW p \in Position, TeleportTo(s, p) PROVE TypeOK'
  BY <1>7 DEF TeleportTo, TypeOK, map
<1>8. ASSUME NEW m \in Money, GmModifyMoneyCopper(s, m) PROVE TypeOK'
  <2>1. playerGuid[s] \in Character
    BY <1>8 DEF GmModifyMoneyCopper, InWorld, TypeOK
  <2>2. db' \in [Character -> Row]
    <3>0. db[playerGuid[s]] \in Row
      BY <2>1 DEF TypeOK
    <3>1. [db[playerGuid[s]] EXCEPT !.money = m] \in Row
      BY <3>0 DEF Row
    <3>2. db' = [db EXCEPT ![playerGuid[s]] = [db[playerGuid[s]] EXCEPT !.money = m]]
      BY <1>8 DEF GmModifyMoneyCopper
    <3> QED
      BY <2>1, <3>1, <3>2 DEF TypeOK
  <2>3. money' \in [Session -> Money]
    BY <1>8 DEF GmModifyMoneyCopper, TypeOK
  <2> QED
    BY <1>8, <2>2, <2>3 DEF GmModifyMoneyCopper, TypeOK, map
<1> QED
  BY <1>1, <1>2, <1>3, <1>4, <1>5, <1>6, <1>7, <1>8

LEMMA LoginType ==
  ASSUME TypeOK, NEW s \in Session, NEW c \in Character,
         HandlePlayerLogin(s, c) \/ LoginNotFound(s, c)
  PROVE  TypeOK'
<1>0. MapTyped /\ SessionTyped /\ TablesTyped
  BY TypeParts
<1>1. CASE HandlePlayerLogin(s, c)
  <2>1. LoginPosition(c) \in Position
    BY Defaults DEF LoginPosition
  <2>2. db[c].money \in Money /\ db[c].health \in Health
    BY DEF TypeOK, Row
  <2>3. [owner |-> s, pos |-> LoginPosition(c), health |-> db[c].health] \in PlayerObject
    BY <2>1, <2>2 DEF PlayerObject
  <2>4. MapTyped'
    BY <1>0, <1>1, <2>3, AddTyped DEF HandlePlayerLogin
  <2>5. /\ registry' \in [Character -> Session \cup {None}]
        /\ charName' \in [Session -> Character \cup {None}]
    BY <1>1 DEF HandlePlayerLogin, TypeOK
  <2> QED
    BY <1>0, <1>1, <2>1, <2>2, <2>4, <2>5, TypePartsNext
    DEF HandlePlayerLogin, SessionTyped, TablesTyped
<1>2. CASE LoginNotFound(s, c)
  BY <1>0, <1>2, ExitTyped, TypePartsNext DEF LoginNotFound, ShutSocket, SessionTyped, TablesTyped
<1> QED
  BY <1>1, <1>2

LEMMA LeaveType ==
  ASSUME TypeOK, NEW s \in Session,
         HandleLogoutRequest(s) \/ Close(s) \/ Release(s) \/ DestroySession(s)
  PROVE  TypeOK'
<1>0. SessionTyped /\ TablesTyped
  BY TypeParts
<1>1. CASE HandleLogoutRequest(s)
  <2>1. playerGuid[s] \in Character
    BY <1>1 DEF HandleLogoutRequest, InWorld, TypeOK
  <2> QED
    BY <1>0, <1>1, <2>1, ExitTyped, TypePartsNext DEF HandleLogoutRequest, SessionTyped, TablesTyped
<1>2. CASE Close(s)
  BY <1>0, <1>2, LeaveTyped, TypePartsNext DEF Close, ShutSocket, SessionTyped, TablesTyped
<1>3. CASE Release(s)
  BY <1>0, <1>3, LeaveTyped, TypePartsNext DEF Release, SessionTyped, TablesTyped
<1>4. CASE DestroySession(s)
  BY <1>0, <1>4, LeaveTyped, TypePartsNext DEF DestroySession, SessionTyped, TablesTyped
<1> QED
  BY <1>1, <1>2, <1>3, <1>4

LEMMA ServerStepType ==
  ASSUME TypeOK,
         \/ \E c \in Character, h \in Health : ApplyHealthDelta(c, h)
         \/ ResetForShutdown \/ Boot \/ Crash
  PROVE  TypeOK'
<1>1. ASSUME NEW c \in Character, NEW h \in Health, ApplyHealthDelta(c, h) PROVE TypeOK'
  BY <1>1 DEF ApplyHealthDelta, TypeOK, session
<1>2. CASE ResetForShutdown
  BY <1>2, Defaults DEF ResetForShutdown, TypeOK, session, PlayerObject
<1>3. CASE StartEmpty
  BY <1>3, Defaults DEF StartEmpty, TypeOK, PlayerObject
<1> QED
  BY <1>1, <1>2, <1>3 DEF Boot, Crash

\* Every step is one of these; the staff commands that resolve a name are the
\* session's own actions.
LEMMA NextCases ==
  ASSUME TypeOK, Next
  PROVE  \/ \E s \in Session :
              \/ Connect(s) \/ EndLoops(s) \/ SyncMapPosition(s) \/ HandleMoveTeleportAck(s) \/ DropTeleport(s)
              \/ \E p \in SanePlace : HandleMovement(s, p)
              \/ \E p \in Place : HandleForceSpeedChangeAck(s, p)
              \/ \E p \in Position : TeleportTo(s, p)
              \/ \E m \in Money : GmModifyMoneyCopper(s, m)
         \/ \E s \in Session, c \in Character :
              HandlePlayerLogin(s, c) \/ LoginNotFound(s, c)
         \/ \E s \in Session :
              HandleLogoutRequest(s) \/ Close(s) \/ Release(s) \/ DestroySession(s)
         \/ \E c \in Character, h \in Health : ApplyHealthDelta(c, h)
         \/ ResetForShutdown \/ Boot \/ Crash
<1>1. ASSUME NEW c \in Character, NEW d \in Character, Summon(c, d)
      PROVE  \E s \in Session, p \in Position : TeleportTo(s, p)
  <2>1. registry[c] \in Session /\ registry[d] \in Session
    BY <1>1 DEF Summon, TypeOK
  <2>2. position[registry[d]] \in Position
    BY <2>1 DEF TypeOK
  <2> QED
    BY <1>1, <2>1, <2>2 DEF Summon
<1>2. ASSUME NEW c \in Character, HandleKick(c) PROVE \E s \in Session : Close(s)
  BY <1>2 DEF HandleKick, TypeOK
<1>3. CASE \E s \in Session : PlayerStep(s)
  BY <1>3 DEF PlayerStep, SessionStep, MergeMovement
<1>4. CASE StaffStep
  BY <1>1, <1>2, <1>4, Defaults DEF StaffStep
<1>5. CASE ServerStep
  BY <1>5 DEF ServerStep
<1> QED
  BY <1>3, <1>4, <1>5 DEF Next

LEMMA StepType == TypeOK /\ [Next]_vars => TypeOK'
<1> SUFFICES ASSUME TypeOK, [Next]_vars PROVE TypeOK'
  OBVIOUS
<1>1. CASE Next
  BY <1>1, NextCases, SessionStepType, LoginType, LeaveType, ServerStepType
<1>2. CASE UNCHANGED vars
  BY <1>2 DEF vars, session, map, TypeOK
<1> QED
  BY <1>1, <1>2

\* Every reachable state is well formed: in particular no session stands at, or
\* is being sent to, a place that is not one (WorldSessionMovementHandlers.cpp).
THEOREM TypeCorrect == Spec => []TypeOK
BY InitType, StepType, PTL DEF Spec

-----------------------------------------------------------------------------
\* What the operations of the map do to each character's object and cells.
LEMMA RemoveEffect ==
  ASSUME MapTyped, NEW c \in Character, RemoveObject(c)
  PROVE  /\ objects'[c].owner = None
         /\ OnMap(c) => grid' = [grid EXCEPT ![Coord(c)][c] = None]
         /\ ~OnMap(c) => grid' = grid
         /\ \A d \in Character \ {c} :
              objects'[d] = objects[d] /\ \A k \in Cell : grid'[k][d] = grid[k][d]
<1>1. /\ objects'[c].owner = None
      /\ \A d \in Character \ {c} : objects'[d] = objects[d]
  BY Defaults DEF RemoveObject, MapTyped
<1>2. /\ OnMap(c) => grid' = [grid EXCEPT ![Coord(c)][c] = None]
      /\ ~OnMap(c) => grid' = grid
  BY DEF RemoveObject
<1>3. OnMap(c) => Coord(c) \in Cell
  BY PresenceAssumption DEF MapTyped, PlayerObject, Coord
<1>4. \A d \in Character \ {c}, k \in Cell : grid'[k][d] = grid[k][d]
  BY <1>2, <1>3 DEF MapTyped
<1> QED
  BY <1>1, <1>2, <1>4

LEMMA AddEffect ==
  ASSUME MapTyped, NEW c \in Character, NEW obj \in PlayerObject, AddObject(c, obj)
  PROVE  /\ objects'[c] = obj
         /\ grid'[CellOf[obj.pos]][c] = obj.owner
         /\ \A k \in Cell \ {CellOf[obj.pos]} : grid'[k][c] = grid[k][c]
         /\ \A d \in Character \ {c} :
              objects'[d] = objects[d] /\ \A k \in Cell : grid'[k][d] = grid[k][d]
<1>1. CellOf[obj.pos] \in Cell
  BY PresenceAssumption DEF PlayerObject
<1>2. objects'[c] = obj /\ \A d \in Character \ {c} : objects'[d] = objects[d]
  BY DEF AddObject, MapTyped
<1>3. /\ grid'[CellOf[obj.pos]][c] = obj.owner
      /\ \A k \in Cell \ {CellOf[obj.pos]} : grid'[k][c] = grid[k][c]
      /\ \A d \in Character \ {c}, k \in Cell : grid'[k][d] = grid[k][d]
  BY <1>1 DEF AddObject, MapTyped
<1> QED
  BY <1>2, <1>3

LEMMA UpdateEffect ==
  ASSUME MapTyped, NEW c \in Character, NEW p \in Position, UpdateObjectPosition(c, p)
  PROVE  /\ objects'[c].owner = objects[c].owner
         /\ OnMap(c) => /\ objects'[c].pos = p
                        /\ CellOf[p] = Coord(c) => grid' = grid
                        /\ CellOf[p] # Coord(c) =>
                             \A k \in Cell : grid'[k][c] =
                               IF k = CellOf[p] THEN objects[c].owner
                               ELSE IF k = Coord(c) THEN None ELSE grid[k][c]
         /\ ~OnMap(c) => objects' = objects /\ grid' = grid
         /\ \A d \in Character \ {c} :
              objects'[d] = objects[d] /\ \A k \in Cell : grid'[k][d] = grid[k][d]
<1>1. CASE ~OnMap(c)
  BY <1>1 DEF UpdateObjectPosition, map
<1>2. CASE OnMap(c)
  <2>1. Coord(c) \in Cell /\ CellOf[p] \in Cell
    BY PresenceAssumption DEF MapTyped, PlayerObject, Coord
  <2>2. objects[c] \in PlayerObject
    BY DEF MapTyped
  <2>3. /\ objects'[c] = [objects[c] EXCEPT !.pos = p]
        /\ \A d \in Character \ {c} : objects'[d] = objects[d]
    BY <1>2 DEF UpdateObjectPosition, MapTyped
  <2>4. objects'[c].owner = objects[c].owner /\ objects'[c].pos = p
    BY <2>2, <2>3 DEF PlayerObject
  <2>5. CASE CellOf[p] = Coord(c)
    BY <1>2, <2>3, <2>4, <2>5 DEF UpdateObjectPosition
  <2>6. CASE CellOf[p] # Coord(c)
    <3>1. grid' = [grid EXCEPT ![Coord(c)][c] = None,
                               ![CellOf[p]][c] = objects[c].owner]
      BY <1>2, <2>6 DEF UpdateObjectPosition
    <3>2. \A k \in Cell : grid'[k][c] =
            IF k = CellOf[p] THEN objects[c].owner
            ELSE IF k = Coord(c) THEN None ELSE grid[k][c]
      BY <2>1, <2>6, <3>1 DEF MapTyped
    <3>3. \A d \in Character \ {c}, k \in Cell : grid'[k][d] = grid[k][d]
      BY <2>1, <2>6, <3>1 DEF MapTyped
    <3> QED
      BY <1>2, <2>3, <2>4, <2>6, <3>2, <3>3
  <2> QED
    BY <2>5, <2>6
<1> QED
  BY <1>1, <1>2

-----------------------------------------------------------------------------
\* With or without a reconnect, an object is found in its cell and its session
\* plays it.  The proof needs only the types besides.
LEMMA UpdateFound ==
  ASSUME TypeOK, FoundInItsCell, NEW c \in Character, NEW p \in Position,
         UpdateObjectPosition(c, p), playerGuid' = playerGuid
  PROVE  FoundInItsCell'
<1>0. MapTyped
  BY TypeParts
<1> SUFFICES ASSUME NEW d \in Character, OnMap(d)'
             PROVE  grid'[Coord(d)'][d] = objects'[d].owner /\ playerGuid'[objects'[d].owner] = d
  BY DEF FoundInItsCell
<1>1. CASE d # c
  BY <1>0, <1>1, UpdateEffect, PresenceAssumption
  DEF FoundInItsCell, OnMap, Coord, MapTyped, PlayerObject
<1>2. CASE d = c
  <2>1. OnMap(c) /\ objects'[c].owner = objects[c].owner
    BY <1>0, <1>2, UpdateEffect DEF OnMap
  <2>2. Coord(c)' = CellOf[p] /\ CellOf[p] \in Cell
    BY <1>0, <2>1, UpdateEffect, PresenceAssumption DEF Coord
  <2>3. CASE CellOf[p] = Coord(c)
    BY <1>0, <1>2, <2>1, <2>2, <2>3, UpdateEffect DEF FoundInItsCell
  <2>4. CASE CellOf[p] # Coord(c)
    <3>1. grid'[CellOf[p]][c] = objects[c].owner
      BY <1>0, <2>1, <2>2, <2>4, UpdateEffect
    <3> QED
      BY <1>2, <2>1, <2>2, <3>1 DEF FoundInItsCell
  <2> QED
    BY <2>3, <2>4
<1> QED
  BY <1>1, <1>2

LEMMA ExitFound ==
  ASSUME TypeOK, FoundInItsCell, NEW s \in Session, NEW c \in Character,
         FinalizeWorldExit(s, c), playerGuid[s] \in {c, None}
  PROVE  FoundInItsCell'
<1>0. MapTyped /\ RemoveObject(c)
  BY TypeParts DEF FinalizeWorldExit
<1> SUFFICES ASSUME NEW d \in Character, OnMap(d)'
             PROVE  grid'[Coord(d)'][d] = objects'[d].owner /\ playerGuid'[objects'[d].owner] = d
  BY DEF FoundInItsCell
<1>1. d # c /\ objects'[d] = objects[d] /\ Coord(d) \in Cell
  BY <1>0, RemoveEffect, PresenceAssumption DEF OnMap, Coord, MapTyped, PlayerObject
<1>2. grid'[Coord(d)][d] = grid[Coord(d)][d]
  BY <1>0, <1>1, RemoveEffect
<1>3. objects[d].owner \in Session /\ playerGuid[objects[d].owner] = d
  BY <1>0, <1>1 DEF FoundInItsCell, OnMap, MapTyped, PlayerObject
<1>4. objects[d].owner # s
  BY <1>1, <1>3, PresenceAssumption
<1>5. playerGuid'[objects[d].owner] = d
  BY <1>3, <1>4 DEF FinalizeWorldExit, TypeOK
<1> QED
  BY <1>1, <1>2, <1>5 DEF FoundInItsCell, OnMap, Coord

LEMMA LeaveFound ==
  ASSUME TypeOK, FoundInItsCell, NEW s \in Session, LeaveWorld(s)
  PROVE  FoundInItsCell'
<1>1. CASE playerGuid[s] # None
  BY <1>1, ExitFound DEF LeaveWorld, TypeOK
<1>2. CASE playerGuid[s] = None
  BY <1>2 DEF LeaveWorld, FoundInItsCell, OnMap, Coord, map
<1> QED
  BY <1>1, <1>2

LEMMA LoginFound ==
  ASSUME TypeOK, FoundInItsCell, NEW s \in Session, NEW c \in Character,
         HandlePlayerLogin(s, c)
  PROVE  FoundInItsCell'
<1> DEFINE obj == [owner |-> s, pos |-> LoginPosition(c), health |-> db[c].health]
<1>0. MapTyped /\ obj \in PlayerObject /\ AddObject(c, obj) /\ playerGuid[s] = None
  BY TypeParts, Defaults DEF HandlePlayerLogin, MayLogIn, PlayerObject, TypeOK, Row, LoginPosition
<1> SUFFICES ASSUME NEW d \in Character, OnMap(d)'
             PROVE  grid'[Coord(d)'][d] = objects'[d].owner /\ playerGuid'[objects'[d].owner] = d
  BY DEF FoundInItsCell
<1>1. CASE d = c
  <2>1. objects'[c] = obj /\ grid'[CellOf[obj.pos]][c] = obj.owner
    BY <1>0, AddEffect
  <2>2. playerGuid'[s] = c
    BY DEF HandlePlayerLogin, TypeOK
  <2> QED
    BY <1>1, <2>1, <2>2 DEF Coord
<1>2. CASE d # c
  <2>1. objects'[d] = objects[d] /\ \A k \in Cell : grid'[k][d] = grid[k][d]
    BY <1>0, <1>2, AddEffect
  <2>2. Coord(d) \in Cell /\ objects[d].owner \in Session
    BY <1>0, <2>1, PresenceAssumption DEF OnMap, Coord, MapTyped, PlayerObject
  <2>3. playerGuid[objects[d].owner] = d /\ objects[d].owner # s
    BY <1>0, <2>1, PresenceAssumption DEF FoundInItsCell, OnMap
  <2>4. playerGuid'[objects[d].owner] = d
    BY <2>2, <2>3 DEF HandlePlayerLogin, TypeOK
  <2> QED
    BY <2>1, <2>2, <2>4 DEF FoundInItsCell, OnMap, Coord
<1> QED
  BY <1>1, <1>2

LEMMA SessionStepFound ==
  ASSUME TypeOK, FoundInItsCell, NEW s \in Session,
         \/ Connect(s) \/ EndLoops(s) \/ SyncMapPosition(s) \/ HandleMoveTeleportAck(s) \/ DropTeleport(s)
         \/ \E p \in SanePlace : HandleMovement(s, p)
         \/ \E p \in Place : HandleForceSpeedChangeAck(s, p)
         \/ \E p \in Position : TeleportTo(s, p)
         \/ \E m \in Money : GmModifyMoneyCopper(s, m)
  PROVE  FoundInItsCell'
<1>1. CASE Connect(s) \/ EndLoops(s) \/ DropTeleport(s) \/ (\E p \in Position : TeleportTo(s, p))
           \/ (\E m \in Money : GmModifyMoneyCopper(s, m))
  BY <1>1 DEF Connect, EndLoops, DropTeleport, TeleportTo, GmModifyMoneyCopper,
              FoundInItsCell, OnMap, Coord, map
<1>2. CASE SyncMapPosition(s)
  <2>1. playerGuid[s] \in Character /\ position[s] \in Position
    BY <1>2 DEF SyncMapPosition, InWorld, TypeOK
  <2> QED
    BY <1>2, <2>1, UpdateFound DEF SyncMapPosition, session
<1>3. CASE HandleMoveTeleportAck(s)
  <2>1. playerGuid[s] \in Character /\ pending[s] \in Position
    BY <1>3 DEF HandleMoveTeleportAck, InWorld, TypeOK
  <2> QED
    BY <1>3, <2>1, UpdateFound DEF HandleMoveTeleportAck
<1>4. ASSUME NEW p \in SanePlace, HandleMovement(s, p) PROVE FoundInItsCell'
  <2>1. playerGuid[s] \in Character /\ p \in Position
    BY <1>4, Defaults DEF HandleMovement, InWorld, TypeOK
  <2> QED
    BY <1>4, <2>1, UpdateFound DEF HandleMovement
<1>5. ASSUME NEW p \in Place, HandleForceSpeedChangeAck(s, p) PROVE FoundInItsCell'
  <2>1. playerGuid[s] \in Character /\ p \in Position
    BY <1>5, Defaults DEF HandleForceSpeedChangeAck, InWorld, TypeOK
  <2> QED
    BY <1>5, <2>1, UpdateFound DEF HandleForceSpeedChangeAck, session
<1> QED
  BY <1>1, <1>2, <1>3, <1>4, <1>5

LEMMA ServerStepFound ==
  ASSUME TypeOK, FoundInItsCell,
         \/ \E c \in Character, h \in Health : ApplyHealthDelta(c, h)
         \/ ResetForShutdown \/ Boot \/ Crash
  PROVE  FoundInItsCell'
<1>1. ASSUME NEW c \in Character, NEW h \in Health, ApplyHealthDelta(c, h)
      PROVE  FoundInItsCell'
  <2>1. \A d \in Character : objects'[d].owner = objects[d].owner /\ objects'[d].pos = objects[d].pos
    BY <1>1 DEF ApplyHealthDelta, TypeOK
  <2> QED
    BY <1>1, <2>1 DEF ApplyHealthDelta, session, FoundInItsCell, OnMap, Coord
<1>2. CASE ResetForShutdown \/ StartEmpty
  BY <1>2, Defaults DEF ResetForShutdown, StartEmpty, FoundInItsCell, OnMap
<1> QED
  BY <1>1, <1>2 DEF Boot, Crash

LEMMA StepFound == TypeOK /\ FoundInItsCell /\ [Next]_vars => FoundInItsCell'
<1> SUFFICES ASSUME TypeOK, FoundInItsCell, [Next]_vars PROVE FoundInItsCell'
  OBVIOUS
<1>1. ASSUME NEW s \in Session, NEW c \in Character, LoginNotFound(s, c)
      PROVE  FoundInItsCell'
  BY <1>1, ExitFound DEF LoginNotFound, MayLogIn
<1>2. ASSUME NEW s \in Session,
             HandleLogoutRequest(s) \/ Close(s) \/ Release(s) \/ DestroySession(s)
      PROVE  FoundInItsCell'
  BY <1>2, LeaveFound, ExitFound
  DEF HandleLogoutRequest, Close, Release, DestroySession, InWorld, TypeOK
<1>3. CASE Next
  BY <1>1, <1>2, <1>3, NextCases, SessionStepFound, LoginFound, ServerStepFound
<1>4. CASE UNCHANGED vars
  BY <1>4 DEF vars, session, map, FoundInItsCell, OnMap, Coord
<1> QED
  BY <1>3, <1>4

\* A nearby broadcast finds every Player object, and a Player object always has
\* a session that plays it, however sessions replace each other (Map.cpp).
THEOREM ObjectsFound == Spec => []FoundInItsCell
<1>1. Init => FoundInItsCell
  BY Defaults DEF Init, FoundInItsCell, OnMap
<1> QED
  BY <1>1, StepFound, TypeCorrect, PTL DEF Spec

---------------------------------------------------------------------------
\* The registry, the grid and the four places agree.

\* What a session does on its way out, whether or not it had a character.
LEMMA ExitEffect ==
  ASSUME TypeOK, RegistryNamesPlayers, NEW s \in Session, NEW c \in Character,
         FinalizeWorldExit(s, c), playerGuid[s] \in {c, None}
  PROVE  /\ playerGuid'[s] = None
         /\ \A t \in Session \ {s} : playerGuid'[t] = playerGuid[t] /\ charName'[t] = charName[t]
         /\ \A d \in Character : registry'[d] = IF registry[d] = s THEN None ELSE registry[d]
<1>1. /\ playerGuid'[s] = None
      /\ \A t \in Session \ {s} : playerGuid'[t] = playerGuid[t] /\ charName'[t] = charName[t]
  BY DEF FinalizeWorldExit, TypeOK
<1>2. ASSUME NEW d \in Character PROVE registry'[d] = IF registry[d] = s THEN None ELSE registry[d]
  <2>1. registry'[d] = IF d = charName[s] /\ registry[d] = s THEN None ELSE registry[d]
    BY DEF FinalizeWorldExit, Unregister
  <2>2. registry[d] = s => charName[s] = d
    BY PresenceAssumption DEF RegistryNamesPlayers
  <2> QED
    BY <2>1, <2>2
<1> QED
  BY <1>1, <1>2

LEMMA LeaveEffect ==
  ASSUME TypeOK, RegistryNamesPlayers, NEW s \in Session, LeaveWorld(s)
  PROVE  /\ playerGuid'[s] = None
         /\ \A t \in Session \ {s} : playerGuid'[t] = playerGuid[t] /\ charName'[t] = charName[t]
         /\ \A d \in Character : registry'[d] = IF registry[d] = s THEN None ELSE registry[d]
<1>1. CASE playerGuid[s] # None
  BY <1>1, ExitEffect DEF LeaveWorld, TypeOK
<1>2. CASE playerGuid[s] = None
  <2>1. \A d \in Character : registry[d] # s
    BY <1>2, PresenceAssumption DEF RegistryNamesPlayers
  <2>2. \A d \in Character : registry'[d] = registry[d]
    BY <1>2, <2>1 DEF LeaveWorld, Unregister, TypeOK
  <2>3. /\ playerGuid' = playerGuid
        /\ \A t \in Session \ {s} : charName'[t] = charName[t]
    BY <1>2 DEF LeaveWorld, TypeOK
  <2> QED
    BY <1>2, <2>1, <2>2, <2>3
<1> QED
  BY <1>1, <1>2

\* A session that leaves takes its entries with it and nobody else's.
LEMMA GoneRegistry ==
  ASSUME TypeOK, RegistryNamesPlayers, NEW s \in Session,
         \A t \in Session \ {s} : /\ playerGuid'[t] = playerGuid[t]
                                  /\ charName'[t] = charName[t]
                                  /\ sock'[t] = sock[t],
         \A d \in Character : registry'[d] = IF registry[d] = s THEN None ELSE registry[d]
  PROVE  RegistryNamesPlayers'
<1> SUFFICES ASSUME NEW d \in Character, registry'[d] # None
             PROVE  /\ playerGuid'[registry'[d]] = d
                    /\ charName'[registry'[d]] = d
                    /\ sock'[registry'[d]] # "none"
  BY DEF RegistryNamesPlayers
<1>1. registry'[d] = registry[d] /\ registry[d] # s /\ registry[d] \in Session
  BY DEF TypeOK
<1> QED
  BY <1>1 DEF RegistryNamesPlayers

LEMMA LoginRegistry ==
  ASSUME TypeOK, RegistryNamesPlayers, NEW s \in Session, NEW c \in Character,
         HandlePlayerLogin(s, c)
  PROVE  RegistryNamesPlayers'
<1> SUFFICES ASSUME NEW d \in Character, registry'[d] # None
             PROVE  /\ playerGuid'[registry'[d]] = d
                    /\ charName'[registry'[d]] = d
                    /\ sock'[registry'[d]] # "none"
  BY DEF RegistryNamesPlayers
<1>1. \A e \in Character : registry[e] # s
  BY PresenceAssumption DEF HandlePlayerLogin, MayLogIn, RegistryNamesPlayers
<1>2. CASE UNCHANGED <<registry, charName>>
  <2>1. registry[d] \in Session /\ registry[d] # s /\ playerGuid'[registry[d]] = d
    BY <1>1, <1>2 DEF HandlePlayerLogin, RegistryNamesPlayers, TypeOK
  <2> QED
    BY <1>2, <2>1 DEF HandlePlayerLogin, RegistryNamesPlayers
<1>3. CASE registry' = [registry EXCEPT ![c] = s] /\ charName' = [charName EXCEPT ![s] = c]
  <2>1. CASE d = c
    BY <1>3, <2>1 DEF HandlePlayerLogin, MayLogIn, Heard, TypeOK
  <2>2. CASE d # c
    <3>1. registry'[d] = registry[d] /\ registry[d] \in Session /\ registry[d] # s
      BY <1>1, <1>3, <2>2 DEF TypeOK
    <3> QED
      BY <1>3, <3>1 DEF HandlePlayerLogin, RegistryNamesPlayers, TypeOK
  <2> QED
    BY <2>1, <2>2
<1> QED
  BY <1>2, <1>3 DEF HandlePlayerLogin

LEMMA SessionStepRegistry ==
  ASSUME TypeOK, RegistryNamesPlayers, NEW s \in Session,
         \/ Connect(s) \/ EndLoops(s) \/ SyncMapPosition(s) \/ HandleMoveTeleportAck(s) \/ DropTeleport(s)
         \/ \E p \in SanePlace : HandleMovement(s, p)
         \/ \E p \in Place : HandleForceSpeedChangeAck(s, p)
         \/ \E p \in Position : TeleportTo(s, p)
         \/ \E m \in Money : GmModifyMoneyCopper(s, m)
  PROVE  RegistryNamesPlayers'
<1>1. UNCHANGED <<playerGuid, charName, registry>>
  BY DEF Connect, EndLoops, SyncMapPosition, HandleMoveTeleportAck, DropTeleport, HandleMovement,
         HandleForceSpeedChangeAck, TeleportTo, GmModifyMoneyCopper, session
<1>2. \/ sock' = sock \/ sock' = [sock EXCEPT ![s] = "open"]
      \/ sock' = [sock EXCEPT ![s] = "ended"]
  BY DEF Connect, EndLoops, SyncMapPosition, HandleMoveTeleportAck, DropTeleport, HandleMovement,
         HandleForceSpeedChangeAck, TeleportTo, GmModifyMoneyCopper, session
<1>3. \A t \in Session : sock[t] # "none" => sock'[t] # "none"
  BY <1>2 DEF TypeOK
<1> QED
  BY <1>1, <1>3 DEF RegistryNamesPlayers, TypeOK

LEMMA StepRegistry == TypeOK /\ RegistryNamesPlayers /\ [Next]_vars => RegistryNamesPlayers'
<1> SUFFICES ASSUME TypeOK, RegistryNamesPlayers, [Next]_vars PROVE RegistryNamesPlayers'
  OBVIOUS
<1>1. ASSUME NEW s \in Session, NEW c \in Character, LoginNotFound(s, c)
      PROVE  RegistryNamesPlayers'
  <2>1. \A t \in Session \ {s} : sock'[t] = sock[t]
    BY <1>1 DEF LoginNotFound, ShutSocket, TypeOK
  <2> QED
    BY <1>1, <2>1, ExitEffect, GoneRegistry DEF LoginNotFound, MayLogIn
<1>2. ASSUME NEW s \in Session,
             HandleLogoutRequest(s) \/ Close(s) \/ Release(s) \/ DestroySession(s)
      PROVE  RegistryNamesPlayers'
  <2>1. \A t \in Session \ {s} : sock'[t] = sock[t]
    BY <1>2 DEF HandleLogoutRequest, Close, ShutSocket, Release, DestroySession, TypeOK
  <2>2. CASE HandleLogoutRequest(s)
    <3>1. playerGuid[s] \in Character /\ FinalizeWorldExit(s, playerGuid[s])
      BY <2>2 DEF HandleLogoutRequest, InWorld, TypeOK
    <3> QED
      BY <2>1, <3>1, ExitEffect, GoneRegistry
  <2>3. CASE LeaveWorld(s)
    BY <2>1, <2>3, LeaveEffect, GoneRegistry
  <2> QED
    BY <1>2, <2>2, <2>3 DEF Close, Release, DestroySession
<1>3. CASE (\E c \in Character, h \in Health : ApplyHealthDelta(c, h)) \/ ResetForShutdown
  BY <1>3 DEF ApplyHealthDelta, ResetForShutdown, session, RegistryNamesPlayers
<1>4. CASE Boot \/ Crash
  BY <1>4 DEF Boot, Crash, StartEmpty, RegistryNamesPlayers
<1>5. CASE Next
  BY <1>1, <1>2, <1>3, <1>4, <1>5, NextCases, SessionStepRegistry, LoginRegistry
<1>6. CASE UNCHANGED vars
  BY <1>6 DEF vars, session, RegistryNamesPlayers
<1> QED
  BY <1>5, <1>6

\* A name resolves only to a session that is there and plays the character, however
\* logins, closes, packets dispatched behind them, reconnects and shutdowns interleave.
THEOREM RegistryRight == Spec => []RegistryNamesPlayers
<1>1. Init => RegistryNamesPlayers
  BY DEF Init, RegistryNamesPlayers
<1> QED
  BY <1>1, StepRegistry, TypeCorrect, PTL DEF Spec

-----------------------------------------------------------------------------
\* The grid.  Without a second login of a character that is already in the
\* world, AddObject never finds an object of that character on the map.
LEMMA UpdateGrid ==
  ASSUME TypeOK, GridExact, NEW c \in Character, NEW p \in Position,
         UpdateObjectPosition(c, p)
  PROVE  GridExact'
<1>0. MapTyped
  BY TypeParts
<1> SUFFICES ASSUME NEW k \in Cell, NEW d \in Character
             PROVE  grid'[k][d] = IF OnMap(d)' /\ Coord(d)' = k THEN objects'[d].owner ELSE None
  BY DEF GridExact
<1>1. CASE d # c
  <2>1. objects'[d] = objects[d] /\ grid'[k][d] = grid[k][d]
    BY <1>0, <1>1, UpdateEffect
  <2> QED
    BY <2>1 DEF GridExact, OnMap, Coord
<1>2. CASE d = c /\ ~OnMap(c)
  BY <1>0, <1>2, UpdateEffect DEF GridExact, OnMap, Coord
<1>3. CASE d = c /\ OnMap(c)
  <2>1. OnMap(c)' /\ objects'[c].owner = objects[c].owner /\ Coord(c)' = CellOf[p]
    BY <1>0, <1>3, UpdateEffect DEF OnMap, Coord
  <2>2. CASE CellOf[p] = Coord(c)
    <3>1. grid' = grid
      BY <1>0, <1>3, <2>2, UpdateEffect
    <3> QED
      BY <1>3, <2>1, <2>2, <3>1 DEF GridExact
  <2>3. CASE CellOf[p] # Coord(c)
    <3>1. grid'[k][c] = IF k = CellOf[p] THEN objects[c].owner
                        ELSE IF k = Coord(c) THEN None ELSE grid[k][c]
      BY <1>0, <1>3, <2>3, UpdateEffect
    <3> QED
      BY <1>3, <2>1, <3>1 DEF GridExact
  <2> QED
    BY <2>2, <2>3
<1> QED
  BY <1>1, <1>2, <1>3

LEMMA RemoveGrid ==
  ASSUME TypeOK, GridExact, NEW c \in Character, RemoveObject(c)
  PROVE  GridExact'
<1>0. MapTyped
  BY TypeParts
<1> SUFFICES ASSUME NEW k \in Cell, NEW d \in Character
             PROVE  grid'[k][d] = IF OnMap(d)' /\ Coord(d)' = k THEN objects'[d].owner ELSE None
  BY DEF GridExact
<1>1. CASE d # c
  <2>1. objects'[d] = objects[d] /\ grid'[k][d] = grid[k][d]
    BY <1>0, <1>1, RemoveEffect
  <2> QED
    BY <2>1 DEF GridExact, OnMap, Coord
<1>2. CASE d = c
  <2>1. ~OnMap(c)'
    BY <1>0, RemoveEffect DEF OnMap
  <2>2. grid'[k][c] = None
    <3>1. CASE OnMap(c)
      <4>1. Coord(c) \in Cell
        BY <1>0, PresenceAssumption DEF MapTyped, PlayerObject, Coord
      <4>2. grid' = [grid EXCEPT ![Coord(c)][c] = None]
        BY <1>0, <3>1, RemoveEffect
      <4>3. k # Coord(c) => grid[k][c] = None
        BY DEF GridExact
      <4> QED
        BY <1>0, <4>1, <4>2, <4>3 DEF MapTyped
    <3>2. CASE ~OnMap(c)
      BY <1>0, <3>2, RemoveEffect DEF GridExact
    <3> QED
      BY <3>1, <3>2
  <2> QED
    BY <1>2, <2>1, <2>2
<1> QED
  BY <1>1, <1>2

LEMMA AddGrid ==
  ASSUME TypeOK, GridExact, NEW c \in Character, NEW obj \in PlayerObject,
         obj.owner # None, ~OnMap(c), AddObject(c, obj)
  PROVE  GridExact'
<1>0. MapTyped
  BY TypeParts
<1> SUFFICES ASSUME NEW k \in Cell, NEW d \in Character
             PROVE  grid'[k][d] = IF OnMap(d)' /\ Coord(d)' = k THEN objects'[d].owner ELSE None
  BY DEF GridExact
<1>1. CASE d # c
  <2>1. objects'[d] = objects[d] /\ grid'[k][d] = grid[k][d]
    BY <1>0, <1>1, AddEffect
  <2> QED
    BY <2>1 DEF GridExact, OnMap, Coord
<1>2. CASE d = c
  <2>1. OnMap(c)' /\ Coord(c)' = CellOf[obj.pos] /\ objects'[c].owner = obj.owner
    BY <1>0, AddEffect DEF OnMap, Coord
  <2>2. grid'[k][c] = IF k = CellOf[obj.pos] THEN obj.owner ELSE grid[k][c]
    BY <1>0, AddEffect
  <2>3. grid[k][c] = None
    BY DEF GridExact
  <2> QED
    BY <1>2, <2>1, <2>2, <2>3
<1> QED
  BY <1>1, <1>2

LEMMA StepGrid ==
  ASSUME ExclusiveLogin, TypeOK, FoundInItsCell, GridExact, [Next]_vars
  PROVE  GridExact'
<1>1. ASSUME NEW s \in Session,
             \/ Connect(s) \/ EndLoops(s) \/ SyncMapPosition(s) \/ HandleMoveTeleportAck(s) \/ DropTeleport(s)
             \/ \E p \in SanePlace : HandleMovement(s, p)
             \/ \E p \in Place : HandleForceSpeedChangeAck(s, p)
             \/ \E p \in Position : TeleportTo(s, p)
             \/ \E m \in Money : GmModifyMoneyCopper(s, m)
      PROVE  GridExact'
  <2>1. CASE UNCHANGED map
    BY <2>1 DEF map, GridExact, OnMap, Coord
  <2>2. CASE \E c \in Character, p \in Position : UpdateObjectPosition(c, p)
    BY <2>2, UpdateGrid
  <2>3. InWorld(s) => playerGuid[s] \in Character
    BY DEF InWorld, TypeOK
  <2>4. position[s] \in Position /\ pending[s] \in Position \cup {None}
    BY DEF TypeOK
  <2>5. \/ UNCHANGED map
        \/ \E c \in Character, p \in Position : UpdateObjectPosition(c, p)
    BY <1>1, <2>3, <2>4, Defaults
    DEF Connect, EndLoops, SyncMapPosition, HandleMoveTeleportAck, DropTeleport, HandleMovement,
        HandleForceSpeedChangeAck, TeleportTo, GmModifyMoneyCopper
  <2> QED
    BY <2>1, <2>2, <2>5
<1>2. ASSUME NEW s \in Session, NEW c \in Character, HandlePlayerLogin(s, c)
      PROVE  GridExact'
  <2> DEFINE obj == [owner |-> s, pos |-> LoginPosition(c), health |-> db[c].health]
  <2>1. obj \in PlayerObject /\ obj.owner # None /\ AddObject(c, obj)
    BY <1>2, Defaults, PresenceAssumption DEF HandlePlayerLogin, PlayerObject, TypeOK, Row, LoginPosition
  <2>2. \A t \in Session : playerGuid[t] # c
    BY <1>2 DEF HandlePlayerLogin, MayLogIn
  <2>3. ~OnMap(c)
    BY <2>2 DEF FoundInItsCell, OnMap, TypeOK
  <2> QED
    BY <2>1, <2>3, AddGrid
<1>3. ASSUME NEW s \in Session, NEW c \in Character, LoginNotFound(s, c)
      PROVE  GridExact'
  BY <1>3, RemoveGrid DEF LoginNotFound, FinalizeWorldExit
<1>4. ASSUME NEW s \in Session,
             HandleLogoutRequest(s) \/ Close(s) \/ Release(s) \/ DestroySession(s)
      PROVE  GridExact'
  <2>1. CASE playerGuid[s] # None
    <3>1. playerGuid[s] \in Character /\ RemoveObject(playerGuid[s])
      BY <1>4, <2>1 DEF HandleLogoutRequest, Close, Release, DestroySession, LeaveWorld,
                        FinalizeWorldExit, TypeOK
    <3> QED
      BY <3>1, RemoveGrid
  <2>2. CASE playerGuid[s] = None
    BY <1>4, <2>2 DEF HandleLogoutRequest, InWorld, Close, Release, DestroySession, LeaveWorld,
                      map, GridExact, OnMap, Coord
  <2> QED
    BY <2>1, <2>2
<1>5. ASSUME NEW c \in Character, NEW h \in Health, ApplyHealthDelta(c, h)
      PROVE  GridExact'
  <2>1. \A d \in Character : objects'[d].owner = objects[d].owner /\ objects'[d].pos = objects[d].pos
    BY <1>5 DEF ApplyHealthDelta, TypeOK
  <2> QED
    BY <1>5, <2>1 DEF ApplyHealthDelta, GridExact, OnMap, Coord
<1>6. CASE ResetForShutdown \/ Boot \/ Crash
  BY <1>6, Defaults DEF ResetForShutdown, Boot, Crash, StartEmpty, EmptyGrid, GridExact, OnMap
<1>7. CASE Next
  BY <1>1, <1>2, <1>3, <1>4, <1>5, <1>6, <1>7, NextCases
<1>8. CASE UNCHANGED vars
  BY <1>8 DEF vars, map, GridExact, OnMap, Coord
<1> QED
  BY <1>7, <1>8

\* When a character has one session at a time, a nearby broadcast reaches
\* exactly who is there, failing statements on the characters table or not.
THEOREM GridRight == ASSUME ExclusiveLogin PROVE Spec => []GridExact
<1>1. Init => GridExact
  BY Defaults DEF Init, EmptyGrid, GridExact, OnMap
<1>2. TypeOK /\ FoundInItsCell /\ GridExact /\ [Next]_vars => GridExact'
  BY StepGrid
<1> QED
  BY <1>1, <1>2, TypeCorrect, ObjectsFound, PTL DEF Spec

-----------------------------------------------------------------------------
\* The four places.  What is left to show, besides the two invariants above, is
\* that a session in the world has its object and its entry.
LEMMA OwnerKept ==
  ASSUME TypeOK, NEW c \in Character, NEW p \in Position, UpdateObjectPosition(c, p)
  PROVE  \A d \in Character : objects'[d].owner = objects[d].owner
BY TypeParts, UpdateEffect

LEMMA ExitPresence ==
  ASSUME TypeOK, RegistryNamesPlayers, FoundInItsCell, PresenceAgrees, phase = "up",
         NEW s \in Session, NEW c \in Character, playerGuid[s] = c, FinalizeWorldExit(s, c)
  PROVE  PresenceAgrees'
<1> SUFFICES ASSUME NEW t \in Session, NEW d \in Character
             PROVE  /\ (playerGuid'[t] = d) <=> (objects'[d].owner = t)
                    /\ (playerGuid'[t] = d) <=> (registry'[d] = t)
  BY DEF PresenceAgrees
<1>1. /\ playerGuid'[s] = None
      /\ \A u \in Session \ {s} : playerGuid'[u] = playerGuid[u]
      /\ registry'[d] = IF registry[d] = s THEN None ELSE registry[d]
  BY ExitEffect
<1>2. objects'[d].owner = IF d = c THEN None ELSE objects[d].owner
  BY TypeParts, RemoveEffect DEF FinalizeWorldExit
<1>3. objects[c].owner = s /\ registry[c] = s
  BY DEF PresenceAgrees
<1>4. d # c => registry[d] # s /\ objects[d].owner # s
  BY DEF PresenceAgrees
<1>5. t # s => playerGuid[t] # c
  BY <1>3 DEF PresenceAgrees
<1> QED
  BY <1>1, <1>2, <1>3, <1>4, <1>5, PresenceAssumption DEF PresenceAgrees

LEMMA StepPresence ==
  ASSUME ExclusiveLogin, ~DbMayFail, TypeOK, RegistryNamesPlayers, FoundInItsCell,
         PresenceAgrees, [Next]_vars
  PROVE  PresenceAgrees'
<1>1. ASSUME NEW s \in Session,
             \/ Connect(s) \/ EndLoops(s) \/ SyncMapPosition(s) \/ HandleMoveTeleportAck(s) \/ DropTeleport(s)
             \/ \E p \in SanePlace : HandleMovement(s, p)
             \/ \E p \in Place : HandleForceSpeedChangeAck(s, p)
             \/ \E p \in Position : TeleportTo(s, p)
             \/ \E m \in Money : GmModifyMoneyCopper(s, m)
      PROVE  PresenceAgrees'
  <2>1. InWorld(s) => playerGuid[s] \in Character
    BY DEF InWorld, TypeOK
  <2>2. position[s] \in Position /\ pending[s] \in Position \cup {None}
    BY DEF TypeOK
  <2>3. \/ UNCHANGED map
        \/ \E c \in Character, p \in Position : UpdateObjectPosition(c, p)
    BY <1>1, <2>1, <2>2, Defaults
    DEF Connect, EndLoops, SyncMapPosition, HandleMoveTeleportAck, DropTeleport, HandleMovement,
        HandleForceSpeedChangeAck, TeleportTo, GmModifyMoneyCopper
  <2>4. \A d \in Character : objects'[d].owner = objects[d].owner
    BY <2>3, OwnerKept DEF map
  <2>5. UNCHANGED <<phase, playerGuid, registry>>
    BY <1>1 DEF Connect, EndLoops, SyncMapPosition, HandleMoveTeleportAck, DropTeleport, HandleMovement,
                HandleForceSpeedChangeAck, TeleportTo, GmModifyMoneyCopper, session
  <2> QED
    BY <2>4, <2>5 DEF PresenceAgrees
<1>2. ASSUME NEW s \in Session, NEW c \in Character, HandlePlayerLogin(s, c)
      PROVE  PresenceAgrees'
  <2> DEFINE obj == [owner |-> s, pos |-> LoginPosition(c), health |-> db[c].health]
  <2>1. obj \in PlayerObject /\ AddObject(c, obj)
    BY <1>2, Defaults, PresenceAssumption DEF HandlePlayerLogin, PlayerObject, TypeOK, Row, LoginPosition
  <2>2. \A d \in Character : objects'[d].owner = IF d = c THEN s ELSE objects[d].owner
    BY <2>1, TypeParts, AddEffect
  <2>3. \A d \in Character : registry'[d] = IF d = c THEN s ELSE registry[d]
    BY <1>2 DEF HandlePlayerLogin, DbOutcome, TypeOK
  <2>4. \A t \in Session : playerGuid'[t] = IF t = s THEN c ELSE playerGuid[t]
    BY <1>2 DEF HandlePlayerLogin, TypeOK
  <2>5. phase = "up" /\ playerGuid[s] = None /\ \A t \in Session : playerGuid[t] # c
    BY <1>2 DEF HandlePlayerLogin, MayLogIn
  <2> QED
    BY <2>2, <2>3, <2>4, <2>5, PresenceAssumption DEF PresenceAgrees
<1>3. ASSUME NEW s \in Session, HandleLogoutRequest(s) \/ Close(s) \/ Release(s)
      PROVE  PresenceAgrees'
  <2>1. phase = "up"
    BY <1>3 DEF HandleLogoutRequest, InWorld, Close, Release
  <2>2. CASE playerGuid[s] # None
    <3>1. playerGuid[s] \in Character /\ FinalizeWorldExit(s, playerGuid[s])
      BY <1>3, <2>2 DEF HandleLogoutRequest, Close, Release, LeaveWorld, TypeOK
    <3> QED
      BY <2>1, <3>1, ExitPresence
  <2>3. CASE playerGuid[s] = None
    <3>1. LeaveWorld(s) /\ UNCHANGED <<playerGuid, objects>>
      BY <1>3, <2>3 DEF HandleLogoutRequest, InWorld, Close, Release, LeaveWorld, map
    <3>2. \A d \in Character : registry'[d] = registry[d]
      BY <2>3, <3>1, LeaveEffect, PresenceAssumption DEF RegistryNamesPlayers
    <3> QED
      BY <2>1, <3>1, <3>2 DEF PresenceAgrees
  <2> QED
    BY <2>2, <2>3
<1>4. ASSUME NEW s \in Session, DestroySession(s) PROVE PresenceAgrees'
  BY <1>4 DEF DestroySession, PresenceAgrees
<1>5. ASSUME NEW c \in Character, NEW h \in Health, ApplyHealthDelta(c, h)
      PROVE  PresenceAgrees'
  <2>1. \A d \in Character : objects'[d].owner = objects[d].owner
    BY <1>5 DEF ApplyHealthDelta, TypeOK
  <2> QED
    BY <1>5, <2>1 DEF ApplyHealthDelta, session, PresenceAgrees
<1>6. CASE ResetForShutdown
  BY <1>6 DEF ResetForShutdown, PresenceAgrees
<1>7. CASE StartEmpty
  BY <1>7, Defaults, PresenceAssumption DEF StartEmpty, PresenceAgrees
<1>8. \A s \in Session, c \in Character : ~LoginNotFound(s, c)
  BY DEF LoginNotFound
<1>9. CASE Next
  BY <1>1, <1>2, <1>3, <1>4, <1>5, <1>6, <1>7, <1>8, <1>9, NextCases DEF Boot, Crash
<1>10. CASE UNCHANGED vars
  BY <1>10 DEF vars, session, map, PresenceAgrees
<1> QED
  BY <1>9, <1>10

\* A session, its Player object and its registry entry come and go together,
\* when a character has one session at a time and the table answers.
THEOREM PresenceRight ==
  ASSUME ExclusiveLogin, ~DbMayFail PROVE Spec => []PresenceAgrees
<1>1. Init => PresenceAgrees
  BY Defaults, PresenceAssumption DEF Init, PresenceAgrees
<1>2. TypeOK /\ RegistryNamesPlayers /\ FoundInItsCell /\ PresenceAgrees /\ [Next]_vars
        => PresenceAgrees'
  BY StepPresence
<1> QED
  BY <1>1, <1>2, TypeCorrect, RegistryRight, ObjectsFound, PTL DEF Spec

-----------------------------------------------------------------------------
\* Steps of the properties about a single step.

\* What a step does to the registry: nothing, a login, an exit, or a new process.
LEMMA RegistryStep ==
  ASSUME TypeOK, RegistryNamesPlayers, Next
  PROVE  \/ UNCHANGED registry
         \/ \E s \in Session : /\ playerGuid'[s] = None
                               /\ \A d \in Character :
                                    registry'[d] = IF registry[d] = s THEN None ELSE registry[d]
         \/ \E s \in Session, c \in Character :
              /\ playerGuid[s] = None /\ playerGuid'[s] = c
              /\ \A d \in Character : registry'[d] = IF d = c THEN s ELSE registry[d]
         \/ StartEmpty
<1>1. ASSUME NEW s \in Session,
             \/ Connect(s) \/ EndLoops(s) \/ SyncMapPosition(s) \/ HandleMoveTeleportAck(s) \/ DropTeleport(s)
             \/ \E p \in SanePlace : HandleMovement(s, p)
             \/ \E p \in Place : HandleForceSpeedChangeAck(s, p)
             \/ \E p \in Position : TeleportTo(s, p)
             \/ \E m \in Money : GmModifyMoneyCopper(s, m)
      PROVE  UNCHANGED registry
  BY <1>1 DEF Connect, EndLoops, SyncMapPosition, HandleMoveTeleportAck, DropTeleport, HandleMovement,
              HandleForceSpeedChangeAck, TeleportTo, GmModifyMoneyCopper
<1>2. ASSUME NEW s \in Session, NEW c \in Character, HandlePlayerLogin(s, c)
      PROVE  \/ UNCHANGED registry
             \/ /\ playerGuid[s] = None /\ playerGuid'[s] = c
                /\ \A d \in Character : registry'[d] = IF d = c THEN s ELSE registry[d]
  BY <1>2 DEF HandlePlayerLogin, MayLogIn, TypeOK
<1>3. ASSUME NEW s \in Session, NEW c \in Character, LoginNotFound(s, c)
      PROVE  /\ playerGuid'[s] = None
             /\ \A d \in Character : registry'[d] = IF registry[d] = s THEN None ELSE registry[d]
  BY <1>3, ExitEffect DEF LoginNotFound, MayLogIn
<1>4. ASSUME NEW s \in Session,
             HandleLogoutRequest(s) \/ Close(s) \/ Release(s) \/ DestroySession(s)
      PROVE  /\ playerGuid'[s] = None
             /\ \A d \in Character : registry'[d] = IF registry[d] = s THEN None ELSE registry[d]
  <2>1. CASE HandleLogoutRequest(s)
    BY <2>1, ExitEffect DEF HandleLogoutRequest, InWorld, TypeOK
  <2>2. CASE Close(s) \/ Release(s) \/ DestroySession(s)
    BY <2>2, LeaveEffect DEF Close, Release, DestroySession
  <2> QED BY <1>4, <2>1, <2>2
<1>5. CASE (\E c \in Character, h \in Health : ApplyHealthDelta(c, h)) \/ ResetForShutdown
  BY <1>5 DEF ApplyHealthDelta, ResetForShutdown
<1>6. CASE Boot \/ Crash
  BY <1>6 DEF Boot, Crash
<1> QED BY <1>1, <1>2, <1>3, <1>4, <1>5, <1>6, NextCases

\* An old session that leaves after its replacement has logged in takes nothing from
\* it: only its holder's exit or the next login of the character ends an entry.
THEOREM SuccessorRight == Spec => SuccessorKeepsEntry
<1> DEFINE Kept(c) ==
      (phase' = "up" /\ registry[c] # None /\ registry'[c] # registry[c]) =>
          \/ registry'[c] = None /\ playerGuid'[registry[c]] = None
          \/ registry'[c] # None /\ playerGuid[registry'[c]] # c
             /\ playerGuid'[registry'[c]] = c
<1>1. ASSUME TypeOK, RegistryNamesPlayers, [Next]_vars, NEW c \in Character
      PROVE  Kept(c)
  <2>1. CASE UNCHANGED registry BY <2>1
  <2>2. ASSUME NEW s \in Session, playerGuid'[s] = None,
               \A d \in Character : registry'[d] = IF registry[d] = s THEN None ELSE registry[d]
        PROVE  Kept(c)
    BY <2>2
  <2>3. ASSUME NEW s \in Session, NEW e \in Character, playerGuid[s] = None, playerGuid'[s] = e,
               \A d \in Character : registry'[d] = IF d = e THEN s ELSE registry[d]
        PROVE  Kept(c)
    BY <2>3, PresenceAssumption
  <2>4. CASE StartEmpty
    BY <1>1, <2>4 DEF StartEmpty, TypeOK
  <2>5. CASE UNCHANGED vars BY <2>1, <2>5 DEF vars
  <2>6. CASE Next
    BY <1>1, <2>6, <2>1, <2>2, <2>3, <2>4, RegistryStep
  <2> QED BY <1>1, <2>5, <2>6
<1>2. TypeOK /\ RegistryNamesPlayers /\ [Next]_vars
        => [\A c \in Character : Kept(c)]_vars
  BY <1>1
<1> QED
  BY <1>2, TypeCorrect, RegistryRight, PTL DEF Spec, SuccessorKeepsEntry

\* What a step does to the table: nothing, one coin, or the save of one character.
LEMMA TableStep ==
  ASSUME TypeOK, Next
  PROVE  \/ UNCHANGED db
         \/ \E s \in Session, m \in Money : GmModifyMoneyCopper(s, m)
         \/ \E s \in Session, c \in Character, readOk \in BOOLEAN : SaveCharacterOnLogout(s, c, readOk)
<1>1. ASSUME NEW s \in Session, NEW c \in Character, FinalizeWorldExit(s, c)
      PROVE  UNCHANGED db \/ \E readOk \in BOOLEAN : SaveCharacterOnLogout(s, c, readOk)
  BY <1>1 DEF FinalizeWorldExit, DbOutcome
<1>2. ASSUME NEW s \in Session,
             HandleLogoutRequest(s) \/ Close(s) \/ Release(s) \/ DestroySession(s)
      PROVE  \/ UNCHANGED db
             \/ \E c \in Character, readOk \in BOOLEAN : SaveCharacterOnLogout(s, c, readOk)
  <2>1. CASE playerGuid[s] # None
    <3>1. playerGuid[s] \in Character /\ FinalizeWorldExit(s, playerGuid[s])
      BY <1>2, <2>1 DEF HandleLogoutRequest, Close, Release, DestroySession, LeaveWorld, TypeOK
    <3> QED BY <1>1, <3>1
  <2>2. CASE playerGuid[s] = None
    BY <1>2, <2>2 DEF HandleLogoutRequest, InWorld, Close, Release, DestroySession, LeaveWorld
  <2> QED BY <2>1, <2>2
<1>3. ASSUME NEW s \in Session, NEW c \in Character,
             HandlePlayerLogin(s, c) \/ LoginNotFound(s, c)
      PROVE  UNCHANGED db \/ \E readOk \in BOOLEAN : SaveCharacterOnLogout(s, c, readOk)
  BY <1>1, <1>3 DEF HandlePlayerLogin, LoginNotFound
<1>4. ASSUME NEW s \in Session,
             \/ Connect(s) \/ EndLoops(s) \/ SyncMapPosition(s) \/ HandleMoveTeleportAck(s) \/ DropTeleport(s)
             \/ \E p \in SanePlace : HandleMovement(s, p)
             \/ \E p \in Place : HandleForceSpeedChangeAck(s, p)
             \/ \E p \in Position : TeleportTo(s, p)
      PROVE  UNCHANGED db
  BY <1>4 DEF Connect, EndLoops, SyncMapPosition, HandleMoveTeleportAck, DropTeleport, HandleMovement,
              HandleForceSpeedChangeAck, TeleportTo
<1>5. CASE (\E c \in Character, h \in Health : ApplyHealthDelta(c, h)) \/ ResetForShutdown
  BY <1>5 DEF ApplyHealthDelta, ResetForShutdown
<1>6. CASE Boot \/ Crash
  BY <1>6 DEF Boot, Crash, StartEmpty
<1> QED BY <1>2, <1>3, <1>4, <1>5, <1>6, NextCases

\* No save makes usable coordinates unusable, failed lookups included.
THEOREM SaneRight == Spec => SaneStaysSane
<1>1. ASSUME TypeOK, [Next]_vars, NEW c \in Character, db[c].pos \in Sane
      PROVE  db'[c].pos \in Sane
  <2>1. CASE UNCHANGED db BY <1>1, <2>1
  <2>2. ASSUME NEW s \in Session, NEW m \in Money, GmModifyMoneyCopper(s, m)
        PROVE  db'[c].pos \in Sane
    <3>1. db' = [db EXCEPT ![playerGuid[s]].money = m] /\ db[c] \in Row
      BY <1>1, <2>2 DEF GmModifyMoneyCopper, TypeOK
    <3>2. db'[c].pos = db[c].pos BY <1>1, <3>1 DEF TypeOK, Row
    <3> QED BY <1>1, <3>2
  <2>3. ASSUME NEW s \in Session, NEW d \in Character, NEW readOk \in BOOLEAN,
               SaveCharacterOnLogout(s, d, readOk)
        PROVE  db'[c].pos \in Sane
    <3>1. db[d].pos \in Sane => PersistPosition(s, d, readOk) \in Sane
      BY DEF PersistPosition, Sane
    <3>2. db'[c].pos = IF c = d THEN PersistPosition(s, d, readOk) ELSE db[c].pos
      BY <1>1, <2>3 DEF SaveCharacterOnLogout, TypeOK
    <3> QED BY <1>1, <3>1, <3>2
  <2> QED BY <1>1, <2>1, <2>2, <2>3, TableStep DEF vars
<1>2. TypeOK /\ [Next]_vars =>
        [\A c \in Character : db[c].pos \in Sane => db'[c].pos \in Sane]_vars
  BY <1>1
<1> QED BY <1>2, TypeCorrect, PTL DEF Spec, SaneStaysSane

-----------------------------------------------------------------------------
\* What the table gets.  A save reads the row, the session and a pending teleport:
\* none of them is ever the default zeros of a session that is not in the world.
PlayedPlaceIsReal ==
  \A s \in Session : pending[s] # Origin /\ (playerGuid[s] # None => position[s] # Origin)

PlaceReal == SavedPlaceIsReal /\ PlayedPlaceIsReal

LEMMA OriginApart ==
  /\ Origin # None /\ StartPosition # Origin
  /\ \A p \in Place : p # Origin
  /\ \A p \in SanePlace : p # Origin
BY PresenceAssumption DEF Position

LEMMA ExitPlace ==
  ASSUME ~DbMayFail, TypeOK, PlaceReal, NEW s \in Session, NEW c \in Character,
         playerGuid[s] = c, FinalizeWorldExit(s, c)
  PROVE  PlaceReal'
<1>1. playerGuid[s] # None BY PresenceAssumption
<1>2. position[s] # Origin /\ pending[s] # Origin BY <1>1 DEF PlaceReal, PlayedPlaceIsReal
<1>3. db[c].pos # Origin BY DEF PlaceReal, SavedPlaceIsReal
<1>4. PersistPosition(s, c, TRUE) # Origin
  BY <1>2, <1>3 DEF PersistPosition
<1>5. SaveCharacterOnLogout(s, c, TRUE) BY DEF FinalizeWorldExit, DbOutcome
<1>6. SavedPlaceIsReal'
  BY <1>4, <1>5 DEF SaveCharacterOnLogout, SavedPlaceIsReal, PlaceReal, TypeOK
<1>7. PlayedPlaceIsReal'
  <2>1. /\ playerGuid' = [playerGuid EXCEPT ![s] = None]
        /\ position' = [position EXCEPT ![s] = Origin]
        /\ pending' = [pending EXCEPT ![s] = None]
    BY DEF FinalizeWorldExit
  <2> QED BY <2>1, OriginApart DEF PlaceReal, PlayedPlaceIsReal, TypeOK
<1> QED BY <1>6, <1>7 DEF PlaceReal

LEMMA StepPlace ==
  ASSUME ~DbMayFail, TypeOK, RegistryNamesPlayers, PlaceReal, [Next]_vars
  PROVE  PlaceReal'
<1>1. ASSUME UNCHANGED db, UNCHANGED <<playerGuid, position, pending>> PROVE PlaceReal'
  BY <1>1 DEF PlaceReal, SavedPlaceIsReal, PlayedPlaceIsReal
<1>2. ASSUME NEW s \in Session,
             HandleLogoutRequest(s) \/ Close(s) \/ Release(s) \/ DestroySession(s)
      PROVE  PlaceReal'
  <2>1. CASE playerGuid[s] # None
    <3>1. playerGuid[s] \in Character /\ FinalizeWorldExit(s, playerGuid[s])
      BY <1>2, <2>1 DEF HandleLogoutRequest, Close, Release, DestroySession, LeaveWorld, TypeOK
    <3> QED BY <3>1, ExitPlace
  <2>2. CASE playerGuid[s] = None
    BY <1>1, <1>2, <2>2 DEF HandleLogoutRequest, InWorld, Close, Release, DestroySession, LeaveWorld
  <2> QED BY <2>1, <2>2
<1>3. ASSUME NEW s \in Session, NEW c \in Character, HandlePlayerLogin(s, c) PROVE PlaceReal'
  <2>1. /\ playerGuid' = [playerGuid EXCEPT ![s] = c]
        /\ position' = [position EXCEPT ![s] = LoginPosition(c)]
        /\ UNCHANGED <<pending, db>>
    BY <1>3 DEF HandlePlayerLogin
  <2>2. LoginPosition(c) # Origin
    BY OriginApart DEF LoginPosition, PlaceReal, SavedPlaceIsReal
  <2> QED BY <2>1, <2>2 DEF PlaceReal, SavedPlaceIsReal, PlayedPlaceIsReal, TypeOK
<1>4. ASSUME NEW s \in Session, NEW p, TeleportTo(s, p), p # Origin PROVE PlaceReal'
  BY <1>4 DEF TeleportTo, PlaceReal, SavedPlaceIsReal, PlayedPlaceIsReal, TypeOK
<1>5. ASSUME NEW c \in Character, NEW d \in Character, Summon(c, d) PROVE PlaceReal'
  <2>1. registry[c] \in Session /\ registry[d] \in Session /\ playerGuid[registry[d]] # None
    BY <1>5, PresenceAssumption DEF Summon, TypeOK, RegistryNamesPlayers
  <2> QED BY <1>4, <1>5, <2>1 DEF Summon, PlaceReal, PlayedPlaceIsReal
<1>6. ASSUME NEW s \in Session, NEW p \in Place, TeleportTo(s, p) PROVE PlaceReal'
  BY <1>4, <1>6, OriginApart
<1>7. ASSUME NEW s \in Session, NEW p \in SanePlace, HandleMovement(s, p) PROVE PlaceReal'
  BY <1>7, OriginApart DEF HandleMovement, PlaceReal, SavedPlaceIsReal, PlayedPlaceIsReal, TypeOK
<1>8. ASSUME NEW s \in Session, HandleMoveTeleportAck(s) \/ DropTeleport(s) PROVE PlaceReal'
  BY <1>8, OriginApart
  DEF HandleMoveTeleportAck, DropTeleport, PlaceReal, SavedPlaceIsReal, PlayedPlaceIsReal, TypeOK
<1>9. ASSUME NEW s \in Session, NEW m \in Money, GmModifyMoneyCopper(s, m) PROVE PlaceReal'
  <2>1. db' = [db EXCEPT ![playerGuid[s]].money = m] /\ UNCHANGED <<playerGuid, position, pending>>
    BY <1>9 DEF GmModifyMoneyCopper
  <2>2. \A c \in Character : db'[c].pos = db[c].pos
    BY <2>1 DEF TypeOK, Row
  <2> QED BY <2>1, <2>2 DEF PlaceReal, SavedPlaceIsReal, PlayedPlaceIsReal
<1>10. CASE Boot \/ Crash
  BY <1>10, OriginApart DEF Boot, Crash, StartEmpty, PlaceReal, SavedPlaceIsReal, PlayedPlaceIsReal
<1>11. ASSUME NEW s \in Session, PlayerStep(s) PROVE PlaceReal'
  <2>1. CASE Connect(s) \/ EndLoops(s) \/ MergeMovement(s)
    BY <1>1, <2>1 DEF Connect, EndLoops, MergeMovement, SyncMapPosition, session
  <2>2. CASE \E p \in Place : HandleForceSpeedChangeAck(s, p)
    BY <1>1, <2>2 DEF HandleForceSpeedChangeAck, session
  <2>3. \A c \in Character : ~LoginNotFound(s, c)
    BY DEF LoginNotFound
  <2> QED BY <1>2, <1>3, <1>7, <1>8, <1>11, <2>1, <2>2, <2>3 DEF PlayerStep, SessionStep
<1>12. ASSUME StaffStep PROVE PlaceReal'
  <2>1. CASE \E s \in Session : SyncMapPosition(s)
    BY <1>1, <2>1 DEF SyncMapPosition, session
  <2>2. ASSUME NEW c \in Character, HandleKick(c) PROVE \E s \in Session : Close(s)
    BY <2>2 DEF HandleKick, TypeOK
  <2> QED BY <1>2, <1>5, <1>6, <1>9, <1>12, <2>1, <2>2 DEF StaffStep
<1>13. ASSUME ServerStep PROVE PlaceReal'
  <2>1. CASE (\E c \in Character, h \in Health : ApplyHealthDelta(c, h)) \/ ResetForShutdown
    BY <1>1, <2>1 DEF ApplyHealthDelta, ResetForShutdown, session
  <2> QED BY <1>2, <1>10, <1>13, <2>1 DEF ServerStep
<1>14. CASE UNCHANGED vars
  BY <1>1, <1>14 DEF vars, session
<1> QED BY <1>11, <1>12, <1>13, <1>14 DEF Next

\* As long as the table answers, no save writes the default zeros over a place, even
\* when two sessions play one character.
THEOREM PlaceIsReal == ASSUME ~DbMayFail PROVE Spec => []SavedPlaceIsReal
<1>1. Init => PlaceReal
  BY OriginApart DEF Init, PlaceReal, SavedPlaceIsReal, PlayedPlaceIsReal
<1>2. TypeOK /\ RegistryNamesPlayers /\ PlaceReal /\ [Next]_vars => PlaceReal'
  BY StepPlace
<1>3. PlaceReal => SavedPlaceIsReal BY DEF PlaceReal
<1> QED BY <1>1, <1>2, <1>3, TypeCorrect, RegistryRight, PTL DEF Spec

-----------------------------------------------------------------------------
\* The coin: one session per character has a copy of it.
OnePlayer ==
  \A s, t \in Session : playerGuid[s] # None /\ playerGuid[s] = playerGuid[t] => s = t

\* A session object that does not exist plays nobody.
AbsentPlaysNobody == \A s \in Session : sock[s] = "none" => playerGuid[s] = None

CoinRight == OnePlayer /\ MoneyMirrorsDb /\ AbsentPlaysNobody

LEMMA ExitCoin ==
  ASSUME TypeOK, CoinRight, NEW s \in Session, NEW c \in Character,
         playerGuid[s] = c, FinalizeWorldExit(s, c)
  PROVE  OnePlayer' /\ MoneyMirrorsDb'
<1>1. playerGuid' = [playerGuid EXCEPT ![s] = None] /\ money' = money
  BY DEF FinalizeWorldExit
<1>2. \A t \in Session : playerGuid'[t] = IF t = s THEN None ELSE playerGuid[t]
  BY <1>1 DEF TypeOK
<1>3. OnePlayer' BY <1>2 DEF CoinRight, OnePlayer
<1>4. \A d \in Character : db'[d].money = db[d].money \/ (d = c /\ db'[d].money = money[s])
  <2>1. PICK readOk \in DbOutcome :
          SaveCharacterOnLogout(s, c, readOk) \/ UNCHANGED db
    BY DEF FinalizeWorldExit
  <2> QED BY <2>1 DEF SaveCharacterOnLogout, TypeOK
<1>5. money[s] = db[c].money
  BY PresenceAssumption DEF CoinRight, MoneyMirrorsDb
<1>6. MoneyMirrorsDb'
  BY <1>1, <1>2, <1>4, <1>5 DEF CoinRight, MoneyMirrorsDb, TypeOK
<1> QED BY <1>3, <1>6

LEMMA StepCoin ==
  ASSUME ExclusiveLogin, ~DbMayFail, TypeOK, CoinRight, [Next]_vars
  PROVE  CoinRight'
<1>1. ASSUME UNCHANGED <<db, playerGuid, money>> PROVE OnePlayer' /\ MoneyMirrorsDb'
  BY <1>1 DEF CoinRight, OnePlayer, MoneyMirrorsDb
<1>2. ASSUME UNCHANGED <<playerGuid, sock>> PROVE AbsentPlaysNobody'
  BY <1>2 DEF CoinRight, AbsentPlaysNobody
<1>3. ASSUME NEW s \in Session, HandleLogoutRequest(s) \/ Close(s) \/ Release(s) \/ DestroySession(s)
      PROVE  CoinRight'
  <2>1. ASSUME playerGuid[s] # None PROVE OnePlayer' /\ MoneyMirrorsDb'
    <3>1. playerGuid[s] \in Character /\ FinalizeWorldExit(s, playerGuid[s])
      BY <1>3, <2>1 DEF HandleLogoutRequest, Close, Release, DestroySession, LeaveWorld, TypeOK
    <3> QED BY <3>1, ExitCoin
  <2>2. ASSUME playerGuid[s] = None PROVE OnePlayer' /\ MoneyMirrorsDb'
    BY <1>1, <1>3, <2>2 DEF HandleLogoutRequest, InWorld, Close, Release, DestroySession, LeaveWorld
  <2>3. /\ playerGuid'[s] = None
        /\ \A t \in Session \ {s} : playerGuid'[t] = playerGuid[t] /\ sock'[t] = sock[t]
    <3>1. \A c \in Character : FinalizeWorldExit(s, c) => playerGuid' = [playerGuid EXCEPT ![s] = None]
      BY DEF FinalizeWorldExit
    <3>2. playerGuid' = [playerGuid EXCEPT ![s] = None] \/ (playerGuid[s] = None /\ UNCHANGED playerGuid)
      BY <1>3, <3>1
      DEF HandleLogoutRequest, InWorld, Close, Release, DestroySession, LeaveWorld, TypeOK
    <3>3. \/ UNCHANGED sock \/ ShutSocket(s) \/ sock' = [sock EXCEPT ![s] = "none"]
      BY <1>3 DEF HandleLogoutRequest, Close, Release, DestroySession
    <3> QED BY <3>2, <3>3 DEF ShutSocket, TypeOK
  <2>4. AbsentPlaysNobody'
    BY <2>3 DEF CoinRight, AbsentPlaysNobody, TypeOK
  <2> QED BY <2>1, <2>2, <2>4 DEF CoinRight
<1>4. ASSUME NEW s \in Session, NEW c \in Character, HandlePlayerLogin(s, c) PROVE CoinRight'
  <2>1. /\ playerGuid' = [playerGuid EXCEPT ![s] = c]
        /\ money' = [money EXCEPT ![s] = db[c].money]
        /\ UNCHANGED <<db, sock>> /\ sock[s] # "none"
        /\ \A t \in Session : playerGuid[t] # c
    BY <1>4 DEF HandlePlayerLogin, MayLogIn, Heard
  <2>2. /\ \A t \in Session : playerGuid'[t] = IF t = s THEN c ELSE playerGuid[t]
        /\ \A t \in Session : money'[t] = IF t = s THEN db[c].money ELSE money[t]
    BY <2>1 DEF TypeOK
  <2>3. OnePlayer' BY <2>1, <2>2 DEF CoinRight, OnePlayer
  <2>4. MoneyMirrorsDb' BY <2>1, <2>2 DEF CoinRight, MoneyMirrorsDb
  <2>5. AbsentPlaysNobody' BY <2>1, <2>2 DEF CoinRight, AbsentPlaysNobody
  <2> QED BY <2>3, <2>4, <2>5 DEF CoinRight
<1>5. ASSUME NEW s \in Session, NEW m \in Money, GmModifyMoneyCopper(s, m) PROVE CoinRight'
  <2>1. /\ db' = [db EXCEPT ![playerGuid[s]].money = m] /\ playerGuid[s] # None
        /\ money' = [money EXCEPT ![s] = m] /\ UNCHANGED <<playerGuid, sock>>
    BY <1>5 DEF GmModifyMoneyCopper, DbOutcome, InWorld
  <2>2. playerGuid[s] \in Character BY <2>1 DEF TypeOK
  <2>3. /\ \A c \in Character : db'[c].money = IF c = playerGuid[s] THEN m ELSE db[c].money
        /\ \A t \in Session : money'[t] = IF t = s THEN m ELSE money[t]
    BY <2>1, <2>2 DEF TypeOK, Row
  <2>4. OnePlayer' BY <2>1 DEF CoinRight, OnePlayer
  <2>5. MoneyMirrorsDb' BY <2>1, <2>3 DEF CoinRight, OnePlayer, MoneyMirrorsDb, TypeOK
  <2> QED BY <1>2, <2>1, <2>4, <2>5 DEF CoinRight
<1>6. ASSUME NEW s \in Session, Connect(s) PROVE CoinRight'
  <2>1. /\ UNCHANGED <<playerGuid, db>> /\ playerGuid[s] = None
        /\ \A t \in Session \ {s} : money'[t] = money[t] /\ sock'[t] = sock[t]
    BY <1>6 DEF Connect, CoinRight, AbsentPlaysNobody, TypeOK
  <2> QED BY <2>1 DEF CoinRight, OnePlayer, MoneyMirrorsDb, AbsentPlaysNobody
<1>7. ASSUME NEW s \in Session,
             \/ SyncMapPosition(s) \/ HandleMoveTeleportAck(s) \/ DropTeleport(s)
             \/ \E p \in SanePlace : HandleMovement(s, p)
             \/ \E p \in Place : HandleForceSpeedChangeAck(s, p)
             \/ \E p \in Position : TeleportTo(s, p)
      PROVE  CoinRight'
  <2>1. UNCHANGED <<db, playerGuid, money, sock>>
    BY <1>7 DEF SyncMapPosition, HandleMoveTeleportAck, DropTeleport, HandleMovement,
                HandleForceSpeedChangeAck, TeleportTo, session
  <2> QED BY <1>2, <1>1, <2>1 DEF CoinRight
<1>8. CASE (\E c \in Character, h \in Health : ApplyHealthDelta(c, h)) \/ ResetForShutdown
  BY <1>2, <1>1, <1>8 DEF ApplyHealthDelta, ResetForShutdown, session, CoinRight
<1>9. CASE Boot \/ Crash
  BY <1>9 DEF Boot, Crash, StartEmpty, CoinRight, OnePlayer, MoneyMirrorsDb, AbsentPlaysNobody
<1>10. CASE UNCHANGED vars
  BY <1>2, <1>1, <1>10 DEF vars, session, CoinRight
<1>11. \A s \in Session, c \in Character : ~LoginNotFound(s, c)
  BY DEF LoginNotFound
<1>12. ASSUME NEW s \in Session, EndLoops(s) PROVE CoinRight'
  <2>1. /\ UNCHANGED <<db, playerGuid, money>>
        /\ sock'[s] = "ended" /\ \A t \in Session \ {s} : sock'[t] = sock[t]
    BY <1>12 DEF EndLoops, TypeOK
  <2> QED BY <1>1, <2>1 DEF CoinRight, AbsentPlaysNobody
<1>13. CASE Next
  BY <1>3, <1>4, <1>5, <1>6, <1>7, <1>8, <1>9, <1>11, <1>12, <1>13, NextCases
<1> QED BY <1>10, <1>13

\* With one session per character and a table that answers, the copy of the coin that a
\* logout writes back is the row's, so the save undoes no .money command.
THEOREM CoinMirrored ==
  ASSUME ExclusiveLogin, ~DbMayFail PROVE Spec => []MoneyMirrorsDb
<1>1. Init => CoinRight
  BY DEF Init, CoinRight, OnePlayer, MoneyMirrorsDb, AbsentPlaysNobody
<1>2. TypeOK /\ CoinRight /\ [Next]_vars => CoinRight'
  BY StepCoin
<1>3. CoinRight => MoneyMirrorsDb BY DEF CoinRight
<1> QED BY <1>1, <1>2, <1>3, TypeCorrect, PTL DEF Spec


-----------------------------------------------------------------------------
\* The world implements CharacterContinuity.  The mapping sends a character to what
\* the one session that plays it would save; besides the agreement of the four places
\* and the coin it needs that nothing of a world exit is left over.
IdleIsClean ==
  /\ \A s \in Session : playerGuid[s] = None => pending[s] = None
  /\ phase = "stopping" => \A c \in Character : ~OnMap(c)

Faithful == TypeOK /\ RegistryNamesPlayers /\ FoundInItsCell /\ CoinRight /\ IdleIsClean

Current(c) == IF c \in Online THEN PlayedState(c) ELSE StoredState(c)

Place_(s, c) ==
  LET p == IF pending[s] # None THEN pending[s] ELSE position[s]
  IN  IF p \in Sane THEN p ELSE LoginPosition(c)
HealthOf(c) == IF OnMap(c) THEN objects[c].health ELSE db[c].health

LEMMA IdleStep ==
  ASSUME ~DbMayFail, TypeOK, IdleIsClean, [Next]_vars
  PROVE  IdleIsClean'
<1>1. ASSUME NEW s \in Session,
             \/ Connect(s) \/ EndLoops(s) \/ SyncMapPosition(s) \/ HandleMoveTeleportAck(s) \/ DropTeleport(s)
             \/ \E p \in SanePlace : HandleMovement(s, p)
             \/ \E p \in Place : HandleForceSpeedChangeAck(s, p)
             \/ \E p \in Position : TeleportTo(s, p)
             \/ \E m \in Money : GmModifyMoneyCopper(s, m)
      PROVE  IdleIsClean'
  <2>1. phase = "up" /\ phase' = phase /\ playerGuid' = playerGuid
    BY <1>1 DEF Connect, EndLoops, SyncMapPosition, HandleMoveTeleportAck, DropTeleport, HandleMovement,
                HandleForceSpeedChangeAck, TeleportTo, GmModifyMoneyCopper, InWorld, session
  <2>2. \/ pending' = pending \/ pending' = [pending EXCEPT ![s] = None]
        \/ playerGuid[s] # None /\ \E p \in Position : pending' = [pending EXCEPT ![s] = p]
    BY <1>1 DEF Connect, EndLoops, SyncMapPosition, HandleMoveTeleportAck, DropTeleport, HandleMovement,
                HandleForceSpeedChangeAck, TeleportTo, GmModifyMoneyCopper, InWorld, session
  <2> QED BY <2>1, <2>2 DEF IdleIsClean, TypeOK
<1>2. ASSUME NEW s \in Session, NEW c \in Character, HandlePlayerLogin(s, c) PROVE IdleIsClean'
  BY <1>2 DEF HandlePlayerLogin, MayLogIn, IdleIsClean, TypeOK
<1>3. ASSUME NEW s \in Session, NEW c \in Character, FinalizeWorldExit(s, c), UNCHANGED phase
      PROVE  IdleIsClean'
  <2>1. /\ playerGuid' = [playerGuid EXCEPT ![s] = None]
        /\ pending' = [pending EXCEPT ![s] = None]
        /\ objects' = [objects EXCEPT ![c] = NoObject]
    BY <1>3 DEF FinalizeWorldExit, RemoveObject
  <2>2. \A d \in Character : ~OnMap(d) => ~OnMap(d)'
    BY <2>1, Defaults DEF OnMap, TypeOK
  <2> QED BY <1>3, <2>1, <2>2 DEF IdleIsClean, TypeOK
<1>4. ASSUME NEW s \in Session,
             HandleLogoutRequest(s) \/ Close(s) \/ Release(s) \/ DestroySession(s)
      PROVE  IdleIsClean'
  <2>0. UNCHANGED phase
    BY <1>4 DEF HandleLogoutRequest, Close, Release, DestroySession
  <2>1. CASE playerGuid[s] # None
    <3>1. playerGuid[s] \in Character /\ FinalizeWorldExit(s, playerGuid[s])
      BY <1>4, <2>1 DEF HandleLogoutRequest, Close, Release, DestroySession, LeaveWorld, TypeOK
    <3> QED BY <1>3, <2>0, <3>1
  <2>2. CASE playerGuid[s] = None
    BY <1>4, <2>0, <2>2 DEF HandleLogoutRequest, InWorld, Close, Release, DestroySession, LeaveWorld,
                            map, IdleIsClean, OnMap
  <2> QED BY <2>1, <2>2
<1>5. ASSUME NEW c \in Character, NEW h \in Health, ApplyHealthDelta(c, h) PROVE IdleIsClean'
  BY <1>5 DEF ApplyHealthDelta, session, IdleIsClean
<1>6. CASE ResetForShutdown
  BY <1>6, Defaults DEF ResetForShutdown, session, IdleIsClean, OnMap
<1>7. CASE Boot \/ Crash
  BY <1>7 DEF Boot, Crash, StartEmpty, IdleIsClean
<1>8. CASE UNCHANGED vars
  BY <1>8 DEF vars, session, map, IdleIsClean, OnMap
<1>9. \A s \in Session, c \in Character : ~LoginNotFound(s, c)
  BY DEF LoginNotFound
<1>10. CASE Next
  BY <1>1, <1>2, <1>4, <1>5, <1>6, <1>7, <1>9, <1>10, NextCases
<1> QED BY <1>8, <1>10

\* What the mapping says of a character in the hands of a session, before and after.
LEMMA PlayedBy ==
  ASSUME OnePlayer, NEW s \in Session, NEW c \in Character, playerGuid[s] = c
  PROVE  /\ c \in Online
         /\ Current(c) = [pos |-> Place_(s, c), money |-> money[s], health |-> HealthOf(c)]
<1>1. c \in Online /\ c # None BY PresenceAssumption DEF Online
<1>2. Player(c) = s BY <1>1 DEF Player, OnePlayer
<1> QED BY <1>1, <1>2 DEF Current, PlayedState, Place_, HealthOf

LEMMA PlayedByNext ==
  ASSUME OnePlayer', NEW s \in Session, NEW c \in Character, playerGuid'[s] = c
  PROVE  /\ c \in Online'
         /\ Current(c)' = [pos |-> Place_(s, c)', money |-> money'[s], health |-> HealthOf(c)']
<1>1. c \in Online' /\ c # None BY PresenceAssumption DEF Online
<1>2. Player(c)' = s BY <1>1 DEF Player, OnePlayer
<1> QED BY <1>1, <1>2 DEF Current, PlayedState, Place_, HealthOf

\* A step that leaves alone a character's row, its live health, and what its session
\* keeps of it, leaves the mapping of the character alone.
LEMMA Untouched ==
  ASSUME OnePlayer, OnePlayer', NEW c \in Character,
         db'[c] = db[c], HealthOf(c)' = HealthOf(c),
         \A s \in Session : playerGuid'[s] = c <=> playerGuid[s] = c,
         \A s \in Session : playerGuid[s] = c =>
           position'[s] = position[s] /\ pending'[s] = pending[s] /\ money'[s] = money[s]
  PROVE  /\ StoredState(c)' = StoredState(c)
         /\ c \in Online' <=> c \in Online
         /\ Current(c)' = Current(c)
<1>1. StoredState(c)' = StoredState(c) /\ LoginPosition(c)' = LoginPosition(c)
  BY DEF StoredState, LoginPosition
<1>2. c \in Online' <=> c \in Online BY DEF Online
<1>3. CASE c \in Online
  <2>1. PICK s \in Session : playerGuid[s] = c BY <1>3 DEF Online
  <2>2. Place_(s, c)' = Place_(s, c) /\ money'[s] = money[s]
    BY <1>1, <2>1 DEF Place_
  <2>3. Current(c) = [pos |-> Place_(s, c), money |-> money[s], health |-> HealthOf(c)]
    BY <2>1, PlayedBy
  <2>4. Current(c)' = [pos |-> Place_(s, c)', money |-> money'[s], health |-> HealthOf(c)']
    BY <2>1, PlayedByNext
  <2> QED BY <1>1, <1>2, <2>2, <2>3, <2>4
<1>4. CASE c \notin Online
  BY <1>1, <1>2, <1>4 DEF Current
<1> QED BY <1>1, <1>2, <1>3, <1>4

\* A character, as the player knows it.
SavedState == [pos : Sane, money : Money, health : Health]

\* A stutter: no character is touched.
Same ==
  /\ Online' = Online
  /\ \A c \in Character : Current(c)' = Current(c) /\ StoredState(c)' = StoredState(c)

\* The other characters, while a step touches c.
SameBut(c) ==
  \A d \in Character \ {c} : /\ d \in Online' <=> d \in Online
                             /\ Current(d)' = Current(d) /\ StoredState(d)' = StoredState(d)

Entered(c) ==
  /\ c \notin Online /\ c \in Online' /\ SameBut(c)
  /\ Current(c)' = Current(c) /\ StoredState(c)' = StoredState(c)

Played(c) ==
  /\ c \in Online /\ c \in Online' /\ SameBut(c)
  /\ Current(c)' \in SavedState
  /\ StoredState(c)' = [StoredState(c) EXCEPT !.money = Current(c)'.money]

Left(c) ==
  /\ c \in Online /\ c \notin Online' /\ SameBut(c)
  /\ StoredState(c)' = Current(c) /\ Current(c)' = Current(c)

Crashed ==
  /\ Online' = {}
  /\ \A c \in Character : Current(c)' = StoredState(c) /\ StoredState(c)' = StoredState(c)

Stopped ==
  /\ Online' = Online
  /\ \A c \in Character : /\ StoredState(c)' = StoredState(c)
                          /\ Current(c)' = [Current(c) EXCEPT !.health = StoredState(c).health]

LEMMA UpdateHealth ==
  ASSUME TypeOK, NEW c \in Character, NEW p \in Position, UpdateObjectPosition(c, p)
  PROVE  \A d \in Character : OnMap(d)' = OnMap(d) /\ objects'[d].health = objects[d].health
<1>1. CASE ~OnMap(c)
  BY <1>1 DEF UpdateObjectPosition, map, OnMap
<1>2. CASE OnMap(c)
  <2>1. objects' = [objects EXCEPT ![c].pos = p]
    BY <1>2 DEF UpdateObjectPosition
  <2>2. \A d \in Character : objects'[d].owner = objects[d].owner /\ objects'[d].health = objects[d].health
    BY <2>1 DEF TypeOK
  <2> QED BY <2>2 DEF OnMap
<1> QED BY <1>1, <1>2

LEMMA LoginIsSane == ASSUME NEW c \in Character PROVE LoginPosition(c) \in Sane
BY PresenceAssumption DEF LoginPosition, Sane

LEMMA LoginIsSaneNext == ASSUME NEW c \in Character PROVE LoginPosition(c)' \in Sane
BY PresenceAssumption DEF LoginPosition, Sane

\* The session that plays c moves, teleports, gets coin, or its object is hurt.
LEMMA SessionPlays ==
  ASSUME TypeOK, TypeOK', CoinRight, CoinRight', NEW s \in Session, NEW c \in Character,
         playerGuid[s] = c, playerGuid' = playerGuid,
         db'[c].pos = db[c].pos, db'[c].health = db[c].health,
         \A d \in Character \ {c} : db'[d] = db[d] /\ HealthOf(d)' = HealthOf(d),
         \A t \in Session \ {s} :
           position'[t] = position[t] /\ pending'[t] = pending[t] /\ money'[t] = money[t]
  PROVE  Played(c)
<1>1. OnePlayer /\ OnePlayer' /\ c # None BY PresenceAssumption DEF CoinRight
<1>2. SameBut(c)
  <2>1. ASSUME NEW d \in Character \ {c}
        PROVE  /\ StoredState(d)' = StoredState(d)
               /\ d \in Online' <=> d \in Online
               /\ Current(d)' = Current(d)
    BY <1>1, <2>1, Untouched
  <2> QED BY <2>1 DEF SameBut
<1>3. c \in Online /\ c \in Online' BY DEF Online
<1>4. Current(c)' = [pos |-> Place_(s, c)', money |-> money'[s], health |-> HealthOf(c)']
  BY <1>1, PlayedByNext
<1>5. Place_(s, c)' \in Sane BY LoginIsSaneNext DEF Place_
<1>6. money'[s] \in Money BY DEF TypeOK
<1>7. HealthOf(c)' \in Health BY DEF TypeOK, HealthOf, Row
<1>8. Current(c)' \in SavedState BY <1>4, <1>5, <1>6, <1>7 DEF SavedState
<1>9. money'[s] = db'[c].money BY <1>1 DEF CoinRight, MoneyMirrorsDb
<1>10. db[c] \in Row /\ db'[c] \in Row BY DEF TypeOK
<1>11. LoginPosition(c)' = LoginPosition(c) BY DEF LoginPosition
<1>12. StoredState(c)' = [StoredState(c) EXCEPT !.money = money'[s]]
  BY <1>9, <1>10, <1>11 DEF StoredState, Row
<1> QED BY <1>2, <1>3, <1>4, <1>8, <1>12 DEF Played

\* A step that no character notices.
LEMMA StutterSame ==
  ASSUME OnePlayer, OnePlayer', playerGuid' = playerGuid, db' = db,
         \A d \in Character : HealthOf(d)' = HealthOf(d),
         \A s \in Session : playerGuid[s] # None =>
           position'[s] = position[s] /\ pending'[s] = pending[s] /\ money'[s] = money[s]
  PROVE  Same
<1>1. Online' = Online BY DEF Online
<1>2. ASSUME NEW c \in Character
      PROVE  Current(c)' = Current(c) /\ StoredState(c)' = StoredState(c)
  <2>1. \A s \in Session : playerGuid[s] = c => playerGuid[s] # None BY PresenceAssumption
  <2> QED BY <2>1, Untouched
<1> QED BY <1>1, <1>2 DEF Same

\* Logging in finds the character as the table has it.
LEMMA LoginEnters ==
  ASSUME ExclusiveLogin, Faithful, TypeOK', CoinRight', NEW s \in Session, NEW c \in Character,
         HandlePlayerLogin(s, c)
  PROVE  Entered(c)
<1> DEFINE obj == [owner |-> s, pos |-> LoginPosition(c), health |-> db[c].health]
<1>1. /\ TypeOK /\ OnePlayer /\ OnePlayer' /\ c # None /\ s # None
  BY PresenceAssumption DEF Faithful, CoinRight
<1>2. /\ playerGuid[s] = None /\ \A t \in Session : playerGuid[t] # c
      /\ playerGuid' = [playerGuid EXCEPT ![s] = c]
      /\ position' = [position EXCEPT ![s] = LoginPosition(c)]
      /\ money' = [money EXCEPT ![s] = db[c].money]
      /\ pending' = pending /\ db' = db
      /\ objects' = [objects EXCEPT ![c] = obj]
  BY DEF HandlePlayerLogin, MayLogIn, AddObject
<1>3. pending[s] = None BY <1>2 DEF Faithful, IdleIsClean
<1>4. \A t \in Session : playerGuid'[t] = IF t = s THEN c ELSE playerGuid[t]
  BY <1>1, <1>2 DEF TypeOK
<1>5. \A d \in Character \ {c} : HealthOf(d)' = HealthOf(d)
  BY <1>1, <1>2 DEF TypeOK, HealthOf, OnMap
<1>6. \A t \in Session \ {s} : position'[t] = position[t] /\ money'[t] = money[t]
  BY <1>1, <1>2 DEF TypeOK
<1>7. SameBut(c)
  <2>1. ASSUME NEW d \in Character \ {c}
        PROVE  /\ StoredState(d)' = StoredState(d)
               /\ d \in Online' <=> d \in Online
               /\ Current(d)' = Current(d)
    <3>1. \A t \in Session : playerGuid'[t] = d <=> playerGuid[t] = d
      BY <1>2, <1>4, PresenceAssumption
    <3>2. \A t \in Session : playerGuid[t] = d => t # s
      BY <1>2, PresenceAssumption
    <3> QED BY <1>1, <1>2, <1>5, <1>6, <3>1, <3>2, Untouched
  <2> QED BY <2>1 DEF SameBut
<1>8. c \notin Online /\ c \in Online' BY <1>2, <1>4 DEF Online
<1>9. StoredState(c)' = StoredState(c) BY <1>2 DEF StoredState, LoginPosition
<1>10. Current(c) = StoredState(c) BY <1>8 DEF Current
<1>11. Current(c)' = [pos |-> Place_(s, c)', money |-> money'[s], health |-> HealthOf(c)']
  BY <1>1, <1>4, PlayedByNext
<1>12. Place_(s, c)' = LoginPosition(c)
  <2>1. position'[s] = LoginPosition(c) /\ pending'[s] = None
    BY <1>1, <1>2, <1>3 DEF TypeOK
  <2> QED BY <2>1, LoginIsSane DEF Place_
<1>13. money'[s] = db[c].money BY <1>1, <1>2 DEF TypeOK
<1>14. HealthOf(c)' = db[c].health
  BY <1>1, <1>2 DEF TypeOK, HealthOf, OnMap
<1>15. StoredState(c) = [pos |-> LoginPosition(c), money |-> db[c].money, health |-> db[c].health]
  BY <1>1 DEF TypeOK, Row, StoredState
<1> QED BY <1>7, <1>8, <1>9, <1>10, <1>11, <1>12, <1>13, <1>14, <1>15 DEF Entered

\* Leaving saves what was played, and the player finds it again.
LEMMA ExitLeaves ==
  ASSUME ~DbMayFail, Faithful, TypeOK', CoinRight', NEW s \in Session, NEW c \in Character,
         playerGuid[s] = c, FinalizeWorldExit(s, c)
  PROVE  Left(c)
<1>1. /\ TypeOK /\ OnePlayer /\ OnePlayer' /\ c # None
  BY PresenceAssumption DEF Faithful, CoinRight
<1>2. /\ playerGuid' = [playerGuid EXCEPT ![s] = None]
      /\ position' = [position EXCEPT ![s] = Origin]
      /\ pending' = [pending EXCEPT ![s] = None]
      /\ money' = money
      /\ objects' = [objects EXCEPT ![c] = NoObject]
      /\ SaveCharacterOnLogout(s, c, TRUE)
  BY DEF FinalizeWorldExit, RemoveObject, DbOutcome
<1> DEFINE row == [pos |-> PersistPosition(s, c, TRUE), money |-> money[s], health |-> HealthOf(c)]
<1>3. db' = [db EXCEPT ![c] = row]
  BY <1>2 DEF SaveCharacterOnLogout, HealthOf
<1>4. db'[c] = row /\ \A d \in Character \ {c} : db'[d] = db[d]
  BY <1>1, <1>3 DEF TypeOK
<1> HIDE DEF row
<1>5. \A t \in Session : playerGuid'[t] = IF t = s THEN None ELSE playerGuid[t]
  BY <1>1, <1>2 DEF TypeOK
<1>6. \A d \in Character \ {c} : HealthOf(d)' = HealthOf(d)
  BY <1>1, <1>2, <1>4 DEF TypeOK, HealthOf, OnMap
<1>7. SameBut(c)
  <2>1. ASSUME NEW d \in Character \ {c}
        PROVE  /\ StoredState(d)' = StoredState(d)
               /\ d \in Online' <=> d \in Online
               /\ Current(d)' = Current(d)
    <3>1. \A t \in Session : playerGuid'[t] = d <=> playerGuid[t] = d
      BY <1>5, PresenceAssumption
    <3>2. \A t \in Session : playerGuid[t] = d => t # s
      OBVIOUS
    <3>3. \A t \in Session : playerGuid[t] = d =>
            position'[t] = position[t] /\ pending'[t] = pending[t] /\ money'[t] = money[t]
      BY <1>1, <1>2, <3>2 DEF TypeOK
    <3> QED BY <1>1, <1>4, <1>6, <3>1, <3>3, Untouched
  <2> QED BY <2>1 DEF SameBut
<1>8. c \in Online /\ c \notin Online'
  BY <1>1, <1>5 DEF Online, OnePlayer
<1>9. Current(c) = [pos |-> Place_(s, c), money |-> money[s], health |-> HealthOf(c)]
  BY <1>1, PlayedBy
<1>10. LoginPosition(c)' = Place_(s, c)
  BY <1>4 DEF LoginPosition, Place_, PersistPosition, row
<1>11. StoredState(c)' = [row EXCEPT !.pos = Place_(s, c)]
  BY <1>4, <1>10 DEF StoredState
<1>12. StoredState(c)' = Current(c)
  BY <1>9, <1>11 DEF row
<1>13. Current(c)' = StoredState(c)' BY <1>8 DEF Current
<1> QED BY <1>7, <1>8, <1>12, <1>13 DEF Left

LEMMA ShutdownStops ==
  ASSUME Faithful, CoinRight', ResetForShutdown
  PROVE  Stopped
<1>1. TypeOK /\ OnePlayer /\ OnePlayer' BY DEF Faithful, CoinRight
<1>2. /\ UNCHANGED <<playerGuid, position, pending, money, db>>
      /\ objects' = [c \in Character |-> NoObject]
  BY DEF ResetForShutdown, session
<1>3. Online' = Online BY <1>2 DEF Online
<1>4. ASSUME NEW c \in Character
      PROVE  /\ StoredState(c)' = StoredState(c)
             /\ Current(c)' = [Current(c) EXCEPT !.health = StoredState(c).health]
  <2>1. StoredState(c)' = StoredState(c) /\ LoginPosition(c)' = LoginPosition(c)
    BY <1>2 DEF StoredState, LoginPosition
  <2>2. StoredState(c) = [pos |-> LoginPosition(c), money |-> db[c].money, health |-> db[c].health]
    BY <1>1 DEF TypeOK, Row, StoredState
  <2>3. HealthOf(c)' = db[c].health
    BY <1>2, Defaults DEF HealthOf, OnMap
  <2>4. CASE c \in Online
    <3>1. PICK s \in Session : playerGuid[s] = c BY <2>4 DEF Online
    <3>2. Place_(s, c)' = Place_(s, c) /\ money'[s] = money[s] BY <1>2, <2>1 DEF Place_
    <3>3. Current(c) = [pos |-> Place_(s, c), money |-> money[s], health |-> HealthOf(c)]
      BY <1>1, <3>1, PlayedBy
    <3>4. Current(c)' = [pos |-> Place_(s, c)', money |-> money'[s], health |-> HealthOf(c)']
      BY <1>1, <1>2, <3>1, PlayedByNext
    <3> QED BY <2>1, <2>2, <2>3, <3>2, <3>3, <3>4
  <2>5. CASE c \notin Online
    BY <1>3, <2>1, <2>2, <2>5 DEF Current
  <2> QED BY <2>1, <2>4, <2>5
<1> QED BY <1>3, <1>4 DEF Stopped

LEMMA EmptyCrashes == ASSUME StartEmpty PROVE Crashed
<1>1. Online' = {} BY PresenceAssumption DEF StartEmpty, Online
<1>2. ASSUME NEW c \in Character
      PROVE  Current(c)' = StoredState(c) /\ StoredState(c)' = StoredState(c)
  BY <1>1 DEF StartEmpty, Current, StoredState, LoginPosition
<1> QED BY <1>1, <1>2 DEF Crashed

LEMMA StepMaps ==
  ASSUME ExclusiveLogin, ~DbMayFail, Faithful, TypeOK', CoinRight', [Next]_vars
  PROVE  \/ Same
         \/ \E c \in Character : Entered(c) \/ Played(c) \/ Left(c)
         \/ Crashed \/ Stopped
<1>1. /\ TypeOK /\ CoinRight /\ OnePlayer /\ OnePlayer'
      /\ RegistryNamesPlayers /\ FoundInItsCell
  BY DEF Faithful, CoinRight
<1>2. ASSUME NEW s \in Session,
             \/ SyncMapPosition(s) \/ \E p \in Place : HandleForceSpeedChangeAck(s, p)
      PROVE  Same
  <2>1. \E p \in Position : UpdateObjectPosition(playerGuid[s], p)
    BY <1>1, <1>2, Defaults DEF SyncMapPosition, HandleForceSpeedChangeAck, TypeOK
  <2>2. playerGuid[s] \in Character
    BY <1>1, <1>2 DEF SyncMapPosition, HandleForceSpeedChangeAck, InWorld, TypeOK
  <2>3. UNCHANGED <<session, db>>
    BY <1>2 DEF SyncMapPosition, HandleForceSpeedChangeAck
  <2>4. \A d \in Character : HealthOf(d)' = HealthOf(d)
    BY <1>1, <2>1, <2>2, <2>3, UpdateHealth DEF HealthOf
  <2> QED BY <1>1, <2>3, <2>4, StutterSame DEF session
<1>3. ASSUME NEW s \in Session, Connect(s) \/ EndLoops(s) PROVE Same
  <2>1. /\ UNCHANGED <<playerGuid, position, pending, db, objects>>
        /\ \A t \in Session : playerGuid[t] # None => money'[t] = money[t]
    BY <1>1, <1>3 DEF Connect, EndLoops, map, CoinRight, AbsentPlaysNobody, TypeOK
  <2>2. \A d \in Character : HealthOf(d)' = HealthOf(d) BY <2>1 DEF HealthOf, OnMap
  <2> QED BY <1>1, <2>1, <2>2, StutterSame
<1>4. ASSUME NEW s \in Session,
             \/ HandleMoveTeleportAck(s) \/ DropTeleport(s)
             \/ \E p \in SanePlace : HandleMovement(s, p)
             \/ \E p \in Position : TeleportTo(s, p)
      PROVE  \E c \in Character : Played(c)
  <2> DEFINE c == playerGuid[s]
  <2>1. c \in Character
    BY <1>1, <1>4 DEF HandleMoveTeleportAck, DropTeleport, HandleMovement, TeleportTo, InWorld, TypeOK
  <2>2. UNCHANGED <<playerGuid, money, db>>
    BY <1>4 DEF HandleMoveTeleportAck, DropTeleport, HandleMovement, TeleportTo
  <2>3. UNCHANGED map \/ \E p \in Position : UpdateObjectPosition(c, p)
    BY <1>1, <1>4, Defaults DEF HandleMoveTeleportAck, DropTeleport, HandleMovement, TeleportTo, TypeOK
  <2>4. \A d \in Character : HealthOf(d)' = HealthOf(d)
    BY <1>1, <2>1, <2>2, <2>3, UpdateHealth DEF HealthOf, OnMap, map
  <2>5. /\ position' = position \/ \E p \in Position : position' = [position EXCEPT ![s] = p]
        /\ pending' = pending \/ \E p \in Position \cup {None} : pending' = [pending EXCEPT ![s] = p]
    BY <1>1, <1>4, Defaults DEF HandleMoveTeleportAck, DropTeleport, HandleMovement, TeleportTo, TypeOK
  <2>6. \A t \in Session \ {s} : position'[t] = position[t] /\ pending'[t] = pending[t]
    BY <1>1, <2>5 DEF TypeOK
  <2> QED BY <1>1, <2>1, <2>2, <2>4, <2>6, SessionPlays
<1>5. ASSUME NEW s \in Session, NEW m \in Money, GmModifyMoneyCopper(s, m)
      PROVE  \E c \in Character : Played(c)
  <2> DEFINE c == playerGuid[s]
  <2>1. c \in Character
    BY <1>1, <1>5 DEF GmModifyMoneyCopper, InWorld, TypeOK
  <2>2. /\ UNCHANGED <<playerGuid, position, pending, objects>>
        /\ db' = [db EXCEPT ![c].money = m] /\ money' = [money EXCEPT ![s] = m]
    BY <1>5 DEF GmModifyMoneyCopper, DbOutcome, map
  <2>3. /\ db'[c].pos = db[c].pos /\ db'[c].health = db[c].health
        /\ \A d \in Character \ {c} : db'[d] = db[d]
        /\ \A t \in Session \ {s} : money'[t] = money[t]
    BY <1>1, <2>1, <2>2 DEF TypeOK, Row
  <2>4. \A d \in Character \ {c} : HealthOf(d)' = HealthOf(d)
    BY <2>2, <2>3 DEF HealthOf, OnMap
  <2> QED BY <1>1, <2>1, <2>2, <2>3, <2>4, SessionPlays
<1>6. ASSUME NEW c \in Character, NEW h \in Health, ApplyHealthDelta(c, h)
      PROVE  \E d \in Character : Played(d)
  <2>1. /\ UNCHANGED <<playerGuid, position, pending, money, db>>
        /\ objects' = [objects EXCEPT ![c].health = h] /\ OnMap(c)
    BY <1>6 DEF ApplyHealthDelta, session
  <2>2. objects[c].owner \in Session /\ playerGuid[objects[c].owner] = c
    BY <1>1, <2>1 DEF OnMap, TypeOK, FoundInItsCell
  <2>3. \A d \in Character \ {c} : HealthOf(d)' = HealthOf(d)
    BY <1>1, <2>1 DEF HealthOf, OnMap, TypeOK
  <2> QED BY <1>1, <2>1, <2>2, <2>3, SessionPlays
<1>7. ASSUME NEW s \in Session, NEW c \in Character, HandlePlayerLogin(s, c)
      PROVE  Entered(c)
  BY <1>7, LoginEnters
<1>8. ASSUME NEW s \in Session,
             HandleLogoutRequest(s) \/ Close(s) \/ Release(s) \/ DestroySession(s)
      PROVE  Same \/ \E c \in Character : Left(c)
  <2>1. CASE playerGuid[s] # None
    <3>1. playerGuid[s] \in Character /\ FinalizeWorldExit(s, playerGuid[s])
      BY <1>1, <1>8, <2>1 DEF HandleLogoutRequest, Close, Release, DestroySession, LeaveWorld, TypeOK
    <3> QED BY <3>1, ExitLeaves
  <2>2. CASE playerGuid[s] = None
    <3>1. UNCHANGED <<playerGuid, position, pending, money, objects, db>>
      BY <1>8, <2>2 DEF HandleLogoutRequest, InWorld, Close, Release, DestroySession, LeaveWorld, map
    <3>2. \A d \in Character : HealthOf(d)' = HealthOf(d) BY <3>1 DEF HealthOf, OnMap
    <3> QED BY <1>1, <3>1, <3>2, StutterSame
  <2> QED BY <2>1, <2>2
<1>9. CASE UNCHANGED vars
  <2>1. UNCHANGED <<playerGuid, position, pending, money, objects, db>>
    BY <1>9 DEF vars, session, map
  <2>2. \A d \in Character : HealthOf(d)' = HealthOf(d) BY <2>1 DEF HealthOf, OnMap
  <2> QED BY <1>1, <2>1, <2>2, StutterSame
<1>10. \A s \in Session, c \in Character : ~LoginNotFound(s, c)
  BY DEF LoginNotFound
<1>11. CASE ResetForShutdown BY <1>11, ShutdownStops
<1>12. CASE Boot \/ Crash BY <1>12, EmptyCrashes DEF Boot, Crash
<1>13. CASE Next
  <2>1. \/ \E s \in Session :
              \/ Connect(s) \/ EndLoops(s) \/ SyncMapPosition(s) \/ HandleMoveTeleportAck(s) \/ DropTeleport(s)
              \/ \E p \in SanePlace : HandleMovement(s, p)
              \/ \E p \in Place : HandleForceSpeedChangeAck(s, p)
              \/ \E p \in Position : TeleportTo(s, p)
              \/ \E m \in Money : GmModifyMoneyCopper(s, m)
        \/ \E s \in Session, c \in Character : HandlePlayerLogin(s, c)
        \/ \E s \in Session :
              HandleLogoutRequest(s) \/ Close(s) \/ Release(s) \/ DestroySession(s)
        \/ \E c \in Character, h \in Health : ApplyHealthDelta(c, h)
        \/ ResetForShutdown \/ Boot \/ Crash
    BY <1>1, <1>10, <1>13, NextCases
  <2>2. ASSUME NEW s \in Session,
               \/ Connect(s) \/ EndLoops(s) \/ SyncMapPosition(s) \/ HandleMoveTeleportAck(s) \/ DropTeleport(s)
               \/ \E p \in SanePlace : HandleMovement(s, p)
               \/ \E p \in Place : HandleForceSpeedChangeAck(s, p)
               \/ \E p \in Position : TeleportTo(s, p)
               \/ \E m \in Money : GmModifyMoneyCopper(s, m)
        PROVE  Same \/ \E c \in Character : Played(c)
    BY <2>2, <1>2, <1>3, <1>4, <1>5
  <2>3. CASE \E s \in Session, c \in Character : HandlePlayerLogin(s, c)
    BY <2>3, <1>7
  <2>4. CASE \E s \in Session :
              HandleLogoutRequest(s) \/ Close(s) \/ Release(s) \/ DestroySession(s)
    BY <2>4, <1>8
  <2>5. CASE \E c \in Character, h \in Health : ApplyHealthDelta(c, h)
    BY <2>5, <1>6
  <2> QED BY <2>1, <2>2, <2>3, <2>4, <2>5, <1>11, <1>12
<1> QED BY <1>9, <1>13

\* The kinds of step above are those of the abstract specification.
LEMMA MapsToAbstract ==
  ASSUME \/ Same
         \/ \E c \in Character : Entered(c) \/ Played(c) \/ Left(c)
         \/ Crashed \/ Stopped
  PROVE  [Continuity!Next]_(Continuity!avars)
<1> DEFINE cur == [c \in Character |-> IF c \in Online THEN PlayedState(c) ELSE StoredState(c)]
           sto == [c \in Character |-> StoredState(c)]
<1>1. /\ cur = [c \in Character |-> Current(c)]
      /\ cur' = [c \in Character |-> Current(c)']
      /\ sto' = [c \in Character |-> StoredState(c)']
  BY DEF Current
<1>2. Online \subseteq Character /\ Online' \subseteq Character
  BY DEF Online
<1>3. CASE Same
  <2>1. cur' = cur /\ sto' = sto /\ Online' = Online
    BY <1>1, <1>3 DEF Same
  <2> QED BY <2>1 DEF Continuity!avars
<1>4. ASSUME NEW c \in Character, Entered(c) PROVE Continuity!Enter(c)
  <2>1. Online' = Online \cup {c} /\ c \notin Online
    BY <1>2, <1>4 DEF Entered, SameBut
  <2>2. cur' = cur /\ sto' = sto
    BY <1>1, <1>4 DEF Entered, SameBut
  <2> QED BY <2>1, <2>2 DEF Continuity!Enter
<1>5. ASSUME NEW c \in Character, Played(c) PROVE Continuity!Play(c)
  <2> DEFINE state == Current(c)'
  <2>1. Online' = Online /\ c \in Online
    BY <1>2, <1>5 DEF Played, SameBut
  <2>2. state \in SavedState BY <1>5 DEF Played
  <2>3. cur' = [cur EXCEPT ![c] = state]
    BY <1>1, <1>5, ZenonT(60) DEF Played, SameBut
  <2>4. sto' = [sto EXCEPT ![c].money = state.money]
    <3> DEFINE row == [StoredState(c) EXCEPT !.money = state.money]
    <3>1. StoredState(c)' = row /\ \A d \in Character \ {c} : StoredState(d)' = StoredState(d)
      BY <1>5 DEF Played, SameBut
    <3>2. [sto EXCEPT ![c].money = state.money] = [sto EXCEPT ![c] = row]
      OBVIOUS
    <3> HIDE DEF row
    <3>3. [sto EXCEPT ![c] = row] = [d \in Character |-> IF d = c THEN row ELSE StoredState(d)]
      OBVIOUS
    <3> QED BY <1>1, <3>1, <3>2, <3>3
  <2> QED BY <2>1, <2>2, <2>3, <2>4 DEF Continuity!Play, SavedState
<1>6. ASSUME NEW c \in Character, Left(c) PROVE Continuity!Leave(c)
  <2>1. Online' = Online \ {c} /\ c \in Online
    BY <1>2, <1>6 DEF Left, SameBut
  <2>2. cur' = cur
    BY <1>1, <1>6 DEF Left, SameBut
  <2>3. sto' = [sto EXCEPT ![c] = cur[c]]
    BY <1>1, <1>6 DEF Left, SameBut
  <2> QED BY <2>1, <2>2, <2>3 DEF Continuity!Leave
<1>7. CASE Crashed
  <2>1. Online' = {} /\ cur' = sto /\ sto' = sto
    BY <1>1, <1>7 DEF Crashed
  <2> QED BY <2>1 DEF Continuity!Crash, Continuity!Next
<1>8. CASE Stopped
  <2>1. Online' = Online /\ sto' = sto
    BY <1>1, <1>8 DEF Stopped
  <2>2. cur' = [c \in Character |-> [cur[c] EXCEPT !.health = sto[c].health]]
    BY <1>1, <1>8 DEF Stopped
  <2> QED BY <2>1, <2>2 DEF Continuity!StopWorld, Continuity!Next
<1> QED BY <1>3, <1>4, <1>5, <1>6, <1>7, <1>8 DEF Continuity!Next

LEMMA InitMaps == Init => Continuity!Init
<1> SUFFICES ASSUME Init PROVE Continuity!Init OBVIOUS
<1> DEFINE sto == [c \in Character |-> StoredState(c)]
<1>1. Online = {} BY PresenceAssumption DEF Init, Online
<1>2. ASSUME NEW c \in Character
      PROVE  StoredState(c) \in [pos : Sane, money : Money, health : Health]
  <2>1. db[c] \in [pos : Place, money : Money, health : Health] BY DEF Init
  <2> QED BY <2>1, LoginIsSane DEF StoredState
<1>3. sto \in [Character -> [pos : Sane, money : Money, health : Health]] BY <1>2
<1>4. [c \in Character |-> IF c \in Online THEN PlayedState(c) ELSE StoredState(c)] = sto
  BY <1>1
<1> QED BY <1>1, <1>3, <1>4 DEF Continuity!Init

\* With one session per character and a table that answers, the world is a
\* CharacterContinuity: no exit, of whatever cause, between whatever teleports and
\* acks, changes a character, and no save stores what was not played.
THEOREM Continues ==
  ASSUME ExclusiveLogin, ~DbMayFail PROVE Spec => CharacterSurvives
<1> DEFINE Inv == Faithful
<1>1. Init => IdleIsClean /\ CoinRight
  BY Defaults DEF Init, IdleIsClean, OnMap, CoinRight, OnePlayer, MoneyMirrorsDb, AbsentPlaysNobody
<1>2. TypeOK /\ IdleIsClean /\ [Next]_vars => IdleIsClean'
  BY IdleStep
<1>3. TypeOK /\ CoinRight /\ [Next]_vars => CoinRight'
  BY StepCoin
<1>4. TypeOK /\ RegistryNamesPlayers /\ FoundInItsCell /\ CoinRight /\ IdleIsClean <=> Faithful
  BY DEF Faithful
<1>5. Faithful /\ TypeOK' /\ CoinRight' /\ [Next]_vars => [Continuity!Next]_(Continuity!avars)
  BY StepMaps, MapsToAbstract
<1> QED
  BY <1>1, <1>2, <1>3, <1>4, <1>5, InitMaps, TypeCorrect, RegistryRight, ObjectsFound, PTL
  DEF Spec, CharacterSurvives, Continuity!Spec

-----------------------------------------------------------------------------
LEMMA ShutIsFree ==
  ASSUME TypeOK, FoundInItsCell, GridExact
  PROVE  ClosedIsFree
<1> SUFFICES ASSUME NEW s \in Session, playerGuid[s] = None
             PROVE  ~Referenced(s)
  BY DEF ClosedIsFree
<1>1. s # None /\ \A c \in Character : c # None BY PresenceAssumption
<1>2. ASSUME NEW c \in Character PROVE objects[c].owner # s
  BY <1>1 DEF FoundInItsCell, OnMap
<1>3. ASSUME NEW k \in Cell, NEW c \in Character PROVE grid[k][c] # s
  <2>1. grid[k][c] = None \/ grid[k][c] = objects[c].owner BY DEF GridExact
  <2> QED BY <1>1, <1>2, <2>1
<1> QED BY <1>2, <1>3 DEF Referenced

\* When a character has one session at a time, a closed session that plays nobody has
\* left the map, whether it was closed before, after or between its logins: its
\* destructor waits for nothing but the end of its loops.
THEOREM ClosedFree == ASSUME ExclusiveLogin PROVE Spec => []ClosedIsFree
BY ShutIsFree, TypeCorrect, ObjectsFound, GridRight, PTL
=============================================================================
