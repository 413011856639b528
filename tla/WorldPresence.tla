--------------------------- MODULE WorldPresence ---------------------------
(***************************************************************************)
(* Who is in the world.  A WorldSession that logs a character in leaves it  *)
(* in four places at once: its own in-world fields (_playerGuid, _position, *)
(* _moneyCopper, ...), a Player object in the Map's object table, that same *)
(* object in one cell of the Map's grid, and an entry of the online         *)
(* registry that staff commands resolve names with.  Only FinalizeWorldExit *)
(* takes it out again and writes the character row; a movement packet, a    *)
(* teleport, a GM command, damage, a lost connection, a reconnect, a        *)
(* database error, a shutdown or a crash may come at any point in between.  *)
(*                                                                          *)
(* Every handler runs to completion on the world thread, so each is one     *)
(* action.  Close does not stop the dispatch of what has been read, so a    *)
(* session whose socket is closed may still log in, play and log out, until *)
(* its loops end; afterwards only staff and the world move its character.   *)
(* One map is modelled, map 0: a session's _mapId is 0 before               *)
(* login, and no code path moves a character between maps.  The sessions    *)
(* are authenticated and play characters of one account.                    *)
(***************************************************************************)

CONSTANTS
  Session,        \* slots for WorldSession objects, reused after destruction
  Character,      \* characters of the account
  Place,          \* positions clients and staff send
  SanePlace,      \* those WsIsSaneWorldPosition accepts
  Origin,         \* MovementInfo{}: the default zeros, which are "sane" too
  StartPosition,  \* FallbackStartPosition of the race
  Cell, CellOf,   \* the map's grid and GetCoord
  Money, Health,  \* values of the saved coin and of the live health
  None,           \* no session, character or position
  ExclusiveLogin, \* FALSE: a client may return while its old session lives on
  DbMayFail       \* TRUE: a character SELECT or UPDATE may raise SQLException

Position == Place \cup {Origin}
Sane == SanePlace \cup {Origin}

ASSUME PresenceAssumption ==
  /\ Origin \notin Place /\ SanePlace \subseteq Place
  /\ StartPosition \in SanePlace
  /\ CellOf \in [Position -> Cell]
  /\ None \notin Session /\ None \notin Character /\ None \notin Position
  /\ Money # {} /\ Health # {}
  /\ ExclusiveLogin \in BOOLEAN /\ DbMayFail \in BOOLEAN

VARIABLES
  phase,      \* "up", or "stopping" between ResetForShutdown and exit
  sock,       \* "none": no object; "open"; "closed": packets already read may
              \* still be dispatched; "ended": the read and write loops have ended
  playerGuid, \* _playerGuid
  charName,   \* _activeCharacterName: set by Register, cleared by Unregister
  position,   \* _position
  pending,    \* _teleportPending* while _awaitingTeleportNear, else None
  money,      \* _moneyCopper (not cleared on exit)
  objects,    \* Map::m_objects: the Player object of each character
  grid,       \* Map::m_grid: per cell, whose Player object is filed there
  registry,   \* OnlineCharacterSessionRegistry
  db          \* the characters table

session == <<sock, playerGuid, charName, position, pending, money>>
map == <<objects, grid>>
vars == <<phase, session, map, registry, db>>

NoObject == [owner |-> None, pos |-> Origin, health |-> CHOOSE h \in Health : TRUE]

Row == [pos : Position, money : Money, health : Health]

TypeOK ==
  /\ phase \in {"up", "stopping"}
  /\ sock \in [Session -> {"none", "open", "closed", "ended"}]
  /\ playerGuid \in [Session -> Character \cup {None}]
  /\ charName \in [Session -> Character \cup {None}]
  /\ position \in [Session -> Position]
  /\ pending \in [Session -> Position \cup {None}]
  /\ money \in [Session -> Money]
  /\ objects \in [Character -> [owner : Session \cup {None}, pos : Position,
                                health : Health]]
  /\ grid \in [Cell -> [Character -> Session \cup {None}]]
  /\ registry \in [Character -> Session \cup {None}]
  /\ db \in [Character -> Row]

EmptyGrid == [k \in Cell |-> [c \in Character |-> None]]

\* A server that has just started: no sessions, no Player objects.
Init ==
  /\ phase = "up"
  /\ sock = [s \in Session |-> "none"]
  /\ playerGuid = [s \in Session |-> None]
  /\ charName = [s \in Session |-> None]
  /\ position = [s \in Session |-> Origin]
  /\ pending = [s \in Session |-> None]
  /\ objects = [c \in Character |-> NoObject]
  /\ grid = EmptyGrid
  /\ registry = [c \in Character |-> None]
  /\ money \in [Session -> {CHOOSE m \in Money : TRUE}]
  /\ db \in [Character -> [pos : Place, money : Money, health : Health]]

---------------------------------------------------------------------------
\* The map.  m_objectCoords always holds the cell of the object's position.
OnMap(c) == objects[c].owner # None
Coord(c) == CellOf[objects[c].pos]

AddObject(c, obj) ==
  /\ objects' = [objects EXCEPT ![c] = obj]
  /\ grid' = [grid EXCEPT ![CellOf[obj.pos]][c] = obj.owner]

\* MUTANT: the grid cell keeps the object.
RemoveObject_CellKept(c) ==
  /\ objects' = [objects EXCEPT ![c] = NoObject]
  /\ UNCHANGED grid

RemoveObject(c) ==
  /\ objects' = [objects EXCEPT ![c] = NoObject]
  /\ grid' = IF OnMap(c) THEN [grid EXCEPT ![Coord(c)][c] = None] ELSE grid

UpdateObjectPosition(c, p) ==
  IF ~OnMap(c) THEN UNCHANGED map
  ELSE /\ objects' = [objects EXCEPT ![c].pos = p]
       /\ grid' = IF CellOf[p] = Coord(c) THEN grid
                  ELSE [grid EXCEPT ![Coord(c)][c] = None,
                                    ![CellOf[p]][c] = objects[c].owner]

\* MUTANT: no check that the entry is the caller's.
Unregister_Unchecked(s) ==
  registry' = [c \in Character |-> IF c = charName[s] THEN None ELSE registry[c]]

\* MUTANT: the entry is left to expire.
Unregister_Forgotten(s) == UNCHANGED registry

\* The registry's Unregister drops an entry only when it is the caller's own.
Unregister(s) ==
  registry' = [c \in Character |->
                 IF c = charName[s] /\ registry[c] = s THEN None ELSE registry[c]]

DbOutcome == IF DbMayFail THEN BOOLEAN ELSE {TRUE}

\* MUTANT: the pending teleport is not committed.
PersistPosition_NoCommit(s, c, readOk) ==
  IF position[s] \in Sane THEN position[s] ELSE IF readOk THEN db[c].pos ELSE Origin

\* MUTANT: the coordinates are not checked.
PersistPosition_Unchecked(s, c, readOk) ==
  IF pending[s] # None THEN pending[s] ELSE position[s]

\* Where FinalizeWorldExit saves the character: at an unacknowledged teleport's
\* target, and never at insane coordinates unless the row has them already.
PersistPosition(s, c, readOk) ==
  LET p == IF pending[s] # None THEN pending[s] ELSE position[s]
  IN  IF p \in Sane THEN p ELSE IF readOk THEN db[c].pos ELSE Origin

SaveCharacterOnLogout(s, c, readOk) ==
  db' = [db EXCEPT ![c] =
           [pos |-> PersistPosition(s, c, readOk), money |-> money[s],
            health |-> IF OnMap(c) THEN objects[c].health ELSE db[c].health]]

FinalizeWorldExit(s, c) ==
  /\ \E readOk, saveOk \in DbOutcome :
        IF saveOk THEN SaveCharacterOnLogout(s, c, readOk) ELSE UNCHANGED db
  /\ RemoveObject(c)
  /\ Unregister(s)
  /\ playerGuid' = [playerGuid EXCEPT ![s] = None]
  /\ charName' = [charName EXCEPT ![s] = None]
  /\ position' = [position EXCEPT ![s] = Origin]
  /\ pending' = [pending EXCEPT ![s] = None]
  /\ UNCHANGED money

\* What Close and the destructor do to the world: nothing outside it.
LeaveWorld(s) ==
  IF playerGuid[s] # None THEN FinalizeWorldExit(s, playerGuid[s])
  ELSE /\ Unregister(s)
       /\ charName' = [charName EXCEPT ![s] = None]
       /\ UNCHANGED <<playerGuid, position, pending, money, map, db>>

---------------------------------------------------------------------------
\* No handler asks for the socket: packets that were read before Close are
\* dispatched after it, and staff reach whoever is in the world.
Heard(s) == sock[s] \in {"open", "closed"}
InWorld(s) == phase = "up" /\ playerGuid[s] # None

Connect(s) ==
  /\ phase = "up" /\ sock[s] = "none"
  /\ sock' = [sock EXCEPT ![s] = "open"]
  /\ money' = [money EXCEPT ![s] = CHOOSE m \in Money : TRUE]
  /\ UNCHANGED <<phase, playerGuid, charName, position, pending, map, registry, db>>

\* The client logs in from the character list.  Nothing in the server asks
\* whether another session has the character in the world, or whether this one
\* has been closed since the packet was read.
MayLogIn(s, c) ==
  /\ phase = "up" /\ Heard(s) /\ playerGuid[s] = None
  /\ ExclusiveLogin => \A t \in Session : playerGuid[t] # c

LoginPosition(c) == IF db[c].pos \in Sane THEN db[c].pos ELSE StartPosition

HandlePlayerLogin(s, c) ==
  /\ MayLogIn(s, c)
  /\ playerGuid' = [playerGuid EXCEPT ![s] = c]
  /\ position' = [position EXCEPT ![s] = LoginPosition(c)]
  /\ money' = [money EXCEPT ![s] = db[c].money]
  /\ AddObject(c, [owner |-> s, pos |-> LoginPosition(c), health |-> db[c].health])
  /\ \E readOk \in DbOutcome :
        IF readOk THEN /\ registry' = [registry EXCEPT ![c] = s]
                       /\ charName' = [charName EXCEPT ![s] = c]
        ELSE UNCHANGED <<registry, charName>>
  /\ UNCHANGED <<phase, sock, pending, db>>

ShutSocket(s) ==
  sock' = [sock EXCEPT ![s] = IF sock[s] = "open" THEN "closed" ELSE sock[s]]

\* The lookup failed; _playerGuid is already set when Close runs.
LoginNotFound(s, c) ==
  /\ MayLogIn(s, c) /\ DbMayFail
  /\ FinalizeWorldExit(s, c)
  /\ ShutSocket(s)
  /\ UNCHANGED phase

\* A trusted movement opcode; anything sent during a teleport is ignored.
HandleMovement(s, p) ==
  /\ InWorld(s) /\ pending[s] = None /\ p \in SanePlace
  /\ position' = [position EXCEPT ![s] = p]
  /\ UpdateObjectPosition(playerGuid[s], p)
  /\ UNCHANGED <<phase, sock, playerGuid, charName, pending, money, registry, db>>

\* .gm fly, and every step of a creature that chases the player, file the map
\* object where the session stands, during a teleport too.
SyncMapPosition(s) ==
  /\ InWorld(s)
  /\ UpdateObjectPosition(playerGuid[s], position[s])
  /\ UNCHANGED <<phase, session, registry, db>>

\* Any other movement opcode merges flags and does the same.
MergeMovement(s) == pending[s] = None /\ SyncMapPosition(s)

\* The ack carries a position that moves the map object but not _position.
HandleForceSpeedChangeAck(s, p) ==
  /\ InWorld(s)
  /\ UpdateObjectPosition(playerGuid[s], p)
  /\ UNCHANGED <<phase, session, registry, db>>

\* .tele, .goto and .summon; a second teleport is refused until the first ends.
TeleportTo(s, p) ==
  /\ InWorld(s) /\ pending[s] = None
  /\ pending' = [pending EXCEPT ![s] = p]
  /\ UNCHANGED <<phase, sock, playerGuid, charName, position, money, map, registry, db>>

Summon(guest, host) ==
  /\ registry[guest] # None /\ registry[host] # None
  /\ TeleportTo(registry[guest], position[registry[host]])

HandleMoveTeleportAck(s) ==
  /\ InWorld(s) /\ pending[s] # None
  /\ pending' = [pending EXCEPT ![s] = None]
  /\ position' = [position EXCEPT ![s] = pending[s]]
  /\ UpdateObjectPosition(playerGuid[s], pending[s])
  /\ UNCHANGED <<phase, sock, playerGuid, charName, money, registry, db>>

\* A short ack, or one for another mover, gives the teleport up.
DropTeleport(s) ==
  /\ InWorld(s) /\ pending[s] # None
  /\ pending' = [pending EXCEPT ![s] = None]
  /\ UNCHANGED <<phase, sock, playerGuid, charName, position, money, map, registry, db>>

\* .money writes the row and reads it back into the session's copy.
GmModifyMoneyCopper(s, m) ==
  /\ InWorld(s)
  /\ db' = [db EXCEPT ![playerGuid[s]].money = m]
  /\ \E readOk \in DbOutcome :
        money' = IF readOk THEN [money EXCEPT ![s] = m] ELSE money
  /\ UNCHANGED <<phase, sock, playerGuid, charName, position, pending, map, registry>>

\* Combat, auras and the regeneration tick change the Player object only.
ApplyHealthDelta(c, h) ==
  /\ phase = "up" /\ OnMap(c)
  /\ objects' = [objects EXCEPT ![c].health = h]
  /\ UNCHANGED <<phase, session, grid, registry, db>>

HandleLogoutRequest(s) ==
  /\ InWorld(s)
  /\ FinalizeWorldExit(s, playerGuid[s])
  /\ UNCHANGED <<phase, sock>>

\* A read or write error, an end of stream, a refused packet; both loops and
\* any packet behind the first that closes may run it again.
Close(s) ==
  /\ phase = "up" /\ sock[s] # "none"
  /\ LeaveWorld(s)
  /\ ShutSocket(s)
  /\ UNCHANGED phase

\* ReadLoop and WriteLoop find the socket closed and let go of the session.
EndLoops(s) ==
  /\ phase = "up" /\ sock[s] = "closed"
  /\ sock' = [sock EXCEPT ![s] = "ended"]
  /\ UNCHANGED <<phase, playerGuid, charName, position, pending, money, map, registry, db>>

\* .kick resolves the name and closes the session it finds, with or without
\* a socket.
HandleKick(c) == registry[c] # None /\ Close(registry[c])

\* Once its loops have ended only the map's Player objects, which own their
\* session, can still keep it alive.
Referenced(s) ==
  \/ \E c \in Character : objects[c].owner = s
  \/ \E k \in Cell, c \in Character : grid[k][c] = s

Release(s) ==
  /\ phase = "up" /\ sock[s] = "ended" /\ ~Referenced(s)
  /\ LeaveWorld(s)
  /\ sock' = [sock EXCEPT ![s] = "none"]
  /\ UNCHANGED phase

\* Orderly shutdown clears the maps first; the sessions go with the io_context.
ResetForShutdown ==
  /\ phase = "up"
  /\ phase' = "stopping"
  /\ objects' = [c \in Character |-> NoObject]
  /\ grid' = EmptyGrid
  /\ UNCHANGED <<session, registry, db>>

DestroySession(s) ==
  /\ phase = "stopping" /\ sock[s] # "none"
  /\ LeaveWorld(s)
  /\ sock' = [sock EXCEPT ![s] = "none"]
  /\ UNCHANGED phase

\* A new process finds the table and nothing else.
StartEmpty ==
  /\ phase' = "up"
  /\ sock' = [s \in Session |-> "none"]
  /\ playerGuid' = [s \in Session |-> None]
  /\ charName' = [s \in Session |-> None]
  /\ position' = [s \in Session |-> Origin]
  /\ pending' = [s \in Session |-> None]
  /\ objects' = [c \in Character |-> NoObject]
  /\ grid' = EmptyGrid
  /\ registry' = [c \in Character |-> None]
  /\ UNCHANGED <<money, db>>

Boot == phase = "stopping" /\ (\A s \in Session : sock[s] = "none") /\ StartEmpty

Crash == StartEmpty

\* What ProcessInboundBuffer dispatches, and the ends of the two loops.
SessionStep(s) ==
  \/ HandleLogoutRequest(s) \/ Close(s) \/ EndLoops(s)
  \/ MergeMovement(s) \/ HandleMoveTeleportAck(s) \/ DropTeleport(s)
  \/ \E c \in Character : HandlePlayerLogin(s, c) \/ LoginNotFound(s, c)
  \/ \E p \in SanePlace : HandleMovement(s, p)
  \/ \E p \in Place : HandleForceSpeedChangeAck(s, p)

PlayerStep(s) == Connect(s) \/ (Heard(s) /\ SessionStep(s))

StaffStep ==
  \/ \E s \in Session : SyncMapPosition(s)
  \/ \E s \in Session, p \in Place : TeleportTo(s, p)
  \/ \E s \in Session, m \in Money : GmModifyMoneyCopper(s, m)
  \/ \E c, d \in Character : Summon(c, d)
  \/ \E c \in Character : HandleKick(c)

ServerStep ==
  \/ \E s \in Session : Release(s) \/ DestroySession(s)
  \/ \E c \in Character, h \in Health : ApplyHealthDelta(c, h)
  \/ ResetForShutdown \/ Boot \/ Crash

Next == (\E s \in Session : PlayerStep(s)) \/ StaffStep \/ ServerStep

Spec == Init /\ [][Next]_vars

\* The loops run on an io_context that never stalls, a shared_ptr frees its
\* object at once, and a stopping process runs to its end.
Fairness ==
  \A s \in Session :
    WF_vars(EndLoops(s)) /\ WF_vars(Release(s)) /\ WF_vars(DestroySession(s))
FairSpec == Spec /\ Fairness

---------------------------------------------------------------------------
\* The four places agree: a session in the world owns its character's object,
\* is the one the registry resolves, and nobody else is either.
\* (WorldSessionLoginFlow.cpp, OnlineCharacterSessionRegistry.cpp, Map.cpp)
PresenceAgrees ==
  phase = "up" =>
    \A s \in Session, c \in Character :
      /\ (playerGuid[s] = c) <=> (objects[c].owner = s)
      /\ (playerGuid[s] = c) <=> (registry[c] = s)

\* The grid files every object in the cell of its position and holds nothing
\* else, so a nearby broadcast reaches exactly who is there (Map.cpp).
GridExact ==
  \A k \in Cell, c \in Character :
    grid[k][c] = IF OnMap(c) /\ Coord(c) = k THEN objects[c].owner ELSE None

\* Even when a reconnect puts two sessions on one character, the object table
\* and the grid cell of its position hold the same object, and the object's
\* session still plays that character (Map::AddObject, RemoveObject).
FoundInItsCell ==
  \A c \in Character :
    OnMap(c) => /\ grid[Coord(c)][c] = objects[c].owner
                /\ playerGuid[objects[c].owner] = c

\* A name never resolves to a session that plays someone else, or no one, or is
\* gone, a login behind a close included: .kick and .summon act on whoever holds
\* the character, and .kick is what can end a login nobody is connected to.
RegistryNamesPlayers ==
  \A c \in Character :
    registry[c] # None => /\ playerGuid[registry[c]] = c
                          /\ charName[registry[c]] = c
                          /\ sock[registry[c]] # "none"

\* Whatever order an old session and its replacement leave in, an entry is lost
\* only by the session that holds it leaving the world, or taken over by the
\* session that has just logged the same character in (Unregister's check).
SuccessorKeepsEntry ==
  [][\A c \in Character :
       (phase' = "up" /\ registry[c] # None /\ registry'[c] # registry[c]) =>
          \/ registry'[c] = None /\ playerGuid'[registry[c]] = None
          \/ registry'[c] # None /\ playerGuid[registry'[c]] # c
             /\ playerGuid'[registry'[c]] = c]_vars

\* The session's copy of the coin is the row's while the character plays: the
\* save at logout, which writes the copy, undoes no .money command.
MoneyMirrorsDb ==
  \A s \in Session :
    playerGuid[s] # None => money[s] = db[playerGuid[s]].money

\* No save writes the default zeros over a character's place.
SavedPlaceIsReal == \A c \in Character : db[c].pos # Origin

\* A row with usable coordinates never gets unusable ones, wherever movement,
\* acks or a staff teleport have put the session (FinalizeWorldExit).
SaneStaysSane ==
  [][\A c \in Character : db[c].pos \in Sane => db'[c].pos \in Sane]_vars

\* A session that is closed and plays nobody is held by nothing in the map: its
\* destructor waits for the end of its loops only (FinalizeWorldExit,
\* Map::RemoveObject).
ClosedIsFree ==
  \A s \in Session :
    sock[s] \in {"closed", "ended"} /\ playerGuid[s] = None => ~Referenced(s)

PlaysUnheard(s) == sock[s] = "ended" /\ playerGuid[s] # None

\* A closed session is destroyed in the end.  The exception is a login that was
\* dispatched behind the close, which no loop is left to end; once .kick has, the
\* session goes too (WorldSessionNetwork.cpp: Close, ProcessInboundBuffer).
ClosedIsReleased ==
  \A s \in Session :
    /\ (sock[s] = "closed") ~> (sock[s] = "none" \/ PlaysUnheard(s))
    /\ (sock[s] = "ended" /\ playerGuid[s] = None) ~> (sock[s] = "none")

---------------------------------------------------------------------------
\* The character as its player knows it: where it will stand, own and suffer
\* after the next save, whether a session has it in hand or the table does.
Player(c) == CHOOSE s \in Session : playerGuid[s] = c
Online == {c \in Character : \E s \in Session : playerGuid[s] = c}

StoredState(c) == [db[c] EXCEPT !.pos = LoginPosition(c)]

PlayedState(c) ==
  LET s == Player(c)
      p == IF pending[s] # None THEN pending[s] ELSE position[s]
  IN  [pos |-> IF p \in Sane THEN p ELSE LoginPosition(c), money |-> money[s],
       health |-> IF OnMap(c) THEN objects[c].health ELSE db[c].health]

Continuity ==
  INSTANCE CharacterContinuity WITH
    State <- [pos : Sane, money : Money, health : Health],
    online <- Online,
    stored <- [c \in Character |-> StoredState(c)],
    current <- [c \in Character |->
                  IF c \in Online THEN PlayedState(c) ELSE StoredState(c)]

\* Logging out, losing the connection, being kicked and logging in again never
\* change a character: only playing, a crash or a shutdown does.
CharacterSurvives == Continuity!Spec
=============================================================================
