------------------------ MODULE CharacterContinuity ------------------------
(***************************************************************************)
(* What the world owes a player: one character with one state.  current is  *)
(* the state the player knows, stored the one the characters table would    *)
(* give back.  Coming into the world and leaving it change nothing the      *)
(* player can see; leaving stores what was played.  A crash falls back to   *)
(* the stored state, an orderly shutdown only to the stored health.         *)
(***************************************************************************)
CONSTANTS Character, State
VARIABLES online, current, stored

avars == <<online, current, stored>>

Init ==
  /\ online = {}
  /\ stored \in [Character -> State]
  /\ current = stored

Enter(c) ==
  /\ c \notin online
  /\ online' = online \cup {c}
  /\ UNCHANGED <<current, stored>>

\* Play moves, hurts or heals; coin is stored as soon as it changes.
Play(c) ==
  /\ c \in online /\ UNCHANGED online
  /\ \E state \in State :
       /\ current' = [current EXCEPT ![c] = state]
       /\ stored' = [stored EXCEPT ![c].money = state.money]

Leave(c) ==
  /\ c \in online
  /\ online' = online \ {c}
  /\ stored' = [stored EXCEPT ![c] = current[c]]
  /\ UNCHANGED current

Crash ==
  /\ online' = {}
  /\ current' = stored
  /\ UNCHANGED stored

StopWorld ==
  /\ UNCHANGED <<online, stored>>
  /\ current' = [c \in Character |->
                   [current[c] EXCEPT !.health = stored[c].health]]

Next ==
  \/ \E c \in Character : Enter(c) \/ Play(c) \/ Leave(c)
  \/ Crash \/ StopWorld

Spec == Init /\ [][Next]_avars
=============================================================================
