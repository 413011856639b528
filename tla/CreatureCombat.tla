----------------------------- MODULE CreatureCombat -----------------------------
(***************************************************************************)
(* One creature and the sessions whose players fight it.  Every session      *)
(* keeps a list of its own of the creatures that chase its player, another    *)
(* of those it walks home, and one timer that serves both; the creature       *)
(* itself knows whether it is evading and whom it chases.  Nothing else ties  *)
(* the lists of two sessions together.                                        *)
(*                                                                            *)
(* Handlers and timers run one at a time on the world's thread.  Places lie   *)
(* on a line, farther apart than a creature walks in one tick: a tick stands  *)
(* for those in which it gets from one place to the next.  A hit takes one    *)
(* point of the creature's health, and kills a player or not.                 *)
(***************************************************************************)
EXTENDS Integers

CONSTANTS
  Session,
  Staff,         \* those that may turn GM mode on
  Afflicter,     \* those that know a spell with a periodic aura
  MaxPlace,
  Spawn,         \* where the creature stands at start
  Leash,         \* kCreatureLeashDistanceFromHomeYards, in places
  ChaseRange,    \* kCreatureMaxChaseTargetDistanceYards, in places
  MaxHealth,
  DotTicks,      \* periodic ticks of an aura
  NoHome, Nobody

Place == 0 .. MaxPlace

ASSUME CreatureCombatAssumption ==
  /\ MaxPlace \in Nat /\ MaxHealth \in Nat \ {0} /\ DotTicks \in Nat \ {0}
  /\ Spawn \in Place
  /\ Leash \in Nat /\ ChaseRange \in Nat
  /\ Staff \subseteq Session /\ Afflicter \subseteq Session
  /\ NoHome \notin Place
  /\ Nobody \notin Session

VARIABLES
  \* of the creature
  at,
  health,      \* m_liveHealth
  evading,     \* m_isEvading
  target,      \* m_chaseTargetPlayerGuid
  awarded,     \* m_killExperienceAwarded
  dot,         \* its periodic aura: who cast it, and the ticks left
  \* of each session and its player
  inWorld,     \* _playerGuid # 0
  place,       \* _position
  alive,
  gmMode,
  aggro,       \* home of the entry of _creatureAggroed
  returning,   \* home of the entry of _creatureReturningHome
  armed,       \* _creatureCombatMoveTimer runs
  swinging,    \* _meleeVictimGuid, and its timer
  \* history
  grants,      \* awards of experience for killing it
  risen        \* a spell has healed its corpse

player == <<inWorld, place, alive, gmMode>>
fight == <<aggro, returning, armed>>
history == <<grants, risen>>
creature == <<at, health, evading, target>>
vars == <<creature, awarded, dot, player, fight, swinging, history>>

NoDot == [caster |-> Nobody, left |-> 0]

TypeOK ==
  /\ at \in Place
  /\ health \in 0 .. MaxHealth
  /\ evading \in BOOLEAN
  /\ target \in Session \cup {Nobody}
  /\ awarded \in BOOLEAN
  /\ dot \in [caster : Session \cup {Nobody}, left : 0 .. DotTicks]
  /\ inWorld \in [Session -> BOOLEAN]
  /\ place \in [Session -> Place]
  /\ alive \in [Session -> BOOLEAN]
  /\ gmMode \in [Session -> BOOLEAN]
  /\ aggro \in [Session -> Place \cup {NoHome}]
  /\ returning \in [Session -> Place \cup {NoHome}]
  /\ armed \in [Session -> BOOLEAN]
  /\ swinging \in [Session -> BOOLEAN]
  /\ grants \in Nat
  /\ risen \in BOOLEAN

Init ==
  /\ at = Spawn
  /\ health = MaxHealth
  /\ evading = FALSE
  /\ target = Nobody
  /\ awarded = FALSE
  /\ dot = NoDot
  /\ inWorld = [s \in Session |-> FALSE]
  /\ place \in [Session -> Place]
  /\ alive = [s \in Session |-> TRUE]
  /\ gmMode = [s \in Session |-> FALSE]
  /\ aggro = [s \in Session |-> NoHome]
  /\ returning = [s \in Session |-> NoHome]
  /\ armed = [s \in Session |-> FALSE]
  /\ swinging = [s \in Session |-> FALSE]
  /\ grants = 0
  /\ risen = FALSE

---------------------------------------------------------------------------
Distance(p, q) == IF p < q THEN q - p ELSE p - q
Towards(p, q) == IF p < q THEN p + 1 ELSE IF p > q THEN p - 1 ELSE p

\* The two lists of a session after a step, and the timer that serves them.
Lists(s, chase, walk) ==
  /\ aggro' = [aggro EXCEPT ![s] = chase]
  /\ returning' = [returning EXCEPT ![s] = walk]
  /\ armed' = [armed EXCEPT ![s] = chase # NoHome \/ walk # NoHome]

\* MUTANT: whoever kills it after it reset at home earns experience again.
CompleteEvadeAtHome_Forgets ==
  /\ health' = MaxHealth
  /\ evading' = FALSE
  /\ target' = Nobody
  /\ awarded' = FALSE

CompleteEvadeAtHome ==
  /\ health' = MaxHealth
  /\ evading' = FALSE
  /\ target' = Nobody
  /\ UNCHANGED awarded

\* MUTANT: it keeps the player it chased.
BreakOff_TargetKept ==
  /\ evading' = (evading \/ health > 0)
  /\ UNCHANGED <<health, target, awarded>>

\* What StopCreatureAggro does to the creature, a dead one excepted.
BreakOff ==
  /\ evading' = (evading \/ health > 0)
  /\ target' = IF health > 0 THEN Nobody ELSE target
  /\ UNCHANGED <<health, awarded>>

\* StopCreatureAggro and BeginCreatureReturnToHome: a creature that stands at its
\* home is reset at once, any other is filed as returning.
StopCreatureAggro(s) ==
  /\ UNCHANGED at
  /\ IF health > 0 /\ at = aggro[s]
     THEN CompleteEvadeAtHome /\ Lists(s, NoHome, NoHome)
     ELSE BreakOff /\ Lists(s, NoHome, IF health > 0 THEN aggro[s] ELSE NoHome)

\* The creature this session walks home is reset where it is, dead or alive; the
\* one that chases its player breaks off, and the list it was just filed in is
\* cleared.
StopAllCreatureCombat(s) ==
  /\ UNCHANGED at
  /\ Lists(s, NoHome, NoHome)
  /\ CASE returning[s] # NoHome -> CompleteEvadeAtHome
       [] aggro[s] # NoHome /\ health > 0 /\ at = aggro[s] -> CompleteEvadeAtHome
       [] aggro[s] # NoHome /\ ~(health > 0 /\ at = aggro[s]) -> BreakOff
       [] OTHER -> UNCHANGED <<health, evading, target, awarded>>

CanMeleeAttack(s) == ~gmMode[s] /\ ~evading

\* MUTANT: an evading creature may be pulled.
StartCreatureAggro_WhileEvading(s) ==
  IF alive[s] /\ health > 0 /\ ~gmMode[s]
  THEN /\ Lists(s, IF aggro[s] = NoHome THEN at ELSE aggro[s], NoHome)
       /\ evading' = FALSE
       /\ target' = s
  ELSE /\ returning' = [returning EXCEPT ![s] = NoHome]
       /\ UNCHANGED <<aggro, armed, evading, target>>

\* The session stops walking it home whether or not it may be attacked; its home
\* is where it stands, unless it already chases this player.
StartCreatureAggro(s) ==
  IF alive[s] /\ health > 0 /\ CanMeleeAttack(s)
  THEN /\ Lists(s, IF aggro[s] = NoHome THEN at ELSE aggro[s], NoHome)
       /\ evading' = FALSE
       /\ target' = s
  ELSE /\ returning' = [returning EXCEPT ![s] = NoHome]
       /\ UNCHANGED <<aggro, armed, evading, target>>

Hurt == IF health > 0 THEN health - 1 ELSE 0

\* TryMarkKillExperienceAwarded, once in the creature's life.
GrantKillExperience ==
  /\ awarded' = TRUE
  /\ grants' = IF awarded THEN grants ELSE grants + 1

\* FinalizeCreatureDeath: the killer's session drops it, the others find out.
CreatureDies(s) ==
  /\ health' = 0
  /\ target' = Nobody
  /\ UNCHANGED <<at, evading>>
  /\ GrantKillExperience
  /\ aggro' = [aggro EXCEPT ![s] = NoHome]
  /\ armed' = IF aggro[s] = NoHome THEN armed ELSE [armed EXCEPT ![s] = FALSE]

---------------------------------------------------------------------------
\* What the player's packets do.
Enter(s) ==
  /\ ~inWorld[s]
  /\ inWorld' = [inWorld EXCEPT ![s] = TRUE]
  /\ UNCHANGED <<creature, awarded, dot, place, alive, gmMode, fight, swinging, history>>

\* What an attack or a spell was aimed at the server measures from here; no
\* movement packet is refused for its distance.
HandleMovement(s, p) ==
  /\ inWorld[s] /\ place[s] # p
  /\ place' = [place EXCEPT ![s] = p]
  /\ UNCHANGED <<creature, awarded, dot, inWorld, alive, gmMode, fight, swinging, history>>

HandleAttackSwing(s) ==
  /\ inWorld[s] /\ alive[s] /\ place[s] = at /\ health > 0
  /\ CanMeleeAttack(s) /\ ~swinging[s]
  /\ \/ /\ health > 1
        /\ health' = Hurt
        /\ StartCreatureAggro(s)
        /\ swinging' = [swinging EXCEPT ![s] = TRUE]
        /\ UNCHANGED <<at, awarded, grants>>
     \/ /\ health = 1
        /\ CreatureDies(s)
        /\ swinging' = [swinging EXCEPT ![s] = aggro[s] # NoHome]
        /\ UNCHANGED returning
  /\ UNCHANGED <<dot, player, risen>>

HandleAttackStop(s) ==
  /\ inWorld[s] /\ swinging[s]
  /\ swinging' = [swinging EXCEPT ![s] = FALSE]
  /\ UNCHANGED <<creature, awarded, dot, player, fight, history>>

\* A spell that hurts, with a periodic aura or without.  The aura goes on first,
\* evading or not, in place of one cast by somebody else.
ApplySpellDamage(s, withAura) ==
  /\ inWorld[s] /\ (withAura => s \in Afflicter)
  /\ dot' = IF withAura THEN [caster |-> s, left |-> DotTicks] ELSE dot
  /\ IF health = 1 /\ ~evading
     THEN /\ CreatureDies(s)
          /\ returning' = [returning EXCEPT ![s] = NoHome]
          /\ swinging' = IF aggro[s] = NoHome THEN [swinging EXCEPT ![s] = FALSE]
                         ELSE swinging
     ELSE /\ health' = IF evading THEN health ELSE Hurt
          /\ StartCreatureAggro(s)
          /\ UNCHANGED <<at, awarded, grants, swinging>>
  /\ UNCHANGED <<player, risen>>

\* Nothing refuses a heal on a creature, or on a dead one.
ApplySpellHeal(s) ==
  /\ inWorld[s] /\ ~evading /\ health < MaxHealth
  /\ health' = health + 1
  /\ risen' = (risen \/ health = 0)
  /\ UNCHANGED <<at, evading, target, awarded, dot, player, fight, swinging, grants>>

\* FinalizeWorldExit, by logout or because the connection ended.
Exit(s) ==
  /\ inWorld[s]
  /\ StopAllCreatureCombat(s)
  /\ swinging' = [swinging EXCEPT ![s] = FALSE]
  /\ inWorld' = [inWorld EXCEPT ![s] = FALSE]
  /\ gmMode' = [gmMode EXCEPT ![s] = FALSE]
  /\ UNCHANGED <<dot, place, alive, history>>

SetGmTagEnabled(s) ==
  /\ s \in Staff /\ inWorld[s]
  /\ gmMode' = [gmMode EXCEPT ![s] = ~gmMode[s]]
  /\ IF gmMode[s]
     THEN UNCHANGED <<creature, awarded, fight, swinging>>
     ELSE /\ StopAllCreatureCombat(s)
          /\ swinging' = [swinging EXCEPT ![s] = FALSE]
  /\ UNCHANGED <<dot, inWorld, place, alive, history>>

GmRevivePlayer(s) ==
  /\ inWorld[s] /\ ~alive[s]
  /\ alive' = [alive EXCEPT ![s] = TRUE]
  /\ UNCHANGED <<creature, awarded, dot, inWorld, place, gmMode, fight, swinging, history>>

---------------------------------------------------------------------------
\* What the timers do.
ProcessMeleeAutoAttackTick(s) ==
  /\ swinging[s]
  /\ \/ /\ ~alive[s] \/ (place[s] = at /\ health = 0)
        /\ swinging' = [swinging EXCEPT ![s] = FALSE]
        /\ UNCHANGED <<creature, awarded, fight, grants>>
     \/ /\ alive[s] /\ place[s] = at /\ health > 1 /\ ~evading
        /\ health' = Hurt
        /\ UNCHANGED <<at, evading, target, awarded, fight, swinging, grants>>
     \/ /\ alive[s] /\ place[s] = at /\ health = 1 /\ ~evading
        /\ CreatureDies(s)
        /\ swinging' = [swinging EXCEPT ![s] = FALSE]
        /\ UNCHANGED returning
  /\ UNCHANGED <<dot, player, risen>>

ShouldCreatureAbandonChase(s) ==
  Distance(aggro[s], at) > Leash \/ Distance(at, place[s]) > ChaseRange

\* One step along the way, or arrival.
WalkHome(s) ==
  IF health = 0
  THEN Lists(s, NoHome, NoHome) /\ UNCHANGED <<creature, awarded>>
  ELSE IF at = returning[s]
  THEN CompleteEvadeAtHome /\ Lists(s, NoHome, NoHome) /\ UNCHANGED at
  ELSE /\ at' = Towards(at, returning[s])
       /\ health' = IF evading /\ health < MaxHealth THEN health + 1 ELSE health
       /\ UNCHANGED <<evading, target, awarded, fight>>

\* By a spell, for which it needs no melee range, or by a swing; neither asks
\* whether the creature is evading.
ProcessCreatureCombatAttack(s) ==
  \/ UNCHANGED alive
  \/ alive' = [alive EXCEPT ![s] = FALSE]

ChaseAndAttack(s) ==
  /\ at' = Towards(at, place[s])
  /\ ProcessCreatureCombatAttack(s)
  /\ UNCHANGED <<health, evading, target, awarded, fight>>

\* MUTANT: a creature whose player died goes on fighting.
ProcessCreatureCombatMovementTick_IgnoresDeath(s) ==
  /\ armed[s] /\ ~gmMode[s]
  /\ \/ /\ returning[s] # NoHome
        /\ WalkHome(s)
        /\ UNCHANGED <<alive, swinging>>
     \/ /\ aggro[s] # NoHome /\ (health = 0 \/ ShouldCreatureAbandonChase(s))
        /\ StopCreatureAggro(s)
        /\ swinging' = [swinging EXCEPT ![s] = FALSE]
        /\ UNCHANGED alive
     \/ /\ aggro[s] # NoHome /\ health > 0 /\ ~ShouldCreatureAbandonChase(s)
        /\ ChaseAndAttack(s)
        /\ UNCHANGED swinging
  /\ UNCHANGED <<dot, inWorld, place, gmMode, history>>

ProcessCreatureCombatMovementTick(s) ==
  /\ armed[s]
  /\ \/ /\ aggro[s] = NoHome /\ returning[s] = NoHome
        /\ armed' = [armed EXCEPT ![s] = FALSE]
        /\ UNCHANGED <<creature, awarded, aggro, returning, alive, swinging>>
     \/ /\ returning[s] # NoHome
        /\ WalkHome(s)
        /\ UNCHANGED <<alive, swinging>>
     \/ /\ aggro[s] # NoHome
        /\ health = 0 \/ ~alive[s] \/ ShouldCreatureAbandonChase(s)
        /\ StopCreatureAggro(s)
        /\ swinging' = [swinging EXCEPT ![s] = FALSE]
        /\ UNCHANGED alive
     \/ /\ aggro[s] # NoHome
        /\ health > 0 /\ alive[s] /\ ~ShouldCreatureAbandonChase(s)
        /\ ChaseAndAttack(s)
        /\ UNCHANGED swinging
  /\ UNCHANGED <<dot, inWorld, place, gmMode, history>>

\* A periodic tick hurts an evading creature too.  The kill is the caster's, if
\* the caster is still on the map.
TickUnitAuras ==
  /\ dot.left > 0
  /\ dot' = IF dot.left = 1 THEN NoDot ELSE [dot EXCEPT !.left = @ - 1]
  /\ IF health = 1 /\ inWorld[dot.caster]
     THEN /\ CreatureDies(dot.caster)
          /\ UNCHANGED returning
          /\ swinging' = IF aggro[dot.caster] = NoHome
                         THEN [swinging EXCEPT ![dot.caster] = FALSE] ELSE swinging
     ELSE /\ health' = Hurt
          /\ UNCHANGED <<at, evading, target, awarded, fight, swinging, grants>>
  /\ UNCHANGED <<player, risen>>

---------------------------------------------------------------------------
PlayerStep(s) ==
  \/ Enter(s) \/ Exit(s)
  \/ \E p \in Place : HandleMovement(s, p)
  \/ HandleAttackSwing(s) \/ HandleAttackStop(s)
  \/ \E withAura \in BOOLEAN : ApplySpellDamage(s, withAura)
  \/ ApplySpellHeal(s)
  \/ SetGmTagEnabled(s) \/ GmRevivePlayer(s)

Next ==
  \/ \E s \in Session :
       PlayerStep(s) \/ ProcessMeleeAutoAttackTick(s) \/ ProcessCreatureCombatMovementTick(s)
  \/ TickUnitAuras

Spec == Init /\ [][Next]_vars

\* A timer that runs expires and its handler is called; players do what they like.
FairSpec == Spec /\ \A s \in Session : WF_vars(ProcessCreatureCombatMovementTick(s))

---------------------------------------------------------------------------
\* The player a live creature is said to chase is one in the world whose session
\* has it in its list, and the creature is not evading, however the sessions'
\* stops and starts interleave (StopCreatureAggro, StartCreatureAggro,
\* FinalizeCreatureDeath); a corpse that a spell healed is beyond it.
TargetIsFighting ==
  ~risen /\ health > 0 /\ target # Nobody =>
    aggro[target] # NoHome /\ inWorld[target] /\ ~evading

\* However often it dies, gets up and dies again, by whatever hand, its death is
\* paid for once (MaybeGrantKillExperience).
KillPaidOnce == grants <= 1

\* A creature that a session has in one of its lists is in no other of its lists
\* and is served by its timer, and the session's player is in the world and no
\* GM: no fight and no walk home is left behind by a logout, a kill or GM mode
\* (ScheduleCreatureCombatMovement, FinalizeCreatureDeath, SetGmTagEnabled).
ListsAreServed ==
  \A s \in Session :
    /\ aggro[s] = NoHome \/ returning[s] = NoHome
    /\ aggro[s] # NoHome \/ returning[s] # NoHome => armed[s] /\ inWorld[s] /\ ~gmMode[s]
    /\ swinging[s] => inWorld[s] /\ ~gmMode[s]

\* It stops evading only by a full reset: nobody fights a half-healed creature
\* that was walking home (CompleteEvadeAtHome, CanMeleeAttack).
EvadeEndsInReset == [][evading /\ ~evading' => health' = MaxHealth /\ target' = Nobody]_vars

\* A fight whose player has died is over, unless the player rises; a walk home
\* ends, unless another session has the creature in one of its lists and drags it
\* away: two sessions may even walk it to two homes, back and forth for ever
\* (ProcessCreatureCombatMovementTick).
FightsAreSettled ==
  \A s \in Session :
    /\ aggro[s] # NoHome /\ ~alive[s] ~> aggro[s] = NoHome \/ alive[s]
    /\ returning[s] # NoHome ~>
         \/ returning[s] = NoHome
         \/ \E t \in Session \ {s} : aggro[t] # NoHome \/ returning[t] # NoHome
=============================================================================
