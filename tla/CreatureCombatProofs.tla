------------------------- MODULE CreatureCombatProofs -------------------------
(***************************************************************************)
(* Proofs about CreatureCombat, for any number of sessions, any length of     *)
(* the line, leash, range, health and aura.  The parts of the type invariant  *)
(* are named so that each step is looked at part by part; the payment of the  *)
(* death and the target need nothing but the types to be inductive, and that  *)
(* no list is left without its timer or its player rests on these.            *)
(***************************************************************************)
EXTENDS CreatureCombat, TLAPS

CreatureOK ==
  /\ at \in Place /\ health \in 0 .. MaxHealth /\ evading \in BOOLEAN
  /\ target \in Session \cup {Nobody} /\ awarded \in BOOLEAN
DotOK == dot \in [caster : Session \cup {Nobody}, left : 0 .. DotTicks]
PlayerOK ==
  /\ inWorld \in [Session -> BOOLEAN] /\ place \in [Session -> Place]
  /\ alive \in [Session -> BOOLEAN] /\ gmMode \in [Session -> BOOLEAN]
FightOK ==
  /\ aggro \in [Session -> Place \cup {NoHome}]
  /\ returning \in [Session -> Place \cup {NoHome}]
  /\ armed \in [Session -> BOOLEAN]
SwingOK == swinging \in [Session -> BOOLEAN]
HistoryOK == grants \in Nat /\ risen \in BOOLEAN

\* An aura that still ticks was cast by somebody.
DotHasCaster == dot.left > 0 => dot.caster \in Session

\* What is counted is what the creature remembers.
PaidOnce == grants = IF awarded THEN 1 ELSE 0

IInv == TypeOK /\ DotHasCaster /\ PaidOnce /\ TargetIsFighting

LEMMA Parts ==
  TypeOK <=> CreatureOK /\ DotOK /\ PlayerOK /\ FightOK /\ SwingOK /\ HistoryOK
BY DEF TypeOK, CreatureOK, DotOK, PlayerOK, FightOK, SwingOK, HistoryOK

LEMMA PrimedParts ==
  ASSUME CreatureOK', DotOK', PlayerOK', FightOK', SwingOK', HistoryOK'
  PROVE  TypeOK'
BY DEF TypeOK, CreatureOK, DotOK, PlayerOK, FightOK, SwingOK, HistoryOK

LEMMA Constants ==
  /\ MaxPlace \in Nat /\ MaxHealth \in Nat /\ MaxHealth > 0
  /\ DotTicks \in Nat /\ DotTicks > 0
  /\ Spawn \in Place /\ NoHome \notin Place /\ Nobody \notin Session
BY CreatureCombatAssumption

LEMMA Initially == Init => IInv
<1> SUFFICES ASSUME Init PROVE IInv
  OBVIOUS
<1>1. CreatureOK
  <2>1. health \in 0 .. MaxHealth
    BY Constants DEF Init
  <2> QED BY <2>1, Constants DEF Init, CreatureOK
<1>4. HistoryOK /\ PaidOnce /\ TargetIsFighting
  BY DEF Init, HistoryOK, PaidOnce, TargetIsFighting
<1>2. DotOK /\ DotHasCaster
  BY Constants DEF Init, NoDot, DotOK, DotHasCaster
<1>3. PlayerOK /\ FightOK /\ SwingOK
  BY DEF Init, PlayerOK, FightOK, SwingOK
<1> QED BY <1>1, <1>2, <1>3, <1>4, Parts DEF IInv

---------------------------------------------------------------------------
\* The lists of a session and its timer keep their types.
LEMMA ListsTyped ==
  ASSUME FightOK, NEW s \in Session,
         NEW chase \in Place \cup {NoHome}, NEW walk \in Place \cup {NoHome},
         Lists(s, chase, walk)
  PROVE  FightOK'
<1>1. aggro' \in [Session -> Place \cup {NoHome}] /\ returning' \in [Session -> Place \cup {NoHome}]
  BY DEF Lists, FightOK
<1>2. (chase # NoHome \/ walk # NoHome) \in BOOLEAN
  OBVIOUS
<1>3. armed' \in [Session -> BOOLEAN]
  BY <1>2 DEF Lists, FightOK
<1> QED BY <1>1, <1>3 DEF FightOK

LEMMA OneStep ==
  ASSUME NEW p \in Place, NEW q \in Place
  PROVE  Towards(p, q) \in Place
BY Constants DEF Towards, Place

LEMMA HurtTyped ==
  ASSUME health \in 0 .. MaxHealth
  PROVE  Hurt \in 0 .. MaxHealth /\ (Hurt > 0 => health > 0)
BY Constants DEF Hurt

LEMMA ResetTyped ==
  ASSUME CreatureOK, CompleteEvadeAtHome, UNCHANGED at
  PROVE  CreatureOK'
<1>1. health' \in 0 .. MaxHealth
  BY Constants DEF CompleteEvadeAtHome
<1> QED BY <1>1 DEF CreatureOK, CompleteEvadeAtHome

LEMMA BreakOffTyped ==
  ASSUME CreatureOK, BreakOff, UNCHANGED at
  PROVE  CreatureOK'
<1>1. (evading \/ health > 0) \in BOOLEAN
  OBVIOUS
<1> QED BY <1>1 DEF CreatureOK, BreakOff

LEMMA StopTyped ==
  ASSUME CreatureOK, FightOK, NEW s \in Session,
         StopCreatureAggro(s) \/ StopAllCreatureCombat(s)
  PROVE  CreatureOK' /\ FightOK'
<1>1. aggro[s] \in Place \cup {NoHome}
  BY DEF FightOK
<1>2. CreatureOK'
  <2>1. /\ UNCHANGED at
        /\ CompleteEvadeAtHome \/ BreakOff \/ UNCHANGED <<health, evading, target, awarded>>
    BY DEF StopCreatureAggro, StopAllCreatureCombat
  <2>2. CASE UNCHANGED <<health, evading, target, awarded>>
    BY <2>1, <2>2 DEF CreatureOK
  <2> QED BY <2>1, <2>2, ResetTyped, BreakOffTyped
<1>3. FightOK'
  <2>1. PICK walk \in Place \cup {NoHome} : Lists(s, NoHome, walk)
    BY <1>1 DEF StopCreatureAggro, StopAllCreatureCombat
  <2> QED BY <2>1, ListsTyped
<1> QED BY <1>2, <1>3

LEMMA StartTyped ==
  ASSUME at \in Place, evading \in BOOLEAN, target \in Session \cup {Nobody},
         FightOK, NEW s \in Session, StartCreatureAggro(s)
  PROVE  evading' \in BOOLEAN /\ target' \in Session \cup {Nobody} /\ FightOK'
<1>1. CASE alive[s] /\ health > 0 /\ CanMeleeAttack(s)
  <2>1. (IF aggro[s] = NoHome THEN at ELSE aggro[s]) \in Place \cup {NoHome}
    BY DEF FightOK
  <2>2. Lists(s, IF aggro[s] = NoHome THEN at ELSE aggro[s], NoHome)
    BY <1>1 DEF StartCreatureAggro
  <2>3. FightOK'
    BY <2>1, <2>2, ListsTyped
  <2> QED BY <1>1, <2>3 DEF StartCreatureAggro
<1>2. CASE ~(alive[s] /\ health > 0 /\ CanMeleeAttack(s))
  BY <1>2 DEF StartCreatureAggro, FightOK
<1> QED BY <1>1, <1>2

LEMMA DeathTyped ==
  ASSUME CreatureOK, HistoryOK, FightOK, NEW s \in Session, CreatureDies(s)
  PROVE  /\ CreatureOK' /\ grants' \in Nat
         /\ aggro' \in [Session -> Place \cup {NoHome}] /\ armed' \in [Session -> BOOLEAN]
<1>1. aggro' \in [Session -> Place \cup {NoHome}]
  BY DEF CreatureDies, FightOK
<1>2. armed' \in [Session -> BOOLEAN]
  BY DEF CreatureDies, FightOK
<1>3. CreatureOK'
  BY Constants DEF CreatureDies, GrantKillExperience, CreatureOK
<1>4. grants' \in Nat
  BY DEF CreatureDies, GrantKillExperience, HistoryOK
<1> QED BY <1>1, <1>2, <1>3, <1>4

---------------------------------------------------------------------------
\* A player's packets keep the types.
LEMMA PlayerStepTyped ==
  ASSUME TypeOK, NEW s \in Session, PlayerStep(s)
  PROVE  TypeOK'
<1>0. CreatureOK /\ DotOK /\ PlayerOK /\ FightOK /\ SwingOK /\ HistoryOK
  BY Parts
<1>1. CASE Enter(s) \/ \E p \in Place : HandleMovement(s, p)
  <2>1. PlayerOK'
    BY <1>0, <1>1 DEF Enter, HandleMovement, PlayerOK
  <2>2. UNCHANGED <<creature, awarded, dot, fight, swinging, history>>
    BY <1>1 DEF Enter, HandleMovement
  <2> QED BY <1>0, <2>1, <2>2, PrimedParts
       DEF creature, fight, history, CreatureOK, DotOK, FightOK, SwingOK, HistoryOK
<1>2. CASE HandleAttackSwing(s)
  <2>1. DotOK' /\ PlayerOK' /\ SwingOK'
    <3>1. DotOK' /\ PlayerOK'
      BY <1>0, <1>2 DEF HandleAttackSwing, player, DotOK, PlayerOK
    <3>2. \E b \in BOOLEAN : swinging' = [swinging EXCEPT ![s] = b]
      BY <1>2 DEF HandleAttackSwing
    <3>3. SwingOK'
      BY <1>0, <3>2 DEF SwingOK
    <3> QED BY <3>1, <3>3
  <2>2. CASE health > 1 /\ health' = Hurt /\ StartCreatureAggro(s) /\ UNCHANGED <<at, awarded, grants>>
    <3>1. CreatureOK' /\ FightOK'
      BY <1>0, <2>2, StartTyped, HurtTyped DEF CreatureOK
    <3>2. HistoryOK'
      BY <1>0, <1>2, <2>2 DEF HandleAttackSwing, HistoryOK
    <3> QED BY <2>1, <3>1, <3>2, PrimedParts
  <2>3. CASE CreatureDies(s) /\ UNCHANGED returning
    <3>1. CreatureOK' /\ FightOK'
      BY <1>0, <2>3, DeathTyped DEF FightOK
    <3>2. HistoryOK'
      BY <1>0, <1>2, <2>3, DeathTyped DEF HandleAttackSwing, HistoryOK
    <3> QED BY <2>1, <3>1, <3>2, PrimedParts
  <2> QED BY <1>2, <2>2, <2>3 DEF HandleAttackSwing
<1>3. CASE HandleAttackStop(s)
  <2>1. SwingOK'
    BY <1>0, <1>3 DEF HandleAttackStop, SwingOK
  <2> QED BY <1>0, <1>3, <2>1, PrimedParts
       DEF HandleAttackStop, creature, player, fight, history,
           CreatureOK, DotOK, PlayerOK, FightOK, HistoryOK
<1>4. ASSUME NEW withAura \in BOOLEAN, ApplySpellDamage(s, withAura) PROVE TypeOK'
  <2>1. DotOK'
    <3>1. [caster |-> s, left |-> DotTicks] \in [caster : Session \cup {Nobody}, left : 0 .. DotTicks]
      BY Constants
    <3> QED BY <1>0, <1>4, <3>1 DEF ApplySpellDamage, DotOK
  <2>2. PlayerOK'
    BY <1>0, <1>4 DEF ApplySpellDamage, player, PlayerOK
  <2>3. SwingOK'
    BY <1>0, <1>4 DEF ApplySpellDamage, SwingOK
  <2>4. CASE health = 1 /\ ~evading
    <3>1. CreatureDies(s) /\ returning' = [returning EXCEPT ![s] = NoHome] /\ UNCHANGED risen
      BY <1>4, <2>4 DEF ApplySpellDamage
    <3>2. CreatureOK' /\ FightOK' /\ HistoryOK'
      BY <1>0, <3>1, DeathTyped DEF FightOK, HistoryOK
    <3> QED BY <2>1, <2>2, <2>3, <3>2, PrimedParts
  <2>5. CASE ~(health = 1 /\ ~evading)
    <3>1. /\ health' = health \/ health' = Hurt
          /\ StartCreatureAggro(s) /\ UNCHANGED <<at, awarded, grants, risen>>
      BY <1>4, <2>5 DEF ApplySpellDamage
    <3>2. CreatureOK' /\ FightOK'
      BY <1>0, <3>1, StartTyped, HurtTyped DEF CreatureOK
    <3>3. HistoryOK'
      BY <1>0, <3>1 DEF HistoryOK
    <3> QED BY <2>1, <2>2, <2>3, <3>2, <3>3, PrimedParts
  <2> QED BY <2>4, <2>5
<1>5. CASE ApplySpellHeal(s)
  <2>1. CreatureOK'
    <3>1. health' \in 0 .. MaxHealth
      BY <1>0, <1>5, Constants DEF ApplySpellHeal, CreatureOK
    <3> QED BY <1>0, <1>5, <3>1 DEF ApplySpellHeal, CreatureOK
  <2>2. HistoryOK'
    BY <1>0, <1>5 DEF ApplySpellHeal, HistoryOK
  <2> QED BY <1>0, <1>5, <2>1, <2>2, PrimedParts
       DEF ApplySpellHeal, player, fight, DotOK, PlayerOK, FightOK, SwingOK
<1>6. CASE Exit(s)
  <2>1. CreatureOK' /\ FightOK'
    BY <1>0, <1>6, StopTyped DEF Exit
  <2>2. PlayerOK' /\ SwingOK'
    BY <1>0, <1>6 DEF Exit, PlayerOK, SwingOK
  <2> QED BY <1>0, <1>6, <2>1, <2>2, PrimedParts DEF Exit, history, DotOK, HistoryOK
<1>7. CASE SetGmTagEnabled(s)
  <2>1. CreatureOK' /\ FightOK'
    <3>1. CASE StopAllCreatureCombat(s)
      BY <1>0, <3>1, StopTyped
    <3>2. CASE UNCHANGED <<creature, awarded, fight>>
      BY <1>0, <3>2 DEF creature, fight, CreatureOK, FightOK
    <3> QED BY <1>7, <3>1, <3>2 DEF SetGmTagEnabled
  <2>2. SwingOK'
    BY <1>0, <1>7 DEF SetGmTagEnabled, SwingOK
  <2>3. PlayerOK'
    <3>1. gmMode' \in [Session -> BOOLEAN]
      BY <1>0, <1>7 DEF SetGmTagEnabled, PlayerOK
    <3> QED BY <1>0, <1>7, <3>1 DEF SetGmTagEnabled, PlayerOK
  <2> QED BY <1>0, <1>7, <2>1, <2>2, <2>3, PrimedParts DEF SetGmTagEnabled, history, DotOK, HistoryOK
<1>8. CASE GmRevivePlayer(s)
  <2>1. PlayerOK'
    BY <1>0, <1>8 DEF GmRevivePlayer, PlayerOK
  <2> QED BY <1>0, <1>8, <2>1, PrimedParts
       DEF GmRevivePlayer, creature, fight, history, CreatureOK, DotOK, FightOK, SwingOK, HistoryOK
<1> QED BY <1>1, <1>2, <1>3, <1>4, <1>5, <1>6, <1>7, <1>8 DEF PlayerStep

\* A swing keeps the types.
LEMMA SwingTyped ==
  ASSUME TypeOK, NEW s \in Session, ProcessMeleeAutoAttackTick(s)
  PROVE  TypeOK'
<1>0. CreatureOK /\ DotOK /\ PlayerOK /\ FightOK /\ SwingOK /\ HistoryOK
  BY Parts
<1>1. DotOK' /\ PlayerOK' /\ SwingOK'
  BY <1>0 DEF ProcessMeleeAutoAttackTick, player, DotOK, PlayerOK, SwingOK
<1>2. CASE CreatureDies(s) /\ UNCHANGED <<returning, risen>>
  <2>1. CreatureOK' /\ FightOK' /\ HistoryOK'
    BY <1>0, <1>2, DeathTyped DEF FightOK, HistoryOK
  <2> QED BY <1>1, <2>1, PrimedParts
<1>3. CASE /\ health' = health \/ health' = Hurt
           /\ UNCHANGED <<at, evading, target, awarded, fight, grants, risen>>
  <2>1. CreatureOK' /\ FightOK' /\ HistoryOK'
    BY <1>0, <1>3, HurtTyped DEF fight, CreatureOK, FightOK, HistoryOK
  <2> QED BY <1>1, <2>1, PrimedParts
<1> QED BY <1>2, <1>3 DEF ProcessMeleeAutoAttackTick, creature

\* The timer of a session keeps the types.
LEMMA TimerTyped ==
  ASSUME TypeOK, NEW s \in Session, ProcessCreatureCombatMovementTick(s)
  PROVE  TypeOK'
<1>0. CreatureOK /\ DotOK /\ PlayerOK /\ FightOK /\ SwingOK /\ HistoryOK
  BY Parts
<1>1. DotOK' /\ HistoryOK'
  BY <1>0 DEF ProcessCreatureCombatMovementTick, history, DotOK, HistoryOK
<1>2. CASE /\ UNCHANGED <<creature, awarded, aggro, returning, alive, swinging>>
           /\ armed' = [armed EXCEPT ![s] = FALSE]
  BY <1>0, <1>1, <1>2, PrimedParts
     DEF ProcessCreatureCombatMovementTick, creature, CreatureOK, PlayerOK, FightOK, SwingOK
<1>3. CASE returning[s] # NoHome /\ WalkHome(s) /\ UNCHANGED <<alive, swinging>>
  <2>1. PlayerOK' /\ SwingOK'
    BY <1>0, <1>3 DEF ProcessCreatureCombatMovementTick, PlayerOK, SwingOK
  <2>2. CASE health = 0 /\ Lists(s, NoHome, NoHome) /\ UNCHANGED <<creature, awarded>>
    <3>1. FightOK' /\ CreatureOK'
      BY <1>0, <2>2, ListsTyped DEF creature, CreatureOK
    <3> QED BY <1>1, <2>1, <3>1, PrimedParts
  <2>3. CASE CompleteEvadeAtHome /\ Lists(s, NoHome, NoHome) /\ UNCHANGED at
    <3>1. FightOK' /\ CreatureOK'
      BY <1>0, <2>3, ListsTyped, ResetTyped
    <3> QED BY <1>1, <2>1, <3>1, PrimedParts
  <2>4. CASE /\ at' = Towards(at, returning[s])
             /\ health' = IF evading /\ health < MaxHealth THEN health + 1 ELSE health
             /\ UNCHANGED <<evading, target, awarded, fight>>
    <3>1. at' \in Place
      BY <1>0, <1>3, <2>4, OneStep DEF CreatureOK, FightOK
    <3>2. health' \in 0 .. MaxHealth
      BY <1>0, <2>4, Constants DEF CreatureOK
    <3>3. CreatureOK' /\ FightOK'
      BY <1>0, <2>4, <3>1, <3>2 DEF fight, CreatureOK, FightOK
    <3> QED BY <1>1, <2>1, <3>3, PrimedParts
  <2> QED BY <1>3, <2>2, <2>3, <2>4 DEF WalkHome
<1>4. CASE StopCreatureAggro(s) /\ swinging' = [swinging EXCEPT ![s] = FALSE] /\ UNCHANGED alive
  <2>1. CreatureOK' /\ FightOK'
    BY <1>0, <1>4, StopTyped
  <2>2. PlayerOK' /\ SwingOK'
    BY <1>0, <1>4 DEF ProcessCreatureCombatMovementTick, PlayerOK, SwingOK
  <2> QED BY <1>1, <2>1, <2>2, PrimedParts
<1>5. CASE ChaseAndAttack(s) /\ UNCHANGED swinging
  <2>1. at' \in Place
    BY <1>0, <1>5, OneStep DEF ChaseAndAttack, CreatureOK, PlayerOK
  <2>2. CreatureOK' /\ FightOK' /\ SwingOK'
    BY <1>0, <1>5, <2>1 DEF ChaseAndAttack, fight, CreatureOK, FightOK, SwingOK
  <2>3. PlayerOK'
    BY <1>0, <1>5 DEF ChaseAndAttack, ProcessCreatureCombatAttack,
                      ProcessCreatureCombatMovementTick, PlayerOK
  <2> QED BY <1>1, <2>2, <2>3, PrimedParts
<1> QED BY <1>2, <1>3, <1>4, <1>5 DEF ProcessCreatureCombatMovementTick

\* A periodic tick keeps the types.
LEMMA AuraTyped ==
  ASSUME TypeOK, DotHasCaster, TickUnitAuras
  PROVE  TypeOK' /\ DotHasCaster'
<1>0. CreatureOK /\ DotOK /\ PlayerOK /\ FightOK /\ SwingOK /\ HistoryOK
  BY Parts
<1>1. dot.caster \in Session /\ dot.left \in 1 .. DotTicks
  BY <1>0, Constants DEF TickUnitAuras, DotHasCaster, DotOK
<1>2. DotOK' /\ DotHasCaster'
  <2>1. CASE dot.left = 1
    BY <2>1, Constants DEF TickUnitAuras, NoDot, DotOK, DotHasCaster
  <2>2. CASE dot.left # 1
    <3>1. dot' = [dot EXCEPT !.left = dot.left - 1] /\ dot.left - 1 \in 0 .. DotTicks
      BY <1>1, <2>2, Constants DEF TickUnitAuras
    <3>2. DotOK'
      BY <1>0, <3>1 DEF DotOK
    <3>3. dot'.caster = dot.caster
      BY <1>0, <3>1 DEF DotOK
    <3> QED BY <1>1, <3>2, <3>3 DEF DotHasCaster
  <2> QED BY <2>1, <2>2
<1>3. PlayerOK' /\ SwingOK' /\ risen' \in BOOLEAN
  BY <1>0 DEF TickUnitAuras, player, PlayerOK, SwingOK, HistoryOK
<1>4. CASE CreatureDies(dot.caster) /\ UNCHANGED returning
  <2>1. CreatureOK' /\ FightOK' /\ HistoryOK'
    BY <1>0, <1>1, <1>3, <1>4, DeathTyped DEF FightOK, HistoryOK
  <2> QED BY <1>2, <1>3, <2>1, PrimedParts
<1>5. CASE health' = Hurt /\ UNCHANGED <<at, evading, target, awarded, fight, swinging, grants>>
  <2>1. CreatureOK' /\ FightOK' /\ HistoryOK'
    BY <1>0, <1>3, <1>5, HurtTyped DEF fight, CreatureOK, FightOK, HistoryOK
  <2> QED BY <1>2, <1>3, <2>1, PrimedParts
<1> QED BY <1>4, <1>5 DEF TickUnitAuras

LEMMA TypeStep ==
  ASSUME TypeOK, DotHasCaster, [Next]_vars
  PROVE  TypeOK' /\ DotHasCaster'
<1>1. ASSUME NEW s \in Session,
             \/ PlayerStep(s) \/ ProcessMeleeAutoAttackTick(s)
             \/ ProcessCreatureCombatMovementTick(s)
      PROVE  TypeOK' /\ DotHasCaster'
  <2>1. TypeOK'
    BY <1>1, PlayerStepTyped, SwingTyped, TimerTyped
  <2>2. dot' = dot \/ dot' = [caster |-> s, left |-> DotTicks]
    BY <1>1 DEF PlayerStep, Enter, Exit, HandleMovement, HandleAttackSwing, HandleAttackStop,
                ApplySpellDamage, ApplySpellHeal, SetGmTagEnabled, GmRevivePlayer,
                ProcessMeleeAutoAttackTick, ProcessCreatureCombatMovementTick
  <2> QED BY <2>1, <2>2 DEF DotHasCaster
<1>2. CASE TickUnitAuras
  BY <1>2, AuraTyped
<1>3. CASE UNCHANGED vars
  BY <1>3 DEF vars, creature, player, fight, history, TypeOK, DotHasCaster
<1> QED BY <1>1, <1>2, <1>3 DEF Next

---------------------------------------------------------------------------
\* Awards change only with the mark, and both only when the creature dies.
LEMMA PaidStep ==
  ASSUME TypeOK, PaidOnce, [Next]_vars
  PROVE  PaidOnce'
<1>1. UNCHANGED <<awarded, grants>> \/ GrantKillExperience
  <2>1. ASSUME NEW s \in Session, PlayerStep(s)
        PROVE  UNCHANGED <<awarded, grants>> \/ GrantKillExperience
    BY <2>1 DEF PlayerStep, Enter, Exit, HandleMovement, HandleAttackSwing, HandleAttackStop,
                ApplySpellDamage, ApplySpellHeal, SetGmTagEnabled, GmRevivePlayer,
                CreatureDies, StopAllCreatureCombat, CompleteEvadeAtHome, BreakOff, history
  <2>2. ASSUME NEW s \in Session, ProcessMeleeAutoAttackTick(s)
        PROVE  UNCHANGED <<awarded, grants>> \/ GrantKillExperience
    BY <2>2 DEF ProcessMeleeAutoAttackTick, CreatureDies
  <2>3. ASSUME NEW s \in Session, ProcessCreatureCombatMovementTick(s)
        PROVE  UNCHANGED <<awarded, grants>>
    BY <2>3 DEF ProcessCreatureCombatMovementTick, WalkHome, StopCreatureAggro, ChaseAndAttack,
                CompleteEvadeAtHome, BreakOff, history
  <2>4. CASE TickUnitAuras
    BY <2>4 DEF TickUnitAuras, CreatureDies
  <2>5. CASE UNCHANGED vars
    BY <2>5 DEF vars, history
  <2> QED BY <2>1, <2>2, <2>3, <2>4, <2>5 DEF Next
<1> QED BY <1>1 DEF GrantKillExperience, PaidOnce, TypeOK

\* What the actions may do to the target of a live creature.
Safe ==
  ~risen' /\ health' > 0 /\ target' # Nobody =>
    aggro'[target'] # NoHome /\ inWorld'[target'] /\ ~evading'

\* Breaking off or resetting leaves a live creature without target; a session that
\* has it in neither list is not the one it chases.
LEMMA StopSafe ==
  ASSUME TypeOK, TargetIsFighting, NEW s \in Session, UNCHANGED risen,
         StopCreatureAggro(s) \/ StopAllCreatureCombat(s),
         \A t \in Session \ {s} : inWorld'[t] = inWorld[t]
  PROVE  Safe
<1>1. CASE CompleteEvadeAtHome
  BY <1>1 DEF CompleteEvadeAtHome, Safe
<1>2. CASE BreakOff
  BY <1>2 DEF BreakOff, Safe
<1>3. CASE /\ UNCHANGED <<health, evading, target>> /\ aggro[s] = NoHome
           /\ Lists(s, NoHome, NoHome)
  <2>1. ASSUME ~risen, health > 0, target # Nobody
        PROVE  aggro'[target] # NoHome /\ inWorld'[target] /\ ~evading
    <3>1. target \in Session \ {s} /\ aggro[target] # NoHome /\ inWorld[target] /\ ~evading
      BY <1>3, <2>1 DEF TargetIsFighting, TypeOK
    <3> QED BY <1>3, <3>1 DEF Lists, TypeOK
  <2> QED BY <1>3, <2>1 DEF Safe
<1> QED BY <1>1, <1>2, <1>3 DEF StopCreatureAggro, StopAllCreatureCombat

\* Whoever pulls it and is in the world becomes its target; whoever may not pull
\* it changes no chase.
LEMMA StartSafe ==
  ASSUME TypeOK, TargetIsFighting, NEW s \in Session, inWorld[s],
         UNCHANGED <<risen, inWorld>>, health' > 0 => health > 0, StartCreatureAggro(s)
  PROVE  Safe
<1>1. CASE alive[s] /\ health > 0 /\ CanMeleeAttack(s)
  <2>1. /\ target' = s /\ evading' = FALSE
        /\ Lists(s, IF aggro[s] = NoHome THEN at ELSE aggro[s], NoHome)
    BY <1>1 DEF StartCreatureAggro
  <2>2. aggro'[s] # NoHome
    BY <2>1, Constants DEF Lists, TypeOK
  <2> QED BY <2>1, <2>2 DEF Safe
<1>2. CASE ~(alive[s] /\ health > 0 /\ CanMeleeAttack(s))
  BY <1>2 DEF StartCreatureAggro, TargetIsFighting, Safe
<1> QED BY <1>1, <1>2

LEMMA TargetStep ==
  ASSUME TypeOK, DotHasCaster, TargetIsFighting, [Next]_vars
  PROVE  TargetIsFighting'
<1>0. Safe => TargetIsFighting'
  BY DEF Safe, TargetIsFighting
<1>h. Hurt > 0 => health > 0
  BY HurtTyped DEF TypeOK
<1>1. ASSUME NEW s \in Session, PlayerStep(s) PROVE Safe
  <2>1. CASE Enter(s)
    <3>1. \A t \in Session : inWorld[t] => inWorld'[t]
      BY <2>1 DEF Enter, TypeOK
    <3> QED BY <2>1, <3>1 DEF Enter, creature, fight, history, TargetIsFighting, Safe, TypeOK
  <2>2. CASE \/ \E p \in Place : HandleMovement(s, p)
             \/ HandleAttackStop(s) \/ GmRevivePlayer(s)
    BY <2>2 DEF HandleMovement, HandleAttackStop, GmRevivePlayer, creature, fight, player, history,
                TargetIsFighting, Safe
  <2>3. CASE HandleAttackSwing(s)
    <3>1. CASE CreatureDies(s)
      BY <3>1 DEF CreatureDies, Safe
    <3>2. CASE health > 1 /\ health' = Hurt /\ StartCreatureAggro(s)
      BY <1>h, <2>3, <3>2, StartSafe DEF HandleAttackSwing, player
    <3> QED BY <2>3, <3>1, <3>2 DEF HandleAttackSwing
  <2>4. ASSUME NEW withAura \in BOOLEAN, ApplySpellDamage(s, withAura) PROVE Safe
    <3>1. CASE CreatureDies(s)
      BY <3>1 DEF CreatureDies, Safe
    <3>2. CASE StartCreatureAggro(s) /\ (health' = health \/ health' = Hurt)
      BY <1>h, <2>4, <3>2, StartSafe DEF ApplySpellDamage, player
    <3> QED BY <2>4, <3>1, <3>2 DEF ApplySpellDamage
  <2>5. CASE ApplySpellHeal(s)
    BY <2>5 DEF ApplySpellHeal, player, fight, TargetIsFighting, Safe, TypeOK
  <2>6. CASE Exit(s)
    <3>1. \A t \in Session \ {s} : inWorld'[t] = inWorld[t]
      BY <2>6 DEF Exit, TypeOK
    <3> QED BY <2>6, <3>1, StopSafe DEF Exit, history
  <2>7. CASE SetGmTagEnabled(s)
    <3>1. CASE StopAllCreatureCombat(s)
      BY <2>7, <3>1, StopSafe DEF SetGmTagEnabled, history
    <3>2. CASE UNCHANGED <<creature, awarded, fight, swinging>>
      BY <2>7, <3>2 DEF SetGmTagEnabled, creature, fight, history, TargetIsFighting, Safe
    <3> QED BY <2>7, <3>1, <3>2 DEF SetGmTagEnabled
  <2> QED BY <1>1, <2>1, <2>2, <2>3, <2>4, <2>5, <2>6, <2>7 DEF PlayerStep
<1>2. ASSUME NEW s \in Session, ProcessMeleeAutoAttackTick(s) PROVE Safe
  <2>1. CASE CreatureDies(s)
    BY <2>1 DEF CreatureDies, Safe
  <2>2. CASE /\ health' = health \/ health' = Hurt
             /\ UNCHANGED <<evading, target, aggro, inWorld, risen>>
    BY <1>h, <2>2 DEF TargetIsFighting, Safe
  <2> QED BY <1>2, <2>1, <2>2 DEF ProcessMeleeAutoAttackTick, creature, fight, player
<1>3. ASSUME NEW s \in Session, ProcessCreatureCombatMovementTick(s) PROVE Safe
  <2>1. UNCHANGED <<inWorld, risen>>
    BY <1>3 DEF ProcessCreatureCombatMovementTick, history
  <2>2. CASE WalkHome(s)
    <3>1. CASE health = 0 /\ UNCHANGED creature
      BY <3>1 DEF creature, Safe
    <3>2. CASE CompleteEvadeAtHome
      BY <3>2 DEF CompleteEvadeAtHome, Safe
    <3>3. CASE health # 0 /\ UNCHANGED <<evading, target, awarded, fight>>
      <4>1. health > 0
        BY <3>3 DEF TypeOK
      <4> QED BY <2>1, <3>3, <4>1 DEF fight, TargetIsFighting, Safe
    <3> QED BY <2>2, <3>1, <3>2, <3>3 DEF WalkHome
  <2>3. CASE StopCreatureAggro(s)
    BY <2>1, <2>3, StopSafe
  <2>4. CASE /\ UNCHANGED <<health, evading, target, aggro>>
    BY <2>1, <2>4 DEF TargetIsFighting, Safe
  <2> QED BY <1>3, <2>2, <2>3, <2>4
       DEF ProcessCreatureCombatMovementTick, ChaseAndAttack, creature, fight
<1>4. ASSUME TickUnitAuras PROVE Safe
  <2>1. CASE CreatureDies(dot.caster)
    BY <2>1 DEF CreatureDies, Safe
  <2>2. CASE health' = Hurt /\ UNCHANGED <<evading, target, aggro, inWorld, risen>>
    BY <1>h, <2>2 DEF TargetIsFighting, Safe
  <2>3. UNCHANGED <<inWorld, risen>>
    BY <1>4 DEF TickUnitAuras, player
  <2>4. \/ CreatureDies(dot.caster)
        \/ health' = Hurt /\ UNCHANGED <<evading, target, aggro>>
    BY <1>4 DEF TickUnitAuras, fight
  <2> QED BY <2>1, <2>2, <2>3, <2>4
<1>5. CASE UNCHANGED vars
  BY <1>5 DEF vars, creature, player, fight, history, TargetIsFighting
<1> QED BY <1>0, <1>1, <1>2, <1>3, <1>4, <1>5 DEF Next

LEMMA Inductive == IInv /\ [Next]_vars => IInv'
<1> SUFFICES ASSUME IInv, [Next]_vars PROVE IInv'
  OBVIOUS
<1> QED BY TypeStep, PaidStep, TargetStep DEF IInv

---------------------------------------------------------------------------
\* The creature, the lists, timers and players keep their types.
THEOREM TypeCorrect == Spec => []TypeOK
<1>1. IInv => TypeOK
  BY DEF IInv
<1> QED BY <1>1, Initially, Inductive, PTL DEF Spec

\* The player a live creature is said to chase has it in its list.
THEOREM TargetFighting == Spec => []TargetIsFighting
<1>1. IInv => TargetIsFighting
  BY DEF IInv
<1> QED BY <1>1, Initially, Inductive, PTL DEF Spec

\* Its death is paid for once.
THEOREM KillPaid == Spec => []KillPaidOnce
<1>1. IInv => KillPaidOnce
  BY DEF IInv, PaidOnce, KillPaidOnce, TypeOK
<1> QED BY <1>1, Initially, Inductive, PTL DEF Spec

\* An evade ends in a full reset: nothing but CompleteEvadeAtHome makes an evading
\* creature stop, since StartCreatureAggro refuses one.
THEOREM EvadeReset == Spec => EvadeEndsInReset
<1>1. ASSUME [Next]_vars, evading, ~evading'
      PROVE  health' = MaxHealth /\ target' = Nobody
  <2>1. ASSUME NEW s \in Session, PlayerStep(s) PROVE CompleteEvadeAtHome
    BY <1>1, <2>1 DEF PlayerStep, Enter, Exit, HandleMovement, HandleAttackSwing,
         HandleAttackStop, ApplySpellDamage, ApplySpellHeal, SetGmTagEnabled, GmRevivePlayer,
         CanMeleeAttack, StartCreatureAggro, StopAllCreatureCombat, BreakOff, CreatureDies, creature
  <2>2. ASSUME NEW s \in Session,
               ProcessMeleeAutoAttackTick(s) \/ ProcessCreatureCombatMovementTick(s)
        PROVE  CompleteEvadeAtHome
    BY <1>1, <2>2 DEF ProcessMeleeAutoAttackTick, ProcessCreatureCombatMovementTick, WalkHome,
         StopCreatureAggro, ChaseAndAttack, BreakOff, CreatureDies, creature
  <2>3. ~TickUnitAuras /\ ~UNCHANGED vars
    BY <1>1 DEF TickUnitAuras, CreatureDies, vars, creature
  <2> QED BY <1>1, <2>1, <2>2, <2>3 DEF Next, CompleteEvadeAtHome
<1> QED BY <1>1, PTL DEF Spec, EvadeEndsInReset

---------------------------------------------------------------------------
\* What a session and its timer have to do with the creature.
ServedAt(s) ==
  /\ aggro[s] = NoHome \/ returning[s] = NoHome
  /\ aggro[s] # NoHome \/ returning[s] # NoHome => armed[s] /\ inWorld[s] /\ ~gmMode[s]
  /\ swinging[s] => inWorld[s] /\ ~gmMode[s]

\* A step of session s leaves the others as they are.
SameFor(t) ==
  /\ aggro'[t] = aggro[t] /\ returning'[t] = returning[t] /\ armed'[t] = armed[t]
  /\ swinging'[t] = swinging[t] /\ inWorld'[t] = inWorld[t] /\ gmMode'[t] = gmMode[t]

LEMMA OneSessionServed ==
  ASSUME ListsAreServed, NEW s \in Session, ServedAt(s)', \A t \in Session \ {s} : SameFor(t)
  PROVE  ListsAreServed'
<1> SUFFICES ASSUME NEW t \in Session PROVE ServedAt(t)'
  BY DEF ListsAreServed, ServedAt
<1>1. ServedAt(t)
  BY DEF ListsAreServed, ServedAt
<1>2. CASE t = s
  BY <1>2
<1>3. CASE t # s
  <2>1. SameFor(t)
    BY <1>3
  <2> QED BY <1>1, <2>1 DEF SameFor, ServedAt
<1> QED BY <1>2, <1>3

LEMMA ListsOf ==
  ASSUME FightOK, NEW s \in Session, NEW chase, NEW walk, Lists(s, chase, walk)
  PROVE  /\ aggro'[s] = chase /\ returning'[s] = walk
         /\ armed'[s] = (chase # NoHome \/ walk # NoHome)
         /\ \A t \in Session \ {s} :
              aggro'[t] = aggro[t] /\ returning'[t] = returning[t] /\ armed'[t] = armed[t]
BY DEF Lists, FightOK

\* A session that may attack it takes it into one list; any other only stops
\* walking it home.
LEMMA StartServed ==
  ASSUME TypeOK, ListsAreServed, NEW s \in Session, inWorld[s], StartCreatureAggro(s),
         UNCHANGED <<inWorld, gmMode>>,
         swinging'[s] => swinging[s] \/ ~gmMode[s],
         \A t \in Session \ {s} : swinging'[t] = swinging[t]
  PROVE  ListsAreServed'
<1>0. FightOK
  BY Parts
<1>1. CASE alive[s] /\ health > 0 /\ CanMeleeAttack(s)
  <2>1. Lists(s, IF aggro[s] = NoHome THEN at ELSE aggro[s], NoHome) /\ ~gmMode[s]
    BY <1>1 DEF StartCreatureAggro, CanMeleeAttack
  <2>2. /\ returning'[s] = NoHome
        /\ aggro'[s] # NoHome => armed'[s]
        /\ \A t \in Session \ {s} :
             aggro'[t] = aggro[t] /\ returning'[t] = returning[t] /\ armed'[t] = armed[t]
    BY <1>0, <2>1, ListsOf
  <2>3. ServedAt(s)' /\ \A t \in Session \ {s} : SameFor(t)
    BY <2>1, <2>2 DEF ServedAt, SameFor
  <2> QED BY <2>3, OneSessionServed
<1>2. CASE ~(alive[s] /\ health > 0 /\ CanMeleeAttack(s))
  <2>1. returning' = [returning EXCEPT ![s] = NoHome] /\ UNCHANGED <<aggro, armed>>
    BY <1>2 DEF StartCreatureAggro
  <2>2. returning'[s] = NoHome /\ \A t \in Session \ {s} : returning'[t] = returning[t]
    BY <1>0, <2>1 DEF FightOK
  <2>3. ServedAt(s)
    BY DEF ListsAreServed, ServedAt
  <2>4. ServedAt(s)' /\ \A t \in Session \ {s} : SameFor(t)
    BY <2>1, <2>2, <2>3 DEF ServedAt, SameFor
  <2> QED BY <2>4, OneSessionServed
<1> QED BY <1>1, <1>2

\* The killer's session drops it from the list it had it in, and its timer with it.
LEMMA DeathServed ==
  ASSUME TypeOK, ListsAreServed, NEW s \in Session, CreatureDies(s),
         UNCHANGED <<inWorld, gmMode>>,
         returning' \in {returning, [returning EXCEPT ![s] = NoHome]},
         swinging'[s] => swinging[s] \/ (inWorld[s] /\ ~gmMode[s]),
         \A t \in Session \ {s} : swinging'[t] = swinging[t]
  PROVE  ListsAreServed'
<1>0. FightOK
  BY Parts
<1>1. /\ aggro'[s] = NoHome
      /\ armed'[s] = IF aggro[s] = NoHome THEN armed[s] ELSE FALSE
      /\ \A t \in Session \ {s} : aggro'[t] = aggro[t] /\ armed'[t] = armed[t]
  BY <1>0 DEF CreatureDies, FightOK
<1>2. /\ returning'[s] \in {returning[s], NoHome}
      /\ \A t \in Session \ {s} : returning'[t] = returning[t]
  BY <1>0 DEF FightOK
<1>3. ServedAt(s)
  BY DEF ListsAreServed, ServedAt
<1>4. ServedAt(s)' /\ \A t \in Session \ {s} : SameFor(t)
  BY <1>1, <1>2, <1>3 DEF ServedAt, SameFor
<1> QED BY <1>4, OneSessionServed

LEMMA PlayerStepServed ==
  ASSUME TypeOK, ListsAreServed, NEW s \in Session, PlayerStep(s)
  PROVE  ListsAreServed'
<1>0. FightOK /\ SwingOK /\ PlayerOK /\ ServedAt(s)
  BY Parts DEF ListsAreServed, ServedAt
<1>1. CASE Enter(s)
  <2>1. ServedAt(s)' /\ \A t \in Session \ {s} : SameFor(t)
    BY <1>0, <1>1 DEF Enter, fight, PlayerOK, ServedAt, SameFor
  <2> QED BY <2>1, OneSessionServed
<1>2. CASE \/ \E p \in Place : HandleMovement(s, p)
           \/ ApplySpellHeal(s) \/ GmRevivePlayer(s)
  BY <1>2 DEF HandleMovement, ApplySpellHeal, GmRevivePlayer, fight, player, ListsAreServed
<1>3. CASE HandleAttackStop(s)
  <2>1. ServedAt(s)' /\ \A t \in Session \ {s} : SameFor(t)
    BY <1>0, <1>3 DEF HandleAttackStop, fight, player, SwingOK, ServedAt, SameFor
  <2> QED BY <2>1, OneSessionServed
<1>4. CASE HandleAttackSwing(s)
  <2>1. /\ inWorld[s] /\ ~gmMode[s] /\ UNCHANGED <<inWorld, gmMode>>
        /\ \A t \in Session \ {s} : swinging'[t] = swinging[t]
    BY <1>0, <1>4 DEF HandleAttackSwing, CanMeleeAttack, player, SwingOK
  <2>2. CASE StartCreatureAggro(s)
    BY <2>1, <2>2, StartServed
  <2>3. CASE CreatureDies(s) /\ UNCHANGED returning
    BY <2>1, <2>3, DeathServed
  <2> QED BY <1>4, <2>2, <2>3 DEF HandleAttackSwing
<1>5. ASSUME NEW withAura \in BOOLEAN, ApplySpellDamage(s, withAura) PROVE ListsAreServed'
  <2>1. /\ inWorld[s] /\ UNCHANGED <<inWorld, gmMode>>
        /\ swinging'[s] => swinging[s]
        /\ \A t \in Session \ {s} : swinging'[t] = swinging[t]
    BY <1>0, <1>5 DEF ApplySpellDamage, player, SwingOK
  <2>2. CASE StartCreatureAggro(s)
    BY <2>1, <2>2, StartServed
  <2>3. CASE CreatureDies(s) /\ returning' = [returning EXCEPT ![s] = NoHome]
    BY <2>1, <2>3, DeathServed
  <2> QED BY <1>5, <2>2, <2>3 DEF ApplySpellDamage
<1>6. CASE Exit(s)
  <2>1. Lists(s, NoHome, NoHome)
    BY <1>6 DEF Exit, StopAllCreatureCombat
  <2>2. /\ ~swinging'[s] /\ UNCHANGED place
        /\ \A t \in Session \ {s} :
             swinging'[t] = swinging[t] /\ inWorld'[t] = inWorld[t] /\ gmMode'[t] = gmMode[t]
    BY <1>0, <1>6 DEF Exit, SwingOK, PlayerOK
  <2>3. ServedAt(s)' /\ \A t \in Session \ {s} : SameFor(t)
    BY <1>0, <2>1, <2>2, ListsOf DEF ServedAt, SameFor
  <2> QED BY <2>3, OneSessionServed
<1>7. CASE SetGmTagEnabled(s)
  <2>1. /\ UNCHANGED inWorld /\ gmMode'[s] = ~gmMode[s]
        /\ \A t \in Session \ {s} : gmMode'[t] = gmMode[t]
    BY <1>0, <1>7 DEF SetGmTagEnabled, PlayerOK
  <2>2. CASE gmMode[s]
    <3>1. UNCHANGED <<aggro, returning, armed, swinging>>
      BY <1>7, <2>2 DEF SetGmTagEnabled, fight
    <3>2. ServedAt(s)' /\ \A t \in Session \ {s} : SameFor(t)
      BY <1>0, <2>1, <2>2, <3>1 DEF ServedAt, SameFor
    <3> QED BY <3>2, OneSessionServed
  <2>3. CASE ~gmMode[s]
    <3>1. Lists(s, NoHome, NoHome)
      BY <1>7, <2>3 DEF SetGmTagEnabled, StopAllCreatureCombat
    <3>2. ~swinging'[s] /\ \A t \in Session \ {s} : swinging'[t] = swinging[t]
      BY <1>0, <1>7, <2>3 DEF SetGmTagEnabled, SwingOK
    <3>3. ServedAt(s)' /\ \A t \in Session \ {s} : SameFor(t)
      BY <1>0, <2>1, <3>1, <3>2, ListsOf DEF ServedAt, SameFor
    <3> QED BY <3>3, OneSessionServed
  <2> QED BY <2>2, <2>3
<1> QED BY <1>1, <1>2, <1>3, <1>4, <1>5, <1>6, <1>7 DEF PlayerStep

LEMMA TimersServed ==
  ASSUME TypeOK, ListsAreServed, NEW s \in Session,
         ProcessMeleeAutoAttackTick(s) \/ ProcessCreatureCombatMovementTick(s)
  PROVE  ListsAreServed'
<1>0. FightOK /\ SwingOK /\ ServedAt(s)
  BY Parts DEF ListsAreServed, ServedAt
<1>1. UNCHANGED <<inWorld, gmMode>>
  BY DEF ProcessMeleeAutoAttackTick, ProcessCreatureCombatMovementTick, player
<1>2. swinging'[s] \in {FALSE, swinging[s]} /\ \A t \in Session \ {s} : swinging'[t] = swinging[t]
  BY <1>0 DEF ProcessMeleeAutoAttackTick, ProcessCreatureCombatMovementTick, SwingOK
<1>3. CASE UNCHANGED <<aggro, returning, armed>>
  <2>1. ServedAt(s)' /\ \A t \in Session \ {s} : SameFor(t)
    BY <1>0, <1>1, <1>2, <1>3 DEF ServedAt, SameFor
  <2> QED BY <2>1, OneSessionServed
<1>4. CASE CreatureDies(s) /\ UNCHANGED returning
  BY <1>1, <1>2, <1>4, DeathServed
<1>5. CASE /\ aggro[s] = NoHome /\ returning[s] = NoHome
           /\ armed' = [armed EXCEPT ![s] = FALSE] /\ UNCHANGED <<aggro, returning>>
  <2>1. ServedAt(s)' /\ \A t \in Session \ {s} : SameFor(t)
    BY <1>0, <1>1, <1>2, <1>5 DEF ServedAt, SameFor, FightOK
  <2> QED BY <2>1, OneSessionServed
<1>6. ASSUME NEW walk \in {NoHome, aggro[s]}, Lists(s, NoHome, walk),
             walk # NoHome => aggro[s] # NoHome
      PROVE  ListsAreServed'
  <2>1. /\ aggro'[s] = NoHome /\ returning'[s] = walk /\ (walk # NoHome => armed'[s])
        /\ \A t \in Session \ {s} :
             aggro'[t] = aggro[t] /\ returning'[t] = returning[t] /\ armed'[t] = armed[t]
    BY <1>0, <1>6, ListsOf
  <2>2. ServedAt(s)' /\ \A t \in Session \ {s} : SameFor(t)
    BY <1>0, <1>1, <1>2, <1>6, <2>1 DEF ServedAt, SameFor
  <2> QED BY <2>2, OneSessionServed
<1>7. CASE ProcessMeleeAutoAttackTick(s)
  BY <1>3, <1>4, <1>7 DEF ProcessMeleeAutoAttackTick, fight
<1>8. CASE ProcessCreatureCombatMovementTick(s)
  <2>1. CASE WalkHome(s)
    BY <1>3, <1>6, <2>1 DEF WalkHome, fight
  <2>2. CASE StopCreatureAggro(s) /\ aggro[s] # NoHome
    BY <1>6, <2>2 DEF StopCreatureAggro
  <2>3. CASE ChaseAndAttack(s)
    BY <1>3, <2>3 DEF ChaseAndAttack, fight
  <2> QED BY <1>5, <1>8, <2>1, <2>2, <2>3 DEF ProcessCreatureCombatMovementTick
<1> QED BY <1>7, <1>8

LEMMA ServedStep ==
  ASSUME TypeOK, DotHasCaster, ListsAreServed, [Next]_vars
  PROVE  ListsAreServed'
<1>1. ASSUME TickUnitAuras PROVE ListsAreServed'
  <2> DEFINE c == dot.caster
  <2>1. c \in Session /\ UNCHANGED <<inWorld, gmMode>>
    BY <1>1 DEF TickUnitAuras, DotHasCaster, player
  <2>2. swinging'[c] \in {FALSE, swinging[c]} /\ \A t \in Session \ {c} : swinging'[t] = swinging[t]
    BY <1>1, <2>1, Parts DEF TickUnitAuras, SwingOK
  <2>3. CASE CreatureDies(c) /\ UNCHANGED returning
    BY <2>1, <2>2, <2>3, DeathServed
  <2>4. CASE UNCHANGED <<fight, swinging>>
    BY <2>1, <2>4 DEF fight, ListsAreServed
  <2> QED BY <1>1, <2>3, <2>4 DEF TickUnitAuras
<1>2. CASE UNCHANGED vars
  BY <1>2 DEF vars, player, fight, ListsAreServed
<1> QED BY <1>1, <1>2, PlayerStepServed, TimersServed DEF Next

\* No fight and no walk home is left without a timer or without its player.
THEOREM FightsAreServed == Spec => []ListsAreServed
<1>1. Init => ListsAreServed
  BY DEF Init, ListsAreServed
<1>2. IInv /\ ListsAreServed /\ [Next]_vars => ListsAreServed'
  BY ServedStep DEF IInv
<1> QED BY <1>1, <1>2, Initially, Inductive, PTL DEF Spec
=============================================================================
