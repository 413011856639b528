---------------------------- MODULE SpellProofs -----------------------------
(***************************************************************************)
(* What is proved about casts (SpellCast) and about the auras they leave    *)
(* (UnitAuras), for any spells, times, units and slots.                     *)
(*                                                                          *)
(* Casts.  The type of the state, that a pending cast has its coroutine,    *)
(* and, as long as no packet has overtaken a completion, that only the      *)
(* pending cast completes and that effects are as far apart as recoveries   *)
(* ask.  The invariant relates the instants (or, out of the world, the      *)
(* rows) to the effects they come from, and says of the one cast in flight  *)
(* that its recoveries had passed.                                          *)
(*                                                                          *)
(* Auras.  What each operation makes of the auras of one unit, and of the   *)
(* bonuses and icons of a player that has them; the invariant only puts     *)
(* the units together.  Of an aura that is not over it says that the time   *)
(* until its next tick makes up for the period its last tick began.         *)
(***************************************************************************)
EXTENDS SpellCast, UnitAuras, FiniteSetTheorems, TLAPS

---------------------------------------------------------------------------
\* Casts and cooldowns.
SpellRest(sp) == IF playing THEN spellUntil[sp] ELSE now + saved[sp]
GroupRest(g) == IF playing THEN groupUntil[g] ELSE now + savedGroup[g]

Typed ==
  /\ TypeOK
  /\ \A sp \in Spell : spellUntil[sp] =< now + Recovery[sp]

Rested(sp) ==
  lastEffect[sp] # Never =>
    /\ lastEffect[sp] =< now
    /\ \/ lastEffect[sp] + Recovery[sp] =< now
       \/ lastEffect[sp] + Recovery[sp] =< SpellRest(sp)

GroupRested(sp) ==
  (lastEffect[sp] # Never /\ Group[sp] # NoGroup) =>
    \/ lastEffect[sp] + GroupRecovery[sp] =< now
    \/ lastEffect[sp] + GroupRecovery[sp] =< GroupRest(Group[sp])

\* The recoveries of a spell have passed.
Passed(sp) ==
  /\ spellUntil[sp] =< now
  /\ Group[sp] # NoGroup /\ GroupRecovery[sp] > 0 => groupUntil[Group[sp]] =< now

OnePending ==
  \A i \in Cast : wait[i] \in InFlight => pending = i /\ Passed(castSpell[i])

IInv ==
  /\ Typed
  /\ PendingIsInFlight
  /\ \A sp \in Spell : Rested(sp)
  /\ ~raced => OnePending /\ \A sp \in Spell : GroupRested(sp)

---------------------------------------------------------------------------
\* What the constants and the state are, one by one.
LEMMA Times ==
  /\ \A sp \in Spell : CastTime[sp] \in Nat /\ Recovery[sp] \in Nat
                       /\ GroupRecovery[sp] \in Nat /\ Gcd[sp] \in Nat
  /\ MaxNow \in Nat /\ MaxCasts \in Nat /\ Never \notin Nat
  /\ \A sp \in Spell : Group[sp] # NoGroup => Group[sp] \in Groups
  BY SpellCastAssumption DEF Groups

LEMMA Instants ==
  ASSUME Typed
  PROVE  /\ now \in Nat /\ gcdReady \in Nat /\ expiry \in Nat
         /\ \A sp \in Spell : /\ spellUntil[sp] \in Nat /\ saved[sp] \in Nat
                              /\ saved[sp] =< Recovery[sp]
                              /\ spellUntil[sp] =< now + Recovery[sp]
                              /\ lastEffect[sp] \in Nat \cup {Never}
         /\ \A g \in Groups : groupUntil[g] \in Nat /\ savedGroup[g] \in Nat
  BY Times DEF Typed, TypeOK

\* The instants a cast sets lie its recoveries ahead, the others stay.
LEMMA Commits ==
  ASSUME Typed, NEW sp \in Spell, CommitCooldowns(sp)
  PROVE  /\ spellUntil' \in [Spell -> Nat]
         /\ groupUntil' \in [Groups -> Nat]
         /\ \A other \in Spell :
              spellUntil'[other] = IF other = sp /\ Recovery[sp] > 0
                                   THEN now + Recovery[sp] ELSE spellUntil[other]
         /\ \A g \in Groups :
              groupUntil'[g] = IF g = Group[sp] /\ Group[sp] # NoGroup /\ GroupRecovery[sp] > 0
                               THEN now + GroupRecovery[sp] ELSE groupUntil[g]
<1> now \in Nat /\ Recovery[sp] \in Nat /\ GroupRecovery[sp] \in Nat
  BY Instants, Times
<1> spellUntil \in [Spell -> Nat] /\ groupUntil \in [Groups -> Nat]
  BY DEF Typed, TypeOK
<1>1. now + Recovery[sp] \in Nat /\ now + GroupRecovery[sp] \in Nat
  OBVIOUS
<1>2. /\ spellUntil' \in [Spell -> Nat]
      /\ \A other \in Spell :
           spellUntil'[other] = IF other = sp /\ Recovery[sp] > 0
                                THEN now + Recovery[sp] ELSE spellUntil[other]
  BY <1>1 DEF CommitCooldowns
<1>3. CASE Group[sp] # NoGroup /\ GroupRecovery[sp] > 0
  <2>1. Group[sp] \in Groups
    BY <1>3, Times
  <2>2. groupUntil' = [groupUntil EXCEPT ![Group[sp]] = now + GroupRecovery[sp]]
    BY <1>3 DEF CommitCooldowns
  <2> QED BY <1>1, <1>2, <1>3, <2>1, <2>2
<1>4. CASE ~(Group[sp] # NoGroup /\ GroupRecovery[sp] > 0)
  <2>1. groupUntil' = groupUntil
    BY <1>4 DEF CommitCooldowns
  <2> QED BY <1>2, <1>4, <2>1
<1> QED BY <1>3, <1>4

LEMMA Effects ==
  ASSUME Typed, NEW sp \in Spell, TakesEffect(sp)
  PROVE  /\ lastEffect' \in [Spell -> Nat \cup {Never}]
         /\ \A other \in Spell :
              lastEffect'[other] = IF other = sp THEN now ELSE lastEffect[other]
<1> now \in Nat /\ lastEffect \in [Spell -> Nat \cup {Never}]
  BY Instants DEF Typed, TypeOK
<1> QED BY DEF TakesEffect

\* A packet stops the coroutines that wait and no other.
LEMMA Cancels ==
  ASSUME Typed
  PROVE  /\ CancelledWaits \in [Cast -> {"none", "ended"} \cup InFlight]
         /\ \A i \in Cast : CancelledWaits[i] =
              IF wait[i] = "waiting" THEN "ended" ELSE wait[i]
<1> wait \in [Cast -> {"none", "ended"} \cup InFlight]
  BY DEF Typed, TypeOK
<1> QED BY DEF CancelledWaits, InFlight, OutOfReach

\* When it overtakes none, none is left in flight.
LEMMA NoneLeft ==
  ASSUME Typed, Overtakes, ~raced'
  PROVE  ~raced /\ \A i \in Cast : CancelledWaits[i] \notin InFlight
<1> wait \in [Cast -> {"none", "ended"} \cup InFlight]
  BY DEF Typed, TypeOK
<1> QED BY Cancels DEF Overtakes, InFlight, OutOfReach

---------------------------------------------------------------------------
LEMMA InitIInv == Init => IInv
<1> SUFFICES ASSUME Init PROVE IInv
  OBVIOUS
<1>1. castSpell \in [Cast -> Spell]
  BY SpellCastAssumption DEF Init
<1>2. TypeOK
  <2>1. ASSUME NEW sp \in Spell PROVE saved[sp] \in 0 .. Recovery[sp]
    <3>1. saved[sp] = 0 /\ Recovery[sp] \in Nat
      BY Times DEF Init
    <3> QED BY <3>1
  <2>2. now \in 0 .. MaxNow /\ casts \in 0 .. MaxCasts
    BY Times DEF Init
  <2>3. /\ spellUntil \in [Spell -> Nat] /\ groupUntil \in [Groups -> Nat]
        /\ savedGroup \in [Groups -> Nat] /\ gcdReady \in Nat /\ expiry \in Nat
    BY DEF Init
  <2>4. /\ wait \in [Cast -> {"none", "ended"} \cup InFlight]
        /\ lastEffect \in [Spell -> Nat \cup {Never}]
    BY DEF Init
  <2> QED BY <1>1, <2>1, <2>2, <2>3, <2>4 DEF Init, TypeOK
<1>3. \A sp \in Spell : spellUntil[sp] = 0 /\ lastEffect[sp] = Never
  BY DEF Init
<1>4. \A i \in Cast : wait[i] \notin InFlight
  BY DEF Init, InFlight, OutOfReach
<1>5. Typed
  BY <1>2, <1>3, Times DEF Init, Typed
<1>6. PendingIsInFlight
  BY DEF Init, PendingIsInFlight
<1> QED
  BY <1>3, <1>4, <1>5, <1>6 DEF IInv, Rested, GroupRested, OnePending

LEMMA LeftOver ==
  ASSUME Typed, SavePersistedSpellCooldowns
  PROVE  /\ \A sp \in Spell : saved'[sp] \in 0 .. Recovery[sp]
         /\ savedGroup' \in [Groups -> Nat]
         /\ \A sp \in Spell : spellUntil[sp] =< now \/ spellUntil[sp] =< now + saved'[sp]
         /\ \A g \in Groups : groupUntil[g] =< now \/ groupUntil[g] =< now + savedGroup'[g]
<1>1. ASSUME NEW sp \in Spell
      PROVE  /\ saved'[sp] \in 0 .. Recovery[sp]
             /\ spellUntil[sp] =< now \/ spellUntil[sp] =< now + saved'[sp]
  <2> saved'[sp] = Left(spellUntil[sp])
    BY DEF SavePersistedSpellCooldowns
  <2> QED BY Instants, Times DEF Left
<1>2. ASSUME NEW g \in Groups
      PROVE  /\ Left(groupUntil[g]) \in Nat
             /\ groupUntil[g] =< now \/ groupUntil[g] =< now + Left(groupUntil[g])
  BY Instants DEF Left
<1>3. savedGroup' = [g \in Groups |-> Left(groupUntil[g])]
  BY DEF SavePersistedSpellCooldowns
<1> QED BY <1>1, <1>2, <1>3

LEMMA TypedNext == Typed /\ [Next]_vars => Typed'
<1> SUFFICES ASSUME Typed, [Next]_vars PROVE Typed'
  OBVIOUS
<1>0. TypeOK
  BY DEF Typed
<1>a. /\ now \in Nat
      /\ \A sp \in Spell : spellUntil[sp] \in Nat /\ spellUntil[sp] =< now + Recovery[sp]
  BY Instants
<1>b. /\ wait \in [Cast -> {"none", "ended"} \cup InFlight]
      /\ CancelledWaits \in [Cast -> {"none", "ended"} \cup InFlight]
  BY <1>0, Cancels DEF TypeOK
<1>1. ASSUME CastRefused \/ HandleCancelCast PROVE Typed'
  <2>1. wait' = CancelledWaits /\ pending' = NoCast /\ raced' \in BOOLEAN
    BY <1>1 DEF CastRefused, HandleCancelCast, CancelPendingClientSpellCast, Overtakes,
                InFlight, OutOfReach, TypeOK
  <2> QED BY <1>0, <1>1, <1>b, <2>1
      DEF CastRefused, HandleCancelCast, CancelPendingClientSpellCast,
          cooldowns, rows, TypeOK, Typed
<1>2. ASSUME NEW sp \in Spell, CastAndGo(sp) PROVE Typed'
  <2>1. wait' = CancelledWaits /\ pending' = NoCast /\ raced' \in BOOLEAN
    BY <1>2 DEF CastAndGo, CancelPendingClientSpellCast, Overtakes, TypeOK
  <2>2. gcdReady' \in Nat
    BY <1>a, <1>2, Times DEF CastAndGo
  <2>3. /\ spellUntil' \in [Spell -> Nat] /\ groupUntil' \in [Groups -> Nat]
        /\ \A other \in Spell : spellUntil'[other] =< now + Recovery[other]
    BY <1>a, <1>2, Commits, Times DEF CastAndGo
  <2>4. lastEffect' \in [Spell -> Nat \cup {Never}]
    BY <1>2, Effects DEF CastAndGo
  <2> QED BY <1>0, <1>2, <1>b, <2>1, <2>2, <2>3, <2>4
      DEF CastAndGo, CancelPendingClientSpellCast, rows, TypeOK, Typed
<1>3. ASSUME NEW sp \in Spell, CastDeferred(sp) PROVE Typed'
  <2>1. casts' \in Cast /\ casts' \in 0 .. MaxCasts
    BY <1>0, <1>3, Times DEF CastDeferred, TypeOK, Cast
  <2>2. gcdReady' \in Nat /\ expiry' \in Nat
    BY <1>a, <1>3, Times DEF CastDeferred
  <2>3. castSpell' \in [Cast -> Spell]
    BY <1>0, <1>3, <2>1 DEF CastDeferred, TypeOK
  <2>4. wait' \in [Cast -> {"none", "ended"} \cup InFlight]
    BY <1>3, <1>b, <2>1 DEF CastDeferred, InFlight, OutOfReach
  <2>5. raced' \in BOOLEAN
    BY <1>0, <1>3 DEF CastDeferred, Overtakes, TypeOK
  <2> QED BY <1>0, <1>3, <2>1, <2>2, <2>3, <2>4, <2>5 DEF CastDeferred, rows, TypeOK, Typed
<1>4. ASSUME Logout PROVE Typed'
  <2>1. wait' = CancelledWaits /\ pending' = NoCast /\ raced' \in BOOLEAN
    BY <1>4 DEF Logout, CancelPendingClientSpellCast, Overtakes, TypeOK
  <2>2. /\ \A sp \in Spell : saved'[sp] \in 0 .. Recovery[sp]
        /\ savedGroup' \in [Groups -> Nat]
    BY <1>4, LeftOver DEF Logout
  <2>3. /\ spellUntil' \in [Spell -> Nat] /\ groupUntil' \in [Groups -> Nat]
        /\ gcdReady' \in Nat
        /\ \A sp \in Spell : spellUntil'[sp] =< now + Recovery[sp]
    BY <1>4, <1>a, Times DEF Logout, ForgetCooldowns
  <2> QED BY <1>0, <1>4, <1>b, <2>1, <2>2, <2>3
      DEF Logout, CancelPendingClientSpellCast, TypeOK, Typed
<1>5. ASSUME Login PROVE Typed'
  <2>1. wait' \in [Cast -> {"none", "ended"} \cup InFlight]
    BY <1>5, <1>b DEF Login
  <2>2. /\ spellUntil' \in [Spell -> Nat]
        /\ \A sp \in Spell : spellUntil'[sp] =< now + Recovery[sp]
    BY <1>5, Instants, Times DEF Login, RestorePersistedSpellCooldowns
  <2>3. groupUntil' \in [Groups -> Nat]
    BY <1>5, Instants DEF Login, RestorePersistedSpellCooldowns
  <2>4. now' = now /\ gcdReady' \in Nat /\ playing' \in BOOLEAN
    BY <1>5 DEF Login
  <2> QED BY <1>0, <1>5, <2>1, <2>2, <2>3, <2>4 DEF Login, rows, ghosts, TypeOK, Typed
<1>6. ASSUME GmResetAllCooldowns PROVE Typed'
  <2>1. /\ spellUntil' \in [Spell -> Nat] /\ groupUntil' \in [Groups -> Nat]
        /\ gcdReady' \in Nat /\ savedGroup' \in [Groups -> Nat]
        /\ lastEffect' \in [Spell -> Nat \cup {Never}]
        /\ \A sp \in Spell : saved'[sp] \in 0 .. Recovery[sp]
        /\ \A sp \in Spell : spellUntil'[sp] =< now + Recovery[sp]
    BY <1>6, <1>a, Times DEF GmResetAllCooldowns, ForgetCooldowns
  <2> QED BY <1>0, <1>6, <2>1 DEF GmResetAllCooldowns, timer, TypeOK, Typed
<1>7. ASSUME NEW i \in Cast, StartWait(i) PROVE Typed'
  <2>1. wait' \in [Cast -> {"none", "ended"} \cup InFlight]
    BY <1>7, <1>b DEF StartWait, InFlight
  <2> QED BY <1>0, <1>7, <2>1 DEF StartWait, cooldowns, rows, ghosts, TypeOK, Typed
<1>8. ASSUME TimerExpires PROVE Typed'
  <2>1. wait' \in [Cast -> {"none", "ended"} \cup InFlight]
    BY <1>8, <1>b DEF TimerExpires, InFlight, OutOfReach
  <2> QED BY <1>0, <1>8, <2>1 DEF TimerExpires, cooldowns, rows, ghosts, TypeOK, Typed
<1>9. ASSUME NEW i \in Cast, CompleteDeferredSpellCast(i) PROVE Typed'
  <2>0. castSpell[i] \in Spell
    BY <1>0 DEF TypeOK
  <2>1. wait' \in [Cast -> {"none", "ended"} \cup InFlight]
    BY <1>9, <1>b DEF CompleteDeferredSpellCast
  <2>2. CASE playing
    <3>1. /\ spellUntil' \in [Spell -> Nat] /\ groupUntil' \in [Groups -> Nat]
          /\ \A other \in Spell : spellUntil'[other] =< now + Recovery[other]
      BY <1>a, <1>9, <2>0, <2>2, Commits, Times DEF CompleteDeferredSpellCast
    <3>2. lastEffect' \in [Spell -> Nat \cup {Never}] /\ pending' = NoCast
      BY <1>9, <2>0, <2>2, Effects DEF CompleteDeferredSpellCast
    <3> QED BY <1>0, <1>9, <2>1, <3>1, <3>2 DEF CompleteDeferredSpellCast, rows, TypeOK, Typed
  <2>3. CASE ~playing
    BY <1>0, <1>9, <2>1, <2>3 DEF CompleteDeferredSpellCast, rows, TypeOK, Typed
  <2> QED BY <2>2, <2>3
<1>10. ASSUME Tick PROVE Typed'
  <2>1. now' \in 0 .. MaxNow /\ now' = now + 1
    BY <1>0, <1>10, Times DEF Tick, TypeOK
  <2>2. \A sp \in Spell : spellUntil'[sp] =< now' + Recovery[sp]
    BY <1>10, <1>a, <2>1, Times DEF Tick, cooldowns
  <2> QED BY <1>0, <1>10, <2>1, <2>2 DEF Tick, cooldowns, rows, timer, ghosts, TypeOK, Typed
<1>11. CASE UNCHANGED vars
  BY <1>0, <1>11 DEF vars, cooldowns, rows, timer, ghosts, TypeOK, Typed
<1> QED
  BY <1>1, <1>2, <1>3, <1>4, <1>5, <1>6, <1>7, <1>8, <1>9, <1>10, <1>11
  DEF Next, Packet, Wakeup, HandleCastSpell

---------------------------------------------------------------------------
\* Out of the world no cast is pending; in it, the pending one has a coroutine.
LEMMA PendingNext == Typed /\ PendingIsInFlight /\ [Next]_vars => PendingIsInFlight'
<1> SUFFICES ASSUME Typed, PendingIsInFlight, [Next]_vars PROVE PendingIsInFlight'
  OBVIOUS
<1>a. wait \in [Cast -> {"none", "ended"} \cup InFlight] /\ pending \in Cast \cup {NoCast}
  BY DEF Typed, TypeOK
<1>1. CASE pending' = NoCast
  BY <1>1 DEF PendingIsInFlight
<1>2. ASSUME NEW sp \in Spell, CastDeferred(sp) PROVE PendingIsInFlight'
  <2>1. casts' \in Cast
    BY <1>2, Times DEF CastDeferred, Cast, Typed, TypeOK
  <2>2. wait'[casts'] = "spawned"
    BY <1>2, <2>1, Cancels DEF CastDeferred
  <2> QED BY <1>2, <2>2 DEF CastDeferred, PendingIsInFlight, InFlight, OutOfReach
<1>3. ASSUME Login PROVE PendingIsInFlight'
  BY <1>3 DEF Login, PendingIsInFlight
<1>4. ASSUME NEW i \in Cast, StartWait(i) PROVE PendingIsInFlight'
  BY <1>4, <1>a DEF StartWait, PendingIsInFlight, InFlight
<1>5. ASSUME TimerExpires PROVE PendingIsInFlight'
  BY <1>5, <1>a DEF TimerExpires, PendingIsInFlight, InFlight, OutOfReach
<1>6. ASSUME NEW i \in Cast, CompleteDeferredSpellCast(i) PROVE PendingIsInFlight'
  BY <1>6 DEF CompleteDeferredSpellCast, PendingIsInFlight
<1>7. CASE GmResetAllCooldowns \/ Tick \/ UNCHANGED vars
  BY <1>7 DEF GmResetAllCooldowns, Tick, vars, timer, PendingIsInFlight
<1> QED
  BY <1>1, <1>2, <1>3, <1>4, <1>5, <1>6, <1>7
  DEF Next, Packet, Wakeup, HandleCastSpell, CastRefused, CastAndGo, HandleCancelCast,
      Logout, CancelPendingClientSpellCast

\* The instants, or the rows, reach as far as the recovery of the last effect.
LEMMA RestedNext ==
  ASSUME Typed, [Next]_vars, NEW sp \in Spell, Rested(sp)
  PROVE  Rested(sp)'
<1> USE Instants, Times
<1>1. ASSUME now' = now, playing' = playing, lastEffect' = lastEffect,
             playing => spellUntil' = spellUntil, ~playing => saved' = saved
      PROVE  Rested(sp)'
  BY <1>1 DEF Rested, SpellRest
<1>2. ASSUME NEW other \in Spell, playing, playing' = playing, now' = now,
             CommitCooldowns(other), TakesEffect(other)
      PROVE  Rested(sp)'
  <2>1. /\ spellUntil'[sp] = IF sp = other /\ Recovery[other] > 0
                             THEN now + Recovery[other] ELSE spellUntil[sp]
        /\ lastEffect'[sp] = IF sp = other THEN now ELSE lastEffect[sp]
    BY <1>2, Commits, Effects
  <2> QED BY <1>2, <2>1 DEF Rested, SpellRest
<1>3. ASSUME NEW other \in Spell, CastAndGo(other) PROVE Rested(sp)'
  BY <1>2, <1>3 DEF CastAndGo
<1>4. ASSUME NEW i \in Cast, CompleteDeferredSpellCast(i) PROVE Rested(sp)'
  <2>1. castSpell[i] \in Spell
    BY DEF Typed, TypeOK
  <2>2. CASE playing
    BY <1>2, <1>4, <2>1, <2>2 DEF CompleteDeferredSpellCast
  <2>3. CASE ~playing
    BY <1>1, <1>4, <2>3 DEF CompleteDeferredSpellCast, rows
  <2> QED BY <2>2, <2>3
<1>5. ASSUME Logout PROVE Rested(sp)'
  <2>1. /\ spellUntil[sp] =< now \/ spellUntil[sp] =< now + saved'[sp]
        /\ saved'[sp] \in 0 .. Recovery[sp]
    BY <1>5, LeftOver DEF Logout
  <2> QED BY <1>5, <2>1 DEF Logout, Rested, SpellRest
<1>6. ASSUME Login PROVE Rested(sp)'
  <2>1. spellUntil'[sp] = IF saved[sp] > 0 THEN now + saved[sp] ELSE 0
    BY <1>6 DEF Login, RestorePersistedSpellCooldowns
  <2> QED BY <1>6, <2>1 DEF Login, rows, ghosts, Rested, SpellRest
<1>7. ASSUME GmResetAllCooldowns PROVE Rested(sp)'
  BY <1>7 DEF GmResetAllCooldowns, Rested
<1>8. ASSUME Tick PROVE Rested(sp)'
  BY <1>8 DEF Tick, cooldowns, rows, ghosts, Rested, SpellRest
<1>9. ASSUME NEW other \in Spell, CastDeferred(other) PROVE Rested(sp)'
  BY <1>1, <1>9 DEF CastDeferred, rows
<1>10. ASSUME NEW i \in Cast, StartWait(i) PROVE Rested(sp)'
  BY <1>1, <1>10 DEF StartWait, cooldowns, rows, ghosts
<1>11. CASE CastRefused \/ HandleCancelCast \/ TimerExpires \/ UNCHANGED vars
  BY <1>1, <1>11 DEF CastRefused, HandleCancelCast, TimerExpires, vars, cooldowns, rows, ghosts
<1> QED
  BY <1>3, <1>4, <1>5, <1>6, <1>7, <1>8, <1>9, <1>10, <1>11
  DEF Next, Packet, Wakeup, HandleCastSpell

---------------------------------------------------------------------------
\* As long as nothing was overtaken, one cast at most is in flight: the pending
\* one, whose recoveries had passed when it began and have not started since.
LEMMA OneNext ==
  ASSUME Typed, PendingIsInFlight, [Next]_vars, ~raced => OnePending, ~raced'
  PROVE  OnePending'
<1>0. ~raced
  BY DEF Next, Packet, Wakeup, HandleCastSpell, CastRefused, CastAndGo, CastDeferred,
         HandleCancelCast, CancelPendingClientSpellCast, Overtakes, StartWait,
         TimerExpires, CompleteDeferredSpellCast, Logout, Login, GmResetAllCooldowns,
         Tick, ghosts, vars
<1> OnePending
  BY <1>0
<1> USE Instants, Times
<1>a. /\ wait \in [Cast -> {"none", "ended"} \cup InFlight]
      /\ castSpell \in [Cast -> Spell] /\ NoCast \notin Cast
  BY DEF Typed, TypeOK, Cast, NoCast
<1>b. {"none", "ended"} \cap InFlight = {}
  BY DEF InFlight, OutOfReach
<1>1. ASSUME CancelPendingClientSpellCast PROVE OnePending'
  BY <1>1, NoneLeft DEF CancelPendingClientSpellCast, OnePending
<1>2. ASSUME NEW sp \in Spell, CastDeferred(sp) PROVE OnePending'
  <2>1. casts' \in Cast /\ pending' = casts'
    BY <1>2 DEF CastDeferred, Cast, Typed, TypeOK
  <2>2. \A i \in Cast : i # casts' => wait'[i] \notin InFlight
    BY <1>2, <2>1, NoneLeft, Cancels DEF CastDeferred
  <2>3. castSpell'[casts'] = sp
    BY <1>2, <1>a, <2>1 DEF CastDeferred
  <2>4. Passed(sp)'
    BY <1>2 DEF CastDeferred, IsReady, Passed
  <2> QED BY <2>1, <2>2, <2>3, <2>4 DEF OnePending
<1>3. ASSUME NEW i \in Cast, CompleteDeferredSpellCast(i) PROVE OnePending'
  <2>1. wait[i] \in InFlight
    BY <1>3 DEF CompleteDeferredSpellCast, InFlight, OutOfReach
  <2>2. \A j \in Cast : wait[j] \in InFlight => j = i
    BY <2>1 DEF OnePending
  <2>3. \A j \in Cast : wait'[j] \notin InFlight
    BY <1>3, <1>a, <1>b, <2>2 DEF CompleteDeferredSpellCast
  <2> QED BY <2>3 DEF OnePending
<1>4. ASSUME Login PROVE OnePending'
  <2>1. \A i \in Cast : wait[i] \notin InFlight
    BY <1>4, <1>a DEF Login, PendingIsInFlight, OnePending
  <2>2. \A i \in Cast : wait'[i] \notin InFlight
    BY <1>4, <1>a, <1>b, <2>1 DEF Login
  <2> QED BY <2>2 DEF OnePending
<1>5. ASSUME GmResetAllCooldowns PROVE OnePending'
  <2>1. \A sp \in Spell : spellUntil'[sp] = 0
    BY <1>5 DEF GmResetAllCooldowns, ForgetCooldowns
  <2>2. \A g \in Groups : groupUntil'[g] = 0
    BY <1>5 DEF GmResetAllCooldowns, ForgetCooldowns
  <2>3. now' = now /\ wait' = wait /\ pending' = pending /\ castSpell' = castSpell
    BY <1>5 DEF GmResetAllCooldowns, timer
  <2>4. \A sp \in Spell : Passed(sp)'
    BY <2>1, <2>2, <2>3 DEF Passed
  <2> QED BY <1>a, <2>3, <2>4 DEF OnePending
<1>6. ASSUME Tick PROVE OnePending'
  <2>1. \A sp \in Spell : Passed(sp) => Passed(sp)'
    BY <1>6 DEF Tick, cooldowns, Passed
  <2> QED BY <1>6, <1>a, <2>1 DEF Tick, timer, OnePending
<1>7. ASSUME pending' = pending, castSpell' = castSpell, now' = now,
             UNCHANGED cooldowns,
             \A i \in Cast : wait'[i] \in InFlight => wait[i] \in InFlight
      PROVE  OnePending'
  BY <1>7 DEF OnePending, Passed, cooldowns
<1>8. ASSUME NEW i \in Cast, StartWait(i) PROVE OnePending'
  BY <1>7, <1>8, <1>a DEF StartWait, InFlight, OutOfReach
<1>9. ASSUME TimerExpires PROVE OnePending'
  BY <1>7, <1>9, <1>a DEF TimerExpires, InFlight, OutOfReach
<1>10. CASE UNCHANGED vars
  BY <1>7, <1>10 DEF vars, timer
<1> QED
  BY <1>1, <1>2, <1>3, <1>4, <1>5, <1>6, <1>8, <1>9, <1>10
  DEF Next, Packet, Wakeup, HandleCastSpell, CastRefused, CastAndGo, HandleCancelCast, Logout

---------------------------------------------------------------------------
\* What takes effect does so when its recoveries have passed.
LEMMA AffectsPassed ==
  ASSUME Typed, OnePending, NEW sp \in Spell, Affects(sp)
  PROVE  playing /\ now' = now /\ Passed(sp)
<1>1. ASSUME CastAndGo(sp) PROVE playing /\ now' = now /\ Passed(sp)
  BY <1>1, Instants, Times DEF CastAndGo, IsReady, Passed
<1>2. ASSUME NEW i \in Cast, castSpell[i] = sp, playing, CompleteDeferredSpellCast(i)
      PROVE  playing /\ now' = now /\ Passed(sp)
  <2>1. wait[i] \in InFlight
    BY <1>2 DEF CompleteDeferredSpellCast, InFlight, OutOfReach
  <2> QED BY <1>2, <2>1 DEF CompleteDeferredSpellCast, OnePending
<1> QED BY <1>1, <1>2 DEF Affects

LEMMA GroupRestedNext ==
  ASSUME Typed, OnePending, [Next]_vars, NEW sp \in Spell, GroupRested(sp)
  PROVE  GroupRested(sp)'
<1> USE Instants, Times
<1>1. ASSUME now' = now, playing' = playing, lastEffect' = lastEffect,
             playing => groupUntil' = groupUntil, ~playing => savedGroup' = savedGroup
      PROVE  GroupRested(sp)'
  BY <1>1 DEF GroupRested, GroupRest
<1>2. ASSUME NEW other \in Spell, Affects(other), playing' = playing,
             CommitCooldowns(other), TakesEffect(other)
      PROVE  GroupRested(sp)'
  <2>1. playing /\ now' = now /\ Passed(other)
    BY <1>2, AffectsPassed
  <2>2. lastEffect'[sp] = IF sp = other THEN now ELSE lastEffect[sp]
    BY <1>2, Effects
  <2>3. Group[sp] # NoGroup =>
          groupUntil'[Group[sp]] = IF Group[sp] = Group[other] /\ GroupRecovery[other] > 0
                                   THEN now + GroupRecovery[other] ELSE groupUntil[Group[sp]]
    BY <1>2, Commits
  <2>4. CASE sp = other
    BY <1>2, <2>1, <2>2, <2>3, <2>4 DEF GroupRested, GroupRest
  <2>5. CASE sp # other
    BY <1>2, <2>1, <2>2, <2>3, <2>5 DEF GroupRested, GroupRest, Passed
  <2> QED BY <2>4, <2>5
<1>3. ASSUME NEW other \in Spell, CastAndGo(other) PROVE GroupRested(sp)'
  BY <1>2, <1>3 DEF CastAndGo, Affects
<1>4. ASSUME NEW i \in Cast, CompleteDeferredSpellCast(i) PROVE GroupRested(sp)'
  <2>1. castSpell[i] \in Spell
    BY DEF Typed, TypeOK
  <2>2. CASE playing
    <3>1. Affects(castSpell[i])
      BY <1>4, <2>2 DEF Affects
    <3> QED BY <1>2, <1>4, <2>1, <2>2, <3>1 DEF CompleteDeferredSpellCast
  <2>3. CASE ~playing
    BY <1>1, <1>4, <2>3 DEF CompleteDeferredSpellCast, rows
  <2> QED BY <2>2, <2>3
<1>5. ASSUME Logout PROVE GroupRested(sp)'
  <2>1. \A g \in Groups : /\ groupUntil[g] =< now \/ groupUntil[g] =< now + savedGroup'[g]
                          /\ savedGroup'[g] \in Nat
    BY <1>5, LeftOver DEF Logout
  <2> QED BY <1>5, <2>1 DEF Logout, GroupRested, GroupRest
<1>6. ASSUME Login PROVE GroupRested(sp)'
  <2>1. \A g \in Groups :
          groupUntil'[g] = IF savedGroup[g] > 0 THEN now + savedGroup[g] ELSE 0
    BY <1>6 DEF Login, RestorePersistedSpellCooldowns
  <2> QED BY <1>6, <2>1 DEF Login, rows, ghosts, GroupRested, GroupRest
<1>7. ASSUME GmResetAllCooldowns PROVE GroupRested(sp)'
  BY <1>7 DEF GmResetAllCooldowns, GroupRested
<1>8. ASSUME Tick PROVE GroupRested(sp)'
  BY <1>8 DEF Tick, cooldowns, rows, ghosts, GroupRested, GroupRest
<1>9. ASSUME NEW other \in Spell, CastDeferred(other) PROVE GroupRested(sp)'
  BY <1>1, <1>9 DEF CastDeferred, rows
<1>10. ASSUME NEW i \in Cast, StartWait(i) PROVE GroupRested(sp)'
  BY <1>1, <1>10 DEF StartWait, cooldowns, rows, ghosts
<1>11. CASE CastRefused \/ HandleCancelCast \/ TimerExpires \/ UNCHANGED vars
  BY <1>1, <1>11 DEF CastRefused, HandleCancelCast, TimerExpires, vars, cooldowns, rows, ghosts
<1> QED
  BY <1>3, <1>4, <1>5, <1>6, <1>7, <1>8, <1>9, <1>10, <1>11
  DEF Next, Packet, Wakeup, HandleCastSpell

\* What was overtaken once stays so.
LEMMA RacedStays == [Next]_vars /\ ~raced' => ~raced
  BY DEF Next, Packet, Wakeup, HandleCastSpell, CastRefused, CastAndGo, CastDeferred,
         HandleCancelCast, CancelPendingClientSpellCast, Overtakes, StartWait,
         TimerExpires, CompleteDeferredSpellCast, Logout, Login, GmResetAllCooldowns,
         Tick, ghosts, vars

LEMMA StepIInv == IInv /\ [Next]_vars => IInv'
<1> SUFFICES ASSUME IInv, [Next]_vars PROVE IInv'
  OBVIOUS
<1>1. Typed' /\ PendingIsInFlight'
  BY TypedNext, PendingNext DEF IInv
<1>2. \A sp \in Spell : Rested(sp)'
  BY RestedNext DEF IInv
<1>3. ASSUME ~raced' PROVE OnePending' /\ \A sp \in Spell : GroupRested(sp)'
  <2>1. ~raced
    BY <1>3, RacedStays
  <2> QED BY <1>3, <2>1, OneNext, GroupRestedNext DEF IInv
<1> QED BY <1>1, <1>2, <1>3 DEF IInv

---------------------------------------------------------------------------
\* The state of casts and cooldowns keeps its type; what is saved of a recovery
\* is never more than the recovery (SavePersistedSpellCooldowns).
THEOREM TypeCorrect == Spec => []TypeOK
<1>1. IInv => TypeOK
  BY DEF IInv, Typed
<1> QED BY <1>1, InitIInv, StepIInv, PTL DEF Spec

\* A session that believes a cast is going on has the coroutine that ends it.
THEOREM PendingHasCoroutine == Spec => []PendingIsInFlight
<1>1. IInv => PendingIsInFlight
  BY DEF IInv
<1> QED BY <1>1, InitIInv, StepIInv, PTL DEF Spec

\* Unless a packet has overtaken a completion, a cast that was cancelled,
\* replaced or left behind never takes effect (CompleteDeferredSpellCast).
THEOREM PendingOnly == Spec => OnlyPendingCompletes
<1>1. IInv /\ [Next]_vars =>
        [\A i \in Cast : (~raced /\ wait[i] = "ready" /\ wait'[i] = "ended" /\ playing)
                           => pending = i]_vars
  BY DEF IInv, OnePending, InFlight, OutOfReach
<1> QED BY <1>1, InitIInv, StepIInv, PTL DEF Spec, OnlyPendingCompletes

\* Unless a packet has overtaken a completion, effects are as far apart as the
\* recoveries of spell and category, through logouts and logins
\* (ProcessCastRequest, CommitSpellCooldownsFromCast, RestorePersistedSpellCooldowns).
THEOREM EffectsSpaced == Spec => EffectsAreSpaced
<1> DEFINE Spaced(sp, other) ==
       /\ other = sp => now - lastEffect[sp] >= Recovery[sp]
       /\ (Group[other] = Group[sp] /\ Group[sp] # NoGroup /\ GroupRecovery[sp] > 0)
            => now - lastEffect[other] >= GroupRecovery[other]
<1>1. ASSUME IInv, [Next]_vars, NEW sp \in Spell, NEW other \in Spell,
             ~raced', Affects(sp), lastEffect[other] # Never
      PROVE  Spaced(sp, other)
  <2>1. Typed /\ OnePending /\ Rested(other) /\ GroupRested(other)
    BY <1>1, RacedStays DEF IInv
  <2>2. playing /\ Passed(sp)
    BY <1>1, <2>1, AffectsPassed
  <2> QED BY <1>1, <2>1, <2>2, Instants, Times
      DEF Rested, SpellRest, GroupRested, GroupRest, Passed
<1>2. IInv /\ [Next]_vars =>
        [\A sp, other \in Spell :
           (~raced' /\ Affects(sp) /\ lastEffect[other] # Never) => Spaced(sp, other)]_vars
  BY <1>1
<1> QED BY <1>2, InitIInv, StepIInv, PTL DEF Spec, EffectsAreSpaced

---------------------------------------------------------------------------
\* Of the auras of one unit: their types, and of each that has a duration how
\* much of it the ticks so far account for.
Paid(s, aura) ==
  /\ aura.left \in 0 .. Duration[s] /\ aura.next =< Period[s]
  /\ aura.left > 0 => aura.paid * Period[s] =< Duration[s] - aura.left + aura.next
  /\ aura.paid > 0 => (aura.paid - 1) * Period[s] =< Duration[s] - aura.left

AuraMap(a) ==
  /\ DOMAIN a \subseteq TimedSpell \cup Passive
  /\ a \in [DOMAIN a -> Aura]
  /\ \A s \in DOMAIN a \cap TimedSpell : Paid(s, a[s])

AurasKept ==
  /\ AuraTypeOK
  /\ \A u \in Unit : AuraMap(auras[u])

\* The bonuses b and the maximum health computed from the spells in health, or the
\* icons w, are right for a player with auras a that knew the spells in passive.
BonusOf(b, a, passive, health) ==
  /\ \A s \in Known :
       /\ /\ s \in DOMAIN GetActiveAuras(a) \cup passive
          /\ DOMAIN a \cup (passive \cap Passive) # {}
          => b[s] = 1
       /\ s \notin DOMAIN a \cup passive => b[s] = 0
  /\ HealthPctBonus(b) # {} => health = HealthPctBonus(b)

IconsOf(w, a) ==
  \A s \in TimedSpell :
    /\ \A k \in Slot : w[k] = s => s \in DOMAIN a /\ a[s].slot = k
    /\ s \in DOMAIN GetActiveAuras(a) /\ In(a, DOMAIN a, a[s].slot) = {s}
         => w[a[s].slot] = s

---------------------------------------------------------------------------
LEMMA SpellTimes ==
  ASSUME NEW s \in TimedSpell
  PROVE  Duration[s] \in Nat /\ Duration[s] > 0 /\ Period[s] \in Nat
  BY AuraAssumption

LEMMA AroundTheSlots ==
  ASSUME NEW n \in Nat PROVE n % Slots \in Slot
  BY AuraAssumption DEF Slot

LEMMA OneMoreTick ==
  ASSUME NEW n \in Nat, NEW x \in Nat
  PROVE  (n + 1) * x = n * x + x /\ (n > 0 => (n - 1) * x = n * x - x) /\ 0 * x = 0
  OBVIOUS

\* A tick, and the passing of time, change these fields of an aura and no other.
LEMMA TickedFields ==
  ASSUME NEW aura \in Aura, NEW n \in Nat
  PROVE  LET ticked == [aura EXCEPT !.next = n, !.paid = @ + 1] IN
         /\ ticked \in Aura /\ ticked.slot = aura.slot /\ ticked.left = aura.left
         /\ ticked.next = n /\ ticked.paid = aura.paid + 1
<1> DEFINE once == [aura EXCEPT !.next = n]
<1>1. /\ once \in Aura /\ once.slot = aura.slot /\ once.left = aura.left
      /\ once.next = n /\ once.paid = aura.paid /\ aura.paid + 1 \in Nat
  BY DEF Aura
<1> HIDE DEF once
<1>2. LET ticked == [once EXCEPT !.paid = aura.paid + 1] IN
      /\ ticked \in Aura /\ ticked.slot = once.slot /\ ticked.left = once.left
      /\ ticked.next = once.next /\ ticked.paid = aura.paid + 1
  BY <1>1 DEF Aura
<1> QED BY <1>1, <1>2 DEF once

LEMMA AgedFields ==
  ASSUME NEW aura \in Aura
  PROVE  LET aged == [aura EXCEPT !.left = IF @ > 0 THEN @ - 1 ELSE @,
                                  !.next = IF @ > 0 THEN @ - 1 ELSE @] IN
         /\ aged \in Aura /\ aged.slot = aura.slot /\ aged.paid = aura.paid
         /\ aged.left = (IF aura.left > 0 THEN aura.left - 1 ELSE aura.left)
         /\ aged.next = (IF aura.next > 0 THEN aura.next - 1 ELSE aura.next)
<1> DEFINE left == IF aura.left > 0 THEN aura.left - 1 ELSE aura.left
           next == IF aura.next > 0 THEN aura.next - 1 ELSE aura.next
           once == [aura EXCEPT !.left = left]
<1>1. left \in Nat \cup {Forever} /\ next \in Nat
  BY DEF Aura, Forever
<1> HIDE DEF left, next
<1>2. /\ once \in Aura /\ once.slot = aura.slot /\ once.left = left
      /\ once.next = aura.next /\ once.paid = aura.paid
  BY <1>1 DEF Aura
<1> HIDE DEF once
<1>3. LET aged == [once EXCEPT !.next = next] IN
      /\ aged \in Aura /\ aged.slot = once.slot /\ aged.left = once.left
      /\ aged.next = next /\ aged.paid = once.paid
  BY <1>1, <1>2 DEF Aura
<1> QED BY <1>2, <1>3 DEF once, left, next

\* What each operation makes of the auras of a unit.
LEMMA EmptyMap == AuraMap(<<>>)
  BY DEF AuraMap

LEMMA SomeListed ==
  ASSUME NEW passive, NEW I \in SUBSET Listed(passive)
  PROVE  Cardinality(I) % Slots \in Slot
<1>1. DOMAIN Passives = 1 .. Len(Passives) /\ Len(Passives) \in Nat
  BY AuraAssumption
<1>2. IsFiniteSet(1 .. Len(Passives))
  BY <1>1, FS_Interval
<1>3. I \in SUBSET (1 .. Len(Passives))
  BY <1>1 DEF Listed
<1>4. Cardinality(I) \in Nat
  BY <1>2, <1>3, FS_Subset, FS_CardinalityType
<1> QED BY <1>4, AroundTheSlots

LEMMA PassiveMap ==
  ASSUME NEW p \in Player, NEW passive PROVE AuraMap(PassiveAuras(p, passive))
<1> DEFINE before(s) == {i \in Listed(passive) : \E j \in DOMAIN Passives : i < j /\ Passives[j] = s}
<1>1. ASSUME NEW s \in Passive PROVE Cardinality(before(s)) % Slots \in Slot
  BY SomeListed
<1>2. PassiveAuras(p, passive) =
        [s \in Passive \cap passive |-> [caster |-> p, left |-> Forever, next |-> 0,
                                         slot |-> Cardinality(before(s)) % Slots, paid |-> 0]]
  BY DEF PassiveAuras
<1> HIDE DEF before
<1>3. PassiveAuras(p, passive) \in [Passive \cap passive -> Aura]
  BY <1>1, <1>2 DEF Aura, Forever, Unit
<1>4. Passive \cap TimedSpell = {}
  BY AuraAssumption
<1> QED BY <1>3, <1>4 DEF AuraMap

LEMMA WithoutMap ==
  ASSUME NEW a, AuraMap(a), NEW gone PROVE AuraMap(Without(a, gone))
  BY DEF AuraMap, Without

LEMMA AddMap ==
  ASSUME NEW a, AuraMap(a), NEW s \in TimedSpell, NEW u \in Unit, NEW k \in Slot
  PROVE  AuraMap(AddAura(a, s, u, Duration[s], k))
<1> DEFINE aura == [caster |-> u, left |-> Duration[s], next |-> 0, slot |-> k, paid |-> 0]
           after == AddAura(a, s, u, Duration[s], k)
<1>1. after = [x \in DOMAIN a \cup {s} |-> IF x = s THEN aura ELSE a[x]]
  BY DEF AddAura
<1>2. aura \in Aura
  BY SpellTimes DEF Aura
<1>3. Paid(s, aura)
  BY SpellTimes, OneMoreTick DEF Paid
<1>4. after \in [DOMAIN after -> Aura] /\ DOMAIN after \subseteq TimedSpell \cup Passive
  BY <1>1, <1>2 DEF AuraMap
<1>5. ASSUME NEW x \in DOMAIN after \cap TimedSpell PROVE Paid(x, after[x])
  BY <1>1, <1>3 DEF AuraMap
<1> QED BY <1>4, <1>5 DEF AuraMap

\* A tick is paid for by the period that has passed since the last one.
LEMMA TickMap ==
  ASSUME NEW a, AuraMap(a) PROVE AuraMap(AdvancePeriodicTick(a))
<1> DEFINE after == AdvancePeriodicTick(a)
           ticked(s) == [a[s] EXCEPT !.next = Period[s], !.paid = @ + 1]
<1>1. after = [s \in DOMAIN a |-> IF s \in Due(a) THEN ticked(s) ELSE a[s]]
  BY DEF AdvancePeriodicTick
<1>2. ASSUME NEW s \in Due(a)
      PROVE  ticked(s) \in Aura /\ Paid(s, ticked(s))
  <2>1. s \in TimedSpell /\ s \in DOMAIN a /\ a[s].next = 0 /\ a[s].left # 0
    BY DEF Due, Expired
  <2>2. a[s] \in Aura /\ Paid(s, a[s])
    BY <2>1 DEF AuraMap
  <2>3. /\ ticked(s).left = a[s].left /\ ticked(s).next = Period[s]
        /\ ticked(s).paid = a[s].paid + 1 /\ ticked(s) \in Aura
    BY <2>1, <2>2, SpellTimes, TickedFields
  <2>4. a[s].paid \in Nat /\ a[s].left \in Nat /\ a[s].left > 0
    BY <2>1, <2>2, SpellTimes DEF Aura, Paid
  <2>5. a[s].paid * Period[s] =< Duration[s] - a[s].left
    BY <2>1, <2>2, <2>4, SpellTimes DEF Paid
  <2>6. (a[s].paid + 1) * Period[s] = a[s].paid * Period[s] + Period[s]
    BY <2>1, <2>4, SpellTimes, OneMoreTick
  <2>7. a[s].paid * Period[s] \in Int
    BY <2>1, <2>4, SpellTimes
  <2>8. ticked(s).paid - 1 = a[s].paid
    BY <2>3, <2>4
  <2> HIDE DEF ticked
  <2> QED BY <2>1, <2>2, <2>3, <2>4, <2>5, <2>6, <2>7, <2>8, SpellTimes DEF Paid
<1>3. after \in [DOMAIN after -> Aura] /\ DOMAIN after \subseteq TimedSpell \cup Passive
  BY <1>1, <1>2 DEF AuraMap
<1>4. ASSUME NEW s \in DOMAIN after \cap TimedSpell PROVE Paid(s, after[s])
  BY <1>1, <1>2 DEF AuraMap
<1> QED BY <1>3, <1>4 DEF AuraMap

Later(a) ==
  [s \in DOMAIN a |-> [a[s] EXCEPT !.left = IF @ > 0 THEN @ - 1 ELSE @,
                                   !.next = IF @ > 0 THEN @ - 1 ELSE @]]

LEMMA LaterMap ==
  ASSUME NEW a, AuraMap(a) PROVE AuraMap(Later(a))
<1> DEFINE aged(s) == [a[s] EXCEPT !.left = IF @ > 0 THEN @ - 1 ELSE @,
                                   !.next = IF @ > 0 THEN @ - 1 ELSE @]
           after == Later(a)
<1>1. after = [s \in DOMAIN a |-> aged(s)]
  BY DEF Later
<1>2. ASSUME NEW s \in DOMAIN a
      PROVE  /\ aged(s) \in Aura
             /\ aged(s).left = (IF a[s].left > 0 THEN a[s].left - 1 ELSE a[s].left)
             /\ aged(s).next = (IF a[s].next > 0 THEN a[s].next - 1 ELSE a[s].next)
             /\ aged(s).paid = a[s].paid
  <2>1. a[s] \in Aura
    BY DEF AuraMap
  <2> QED BY <2>1, AgedFields
<1> HIDE DEF aged
<1>3. ASSUME NEW s \in DOMAIN a, s \in TimedSpell PROVE Paid(s, aged(s))
  <2>1. a[s] \in Aura /\ Paid(s, a[s])
    BY <1>3 DEF AuraMap
  <2>2. a[s].paid \in Nat /\ a[s].next \in Nat /\ a[s].left \in Nat
    BY <1>3, <2>1, SpellTimes DEF Aura, Paid
  <2>3. a[s].paid > 0 => (a[s].paid - 1) * Period[s] = a[s].paid * Period[s] - Period[s]
    BY <1>3, <2>2, SpellTimes, OneMoreTick
  <2>4. a[s].paid * Period[s] \in Int
    BY <1>3, <2>2, SpellTimes
  <2>9. aged(s).paid * Period[s] = a[s].paid * Period[s]
    BY <1>2
  <2>10. (aged(s).paid - 1) * Period[s] = (a[s].paid - 1) * Period[s]
    BY <1>2
  <2>5. a[s].left > 0 => aged(s).paid * Period[s] =< Duration[s] - aged(s).left + aged(s).next
    BY <1>2, <1>3, <2>1, <2>2, <2>4, <2>9, SpellTimes DEF Paid
  <2>6. aged(s).paid > 0 => (aged(s).paid - 1) * Period[s] =< Duration[s] - aged(s).left
    BY <1>2, <1>3, <2>1, <2>2, <2>3, <2>4, <2>10, SpellTimes DEF Paid
  <2>7. aged(s).left \in 0 .. Duration[s] /\ aged(s).next =< Period[s]
    BY <1>2, <1>3, <2>1, <2>2, SpellTimes DEF Paid
  <2>8. aged(s).left > 0 => a[s].left > 0
    BY <1>2, <2>2
  <2> QED BY <2>5, <2>6, <2>7, <2>8 DEF Paid
<1>4. after \in [DOMAIN after -> Aura] /\ DOMAIN after \subseteq TimedSpell \cup Passive
  BY <1>1, <1>2 DEF AuraMap
<1>5. ASSUME NEW s \in DOMAIN after \cap TimedSpell PROVE Paid(s, after[s])
  BY <1>1, <1>3
<1> QED BY <1>4, <1>5 DEF AuraMap

---------------------------------------------------------------------------
\* Bonuses and icons after each computation.
LEMMA BonusRight ==
  ASSUME NEW a, NEW passive \in SUBSET (Passive \cup Innate), NEW health \in SUBSET HealthSpell
  PROVE  LET bonus == StatBonus(a, passive)
             raise == ApplyPassiveHealthPctBonus(bonus, health)
         IN /\ bonus \in [Known -> Nat] /\ raise \in SUBSET HealthSpell
            /\ BonusOf(bonus, a, passive, raise)
<1> DEFINE bonus == StatBonus(a, passive)
           raise == ApplyPassiveHealthPctBonus(bonus, health)
<1>1. DOMAIN GetActiveAuras(a) \subseteq DOMAIN a
  BY DEF GetActiveAuras, Without
<1>2. bonus = [s \in Known |-> IF s \in DOMAIN GetActiveAuras(a) \cup passive THEN 1 ELSE 0]
  BY DEF StatBonus, ComputePlayerAuraStatBonus, MergePermanentPassiveSpellBonuses
<1> HIDE DEF bonus
<1>3. raise \in SUBSET HealthSpell /\ (HealthPctBonus(bonus) # {} => raise = HealthPctBonus(bonus))
  BY DEF ApplyPassiveHealthPctBonus, HealthPctBonus
<1> HIDE DEF raise
<1>4. bonus \in [Known -> Nat] /\ BonusOf(bonus, a, passive, raise)
  BY <1>1, <1>2, <1>3 DEF BonusOf
<1> QED BY <1>3, <1>4 DEF bonus, raise

LEMMA IconsInSlots ==
  ASSUME NEW offers, NEW w \in Windows(offers)
  PROVE  w \in [Slot -> Known \cup {NoSpell}] /\ \A k \in Slot : w[k] \in offers[k]
  BY DEF Windows

LEMMA NotASpell ==
  ASSUME NEW s \in TimedSpell PROVE s # NoSpell /\ s \notin Passive
  BY AuraAssumption DEF Known

\* All active auras are sent: each slot shows one of those it belongs to.
LEMMA AllIcons ==
  ASSUME NEW a, AuraMap(a), NEW w \in SendUnitAurasUpdateAll(a)
  PROVE  IconsOf(w, a) /\ w \in [Slot -> Known \cup {NoSpell}]
<1> DEFINE active == GetActiveAuras(a)
           offered(k) == IF In(active, DOMAIN active, k) = {} THEN {NoSpell}
                         ELSE In(active, DOMAIN active, k)
<1>1. /\ w \in [Slot -> Known \cup {NoSpell}]
      /\ \A k \in Slot : w[k] \in offered(k)
  <2>1. w \in Windows([k \in Slot |-> offered(k)])
    BY DEF SendUnitAurasUpdateAll
  <2> HIDE DEF offered
  <2> QED BY <2>1, IconsInSlots
<1>2. DOMAIN active \subseteq DOMAIN a /\ \A s \in DOMAIN active : active[s] = a[s]
  BY DEF GetActiveAuras, Without
<1>3. ASSUME NEW s \in DOMAIN a PROVE a[s].slot \in Slot
  BY DEF AuraMap, Aura
<1> HIDE DEF active
<1>4. ASSUME NEW s \in TimedSpell, NEW k \in Slot, w[k] = s
      PROVE  s \in DOMAIN a /\ a[s].slot = k
  BY <1>1, <1>2, <1>4, NotASpell DEF In
<1>5. ASSUME NEW s \in TimedSpell, s \in DOMAIN active,
             In(a, DOMAIN a, a[s].slot) = {s}
      PROVE  w[a[s].slot] = s
  <2>1. In(active, DOMAIN active, a[s].slot) = {s}
    BY <1>2, <1>5 DEF In
  <2>2. offered(a[s].slot) = {s}
    BY <2>1
  <2> QED BY <1>1, <1>2, <1>3, <1>5, <2>2
<1> QED BY <1>1, <1>4, <1>5 DEF IconsOf, active

\* A tick that is sent shows an icon in the slot it belongs to.
LEMMA TickIcons ==
  ASSUME NEW a, AuraMap(a), NEW v \in [Slot -> Known \cup {NoSpell}], IconsOf(v, a),
         NEW w \in SendPeriodicHealTickOnMap(v, a)
  PROVE  IconsOf(w, a) /\ w \in [Slot -> Known \cup {NoSpell}]
<1> DEFINE offered(k) == IF In(a, Due(a), k) = {} THEN {v[k]} ELSE In(a, Due(a), k)
<1>1. /\ w \in [Slot -> Known \cup {NoSpell}]
      /\ \A k \in Slot : w[k] \in offered(k)
  <2>1. w \in Windows([k \in Slot |-> offered(k)])
    BY DEF SendPeriodicHealTickOnMap
  <2> HIDE DEF offered
  <2> QED BY <2>1, IconsInSlots
<1>2. Due(a) \subseteq DOMAIN a
  BY DEF Due
<1>3. ASSUME NEW s \in DOMAIN a PROVE a[s].slot \in Slot
  BY DEF AuraMap, Aura
<1>4. ASSUME NEW s \in TimedSpell, NEW k \in Slot, w[k] = s
      PROVE  s \in DOMAIN a /\ a[s].slot = k
  BY <1>1, <1>2, <1>4 DEF In, IconsOf
<1>5. ASSUME NEW s \in TimedSpell, s \in DOMAIN GetActiveAuras(a),
             In(a, DOMAIN a, a[s].slot) = {s}
      PROVE  w[a[s].slot] = s
  <2>1. s \in DOMAIN a
    BY <1>5 DEF GetActiveAuras, Without
  <2>2. v[a[s].slot] = s
    BY <1>5 DEF IconsOf
  <2>3. In(a, Due(a), a[s].slot) \subseteq {s}
    BY <1>2, <1>5 DEF In
  <2>4. offered(a[s].slot) = {s}
    BY <2>2, <2>3
  <2> QED BY <1>1, <1>3, <2>1, <2>4
<1> QED BY <1>1, <1>4, <1>5 DEF IconsOf

\* Nothing is lost of what is right when auras age, tick, or stay as they are.
LEMMA RightAfterAll ==
  ASSUME NEW a, NEW b, NEW bonus, NEW passive, NEW health, NEW w, DOMAIN b = DOMAIN a,
         DOMAIN GetActiveAuras(b) \subseteq DOMAIN GetActiveAuras(a),
         \A s \in DOMAIN a : b[s].slot = a[s].slot
  PROVE  /\ BonusOf(bonus, a, passive, health) => BonusOf(bonus, b, passive, health)
         /\ IconsOf(w, a) => IconsOf(w, b)
<1>1. \A k \in Slot : In(b, DOMAIN b, k) = In(a, DOMAIN a, k)
  BY DEF In
<1>2. DOMAIN GetActiveAuras(b) \subseteq DOMAIN b
  BY DEF GetActiveAuras, Without
<1>3. IconsOf(w, a) => IconsOf(w, b)
  <2> SUFFICES ASSUME IconsOf(w, a), NEW s \in TimedSpell
               PROVE  /\ \A k \in Slot : w[k] = s => s \in DOMAIN b /\ b[s].slot = k
                      /\ s \in DOMAIN GetActiveAuras(b) /\ In(b, DOMAIN b, b[s].slot) = {s}
                           => w[b[s].slot] = s
    BY DEF IconsOf
  <2>1. \A k \in Slot : w[k] = s => s \in DOMAIN b /\ b[s].slot = k
    BY DEF IconsOf
  <2>2. ASSUME s \in DOMAIN GetActiveAuras(b), In(b, DOMAIN b, b[s].slot) = {s}
        PROVE  w[b[s].slot] = s
    <3>1. In(a, DOMAIN a, a[s].slot) = {s} /\ b[s].slot = a[s].slot
      BY <1>2, <2>2 DEF In
    <3> QED BY <2>2, <3>1 DEF IconsOf
  <2> QED BY <2>1, <2>2
<1> QED BY <1>3 DEF BonusOf

LEMMA SameWithoutNone ==
  ASSUME NEW a, NEW bonus, NEW passive, NEW health, NEW w
  PROVE  /\ BonusOf(bonus, a, passive, health) => BonusOf(bonus, Without(a, {}), passive, health)
         /\ IconsOf(w, a) => IconsOf(w, Without(a, {}))
<1> DEFINE b == Without(a, {})
<1>1. DOMAIN b = DOMAIN a /\ \A s \in DOMAIN a : b[s] = a[s]
  BY DEF Without
<1>2. DOMAIN GetActiveAuras(b) \subseteq DOMAIN GetActiveAuras(a)
  BY <1>1 DEF GetActiveAuras, Without
<1> QED BY <1>1, <1>2, RightAfterAll

\* What leaves a unit takes its icons and bonuses with it.
LEMMA IconsWithout ==
  ASSUME NEW a, AuraMap(a), NEW gone, NEW v \in [Slot -> Known \cup {NoSpell}],
         NEW w \in SendAuraRemovalOnMap(v, a, gone)
  PROVE  /\ IconsOf(v, a) => IconsOf(w, Without(a, gone))
         /\ w \in [Slot -> Known \cup {NoSpell}]
<1>1. CASE gone = {}
  <2>1. w = v
    BY <1>1 DEF SendAuraRemovalOnMap
  <2> QED BY <1>1, <2>1, SameWithoutNone
<1>2. CASE gone # {}
  <2>1. w \in SendUnitAurasUpdateAll(Without(a, gone))
    BY <1>2 DEF SendAuraRemovalOnMap
  <2> QED BY <2>1, WithoutMap, AllIcons
<1> QED BY <1>1, <1>2

LEMMA BonusWithout ==
  ASSUME NEW a, NEW gone, NEW bonus, NEW passive \in SUBSET (Passive \cup Innate),
         NEW health \in SUBSET HealthSpell, BonusOf(bonus, a, passive, health),
         NEW new, NEW raise,
         gone = {} => new = bonus /\ raise = health,
         gone # {} => /\ new = StatBonus(Without(a, gone), passive)
                      /\ raise = ApplyPassiveHealthPctBonus(new, health)
  PROVE  BonusOf(new, Without(a, gone), passive, raise)
<1>1. CASE gone = {}
  BY <1>1, SameWithoutNone
<1>2. CASE gone # {}
  BY <1>2, BonusRight
<1> QED BY <1>1, <1>2

LEMMA CastIcons ==
  ASSUME NEW a, AuraMap(a), NEW s \in TimedSpell, NEW u \in Unit, NEW slot \in Slot,
         s \in DOMAIN a => slot = a[s].slot,
         NEW v \in [Slot -> Known \cup {NoSpell}], IconsOf(v, a)
  PROVE  IconsOf([v EXCEPT ![slot] = s], AddAura(a, s, u, Duration[s], slot))
<1> DEFINE w == [v EXCEPT ![slot] = s]
           b == AddAura(a, s, u, Duration[s], slot)
<1>1. /\ DOMAIN b = DOMAIN a \cup {s} /\ b[s].slot = slot
      /\ \A x \in DOMAIN a : x # s => b[x] = a[x]
  BY DEF AddAura
<1>2. w[slot] = s /\ \A k \in Slot : k # slot => w[k] = v[k]
  OBVIOUS
<1>3. DOMAIN GetActiveAuras(b) \subseteq DOMAIN b
  BY DEF GetActiveAuras, Without
<1>4. \A x \in DOMAIN GetActiveAuras(b) : x # s => x \in DOMAIN GetActiveAuras(a)
  BY <1>1 DEF GetActiveAuras, Without
<1>5. ASSUME NEW x \in DOMAIN b PROVE b[x].slot \in Slot
  BY <1>1 DEF AuraMap, Aura
<1> HIDE DEF w, b
<1>6. ASSUME NEW x \in TimedSpell, NEW k \in Slot, w[k] = x
      PROVE  x \in DOMAIN b /\ b[x].slot = k
  <2>1. CASE k = slot
    BY <1>1, <1>2, <1>6, <2>1
  <2>2. CASE k # slot
    <3>1. x \in DOMAIN a /\ a[x].slot = k
      BY <1>2, <1>6, <2>2 DEF IconsOf
    <3> QED BY <1>1, <2>2, <3>1
  <2> QED BY <2>1, <2>2
<1>7. ASSUME NEW x \in TimedSpell, x \in DOMAIN GetActiveAuras(b),
             In(b, DOMAIN b, b[x].slot) = {x}
      PROVE  w[b[x].slot] = x
  <2>1. CASE x = s
    BY <1>1, <1>2, <2>1
  <2>2. CASE x # s
    <3>1. b[x].slot # slot
      BY <1>1, <1>7, <2>2 DEF In
    <3>2. x \in DOMAIN GetActiveAuras(a) /\ x \in DOMAIN a /\ b[x] = a[x]
      BY <1>1, <1>3, <1>4, <1>7, <2>2
    <3>3. In(a, DOMAIN a, a[x].slot) = {x}
      <4>1. ASSUME NEW y \in DOMAIN a, a[y].slot = a[x].slot PROVE y = x
        <5>1. y # s
          BY <3>1, <3>2, <4>1
        <5>2. b[y].slot = b[x].slot /\ y \in DOMAIN b
          BY <1>1, <3>2, <4>1, <5>1
        <5> QED BY <1>7, <5>2 DEF In
      <4> QED BY <3>2, <4>1 DEF In
    <3>4. b[x].slot \in Slot
      BY <1>5, <1>3, <1>7
    <3> QED BY <1>2, <3>1, <3>2, <3>3, <3>4 DEF IconsOf
  <2> QED BY <2>1, <2>2
<1> QED BY <1>6, <1>7 DEF IconsOf, w, b

---------------------------------------------------------------------------
\* What a player's bonuses and icons have to be while it is in the world.
PlayerRight(p) ==
  p \in inWorld => /\ BonusOf(counted[p], auras[p], permanent[p], raised[p])
                   /\ IconsOf(shown[p], auras[p])

AuraIInv == AurasKept /\ \A p \in Player : PlayerRight(p)

LEMMA PlayersAndCreatures ==
  /\ Player \subseteq Unit /\ Creature \subseteq Unit
  /\ \A u \in Unit : u \notin Creature => u \in Player
  BY DEF Unit

LEMMA AurasInit == AuraInit => AuraIInv
<1> SUFFICES ASSUME AuraInit PROVE AuraIInv
  OBVIOUS
<1>1. \A u \in Unit : AuraMap(auras[u])
  BY EmptyMap DEF AuraInit
<1>2. AuraTypeOK
  BY AuraAssumption DEF AuraInit, AuraTypeOK, Slot, Blank, NoBonus
<1>3. \A p \in Player : PlayerRight(p)
  BY DEF AuraInit, PlayerRight
<1> QED BY <1>1, <1>2, <1>3 DEF AuraIInv, AurasKept

LEMMA KnownShown ==
  ASSUME AurasKept, NEW p \in Player
  PROVE  /\ AuraMap(auras[p]) /\ shown[p] \in [Slot -> Known \cup {NoSpell}]
         /\ counted[p] \in [Known -> Nat]
         /\ permanent[p] \in SUBSET (Passive \cup Innate) /\ raised[p] \in SUBSET HealthSpell
         /\ known[p] \in SUBSET (Passive \cup Innate)
  BY PlayersAndCreatures DEF AurasKept, AuraTypeOK

\* The bonuses a login computes, if it computes any.
LEMMA LoginBonus ==
  ASSUME NEW p \in Player, NEW passive \in SUBSET (Passive \cup Innate)
  PROVE  LET applied == PassiveAuras(p, passive)
             bonus == IF DOMAIN applied = {} THEN NoBonus ELSE StatBonus(applied, passive)
             raise == ApplyPassiveHealthPctBonus(bonus, {})
         IN /\ bonus \in [Known -> Nat] /\ raise \in SUBSET HealthSpell
            /\ BonusOf(bonus, applied, passive, raise)
<1> DEFINE applied == PassiveAuras(p, passive)
<1>1. CASE DOMAIN applied = {}
  <2>1. NoBonus \in [Known -> Nat] /\ \A s \in Known : NoBonus[s] = 0
    BY DEF NoBonus
  <2>2. HealthPctBonus(NoBonus) = {}
    BY <2>1, AuraAssumption DEF HealthPctBonus
  <2>3. ApplyPassiveHealthPctBonus(NoBonus, {}) = {}
    BY <2>2 DEF ApplyPassiveHealthPctBonus
  <2>4. passive \cap Passive = {}
    BY <1>1 DEF PassiveAuras
  <2> HIDE DEF applied
  <2>5. BonusOf(NoBonus, applied, passive, {})
    BY <1>1, <2>1, <2>2, <2>4 DEF BonusOf
  <2> QED BY <1>1, <2>1, <2>3, <2>5 DEF applied
<1>2. CASE DOMAIN applied # {}
  BY <1>2, BonusRight
<1> QED BY <1>1, <1>2

LEMMA LoginKeeps ==
  ASSUME AuraIInv, NEW p \in Player, HandlePlayerLogin(p) PROVE AuraIInv'
<1> DEFINE applied == PassiveAuras(p, known[p])
           bonus == IF DOMAIN applied = {} THEN NoBonus ELSE StatBonus(applied, known[p])
           raise == ApplyPassiveHealthPctBonus(bonus, {})
<1>1. AurasKept /\ AuraTypeOK /\ p \in Unit /\ known[p] \in SUBSET (Passive \cup Innate)
  BY PlayersAndCreatures, KnownShown DEF AuraIInv, AurasKept
<1>2. PICK w \in {Blank} \cup SendUnitAurasUpdateAll(applied) : shown' = [shown EXCEPT ![p] = w]
  BY DEF HandlePlayerLogin
<1>3. AuraMap(applied)
  BY PassiveMap
<1>4. w \in [Slot -> Known \cup {NoSpell}] /\ IconsOf(w, applied)
  <2>1. CASE w \in SendUnitAurasUpdateAll(applied)
    BY <1>3, <2>1, AllIcons
  <2>2. CASE w = Blank
    <3>1. DOMAIN GetActiveAuras(applied) \subseteq Passive
      BY DEF GetActiveAuras, Without, PassiveAuras
    <3> HIDE DEF applied
    <3> QED BY <2>2, <3>1, NotASpell DEF Blank, IconsOf
  <2> QED BY <1>2, <2>1, <2>2
<1>5. /\ auras' = [auras EXCEPT ![p] = applied]
      /\ counted' = [counted EXCEPT ![p] = bonus] /\ raised' = [raised EXCEPT ![p] = raise]
      /\ permanent' = [permanent EXCEPT ![p] = known[p]] /\ known' = known
      /\ nextSlot' = [nextSlot EXCEPT ![p] = Cardinality(Listed(known[p])) % Slots]
      /\ inWorld' = inWorld \cup {p}
  BY DEF HandlePlayerLogin
<1>6. Cardinality(Listed(known[p])) % Slots \in Slot
  BY SomeListed
<1>10. /\ bonus \in [Known -> Nat] /\ raise \in SUBSET HealthSpell
       /\ BonusOf(bonus, applied, known[p], raise)
  BY <1>1, LoginBonus
<1> HIDE DEF applied, bonus, raise
<1>7. \A u \in Unit : AuraMap(auras[u])'
  BY <1>1, <1>3, <1>5 DEF AurasKept, AuraTypeOK
<1>8. AuraTypeOK'
  <2>1. \A u \in Unit : AuraMap(auras'[u])
    BY <1>7
  <2>2. DOMAIN auras' = Unit /\ inWorld' \subseteq Player /\ nextSlot' \in [Unit -> Slot]
    BY <1>1, <1>5, <1>6 DEF AuraTypeOK
  <2>3. /\ counted' \in [Player -> [Known -> Nat]] /\ raised' \in [Player -> SUBSET HealthSpell]
        /\ permanent' \in [Player -> SUBSET (Passive \cup Innate)]
        /\ known' \in [Player -> SUBSET (Passive \cup Innate)]
    BY <1>1, <1>5, <1>10 DEF AuraTypeOK
  <2>4. shown' \in [Player -> [Slot -> Known \cup {NoSpell}]]
    BY <1>1, <1>2, <1>4 DEF AuraTypeOK
  <2> QED BY <2>1, <2>2, <2>3, <2>4 DEF AuraTypeOK, AuraMap
<1>9. ASSUME NEW q \in Player PROVE PlayerRight(q)'
  <2>1. CASE q = p
    <3>1. /\ auras'[p] = applied /\ counted'[p] = bonus /\ shown'[p] = w
          /\ permanent'[p] = known[p] /\ raised'[p] = raise
      BY <1>1, <1>2, <1>5 DEF AuraTypeOK
    <3> QED BY <1>4, <1>10, <2>1, <3>1 DEF PlayerRight
  <2>2. CASE q # p
    <3>1. /\ auras'[q] = auras[q] /\ counted'[q] = counted[q] /\ shown'[q] = shown[q]
          /\ permanent'[q] = permanent[q] /\ raised'[q] = raised[q]
      BY <1>1, <1>2, <1>5, <2>2, PlayersAndCreatures DEF AuraTypeOK
    <3>2. PlayerRight(q)
      BY DEF AuraIInv
    <3> QED BY <1>5, <2>2, <3>1, <3>2 DEF PlayerRight
  <2> QED BY <2>1, <2>2
<1> QED BY <1>7, <1>8, <1>9 DEF AuraIInv, AurasKept

LEMMA ExitKeeps ==
  ASSUME AuraIInv, NEW p \in Player, FinalizeWorldExit(p) PROVE AuraIInv'
<1>1. AurasKept /\ AuraTypeOK /\ p \in Unit
  BY PlayersAndCreatures DEF AuraIInv, AurasKept
<1>2. \A u \in Unit : AuraMap(auras'[u])
  BY <1>1, EmptyMap DEF FinalizeWorldExit, AurasKept, AuraTypeOK
<1>3. AuraTypeOK'
  <2>1. /\ DOMAIN auras' = Unit /\ inWorld' \subseteq Player
        /\ counted' \in [Player -> [Known -> Nat]]
        /\ shown' \in [Player -> [Slot -> Known \cup {NoSpell}]]
    BY <1>1 DEF FinalizeWorldExit, AuraTypeOK, Blank, NoBonus
  <2>2. nextSlot' \in [Unit -> Slot]
    BY <1>1, AuraAssumption DEF FinalizeWorldExit, AuraTypeOK, Slot
  <2>3. /\ permanent' \in [Player -> SUBSET (Passive \cup Innate)] /\ known' = known
        /\ raised' \in [Player -> SUBSET HealthSpell]
    BY <1>1 DEF FinalizeWorldExit, AuraTypeOK
  <2> QED BY <1>1, <1>2, <2>1, <2>2, <2>3 DEF AuraTypeOK, AuraMap
<1>4. ASSUME NEW q \in Player, q # p PROVE PlayerRight(q)'
  <2>1. /\ auras'[q] = auras[q] /\ counted'[q] = counted[q] /\ shown'[q] = shown[q]
        /\ permanent'[q] = permanent[q] /\ raised'[q] = raised[q]
    BY <1>1, <1>4, PlayersAndCreatures DEF FinalizeWorldExit, AuraTypeOK
  <2>2. PlayerRight(q)
    BY DEF AuraIInv
  <2> QED BY <1>4, <2>1, <2>2 DEF FinalizeWorldExit, PlayerRight
<1>5. PlayerRight(p)'
  BY DEF FinalizeWorldExit, PlayerRight
<1> QED BY <1>2, <1>3, <1>4, <1>5 DEF AuraIInv, AurasKept

\* A spell learned or forgotten changes neither the auras nor what was computed.
LEMMA ChangeKeeps ==
  ASSUME AuraIInv, NEW p \in Player, ChangeKnownSpells(p) PROVE AuraIInv'
<1>1. AurasKept /\ AuraTypeOK
  BY DEF AuraIInv, AurasKept
<1>2. PICK taught \in SUBSET Learnable :
             known' = [known EXCEPT ![p] = (@ \ Learnable) \cup taught]
  BY DEF ChangeKnownSpells
<1>3. UNCHANGED <<inWorld, permanent, auras, nextSlot, counted, raised, shown>>
  BY DEF ChangeKnownSpells
<1>4. known' \in [Player -> SUBSET (Passive \cup Innate)]
  BY <1>1, <1>2, AuraAssumption DEF AuraTypeOK
<1> QED BY <1>1, <1>3, <1>4 DEF AuraIInv, AurasKept, AuraTypeOK, PlayerRight

LEMMA CastKeeps ==
  ASSUME AuraIInv, NEW u \in Unit, NEW t \in Unit, NEW s \in TimedSpell,
         ApplySpellCastAuraOnMap(u, t, s)
  PROVE  AuraIInv'
<1> DEFINE slot == AllocateAuraVisualSlot(auras[t], s, nextSlot[t])
           after == AddAura(auras[t], s, u, Duration[s], slot)
<1>1. AurasKept /\ AuraTypeOK /\ AuraMap(auras[t])
  BY DEF AuraIInv, AurasKept
<1>2. slot \in Slot /\ (s \in DOMAIN auras[t] => slot = auras[t][s].slot)
  BY <1>1 DEF AllocateAuraVisualSlot, AuraTypeOK, AuraMap, Aura
<1>3. /\ auras' = [auras EXCEPT ![t] = after] /\ inWorld' = inWorld
      /\ nextSlot' = IF s \in DOMAIN auras[t] THEN nextSlot
                     ELSE [nextSlot EXCEPT ![t] = (@ + 1) % Slots]
  BY DEF ApplySpellCastAuraOnMap
<1> DEFINE bonus == StatBonus(after, permanent[t])
           raise == ApplyPassiveHealthPctBonus(bonus, raised[t])
<1>4. t \in Player => shown' = [shown EXCEPT ![t][slot] = s]
  BY DEF ApplySpellCastAuraOnMap
<1>10. ASSUME t \in Player
       PROVE  /\ counted' = [counted EXCEPT ![t] = bonus] /\ raised' = [raised EXCEPT ![t] = raise]
              /\ bonus \in [Known -> Nat] /\ raise \in SUBSET HealthSpell
              /\ BonusOf(bonus, after, permanent[t], raise)
  <2>1. auras'[t] = after
    BY <1>1, <1>3 DEF AuraTypeOK
  <2>2. /\ counted' = [p \in Player |-> IF p \in {t} THEN StatBonus(auras'[p], permanent[p]) ELSE counted[p]]
        /\ raised' = [p \in Player |-> IF p \in {t}
             THEN ApplyPassiveHealthPctBonus(StatBonus(auras'[p], permanent[p]), raised[p]) ELSE raised[p]]
    BY <1>10 DEF ApplySpellCastAuraOnMap, BroadcastPlayerAuraStatBonusOnMap
  <2>3. /\ counted \in [Player -> [Known -> Nat]] /\ raised \in [Player -> SUBSET HealthSpell]
        /\ permanent[t] \in SUBSET (Passive \cup Innate) /\ raised[t] \in SUBSET HealthSpell
    BY <1>1, <1>10 DEF AuraTypeOK
  <2>4. /\ bonus \in [Known -> Nat] /\ raise \in SUBSET HealthSpell
        /\ BonusOf(bonus, after, permanent[t], raise)
    BY <2>3, BonusRight
  <2> HIDE DEF after
  <2>5. counted' = [counted EXCEPT ![t] = bonus] /\ raised' = [raised EXCEPT ![t] = raise]
    BY <2>1, <2>2, <2>3
  <2> QED BY <2>4, <2>5
<1>5. /\ t \notin Player => UNCHANGED <<counted, raised, shown>>
      /\ UNCHANGED <<known, permanent>>
  BY DEF ApplySpellCastAuraOnMap, spellbook
<1> HIDE DEF slot
<1>6. AuraMap(after)
  BY <1>1, <1>2, AddMap
<1> HIDE DEF after, bonus, raise
<1>7. \A x \in Unit : AuraMap(auras'[x])
  BY <1>1, <1>3, <1>6 DEF AurasKept, AuraTypeOK
<1>8. AuraTypeOK'
  <2>1. DOMAIN auras' = Unit /\ inWorld' \subseteq Player
    BY <1>1, <1>3 DEF AuraTypeOK
  <2>2. (nextSlot[t] + 1) % Slots \in Slot
    <3>1. nextSlot[t] + 1 \in Nat
      BY <1>1 DEF AuraTypeOK, Slot
    <3> QED BY <3>1, AroundTheSlots
  <2>3. nextSlot' \in [Unit -> Slot]
    BY <1>1, <1>3, <2>2 DEF AuraTypeOK
  <2>4. /\ counted' \in [Player -> [Known -> Nat]] /\ raised' \in [Player -> SUBSET HealthSpell]
        /\ known' = known /\ permanent' = permanent
    BY <1>1, <1>5, <1>10 DEF AuraTypeOK
  <2>5. shown' \in [Player -> [Slot -> Known \cup {NoSpell}]]
    <3>1. s \in Known
      BY DEF Known
    <3>2. ASSUME t \in Player
          PROVE  [shown[t] EXCEPT ![slot] = s] \in [Slot -> Known \cup {NoSpell}]
      <4>1. shown[t] \in [Slot -> Known \cup {NoSpell}]
        BY <1>1, <3>2 DEF AuraTypeOK
      <4> QED BY <1>2, <3>1, <4>1
    <3>3. shown \in [Player -> [Slot -> Known \cup {NoSpell}]]
      BY <1>1 DEF AuraTypeOK
    <3> QED BY <1>4, <1>5, <3>2, <3>3
  <2> QED BY <1>1, <1>7, <2>1, <2>3, <2>4, <2>5 DEF AuraTypeOK, AuraMap
<1>9. ASSUME NEW q \in Player PROVE PlayerRight(q)'
  <2>1. PlayerRight(q)
    BY DEF AuraIInv
  <2>2. CASE q = t
    <3>1. /\ auras'[q] = after /\ counted'[q] = bonus /\ raised'[q] = raise
          /\ permanent'[q] = permanent[q] /\ shown'[q] = [shown[q] EXCEPT ![slot] = s]
      BY <1>1, <1>3, <1>4, <1>5, <1>10, <2>2 DEF AuraTypeOK
    <3>2. BonusOf(counted'[q], auras'[q], permanent'[q], raised'[q])
      BY <1>10, <2>2, <3>1
    <3>3. ASSUME q \in inWorld PROVE IconsOf(shown'[q], auras'[q])
      <4>1. IconsOf(shown[q], auras[q]) /\ shown[q] \in [Slot -> Known \cup {NoSpell}]
        BY <1>1, <2>1, <3>3, KnownShown DEF PlayerRight
      <4> QED BY <1>1, <1>2, <2>2, <3>1, <4>1, CastIcons DEF after
    <3> QED BY <1>3, <3>2, <3>3 DEF PlayerRight
  <2>3. CASE q # t
    <3>1. /\ auras'[q] = auras[q] /\ counted'[q] = counted[q] /\ shown'[q] = shown[q]
          /\ raised'[q] = raised[q] /\ permanent'[q] = permanent[q]
      BY <1>1, <1>3, <1>4, <1>5, <1>10, <2>3, PlayersAndCreatures DEF AuraTypeOK
    <3> QED BY <1>3, <2>1, <3>1 DEF PlayerRight
  <2> QED BY <2>2, <2>3
<1> QED BY <1>7, <1>8, <1>9 DEF AuraIInv, AurasKept

LEMMA CancelKeeps ==
  ASSUME AuraIInv, NEW gone, Remove(gone), UNCHANGED <<inWorld, spellbook, nextSlot>>
  PROVE  AuraIInv'
<1>1. AurasKept /\ AuraTypeOK
  BY DEF AuraIInv, AurasKept
<1>2. /\ auras' = [u \in Unit |-> Without(auras[u], gone[u])]
      /\ UNCHANGED <<inWorld, nextSlot, known, permanent>>
  BY DEF Remove, spellbook
<1>7. BroadcastPlayerAuraStatBonusOnMap(auras', {p \in Player : gone[p] # {}})
  BY DEF Remove
<1>8. \A p \in Player : auras'[p] = Without(auras[p], gone[p])
  BY <1>2, PlayersAndCreatures
<1> DEFINE bonus(p) == IF gone[p] = {} THEN counted[p]
                       ELSE StatBonus(Without(auras[p], gone[p]), permanent[p])
           raise(p) == IF gone[p] = {} THEN raised[p]
                       ELSE ApplyPassiveHealthPctBonus(bonus(p), raised[p])
<1>9. counted' = [p \in Player |-> bonus(p)] /\ raised' = [p \in Player |-> raise(p)]
  BY <1>7, <1>8 DEF BroadcastPlayerAuraStatBonusOnMap
<1>10. ASSUME NEW p \in Player PROVE bonus(p) \in [Known -> Nat] /\ raise(p) \in SUBSET HealthSpell
  BY <1>1, KnownShown, BonusRight
<1>3. /\ DOMAIN shown' = Player
      /\ \A p \in Player : shown'[p] \in SendAuraRemovalOnMap(shown[p], auras[p], gone[p])
      /\ shown' = [p \in Player |-> shown'[p]]
  BY DEF Remove
<1>4. \A u \in Unit : AuraMap(auras'[u])
  BY <1>1, <1>2, WithoutMap DEF AurasKept
<1>5. ASSUME NEW p \in Player
      PROVE  PlayerRight(p)' /\ shown'[p] \in [Slot -> Known \cup {NoSpell}]
  <2>1. /\ AuraMap(auras[p]) /\ shown[p] \in [Slot -> Known \cup {NoSpell}]
        /\ permanent[p] \in SUBSET (Passive \cup Innate) /\ raised[p] \in SUBSET HealthSpell
    BY <1>1, KnownShown
  <2>2. /\ auras'[p] = Without(auras[p], gone[p]) /\ PlayerRight(p) /\ inWorld' = inWorld
        /\ permanent'[p] = permanent[p]
    BY <1>2, PlayersAndCreatures DEF AuraIInv
  <2>3. /\ gone[p] = {} => counted'[p] = counted[p] /\ raised'[p] = raised[p]
        /\ gone[p] # {} => /\ counted'[p] = StatBonus(Without(auras[p], gone[p]), permanent[p])
                           /\ raised'[p] = ApplyPassiveHealthPctBonus(counted'[p], raised[p])
    BY <1>9
  <2>4. p \in inWorld => BonusOf(counted'[p], auras'[p], permanent'[p], raised'[p])
    BY <2>1, <2>2, <2>3, BonusWithout DEF PlayerRight
  <2> QED BY <1>3, <2>1, <2>2, <2>4, IconsWithout DEF PlayerRight
<1>6. AuraTypeOK'
  <2>1. DOMAIN auras' = Unit /\ inWorld' \subseteq Player /\ nextSlot' \in [Unit -> Slot]
    BY <1>1, <1>2 DEF AuraTypeOK
  <2>2. counted' \in [Player -> [Known -> Nat]] /\ raised' \in [Player -> SUBSET HealthSpell]
    BY <1>9, <1>10
  <2>3. shown' \in [Player -> [Slot -> Known \cup {NoSpell}]]
    BY <1>3, <1>5
  <2> QED BY <1>1, <1>2, <1>4, <2>1, <2>2, <2>3 DEF AuraTypeOK, AuraMap
<1> QED BY <1>4, <1>5, <1>6 DEF AuraIInv, AurasKept

LEMMA TickKeeps == ASSUME AuraIInv, TickUnitAuras PROVE AuraIInv'
<1> DEFINE expired(u) == {s \in DOMAIN auras[u] : Expired(auras[u][s])}
           left(u) == Without(auras[u], expired(u))
           sent(p) == UNION {SendPeriodicHealTickOnMap(w, left(p)) :
                               w \in SendAuraRemovalOnMap(shown[p], auras[p], expired(p))}
<1>1. AurasKept /\ AuraTypeOK
  BY DEF AuraIInv, AurasKept
<1>2. /\ auras' = [u \in Unit |-> AdvancePeriodicTick(left(u))]
      /\ UNCHANGED <<inWorld, nextSlot, known, permanent>>
  BY DEF TickUnitAuras, spellbook
<1>7. BroadcastPlayerAuraStatBonusOnMap([u \in Unit |-> left(u)], {p \in Player : expired(p) # {}})
  BY DEF TickUnitAuras
<1> DEFINE bonus(p) == IF expired(p) = {} THEN counted[p] ELSE StatBonus(left(p), permanent[p])
           raise(p) == IF expired(p) = {} THEN raised[p]
                       ELSE ApplyPassiveHealthPctBonus(bonus(p), raised[p])
<1>8. \A p \in Player : [u \in Unit |-> left(u)][p] = left(p)
  BY PlayersAndCreatures
<1>9. counted' = [p \in Player |-> bonus(p)] /\ raised' = [p \in Player |-> raise(p)]
  <2> HIDE DEF left, expired
  <2> QED BY <1>7, <1>8 DEF BroadcastPlayerAuraStatBonusOnMap
<1>10. ASSUME NEW p \in Player PROVE bonus(p) \in [Known -> Nat] /\ raise(p) \in SUBSET HealthSpell
  <2> HIDE DEF left, expired
  <2> QED BY <1>1, KnownShown, BonusRight
<1>3. /\ \A p \in Player : shown'[p] \in sent(p)
      /\ shown' = [p \in Player |-> shown'[p]]
  BY DEF TickUnitAuras
<1>4. \A u \in Unit : AuraMap(left(u)) /\ AuraMap(auras'[u])
  BY <1>1, <1>2, WithoutMap, TickMap DEF AurasKept
<1>5. ASSUME NEW p \in Player
      PROVE  PlayerRight(p)' /\ shown'[p] \in [Slot -> Known \cup {NoSpell}]
  <2>1. /\ AuraMap(auras[p]) /\ shown[p] \in [Slot -> Known \cup {NoSpell}] /\ AuraMap(left(p))
        /\ permanent[p] \in SUBSET (Passive \cup Innate) /\ raised[p] \in SUBSET HealthSpell
    BY <1>1, <1>4, KnownShown, PlayersAndCreatures
  <2>2. auras'[p] = AdvancePeriodicTick(left(p)) /\ PlayerRight(p) /\ permanent'[p] = permanent[p]
    BY <1>2, PlayersAndCreatures DEF AuraIInv
  <2>3. /\ expired(p) = {} => counted'[p] = counted[p] /\ raised'[p] = raised[p]
        /\ expired(p) # {} => /\ counted'[p] = StatBonus(left(p), permanent[p])
                              /\ raised'[p] = ApplyPassiveHealthPctBonus(counted'[p], raised[p])
    BY <1>9
  <2>4. PICK w \in SendAuraRemovalOnMap(shown[p], auras[p], expired(p)) :
               shown'[p] \in SendPeriodicHealTickOnMap(w, left(p))
    BY <1>3
  <2> HIDE DEF expired
  <2>5. /\ w \in [Slot -> Known \cup {NoSpell}]
        /\ p \in inWorld => IconsOf(w, left(p))
    BY <2>1, <2>2, IconsWithout DEF PlayerRight
  <2>9. p \in inWorld => BonusOf(counted'[p], left(p), permanent[p], raised'[p])
    BY <2>1, <2>2, <2>3, BonusWithout DEF PlayerRight
  <2> HIDE DEF left
  <2>6. shown'[p] \in [Slot -> Known \cup {NoSpell}]
    <3>1. shown'[p] \in Windows([k \in Slot |-> IF In(left(p), Due(left(p)), k) = {} THEN {w[k]}
                                               ELSE In(left(p), Due(left(p)), k)])
      BY <2>4 DEF SendPeriodicHealTickOnMap
    <3> QED BY <3>1 DEF Windows
  <2>7. p \in inWorld => IconsOf(shown'[p], left(p))
    BY <2>1, <2>4, <2>5, TickIcons
  <2>8. /\ DOMAIN auras'[p] = DOMAIN left(p)
        /\ DOMAIN GetActiveAuras(auras'[p]) \subseteq DOMAIN GetActiveAuras(left(p))
        /\ \A s \in DOMAIN left(p) : auras'[p][s].slot = left(p)[s].slot
    <3>1. /\ DOMAIN auras'[p] = DOMAIN left(p)
          /\ \A s \in DOMAIN left(p) : /\ auras'[p][s].slot = left(p)[s].slot
                                       /\ auras'[p][s].left = left(p)[s].left
      <4>1. ASSUME NEW s \in Due(left(p))
            PROVE  /\ s \in DOMAIN left(p)
                   /\ [left(p)[s] EXCEPT !.next = Period[s], !.paid = @ + 1].slot = left(p)[s].slot
                   /\ [left(p)[s] EXCEPT !.next = Period[s], !.paid = @ + 1].left = left(p)[s].left
        <5>1. s \in DOMAIN left(p) /\ s \in TimedSpell /\ left(p)[s] \in Aura
          BY <2>1 DEF Due, AuraMap
        <5> QED BY <5>1, SpellTimes, TickedFields
      <4> QED BY <2>2, <4>1 DEF AdvancePeriodicTick
    <3> QED BY <3>1 DEF GetActiveAuras, Without, Expired
  <2> QED BY <1>2, <2>2, <2>6, <2>7, <2>8, <2>9, RightAfterAll DEF PlayerRight
<1>6. AuraTypeOK'
  <2>1. DOMAIN auras' = Unit /\ inWorld' \subseteq Player /\ nextSlot' \in [Unit -> Slot]
    BY <1>1, <1>2 DEF AuraTypeOK
  <2>2. counted' \in [Player -> [Known -> Nat]] /\ raised' \in [Player -> SUBSET HealthSpell]
    BY <1>9, <1>10
  <2>3. shown' \in [Player -> [Slot -> Known \cup {NoSpell}]]
    BY <1>3, <1>5
  <2> QED BY <1>1, <1>2, <1>4, <2>1, <2>2, <2>3 DEF AuraTypeOK, AuraMap
<1> QED BY <1>4, <1>5, <1>6 DEF AuraIInv, AurasKept

LEMMA PassKeeps == ASSUME AuraIInv, Pass PROVE AuraIInv'
<1>1. AurasKept /\ AuraTypeOK
  BY DEF AuraIInv, AurasKept
<1>2. /\ auras' = [u \in Unit |-> Later(auras[u])]
      /\ UNCHANGED <<inWorld, known, permanent, nextSlot, counted, raised, shown>>
  BY DEF Pass, Later, spellbook
<1>3. \A u \in Unit : AuraMap(auras'[u])
  BY <1>1, <1>2, LaterMap DEF AurasKept
<1>4. ASSUME NEW p \in Player PROVE PlayerRight(p)'
  <2>1. AuraMap(auras[p]) /\ auras'[p] = Later(auras[p]) /\ PlayerRight(p)
    BY <1>1, <1>2, KnownShown, PlayersAndCreatures DEF AuraIInv
  <2>2. ASSUME NEW s \in DOMAIN auras[p]
        PROVE  /\ auras'[p][s].slot = auras[p][s].slot
               /\ Expired(auras[p][s]) => Expired(auras'[p][s])
    <3>1. auras[p][s] \in Aura
      BY <2>1 DEF AuraMap
    <3>2. auras'[p][s] = [auras[p][s] EXCEPT !.left = IF @ > 0 THEN @ - 1 ELSE @,
                                             !.next = IF @ > 0 THEN @ - 1 ELSE @]
      BY <2>1 DEF Later
    <3>3. /\ auras'[p][s].slot = auras[p][s].slot
          /\ auras'[p][s].left = (IF auras[p][s].left > 0 THEN auras[p][s].left - 1 ELSE auras[p][s].left)
      BY <3>1, <3>2, AgedFields
    <3> QED BY <3>3 DEF Expired
  <2>3. DOMAIN auras'[p] = DOMAIN auras[p]
    BY <2>1 DEF Later
  <2>4. DOMAIN GetActiveAuras(auras'[p]) \subseteq DOMAIN GetActiveAuras(auras[p])
    BY <2>2, <2>3 DEF GetActiveAuras, Without
  <2> QED BY <1>2, <2>1, <2>2, <2>3, <2>4, RightAfterAll DEF PlayerRight
<1>5. AuraTypeOK'
  BY <1>1, <1>2, <1>3 DEF AuraTypeOK, AuraMap
<1> QED BY <1>3, <1>4, <1>5 DEF AuraIInv, AurasKept

LEMMA AurasStep == AuraIInv /\ [AuraNext]_auraVars => AuraIInv'
<1> SUFFICES ASSUME AuraIInv, [AuraNext]_auraVars PROVE AuraIInv'
  OBVIOUS
<1>1. ASSUME NEW p \in Player, HandlePlayerLogin(p) \/ FinalizeWorldExit(p) \/ ChangeKnownSpells(p)
      PROVE  AuraIInv'
  BY <1>1, LoginKeeps, ExitKeeps, ChangeKeeps
<1>2. ASSUME NEW p \in Player, NEW s \in TimedSpell \cup Passive, HandleCancelAura(p, s)
      PROVE  AuraIInv'
  BY <1>2, CancelKeeps DEF HandleCancelAura
<1>3. ASSUME NEW u \in Unit, NEW t \in Unit, NEW s \in TimedSpell, ApplySpellCastAuraOnMap(u, t, s)
      PROVE  AuraIInv'
  BY <1>3, CastKeeps
<1>4. CASE TickUnitAuras
  BY <1>4, TickKeeps
<1>5. CASE Pass
  BY <1>5, PassKeeps
<1>6. CASE UNCHANGED auraVars
  BY <1>6 DEF auraVars, spellbook, AuraIInv, AurasKept, AuraTypeOK, PlayerRight
<1> QED BY <1>1, <1>2, <1>3, <1>4, <1>5, <1>6 DEF AuraNext

---------------------------------------------------------------------------
\* Auras, slots, bonuses and icons keep their types (UnitAuraState.cpp).
THEOREM AuraTypeCorrect == AuraSpec => []AuraTypeOK
<1>1. AuraIInv => AuraTypeOK
  BY DEF AuraIInv, AurasKept
<1> QED BY <1>1, AurasInit, AurasStep, PTL DEF AuraSpec

\* In every state of every player in the world its bonuses have each active aura and
\* each passive spell it knew at login once, and no spell that is neither; its maximum
\* health counts the spells among them that raise it, as long as there is one
\* (BroadcastPlayerAuraStatBonusOnMap, ApplyPassiveHealthPctBonus).
THEOREM BonusOnce == AuraSpec => []BonusCountsOnce
<1>1. AuraIInv => BonusCountsOnce
  BY DEF AuraIInv, AurasKept, AuraTypeOK, PlayerRight, BonusOf, HasBonus, BonusCountsOnce
<1> QED BY <1>1, AurasInit, AurasStep, PTL DEF AuraSpec

\* For any number of slots and auras, however often a slot was handed out again,
\* the client shows the auras of its player (SendAuraRemovalOnMap).
THEOREM IconsFollow == AuraSpec => []ClientShowsAuras
<1>1. AuraIInv => ClientShowsAuras
  BY DEF AuraIInv, AurasKept, AuraTypeOK, PlayerRight, IconsOf, ClientShowsAuras
<1> QED BY <1>1, AurasInit, AurasStep, PTL DEF AuraSpec

\* For any durations and periods and however late the ticker runs, an aura ticks no
\* more often than its age allows (TickPeriodicAuras).
THEOREM TicksFit == AuraSpec => []TicksWithinDuration
<1>1. AuraIInv => TicksWithinDuration
  BY DEF AuraIInv, AurasKept, AuraMap, Paid, TicksWithinDuration
<1> QED BY <1>1, AurasInit, AurasStep, PTL DEF AuraSpec
=============================================================================
