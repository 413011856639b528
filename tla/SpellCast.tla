------------------------------ MODULE SpellCast ------------------------------
(***************************************************************************)
(* The casts and cooldowns of one character.  A spell with a cast time is   *)
(* finished by a coroutine that waits on the session's one timer; casting   *)
(* again or cancelling cancels the timer, which reaches the coroutines that *)
(* wait on it and neither one that has not come to wait yet nor one whose   *)
(* expiry is already queued.  The global cooldown starts with the cast, the *)
(* recovery of the spell and of its category when it takes effect.  What is *)
(* left of the recoveries is saved at logout and runs on at the next login. *)
(*                                                                          *)
(* Handlers run one at a time on the world's thread.  Time is counted in    *)
(* ticks; the server stays up and the cooldown tables work.                 *)
(***************************************************************************)
EXTENDS Integers

CONSTANTS
  Spell,
  CastTime,        \* GetCastTimeMs
  Recovery,        \* RecoveryTime
  Group, NoGroup,  \* category of each spell
  GroupRecovery,   \* CategoryRecoveryTime
  Gcd,             \* StartRecoveryTime, with its default and its maximum
  MaxNow,          \* bound on the clock
  MaxCasts,        \* bound on the casts with a cast time
  Never            \* no effect yet

ASSUME SpellCastAssumption ==
  /\ Spell # {}
  /\ CastTime \in [Spell -> Nat]
  /\ Recovery \in [Spell -> Nat]
  /\ GroupRecovery \in [Spell -> Nat]
  /\ Gcd \in [Spell -> Nat]
  /\ MaxNow \in Nat
  /\ MaxCasts \in Nat
  /\ Never \notin Nat

Cast == 1 .. MaxCasts
NoCast == 0
Groups == {Group[sp] : sp \in Spell} \ {NoGroup}

VARIABLES
  now,
  playing,     \* _playerGuid # 0
  gcdReady,    \* _gcdReady
  spellUntil,  \* _spellCooldownUntil
  groupUntil,  \* _spellCategoryCooldownUntil
  saved,       \* character_spell_cooldown: what is left of each
  savedGroup,  \* character_spell_category_cooldown
  pending,     \* the cast of _pendingCastId, NoCast when none is active
  expiry,      \* _pendingSpellCastTimer
  casts,       \* casts with a cast time so far
  castSpell,   \* the spell of each
  wait,        \* where the coroutine of each cast is
  lastEffect,  \* when each spell last took effect
  raced        \* a packet came while a coroutine was out of the timer's reach

cooldowns == <<gcdReady, spellUntil, groupUntil>>
rows == <<saved, savedGroup>>
timer == <<pending, expiry, casts, castSpell, wait>>
ghosts == <<lastEffect, raced>>
vars == <<now, playing, cooldowns, rows, timer, ghosts>>

OutOfReach == {"spawned", "ready"}
InFlight == OutOfReach \cup {"waiting"}

TypeOK ==
  /\ now \in 0 .. MaxNow
  /\ playing \in BOOLEAN
  /\ gcdReady \in Nat
  /\ spellUntil \in [Spell -> Nat]
  /\ groupUntil \in [Groups -> Nat]
  /\ \A sp \in Spell : saved[sp] \in 0 .. Recovery[sp]
  /\ savedGroup \in [Groups -> Nat]
  /\ pending \in Cast \cup {NoCast}
  /\ expiry \in Nat
  /\ casts \in 0 .. MaxCasts
  /\ castSpell \in [Cast -> Spell]
  /\ wait \in [Cast -> {"none", "ended"} \cup InFlight]
  /\ lastEffect \in [Spell -> Nat \cup {Never}]
  /\ raced \in BOOLEAN

Init ==
  /\ now = 0
  /\ playing = FALSE
  /\ gcdReady = 0
  /\ spellUntil = [sp \in Spell |-> 0]
  /\ groupUntil = [g \in Groups |-> 0]
  /\ saved = [sp \in Spell |-> 0]
  /\ savedGroup = [g \in Groups |-> 0]
  /\ pending = NoCast
  /\ expiry = 0
  /\ casts = 0
  /\ castSpell = [i \in Cast |-> CHOOSE sp \in Spell : TRUE]
  /\ wait = [i \in Cast |-> "none"]
  /\ lastEffect = [sp \in Spell |-> Never]
  /\ raced = FALSE

---------------------------------------------------------------------------
\* _pendingSpellCastTimer.cancel()
CancelledWaits == [i \in Cast |-> IF wait[i] = "waiting" THEN "ended" ELSE wait[i]]

\* What every packet does to the coroutines it should have stopped.
Overtakes == raced' = (raced \/ \E i \in Cast : wait[i] \in OutOfReach)

CancelPendingClientSpellCast ==
  /\ wait' = CancelledWaits
  /\ pending' = NoCast
  /\ UNCHANGED <<expiry, casts, castSpell>>
  /\ Overtakes

\* ProcessCastRequest's checks of the cooldowns.
IsReady(sp) ==
  /\ now >= gcdReady
  /\ now >= spellUntil[sp]
  /\ Group[sp] # NoGroup /\ GroupRecovery[sp] > 0 => now >= groupUntil[Group[sp]]

\* MUTANT: the category's recovery is left out.
CommitCooldowns_SpellOnly(sp) ==
  /\ spellUntil' = IF Recovery[sp] > 0
                   THEN [spellUntil EXCEPT ![sp] = now + Recovery[sp]] ELSE spellUntil
  /\ UNCHANGED groupUntil

CommitCooldowns(sp) ==
  /\ spellUntil' = IF Recovery[sp] > 0
                   THEN [spellUntil EXCEPT ![sp] = now + Recovery[sp]] ELSE spellUntil
  /\ groupUntil' = IF Group[sp] # NoGroup /\ GroupRecovery[sp] > 0
                   THEN [groupUntil EXCEPT ![Group[sp]] = now + GroupRecovery[sp]]
                   ELSE groupUntil

TakesEffect(sp) == lastEffect' = [lastEffect EXCEPT ![sp] = now]

\* Whatever ProcessCastRequest answers, the pending cast is cancelled first.
CastRefused ==
  /\ playing
  /\ CancelPendingClientSpellCast
  /\ UNCHANGED <<now, playing, cooldowns, rows, lastEffect>>

CastAndGo(sp) ==
  /\ playing /\ IsReady(sp) /\ CastTime[sp] = 0
  /\ CancelPendingClientSpellCast
  /\ CommitCooldowns(sp)
  /\ gcdReady' = now + Gcd[sp]
  /\ TakesEffect(sp)
  /\ UNCHANGED <<now, playing, rows>>

CastDeferred(sp) ==
  /\ playing /\ IsReady(sp) /\ CastTime[sp] > 0
  /\ casts < MaxCasts /\ now + CastTime[sp] <= MaxNow
  /\ gcdReady' = now + Gcd[sp]
  /\ casts' = casts + 1
  /\ castSpell' = [castSpell EXCEPT ![casts'] = sp]
  /\ pending' = casts'
  /\ expiry' = now + CastTime[sp]
  /\ wait' = [CancelledWaits EXCEPT ![casts'] = "spawned"]
  /\ Overtakes
  /\ UNCHANGED <<now, playing, spellUntil, groupUntil, rows, lastEffect>>

HandleCastSpell == CastRefused \/ \E sp \in Spell : CastAndGo(sp) \/ CastDeferred(sp)

HandleCancelCast ==
  /\ playing
  /\ CancelPendingClientSpellCast
  /\ UNCHANGED <<now, playing, cooldowns, rows, lastEffect>>

---------------------------------------------------------------------------
\* The coroutine of a cast: it comes to wait, the timer expires, it completes.
StartWait(i) ==
  /\ wait[i] = "spawned"
  /\ wait' = [wait EXCEPT ![i] = "waiting"]
  /\ UNCHANGED <<now, playing, cooldowns, rows, pending, expiry, casts, castSpell, ghosts>>

TimerExpires ==
  /\ expiry <= now /\ \E i \in Cast : wait[i] = "waiting"
  /\ wait' = [i \in Cast |-> IF wait[i] = "waiting" THEN "ready" ELSE wait[i]]
  /\ UNCHANGED <<now, playing, cooldowns, rows, pending, expiry, casts, castSpell, ghosts>>

\* MUTANT: the cast stays marked as pending.
CompleteDeferredSpellCast_StillPending(i) ==
  /\ wait[i] = "ready"
  /\ wait' = [wait EXCEPT ![i] = "ended"]
  /\ IF playing
     THEN TakesEffect(castSpell[i]) /\ CommitCooldowns(castSpell[i])
     ELSE UNCHANGED <<lastEffect, spellUntil, groupUntil>>
  /\ UNCHANGED <<now, playing, gcdReady, rows, pending, expiry, casts, castSpell, raced>>

\* It asks whether the character is in the world, not whether the cast is the
\* pending one.
CompleteDeferredSpellCast(i) ==
  /\ wait[i] = "ready"
  /\ wait' = [wait EXCEPT ![i] = "ended"]
  /\ IF playing
     THEN /\ pending' = NoCast
          /\ TakesEffect(castSpell[i])
          /\ CommitCooldowns(castSpell[i])
     ELSE UNCHANGED <<pending, lastEffect, spellUntil, groupUntil>>
  /\ UNCHANGED <<now, playing, gcdReady, rows, expiry, casts, castSpell, raced>>

---------------------------------------------------------------------------
Left(until) == IF until > now THEN until - now ELSE 0

SavePersistedSpellCooldowns ==
  /\ saved' = [sp \in Spell |-> Left(spellUntil[sp])]
  /\ savedGroup' = [g \in Groups |-> Left(groupUntil[g])]

ForgetCooldowns ==
  /\ gcdReady' = 0
  /\ spellUntil' = [sp \in Spell |-> 0]
  /\ groupUntil' = [g \in Groups |-> 0]

\* FinalizeWorldExit, by logout or because the connection ended.
Logout ==
  /\ playing
  /\ playing' = FALSE
  /\ CancelPendingClientSpellCast
  /\ SavePersistedSpellCooldowns
  /\ ForgetCooldowns
  /\ UNCHANGED <<now, lastEffect>>

\* A row that is not there is an instant that has passed.
RestorePersistedSpellCooldowns ==
  /\ spellUntil' = [sp \in Spell |-> IF saved[sp] > 0 THEN now + saved[sp] ELSE 0]
  /\ groupUntil' = [g \in Groups |-> IF savedGroup[g] > 0 THEN now + savedGroup[g] ELSE 0]

\* On the session the character left, or on a new one, where no coroutine of the
\* old one finds its character.
Login ==
  /\ ~playing
  /\ playing' = TRUE
  /\ gcdReady' = 0
  /\ RestorePersistedSpellCooldowns
  /\ \/ UNCHANGED wait
     \/ wait' = [i \in Cast |-> IF wait[i] \in InFlight THEN "ended" ELSE wait[i]]
  /\ UNCHANGED <<now, rows, pending, expiry, casts, castSpell, ghosts>>

\* .cd on purpose lets every spell be cast again.
GmResetAllCooldowns ==
  /\ playing
  /\ ForgetCooldowns
  /\ saved' = [sp \in Spell |-> 0]
  /\ savedGroup' = [g \in Groups |-> 0]
  /\ lastEffect' = [sp \in Spell |-> Never]
  /\ UNCHANGED <<now, playing, timer, raced>>

Tick ==
  /\ now < MaxNow
  /\ now' = now + 1
  /\ UNCHANGED <<playing, cooldowns, rows, timer, ghosts>>

---------------------------------------------------------------------------
Packet == HandleCastSpell \/ HandleCancelCast \/ Logout \/ Login \/ GmResetAllCooldowns

Wakeup == TimerExpires \/ \E i \in Cast : StartWait(i) \/ CompleteDeferredSpellCast(i)

Next == Packet \/ Wakeup \/ Tick

Spec == Init /\ [][Next]_vars
\* The thread polls its handlers and time goes on; nothing says that the client
\* sends anything.
FairSpec == Spec /\ WF_vars(Wakeup) /\ WF_vars(Tick)

---------------------------------------------------------------------------
Affects(sp) ==
  \/ CastAndGo(sp)
  \/ \E i \in Cast : castSpell[i] = sp /\ playing /\ CompleteDeferredSpellCast(i)

\* As long as no packet has overtaken a completion, a spell takes effect again
\* only after its recovery, and after that of every spell of its category: over
\* cast times, cancelled casts, logouts and logins (ProcessCastRequest,
\* CommitSpellCooldownsFromCast, CommitSpellRecoveryCooldownFromDeferred).
EffectsAreSpaced ==
  [][\A sp, other \in Spell :
       (~raced' /\ Affects(sp) /\ lastEffect[other] # Never)
         => /\ other = sp => now - lastEffect[sp] >= Recovery[sp]
            /\ (Group[other] = Group[sp] /\ Group[sp] # NoGroup /\ GroupRecovery[sp] > 0)
                 => now - lastEffect[other] >= GroupRecovery[other]]_vars

\* A cast with a cast time takes effect only while it is the pending one: one
\* that was cancelled, replaced or left behind by a logout does not, unless the
\* packet came when its coroutine was out of the timer's reach.
OnlyPendingCompletes ==
  [][\A i \in Cast :
       (~raced /\ wait[i] = "ready" /\ wait'[i] = "ended" /\ playing) => pending = i]_vars

\* A session that believes a cast is going on has a coroutine that will end it,
\* races or not, and forgets every cast when it leaves the world
\* (HandleCancelCast answers by it).
PendingIsInFlight ==
  pending # NoCast => playing /\ wait[pending] \in InFlight

\* Every cast comes to an end.
CastEnds == \A i \in Cast : pending = i ~> pending # i
=============================================================================
