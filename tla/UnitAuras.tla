------------------------------- MODULE UnitAuras -------------------------------
(***************************************************************************)
(* The auras of the units of a map (UnitAuraState): applied by casts and, for *)
(* passive spells, at login; ticked and expired by the map's ticker; cancelled *)
(* by the client.  Each aura of a unit has a slot in the row of icons that      *)
(* clients show.  A player's bonuses are computed anew at each change, out of   *)
(* the auras it has then and of the passive spells it knew at login; only its   *)
(* maximum health is left as it is when none of them raises it any more.        *)
(*                                                                            *)
(* Time is what is left of each aura and until its next tick.  The ticker may   *)
(* be late.  What a tick does to health is in CreatureCombat.                   *)
(***************************************************************************)
EXTENDS Integers, Sequences, FiniteSets

CONSTANTS
  Player, Creature,
  TimedSpell,      \* spells whose aura has a duration
  Passives,        \* the passive spells of a player that become auras, by id
  Innate,          \* those that only add to its bonuses: without a duration and
                   \* without the PASSIVE attribute no aura is applied
  Learnable,       \* of both, what a player may or may not know
  HealthSpell,     \* spells that raise the maximum health
  Cancellable,     \* spells without CANT_CANCEL
  Duration, Period,\* of a spell; period 0: not periodic
  Slots,           \* icons of a unit: 64 in the code
  NoSpell

Passive == {Passives[i] : i \in DOMAIN Passives}
Known == TimedSpell \cup Passive \cup Innate
Unit == Player \cup Creature
Slot == 0 .. Slots - 1

ASSUME AuraAssumption ==
  /\ Player \cap Creature = {}
  /\ Passives \in Seq(Passive)
  /\ \A i, j \in DOMAIN Passives : i # j => Passives[i] # Passives[j]
  /\ Learnable \subseteq Passive \cup Innate
  /\ HealthSpell \subseteq Known
  /\ TimedSpell \cap (Passive \cup Innate) = {} /\ Passive \cap Innate = {}
  /\ Cancellable \subseteq TimedSpell \cup Passive
  /\ Duration \in [TimedSpell -> Nat \ {0}] /\ Period \in [TimedSpell -> Nat]
  /\ Slots \in Nat \ {0} /\ NoSpell \notin Known

VARIABLES
  inWorld,   \* the players of the map
  known,     \* the passive spells each player knows
  permanent, \* m_permanentPassiveSpellIds of its Player
  auras,     \* m_auras of each unit, by spell
  nextSlot,  \* m_nextAuraSlot
  counted,   \* how often each spell is in the bonuses of a player
  raised,    \* the spells its maximum health was last computed from
  shown      \* the icons the client of a player shows of that player

spellbook == <<known, permanent>>
auraVars == <<inWorld, spellbook, auras, nextSlot, counted, raised, shown>>

Forever == -1
Expired(aura) == aura.left = 0
Blank == [k \in Slot |-> NoSpell]
NoBonus == [s \in Known |-> 0]

Aura == [caster : Unit, left : Nat \cup {Forever}, next : Nat, slot : Slot, paid : Nat]

AuraTypeOK ==
  /\ inWorld \subseteq Player
  /\ known \in [Player -> SUBSET (Passive \cup Innate)]
  /\ permanent \in [Player -> SUBSET (Passive \cup Innate)]
  /\ raised \in [Player -> SUBSET HealthSpell]
  /\ DOMAIN auras = Unit
  /\ \A u \in Unit : /\ DOMAIN auras[u] \subseteq TimedSpell \cup Passive
                      /\ auras[u] \in [DOMAIN auras[u] -> Aura]
  /\ nextSlot \in [Unit -> Slot]
  /\ counted \in [Player -> [Known -> Nat]]
  /\ shown \in [Player -> [Slot -> Known \cup {NoSpell}]]

AuraInit ==
  /\ inWorld = {}
  /\ known = [p \in Player |-> (Passive \cup Innate) \ Learnable]
  /\ permanent = [p \in Player |-> {}]
  /\ raised = [p \in Player |-> {}]
  /\ auras = [u \in Unit |-> <<>>]
  /\ nextSlot = [u \in Unit |-> 0]
  /\ counted = [p \in Player |-> NoBonus]
  /\ shown = [p \in Player |-> Blank]

OnMap(u) == u \in Creature \cup inWorld

---------------------------------------------------------------------------
\* The map from spells to auras.
Without(a, gone) == [s \in DOMAIN a \ gone |-> a[s]]

GetActiveAuras(a) == Without(a, {s \in DOMAIN a : Expired(a[s])})

\* A spell keeps its slot; a new one takes the next, used or not.
AllocateAuraVisualSlot(a, s, next) == IF s \in DOMAIN a THEN a[s].slot ELSE next

\* One aura per spell, whoever cast it.  The first tick is due at once.
AddAura(a, s, caster, left, slot) ==
  LET aura == [caster |-> caster, left |-> left, next |-> 0, slot |-> slot, paid |-> 0]
  IN [x \in DOMAIN a \cup {s} |-> IF x = s THEN aura ELSE a[x]]

Due(a) == {s \in DOMAIN a \cap TimedSpell :
             Period[s] > 0 /\ ~Expired(a[s]) /\ a[s].next = 0}

\* MUTANT: the next tick is counted from the moment before this one.
AdvancePeriodicTick_Early(a) ==
  [s \in DOMAIN a |-> IF s \in Due(a)
     THEN [a[s] EXCEPT !.next = Period[s] - 1, !.paid = @ + 1] ELSE a[s]]

\* The period is counted from this pass, late as it may be.
AdvancePeriodicTick(a) ==
  [s \in DOMAIN a |-> IF s \in Due(a)
     THEN [a[s] EXCEPT !.next = Period[s], !.paid = @ + 1] ELSE a[s]]

---------------------------------------------------------------------------
\* Bonuses are computed from nothing: the active auras, then the permanent passive
\* spells that are not among them.
ComputePlayerAuraStatBonus(a) ==
  [s \in Known |-> IF s \in DOMAIN GetActiveAuras(a) THEN 1 ELSE 0]

\* MUTANT: every permanent passive spell is added.
MergePermanentPassiveSpellBonuses_All(bonus, a, passive) ==
  [s \in Known |-> IF s \in passive THEN bonus[s] + 1 ELSE bonus[s]]

MergePermanentPassiveSpellBonuses(bonus, a, passive) ==
  [s \in Known |-> IF s \in passive \ DOMAIN GetActiveAuras(a)
                   THEN bonus[s] + 1 ELSE bonus[s]]

StatBonus(a, passive) ==
  MergePermanentPassiveSpellBonuses(ComputePlayerAuraStatBonus(a), a, passive)

\* The maximum health is computed from the baseline if something raises it, and stays
\* what it is otherwise.
HealthPctBonus(bonus) == {s \in HealthSpell : bonus[s] > 0}

ApplyPassiveHealthPctBonus(bonus, health) ==
  IF HealthPctBonus(bonus) = {} THEN health ELSE HealthPctBonus(bonus)

\* Icons.  Of the spells that share a slot the client shows the one it was sent last.
Windows(offers) ==
  {w \in [Slot -> Known \cup {NoSpell}] : \A k \in Slot : w[k] \in offers[k]}

In(a, spells, k) == {s \in spells : a[s].slot = k}

SendUnitAurasUpdateAll(a) ==
  LET active == GetActiveAuras(a) IN
  Windows([k \in Slot |-> IF In(active, DOMAIN active, k) = {} THEN {NoSpell}
                          ELSE In(active, DOMAIN active, k)])

\* MUTANT: the icons of what is gone are cleared, and nothing more.
SendAuraRemovalOnMap_SlotOnly(w, a, gone) ==
  {[k \in Slot |-> IF In(a, gone, k) = {} THEN w[k] ELSE NoSpell]}

\* Clearing the icons is followed by all auras that are left.
SendAuraRemovalOnMap(w, a, gone) ==
  IF gone = {} THEN {w} ELSE SendUnitAurasUpdateAll(Without(a, gone))

\* A tick sends its aura again.
SendPeriodicHealTickOnMap(w, a) ==
  Windows([k \in Slot |-> IF In(a, Due(a), k) = {} THEN {w[k]} ELSE In(a, Due(a), k)])

---------------------------------------------------------------------------
\* A command teaches a spell or takes one away, a new level brings others, or the next
\* login lists them anew; the auras and the permanent spells of a Player stay.
ChangeKnownSpells(p) ==
  /\ \E taught \in SUBSET Learnable :
       known' = [known EXCEPT ![p] = (@ \ Learnable) \cup taught]
  /\ UNCHANGED <<inWorld, permanent, auras, nextSlot, counted, raised, shown>>

\* The passive auras in order of id, each in the next slot of the new Player.
Listed(passive) == {i \in DOMAIN Passives : Passives[i] \in passive}

PassiveAuras(p, passive) ==
  LET before(s) == {i \in Listed(passive) : \E j \in DOMAIN Passives : i < j /\ Passives[j] = s}
  IN [s \in Passive \cap passive |->
        [caster |-> p, left |-> Forever, next |-> 0,
         slot |-> Cardinality(before(s)) % Slots, paid |-> 0]]

\* The auras are sent before the client has created the player, so it may or may not
\* show them.  Where none is applied no bonus is computed either.
HandlePlayerLogin(p) ==
  LET applied == PassiveAuras(p, known[p])
      bonus == IF DOMAIN applied = {} THEN NoBonus ELSE StatBonus(applied, known[p])
  IN /\ p \notin inWorld
     /\ inWorld' = inWorld \cup {p}
     /\ permanent' = [permanent EXCEPT ![p] = known[p]]
     /\ auras' = [auras EXCEPT ![p] = applied]
     /\ nextSlot' = [nextSlot EXCEPT ![p] = Cardinality(Listed(known[p])) % Slots]
     /\ counted' = [counted EXCEPT ![p] = bonus]
     /\ raised' = [raised EXCEPT ![p] = ApplyPassiveHealthPctBonus(bonus, {})]
     /\ \E w \in {Blank} \cup SendUnitAurasUpdateAll(applied) :
          shown' = [shown EXCEPT ![p] = w]
     /\ UNCHANGED known

\* The Player object goes, and its auras with it; nothing of them is saved.
FinalizeWorldExit(p) ==
  /\ p \in inWorld
  /\ inWorld' = inWorld \ {p}
  /\ permanent' = [permanent EXCEPT ![p] = {}]
  /\ auras' = [auras EXCEPT ![p] = <<>>]
  /\ nextSlot' = [nextSlot EXCEPT ![p] = 0]
  /\ counted' = [counted EXCEPT ![p] = NoBonus]
  /\ raised' = [raised EXCEPT ![p] = {}]
  /\ shown' = [shown EXCEPT ![p] = Blank]
  /\ UNCHANGED known

\* The bonuses of the players ps, whose auras are those of a.
BroadcastPlayerAuraStatBonusOnMap(a, ps) ==
  LET bonus(p) == StatBonus(a[p], permanent[p])
  IN /\ counted' = [p \in Player |-> IF p \in ps THEN bonus(p) ELSE counted[p]]
     /\ raised' = [p \in Player |-> IF p \in ps THEN ApplyPassiveHealthPctBonus(bonus(p), raised[p])
                                    ELSE raised[p]]

\* A cast that takes effect, at once or after its cast time.  Creatures cast at players.
ApplySpellCastAuraOnMap(u, t, s) ==
  LET slot == AllocateAuraVisualSlot(auras[t], s, nextSlot[t])
      after == AddAura(auras[t], s, u, Duration[s], slot)
  IN /\ OnMap(u) /\ OnMap(t)
     /\ u \in Creature => t \in Player
     /\ auras' = [auras EXCEPT ![t] = after]
     /\ nextSlot' = IF s \in DOMAIN auras[t] THEN nextSlot
                    ELSE [nextSlot EXCEPT ![t] = (@ + 1) % Slots]
     /\ IF t \in Player
        THEN /\ BroadcastPlayerAuraStatBonusOnMap(auras', {t})
             /\ shown' = [shown EXCEPT ![t][slot] = s]
        ELSE UNCHANGED <<counted, raised, shown>>
     /\ UNCHANGED <<inWorld, spellbook>>

\* gone[u] leaves each unit u: icons and bonuses of a player that lost something follow.
Remove(gone) ==
  /\ auras' = [u \in Unit |-> Without(auras[u], gone[u])]
  /\ BroadcastPlayerAuraStatBonusOnMap(auras', {p \in Player : gone[p] # {}})
  /\ \E f \in [Player -> UNION {SendAuraRemovalOnMap(shown[p], auras[p], gone[p]) : p \in Player}] :
       /\ \A p \in Player : f[p] \in SendAuraRemovalOnMap(shown[p], auras[p], gone[p])
       /\ shown' = f

\* An aura of the player, from whomever; if it has none, those it cast on others.
Cancelled(p, s) ==
  IF s \in DOMAIN auras[p] THEN [u \in Unit |-> IF u = p THEN {s} ELSE {}]
  ELSE [u \in Unit |-> IF s \in DOMAIN auras[u] /\ auras[u][s].caster = p THEN {s} ELSE {}]

HandleCancelAura(p, s) ==
  /\ p \in inWorld
  /\ s \in Cancellable
  /\ Remove(Cancelled(p, s))
  /\ UNCHANGED <<inWorld, spellbook, nextSlot>>

\* Expiry first, then the ticks of what is left.
TickUnitAuras ==
  LET expired(u) == {s \in DOMAIN auras[u] : Expired(auras[u][s])}
      left(u) == Without(auras[u], expired(u))
      sent(p) == UNION {SendPeriodicHealTickOnMap(w, left(p)) :
                          w \in SendAuraRemovalOnMap(shown[p], auras[p], expired(p))}
  IN /\ auras' = [u \in Unit |-> AdvancePeriodicTick(left(u))]
     /\ BroadcastPlayerAuraStatBonusOnMap([u \in Unit |-> left(u)], {p \in Player : expired(p) # {}})
     /\ \E f \in [Player -> UNION {sent(p) : p \in Player}] :
          /\ \A p \in Player : f[p] \in sent(p)
          /\ shown' = f
     /\ UNCHANGED <<inWorld, spellbook, nextSlot>>

\* Time goes on.
Pass ==
  /\ auras' = [u \in Unit |-> [s \in DOMAIN auras[u] |->
       [auras[u][s] EXCEPT !.left = IF @ > 0 THEN @ - 1 ELSE @,
                           !.next = IF @ > 0 THEN @ - 1 ELSE @]]]
  /\ UNCHANGED <<inWorld, spellbook, nextSlot, counted, raised, shown>>

AuraNext ==
  \/ \E p \in Player : HandlePlayerLogin(p) \/ FinalizeWorldExit(p) \/ ChangeKnownSpells(p)
  \/ \E p \in Player, s \in TimedSpell \cup Passive : HandleCancelAura(p, s)
  \/ \E u, t \in Unit, s \in TimedSpell : ApplySpellCastAuraOnMap(u, t, s)
  \/ TickUnitAuras
  \/ Pass

AuraSpec == AuraInit /\ [][AuraNext]_auraVars

---------------------------------------------------------------------------
\* A bonus is due for what is active and for what was known at login, from the first
\* change of the auras on: a login that applies no aura computes none.
HasBonus(p, s) ==
  /\ s \in DOMAIN GetActiveAuras(auras[p]) \cup permanent[p]
  /\ DOMAIN auras[p] \cup (permanent[p] \cap Passive) # {}

\* The bonuses of a player have every active aura once and every passive spell it knew
\* at login once, also one whose aura was cancelled, and no other spell that is not on
\* the unit.  The maximum health counts exactly the spells among them that raise it, as
\* long as one does; what the last of them gave is kept when it ends
\* (BroadcastPlayerAuraStatBonusOnMap).
BonusCountsOnce ==
  \A p \in inWorld :
    /\ \A s \in Known :
         /\ HasBonus(p, s) => counted[p][s] = 1
         /\ s \notin DOMAIN auras[p] \cup permanent[p] => counted[p][s] = 0
    /\ HealthPctBonus(counted[p]) # {} => raised[p] = HealthPctBonus(counted[p])

\* The client shows an icon only for an aura the player has, in the slot of that aura;
\* and each active aura that has its slot to itself has its icon, also when it shared
\* the slot before (slots are handed out round and round, in use or not).
ClientShowsAuras ==
  \A p \in inWorld, s \in TimedSpell :
    /\ \A k \in Slot : shown[p][k] = s => s \in DOMAIN auras[p] /\ auras[p][s].slot = k
    /\ s \in DOMAIN GetActiveAuras(auras[p])
         /\ In(auras[p], DOMAIN auras[p], auras[p][s].slot) = {s}
       => shown[p][auras[p][s].slot] = s

\* An application of an aura has ticked once, and once more for each whole period
\* that has passed since: a late ticker does not make up for what it missed.
TicksWithinDuration ==
  \A u \in Unit : \A s \in DOMAIN auras[u] \cap TimedSpell :
    LET aura == auras[u][s] IN
    aura.paid > 0 => (aura.paid - 1) * Period[s] <= Duration[s] - aura.left
=============================================================================
