# Firelands in TLA+

Firelands is a C++ server for the 4.3.4 client of World of Warcraft: an auth server
(accounts, realm list) and world servers (characters in the world). This directory holds
a model of the parts whose correctness depends on the order in which things happen. TLC
checks the models on small instances; every safety property that a run checks TLAPS proves
for every value of the constants.

Paths below are relative to `src/src/` unless they begin with `docs/` or `sql/`;
`PROJECT.json` maps every definition to the lines it models.

## 1. The system

### Processes and threads

| process | threads | shared state |
|---|---|---|
| world server (`world/WorldApplication.cpp`) | the main loop polls the `io_context`, ticks the maps and runs console commands: **every packet handler, coroutine resumption and command runs to completion on it**; a link thread runs `RunRealmLinkOutbound`; the console threads queue lines | maps, sessions, registry, ticket service: main loop only. `stopRealmLink`: an atomic of both |
| auth server (`auth/AuthApplication.cpp`) | the main loop polls auth sessions and realm-link sessions; a REST thread; console | `RealmLiveRegistry`, accounts |
| databases | `firelands_auth`, `firelands_world`, `firelands_characters` | both servers migrate and use `firelands_auth` |

So nothing interrupts a handler of the world. What is hard is everything between two
handlers: what a handler read or stored may be stale when the next runs, a connection may
end, a coroutine may be queued but not yet run, the server may stop. An action of the
models is one handler, or one coroutine up to its next `co_await`.

A failed SQL statement is caught in its repository and answered as an empty result. Code
above it can rarely tell the two apart, which is the origin of several hazards.

### Components

| component | state | operations | interacts with | hard behaviour | what must hold | module |
|---|---|---|---|---|---|---|
| World presence: `WorldSession` life cycle, `Map`, online registry, logout save | session fields (`_playerGuid`, `_position`, pending teleport, coin), object table and grid, registry, `characters` row | login, movement and acks, teleport, summon, kick, `.money`, damage, logout, close, shutdown, crash | every component of a session | a session stands in four places at once; reconnects; failing saves | the places agree; a save never loses or invents what was played; closed sessions are freed | `WorldPresence`, `CharacterContinuity` |
| GM tickets | `gm_ticket` rows | create, edit, abandon, resolve, claim, reply, close | packet handlers, `.ticket`, ticket desk | players and staff act on stale listings; failing SQL | claims, replies and closes are final; one active ticket per character | `GmTickets` |
| Ticket desk (gossip window) | `_gmTicketUi`: page, selected ticket; the window the client shows | list, page, open, claim, answer, close | GM tickets | clicks on windows that are out of date or not yet answered | a click acts on the ticket its button was drawn for | `GmTicketDesk` |
| Realm link and the online flag | outbound thread, link sessions, `RealmLiveRegistry`, bytes in flight | connect, handshake, ack, ping, disconnect, stop | realm list of the auth session | processes that die and return; two worlds of one realm; late ends of old connections | a realm is marked exactly while one session holds it; it follows its world | `RealmLink` |
| Database migrator | `schema_migrations`, effects of files, freshness | bookkeeping, init scripts, migrations, record | both servers' start | two servers on one database; stops half-way; broken files | what is recorded was executed, in order; a start completes | `DatabaseMigrator` |
| Spell casts and cooldowns | pending cast, timer, global cooldown, recoveries of spells and categories, their rows | cast, cancel, timer, complete, save, restore, `.cd` | combat, auras, logout | completions queued when a packet comes; relogs | a cancelled cast has no effect; effects are spaced by recoveries | `SpellCast` |
| Auras | auras of a unit, their slots and timers; a player's bonuses; the icons its client shows | apply, refresh, tick, expire, cancel; login, logout | casts, combat | expiry noticed late; slots that wrap; passive spells with and without an aura | every spell is counted once; icons follow auras; ticks keep their period | `UnitAuras` |
| Creature combat | aggro and returning lists and swing timer of each session, home position, the creature's target, health, position and whether it evades | swing, spell, aura, chase, attack, break off, walk home, death, logout, GM mode | map, casts, auras, logout | two sessions drive one creature, each with its own lists | the creature chases somebody who fights it; a kill is paid once; an evade ends in a reset | `CreatureCombat` |
| Quest progress | status, rewards, slots of the log, dirty flag, tables | accept, look, meet, complete, turn in, abandon, save | kills, items, logout | failing saves; unsaved changes and crashes | chains in order; what is clean is saved; the client shows the log; no reward twice | `QuestLog` |
| Inventory and items | `item_instance`, `character_inventory`, `mail`, the bag shown | create, grant, mail, swap, equip, destroy, take, save, delete the character | quests, staff commands, logout | statements that fail half-way; save against grants | no item is lost, doubled or without an instance; the client shows the bag | `Inventory` |
| Inbound stream and write queue | read buffer, both ciphers, queue of packets, writer's timer | read, decrypt, frame, dispatch, enqueue, write, close | every handler | headers without bodies; packets behind a close; a sleeping writer | headers in step with the key streams; the queue drains; both loops end | `SessionStream` |
| Character list | `characters` rows | create, delete, enumerate | inventory, presence | deletion while another session plays | no items of no one | `Inventory` (create, delete) |
| World auth, dispatcher | session key, opcode table | auth, dispatch | stream | where the ciphers start | - | `SessionStream` (outcome) |
| Staff commands, scheduled restart | permissions, countdown | parse, run, count down, cancel | everything | - | - | those that move, save, give or end are actions of the models of what they change |
| Experience and rest; visibility, phasing and object updates; spawns; time sync, breath, regeneration; chat, emotes, gossip, account data, action buttons; auth session; REST; console; Lua; collision; data stores; wire formats; other repositories; tools | - | - | - | see section 8 | - | not modelled |

The hazards of each, at the line where they bite, are in `PROJECT.json`.

## 2. How the project is laid out

Each component's module declares its constants with a named assumption, its state, one
action per handler, then its properties, each with a comment that states it. `MC*` modules
give constants a small value; `*Proofs` hold theorems. Modules were written in this order:
who is in the world comes first (`WorldPresence`), then what several processes or threads
share (`GmTickets`, `RealmLink`, `DatabaseMigrator`), then the state of a session in the
world (`SpellCast`, `CreatureCombat`, `QuestLog`, `Inventory`, `UnitAuras`) and what carries
it (`SessionStream`), last the composition `GmTicketDesk` over `GmTickets`.

There are two refinements. `CharacterContinuity` is what a player may expect of a world,
and `WorldPresence` implements it. `GmTickets` is what the ticket service promises, and the
desk, with its windows and clicks, implements it: whatever staff click, the table changes
as the service allows.

## 3. Modules

### WorldPresence, CharacterContinuity

*State.* `sock` tells a session with an open socket from one that is closed but may still
dispatch packets it has read, and from one whose loops have ended (`"ended"`); `playerGuid`,
`charName`, `position`, `pending`, `money` are the session's fields; `objects` is
`Map::m_objects` with the `Player`'s position and health; `grid` is `Map::m_grid`;
`registry` the online registry (its map by name and its map by guid are one, since a
character has both); `db` the row; `phase` tells a running process from one that is shutting
down.

*Actions.* One per handler: `HandlePlayerLogin` and its early end `LoginNotFound`,
`HandleMovement` and `MergeMovement` (a movement packet whose position is not sane keeps the
old one), speed acks, `TeleportTo`, `Summon`, `HandleMoveTeleportAck`, `DropTeleport` (an ack
that is too short, or names another mover), `GmModifyMoneyCopper`,
`ApplyHealthDelta`, `SyncMapPosition` (`.gm fly`), `HandleLogoutRequest`, `Close`,
`HandleKick`, `EndLoops`, `ResetForShutdown`, `Boot`, `Crash`. All that leave the world go
through `FinalizeWorldExit`, as in the code. No handler asks for the socket:
`ProcessInboundBuffer` goes on dispatching what it has read after `Close`, so every action
of a client, the login among them, is possible until the loops have ended (`Heard`), and
afterwards staff, damage and a shutdown still reach a character that such a late login has
put into the world. `Release` is the destructor, once the loops have ended and the last
reference (its `Player`) is gone.

*Refinement.* In `CharacterContinuity` entering and leaving change nothing, leaving stores
what was played, a crash falls back to what was stored, an orderly shutdown only to the
stored health. `CharacterSurvives` maps a character to what its session holds (a pending
teleport counts as the place it goes to), or to its row.

*Assumed of the environment.* A client logs in from the character list only; it never sends
the exact origin as its position (both also of packets behind one that closes); health stays
within the baseline maximum; sessions are authenticated; there is one map (no code moves a
character to another). `money` stands for every column the save copies from the session
(experience, rest, tutorial), `health` for those it reads from the `Player`. `ExclusiveLogin
= FALSE` lets a player come back while the old session is still alive; `DbMayFail` lets any
statement on the row fail.

### GmTickets, GmTicketDesk

*GmTickets.* The table as a function from ids to rows, and the counter of ids. *Actions*
are the seven operations of `GmTicketService`, each with the guard of its SQL `WHERE`
clause. A failing write may fail before or after it took effect (`WriteMayFail`), a failing
read answers "no ticket" (`ReadMayFail`). `PlayerNext` and `StaffNext` are the packet
handlers and `.ticket`; any of these may name any ticket at any time: every listing is as
stale as it can be. A text is one of a small set, so that an edit or a second reply is
visible. The time stamp of the queue (`_lastQueueChange`) is left out.

*GmTicketDesk* adds the gossip windows of staff: what the server remembers of the window
(`ui`), what the client shows (`shown`) and the clicks on their way (`clicks`). A click
carries the number of a row, no ticket id; the server looks it up in `_gmTicketUi`, and
answers with a new window. A window is shown as soon as it is sent: packets to a client
keep their order, and a client that has clicked shows no other window before the answer.
`ClickActsOnItsTicket` is about clicks made with nothing under way. An impatient second
click, made before the first was answered, acts on the window still on its way and may
claim, answer or close another ticket than its button said; the model has such clicks, and
the property excuses them. `_gmTicketUi` is kept across a logout. SELECTs that fail read as
an empty listing.

### RealmLink

*State.* The thread of each world (`thread`, `stop`, `current`), the auth server's end of
each connection, the handshake and the ack on the wire, and `RealmLiveRegistry`. The
handshake arrives in pieces, so that a session can see part of it. A dead client end leaves
a server end that has not noticed yet; that is why a world needs more than one connection
slot. *Actions* are the steps of `RunRealmLinkOutbound` and `OutboundLinkSession` on one
side, `RealmLinkSession::ReadLoop` on the other, and starts, stops and kills of both.
Pings carry nothing and are left out; that a connection reports its peer's end sooner or
later is assumed (a host that vanishes without closing, and an auth server that accepts and
never answers, are not in the model: neither end has a timeout for them,
`RealmLinkSession.cpp:134`, `RealmLinkOutbound.cpp:73`).

### DatabaseMigrator

*State.* Recorded rows, how many statements of each file took effect, which databases have a
table, and where each server is in `MigrateForRole`. *Actions:* create the bookkeeping
table, inspect a database (freshness decides whether init scripts go first), skip or open a
file, execute one statement, abandon it, finish and record, go on. A query may fail
(`Fault`), up to `MaxFaults` times, and is then answered as its repository answers
(`Answers`). `Exit` stops a server anywhere. A file that was not recorded is executed again,
over what is in effect. The migrator forgives errors 1050, 1060 and 1061 only
(`DatabaseMigrator.cpp:273`): a table, column or key that exists. Any other statement that
cannot be repeated, a plain `INSERT` or a `DROP COLUMN`, is in `OnceOnly`; while it is in
effect it is `Rejected`, and its file is not recorded. `Rebuilding` are the files that drop
and create their table before they fill it, so that they can be repeated all the same: 71,
the one file of `sql/migrations` at present, does so, and no server but the world's runs it.
How a file is split and which database it is for are constants (`Statements`, `TargetOf`);
order is by number and then name, as `CollectMigrationSqlPaths` sorts. Assumed: `sql/` and
the databases exist. At present no file of `sql/migrations` is for the auth database; the
instance has two, so that servers can race.

### SpellCast

*State.* `now` in ticks, the cooldowns, their saved rows, the pending cast, the timer, and
per cast where its coroutine is: scheduled, waiting, woken or ended. *Actions:* cast (with
or without a cast time), cancel, logout, login, `.cd`; the coroutine's start of its wait,
expiry and completion; `Tick`. A packet may be handled while a coroutine is scheduled or
woken, when cancelling the timer reaches nobody; the history variable `raced` records that
it happened, and `lastEffect` when each spell last took effect. Left out: targets, range and
power (a refused cast changes nothing), what an effect does, and a crash (cooldowns are
written at logout only).

### UnitAuras

*State.* `auras` is `m_auras` of every unit, by spell, with what is left of each and until
its next tick; `nextSlot` the counter of icon slots; `known` the passive spells a player
knows and `permanent` the copy of them its `Player` took at login
(`m_permanentPassiveSpellIds`); `counted` how often each spell is in the bonuses of a
player, `raised` the spells its maximum health was last computed from; `shown` the icons of
a player on its own client. *Actions:* `ApplySpellCastAuraOnMap` (new or refreshed, from a
player or a creature), `TickUnitAuras` (expiry first, then ticks), `HandleCancelAura`, login
with its passive auras, logout, `ChangeKnownSpells` (`.learn`, `.unlearn`, a new level, a
list read anew at login: any set of the `Learnable` spells), and `Pass` for time. Bonuses
are computed from nothing at every change (`BroadcastPlayerAuraStatBonusOnMap`), of the
active auras and the permanent spells; `ApplyPassiveHealthPctBonus` returns without effect
when nothing raises the maximum health, which then stays. A login that applies no aura
computes no bonuses. The ticker may come as late as it likes. An aura is keyed by its spell,
so a second caster's replaces the first's. Slots go round and round, in use or not: after 64
auras two may share one, and the client shows the one it was sent last. Left out: what
bonuses amount to, spells that lower the maximum health, direct effects, phase auras, other
clients.

### CreatureCombat

*State.* One creature: `at`, `health`, `evading`, chase `target`; `awarded` (kill paid), its
periodic aura `dot`; of each player `inWorld`, `place`, `alive`, `gmMode`; of each session
`aggro` (the home it recorded), `returning`, `armed` (its timer) and `swinging`. `grants`
and `risen` are history: how often the kill was paid, and whether a spell has healed the
corpse. *Actions* are the handlers (swing, stop, spell, heal, movement, GM mode, revive,
exit), the timers of a session (`ProcessMeleeAutoAttackTick`,
`ProcessCreatureCombatMovementTick` with chase, attack, leash and walk home) and the map's
aura ticker. Places are points of a line, health and damage are points.
`TickMapCreatureProximityAggro` is not modelled: nothing calls it. Fights between players
are left out.

### QuestLog

*State.* Per session the store (`PlayerQuestProgressStore`: status, rewards, slot of each
quest, dirty flag) and the log lines its client shows; the two tables. *Actions:* login and
logout (`FinalizeWorldExit`, whose save is forced), `MeetNpc` (a gossip that completes the
quests whose objective it is), `HandleQuestGiverQueryQuest` (looking at an auto-accept quest
takes it, unsaved), `HandleQuestGiverAcceptQuest`, `HandleQuestGiverChooseReward`,
`HandleQuestLogRemoveQuest`, and `Crash`. A save writes the whole store in one transaction
and may fail. Conditions on class, race and level are taken as met; an objective is one
step.

### Inventory

*State.* `db` is the tables `item_instance`, `character_inventory` and `mail`; `life` which
characters exist, `online` who plays, `shown` the bag a client shows; `ledger` and
`failures` are history: what was created and taken, and how many statements were rejected.
*Actions:* `HandleCharCreate` with the starter items, `HandleCharDelete` in its three
statements, login, `FinalizeWorldExit` with the save of the inventory, `HandleSwapInvItem`,
`HandleAutoEquipItem`, `HandleAutoEquipItemSlot`, `HandleDestroyItem`, `GmAddItem` (to the
backpack, or by mail when it is full), `GmRemoveItem`, `Crash`. Every operation is a
sequence of statements, any of which may be rejected, up to `MaxFailures` times; a read is
assumed to work. Items differ by entry and count.

### SessionStream

*State.* The parts of packets on the wire, the read buffer, the pending header, the position
of each end in both key streams (the cipher is its position), the queue with packets ciphered
when queued, the two loops. *Actions:* reads of any number of parts, framing and dispatch,
`QueueOutgoing` from this session and from others (`Broadcast`), the writer's batches,
failures, close, `RequestDisconnect` (a kick), and a client that waits for answers, says
goodbye or is lost.

## 4. Runs

A run asks one question of a component. Each of its properties has a mutant in
`PROJECT.json`: a definition changed as a slip in that code would change it (a guard
dropped, a reset forgotten, an order swapped), under which TLC finds the property violated
on the same instance. That is what shows the bounds are large enough for the property to
mean something. What the table calls states are distinct states.

| run | what it shows | bounds | states |
|---|---|---|---|
| `tickets` | claims and closes are final, replies come from the assignee, one active ticket per character, and a click of a patient staff member acts on its ticket, with failing writes | two players, two staff of whom one is at the desk, two tickets, one to a page, two clicks in flight; characters symmetric | 1,506,537 |
| `presence` | map, grid, registry and session agree; a character survives what a session does to it; positions stay sane; a closed session is freed, unless a login came behind its close | two characters, two sessions, three places in two cells; one character plain (`PlainSecond`) | 126,912 |
| `presence_reconnect` | with reconnects and failing SQL, the registry still names players of the map, and the old session's end does not touch its successor | one character, two sessions on it | 428,330 |
| `realm_link` | one session holds a realm's claim; the flag follows the world down and up; stop ends the thread | two worlds of one realm, one with room for a second connection while auth still holds its first | 8,422 |
| `migrator` | what is recorded was executed; migrations take hold in order, init first; a start that finishes leaves everything in effect, and one that is not killed finishes | two servers, two databases with one init script (for the list) and two migrations each; a broken file, one that cannot be repeated, one that rebuilds its table; two failing calls, two statements to a file | 262,607 |
| `spell_cast` | effects of a spell and its category are spaced by the recoveries, through relogs; a cast ends | three spells, of which two share a category; two slow casts, five ticks | 122,240 |
| `creature_combat` | the target fights; a kill is paid once; an evade ends in a reset; fights end | two players (one with GM mode), two places, two hits, one aura tick | 134,208 |
| `quest_log` | the client shows the log; clean is saved; chains in order; no reward twice | four quests, two slots, three failing saves | 11,099 |
| `inventory` | items in bags and mail have instances; nothing is lost or doubled; the client shows the bag | two characters, two equipment and two backpack slots, four items, one rejected statement | 505,447 |
| `inventory_mail` | *violated*: see section 5 | one character, working database | - |
| `session_stream` | headers are decrypted in step; only a late login outlives the close; the queue drains; loops end | four requests, one packet of another session | 112,707 |
| `unit_auras` | bonuses count each active aura and each passive spell known at login once, and maximum health those of them that raise it; the client shows the auras; ticks lie within the duration, a period apart | one player, one creature (`OneOnTheWolf`), two icons for three auras, one passive spell that is learned and forgotten | 168,984 |

*Why these bounds.* Every race in these components is between two parties: two sessions, two
staff members, two servers, or an old and a new connection of one. Two of each is where
they occur; where only one can matter (one creature, one player's icons) there is one. The
counts that bound a log, a page, a leash, a duration or an icon counter are chosen so that
the limit is met and passed. Two quests of the four form a chain, one is taken by
looking at it and one completes by itself, so that the instance has each path once. Two
sessions on one character are in `presence_reconnect` and `creature_combat`, and
left out of the quest and inventory runs, where the code has no defence at all (section 5).

*Constraints and symmetry.* There are two state constraints. `PlainSecond` (`presence`): the
second character is there to take over sessions, not to repeat the first one's coin, wounds
and travels, so its row and its `Player` stay at one place. `OneOnTheWolf` (`unit_auras`):
the creature, which has neither bonuses nor a client, has one aura at a time. Liveness under
the first holds of the states it leaves, since what it cuts is where a
player takes a step that nothing obliges him to take. Symmetry is over characters and used
in runs without liveness properties.

*Deadlock* is checked except where the system stops: `spell_cast` ends at its last tick,
`session_stream` when the session is over, and both inventory runs when every character is
deleted.

*Fairness.* Only what code or run-time guarantee: the loops of a closed socket end
(`EndLoops`), the destructor of a session nobody refers to runs (`Release`,
`DestroySession`); the started link thread of a world and the polled
link sessions of auth (`ThreadStep`, `SessionStep`, which include that a socket reports its
peer's end); a migrator that is not killed goes on (`MigrateForRole`); the timers of casts
run out and their coroutines run (`Wakeup`, `Tick`); the combat timer of each session,
which the io_context fires; the read and write loops of a stream. Never that a client sends
anything, that staff act, or that a query works.

*In no run, because proved* (section 6): the type invariant of every module,
`FoundInItsCell`, `GridExact`, `MoneyMirrorsDb`, `SavedPlaceIsReal`, `ClosedIsFree`,
`PendingIsInFlight`, `OnlyPendingCompletes`, `LinkIsExclusive`, `AckIsComing`,
`NextFileIsDecided`, `AssignmentMatchesStatus`, `ReplyIsFinal`, `ListsAreServed`,
`NobodySleepsOnWork`, `ItemsOnlyShrink` and `MailIsLostAtExit`.

## 5. Findings, and differences met while modelling

**`inventory_mail`.** An item that does not fit into the backpack is mailed
(`.additem`, `CharacterService.h:302`), as `WorldSessionGmCommands.cpp:389` tells the staff
member. The next save of the inventory deletes
every instance of the owner that is in no slot (`MySqlCharacterRepository.cpp:368`), and the
mail with it points to nothing: the item is gone. `MailIsKept` is the promise, and TLC
breaks it in a grant, a grant to a full backpack and a logout. What is proved bounds it:
nothing but the save or the deletion of its receiver loses a mailed item
(`MailIsLostAtExit`).

The following has no run. Part is outside the properties' reach, part is left out of
instances so that the properties are about the rest.

*Presence.* When a player comes back before the old session is gone, `Map::AddObject`
(`Map.cpp:25`) overwrites the entry of the object table and the older `Player` stays in its
grid cell, holding its session, which is then never destroyed (`WorldSession.h:542` says it
is). A failed lookup at login goes on with default values, which the logout saves over the
row (`WorldSessionLoginFlow.cpp:88`, against the comment at 319). A login read behind a packet
that closes is carried out (`WorldSessionNetwork.cpp:219`): the character is in the world
without a connection, and its session is released only after a kick.
`ClosedIsReleased` excepts exactly this session; the registry, the map and the row agree on
it as on any other.

*Tickets.* A failed SELECT makes `CreateTicket` (`GmTicketService.cpp:37`) open a second
active ticket (`docs/EN/modules/gm-tickets.md:49` says one). The instance has reads that
work. `npc_text` ids of the desk's list and main windows are fixed and cached by the client
(`GmTicketGossipUi.h:16`); only those of single tickets differ.

*Realm link.* The pause before reconnecting is skipped after a connection that was lost
(`RealmLinkOutbound.cpp:77`, `:157`).

*Migrator.* An empty auth database never gets `auth_schema.sql`
(`DatabaseMigrator.cpp:158`; `docs/EN/modules/executables.md:8`). The order is by number, not
lexicographic (`docs/EN/modules/tools-sql-build.md:13`). The world server migrates
`firelands_auth` too, and two servers may both execute a migration. Where a stop or such a
race makes a server meet statements that cannot be repeated, the file stays in effect, is
recorded by nobody and is run in vain at every start, while the files after it go on;
`CompleteAtFinish` and `MigrationsInOrder` therefore promise the effect of every sound file
and its row only where it can be repeated (`Settled`). 71, the migration of today,
is not in that position, since it rebuilds its table. It shows another thing: when
the lookup of its row fails, it is executed again with its `DROP`, and a stop then leaves it
recorded and half in effect (`RecordedIsApplied` excepts it once a call has failed).

*Spells.* A packet that overtakes a queued completion finds the timer already expired;
cancelling it does nothing, the pending record is what stops the effect.

*Combat.* The kill by a periodic aura whose caster has left calls no
`FinalizeCreatureDeath`: no loot, no experience. Heals are not refused on creatures and
corpses. `Creature.h:71` ("immune to player damage" while evading) is contradicted by
periodic ticks. Logging out or turning on GM mode in the middle of a walk home leaves the
creature evading and nobody walking it (`WorldSessionCombat.cpp:684`), as does a damage spell
on a returning one (`:692`). Home is where the creature was pulled, not its spawn, and two
sessions may have recorded two homes. A corpse on a returning list is reset alive by
`StopAllCreatureCombat`.

*Quests.* A failed SELECT at login reads as an empty log, which the forced save at logout
makes true. The forced save of a cut-off session overwrites what a newer one saved
(`WorldSessionLifecycle.cpp:68`). Phases are not refreshed after a quest is taken by looking
at it or dropped (`docs/EN/modules/gossip-npc-text.md:145`). A save whose rollback fails
leaves autocommit off. `EvaluateQuestAccept` accepts a failed quest and `PlayerMayTake` does
not; nothing writes that status. A quest with both auto-accept and auto-complete is granted
and rewarded unsaved (`WorldSessionGossip.cpp:400`, `:556`) and could be turned in twice
around a crash: the instance has the flags on two quests.

*Inventory.* `sql/init/characters_schema.sql:124` creates the mail columns in camel case and
the code writes them in snake case (`MySqlCharacterRepository.cpp:319`): on a database made
by that script every mail fails and leaves an instance of its own. Destroying a part of a
stack and `.delitem` never update the count on the client. The save re-creates instances
without charges and durability. A failed SELECT at logout empties the bag. Swapping answers
nothing when it fails. Equipping checks no type on one path. An item granted to a character
deleted meanwhile belongs to nobody. No code takes an item out of the mail.

*Stream.* The reason of `.kick` never reaches its client, since the socket closes before the
writer runs. Nothing ends a silent client's connection. A login whose character is
put into the world after the connection ended leaves a session that only the kick or a stop
ends (`OnlyLateLoginStays` is about exactly this one).

*Auras.* A spell has one aura on a unit; a second caster's replaces the first's. The slot
counter goes round after 64 and reuses slots in use, so two auras show as one. A refresh
ticks at once; the tick due at expiry is lost. `ApplyPassiveHealthPctBonus` returns early
when there is no bonus (`Player.cpp:118`), so the maximum that the last health aura gave
stays when it ends. A passive spell learned by command or level counts from the next login
on, and one that is unlearned counts until then (`WorldSessionGmCommands.cpp:104`); a
character whose passive spells apply no aura has no bonus of theirs before its first aura
changes (`WorldSessionSpellEffects.cpp:396`). `BonusCountsOnce` is stated of what this
leaves. A periodic heal raises a dead player. Auras of a login are sent before the client
has its player.

## 6. Proofs

`PROJECT.json` lists the theorems; each `*Proofs` module says at its top what it proves and
how. Every proof is of the specification for all values of the constants that satisfy the
module's named assumption. Each safety argument is an inductive invariant, given and
commented in its module:

| module | proved | the invariant |
|---|---|---|
| `GmTicketsProofs` | all properties of the service (`OneActive` where reads do not fail); the desk implements the service; patient clicks act on their tickets | service (`IInv`): types, who may be the assignee of a row in which status, replies belong to assignees; that a closed or claimed row stays so needs that every operation is one of five updates (`RowUpdate`). Desk (`DeskInv`): what the server holds of a window matches what the client shows or is about to show, and only the first click in flight may be a patient one; a click under an older window would act on another row otherwise |
| `WorldPresenceProofs` | types, every object is found in its cell, the registry, `PresenceAgrees`, coin mirrored and places saved real, sane positions, successors keep their entry, closed sessions are held by nothing, and the refinement of `CharacterContinuity` | `Faithful`: types, registry, cells, one session per character, coin equal to the row, idle sessions clean. `GridExact` and `ClosedIsFree` assume `ExclusiveLogin`, `SavedPlaceIsReal` a database that works, `PresenceAgrees`, the coin and the refinement both; the others assume neither. None of them asks whether a session's socket is open |
| `ServerProofs` (`DatabaseMigrator`, `RealmLink`) | migrations: types, what is recorded was applied, migrations in order, complete at the end, init scripts first (where one server migrates each database but auth's: `OneMigrator`), exactly one file comes next. Link: types, one claim per realm, links exclusive, an awaited ack is coming | `InsideFile`: a server inside a file none of whose statements failed has made all up to its place take effect; so it has, failures or not, while no call failed and the file is not broken, for what is rejected then was in effect already. Others cannot disturb that: only a file that rebuilds undoes anything, and `OwnFiles` with the assumption on such files gives it one server. `Behind`, `Orderly`: as long as no call failed, every sound file it has passed is settled, which others only add to (`SettledStays`). `InitFirst`: a database a server has yet to run the init scripts of has no tables. `OneDatabase`: the files ahead are of one database, so that numbers and names tell them apart; that one is first is the principle of the least number. Claims are inductive with the types. `LinkShape`: which connection a thread can hold, and what its other end can be in while an ack is on the wire or has been read; `Answering`: a session that reads has something to read, and the ack of one that has answered a waiting thread is on the wire |
| `SpellProofs` (`SpellCast`, `UnitAuras`) | casts: types, a pending cast has a coroutine, only it completes, effects are spaced. Auras: types, bonuses count a spell once and raise maximum health by what they count, icons follow auras, ticks fit in the duration | `Rested`, `GroupRested`: since its last effect a spell (category) has a recovery that covers the gap, in memory or in its row; `OnePending`. `AuraIInv`: of an aura that is not over, the time to its next tick makes up for the period its last one began; bonuses, with the maximum health as long as something raises it, are those of the auras and the permanent spells of a player in the world, icons those of its auras. The ticker's pass is taken unit by unit |
| `CreatureCombatProofs` | types, the target fights, a kill is paid once, an evade ends in a reset, lists are served | types, `PaidOnce` (what was paid is what `awarded` says), a running aura has a caster, and `TargetIsFighting` itself; `ListsAreServed` is inductive on top of them |
| `QuestLogProofs` | types, chains, clean is saved, the client shows the log, completed once | `Sound`: types and `Ordered`, of memory and of tables. `ShownInv`: every quest in hand has one slot and no slot is stale, and what is saved fits in the slots, for it was in them when it was saved. `OnceInv`: what has been turned in is among the rewarded of store and tables, where it cannot be in hand as well. `CleanSaved` and `CompletedOnce` assume one session at a time on the character, `CompletedOnce` also that no quest is both taken by looking at it and completing itself (such a quest would not be saved before a crash) |
| `InventoryProofs` | types, rows of bags have their items, stacks add up, the client shows the bag; items only shrink, and only their receiver's exit takes them out of the mail | `IInv`: the tables are sound (`Backed`: every row of a bag has an item of that owner that lies nowhere else; `Fresh`: ids to come are used nowhere), who plays exists, `Reported`, `Shows`. An operation is a sequence of statements, so each operation of the repository has a lemma: wherever it stops, the tables are sound, other bags are untouched, and its own holds this much more or less. What a bag holds is a sum over its slots and a removal is a loop: that both recursive functions exist is shown by counting up a set of numbers, without an induction theorem. `MailOwned`: mail carries what is its receiver's |
| `SessionStreamProofs` | types, headers in step, only a late login stays, no wake-up is lost | `Framed`: what is buffered, arrived and on the wire is one run of whole packets, and their headers take the positions of the key stream in turn (`InStep`); `Phase`: who has switched the ciphers on; `OutputOK`: the same for the packets back; `EndedOK`, `Sleeping`: a loop that ended has closed the session, and a writer sleeps on an empty queue only |

*Argument.* For each: the initial state satisfies the invariant; every action preserves it,
one step of the proof per action; the invariant implies the property. Action properties and
both refinements follow from the invariant and one case per action.

*Safety behind liveness.* Fairness makes an enabled step happen; that a step which is waited
for is enabled is a safety property, and proved where the code waits: a fight by
`ListsAreServed`, the writer by `NobodySleepsOnWork`, a world for its ack by `AckIsComing`, a
start by `NextFileIsDecided`, the destructor of a session by `ClosedIsFree`.

*Only model-checked.* The liveness properties themselves (`ClosedIsReleased`,
`DeadRealmGoesOffline`, `ServingRealmComesOnline`, `StopEndsThread`, `StartupEnds`,
`CastEnds`, `FightsAreSettled`, `QueueDrains`, `LoopsEnd`), which are out of the prover's
reach. Every other property of a passing run is stated by a theorem.

## 7. Running

```
tlc -workers 2 -config GmTickets.cfg MCGmTickets.tla     # and so on, see PROJECT.json "runs"
tlapm GmTicketsProofs.tla                                # and the other *Proofs modules
```

A run takes up to two minutes on two cores.

## 8. Not modelled

| part | why |
|---|---|
| experience, rest | arithmetic of one session on values read at login; the save of it is part of what coin stands for in `WorldPresence`. If `UpdateCharacterLevelAndXp` fails, rest is spent and the experience lost (`WorldSessionExperience.cpp:53`) |
| visibility, phasing, object updates | worked out at login, at changes of phase and of GM mode from distances and phase sets that are data; movement never refreshes it |
| spawns | created at start, never again |
| time sync, breath, regeneration | timers of one session; they change health, which `WorldPresence` changes by any amount |
| parsing and permissions of staff commands, countdown of a restart | the commands that move, save, give or end something are actions; the rest is text, and one deadline polled by the loop |
| chat, emotes, gossip, account data, action buttons | one packet and its answer, rows written and read back |
| auth session | three packets in a sequence over SRP6 arithmetic; its list's flag is in `RealmLink` |
| REST | a map of tokens under one lock |
| console, Lua | lines put into the main loop; scripts that are not part of the repository |
| collision, paths | geometry over floating-point data |
| data stores, formats, cryptography, configuration, logging | read once, or without state |
| other repositories | single statements; a failing one reads as empty, as in those modelled |
| tools | menus and converters outside the servers |

Hazards left for want of a property: the destructor of a session entering `Map` while its
lock is held (`Map.cpp:35`; locks are not in the model), an auth server that accepts and never
answers (`RealmLinkOutbound.cpp:73`), a host that vanishes (`RealmLinkSession.cpp:134`), both
of which have no timeout to model, a crash between the init scripts of a database
(`DatabaseMigrator.cpp:165`), cooldowns written at logout only
(`MySqlCharacterRepository.cpp:1301`), and a client that logs in twice
(`WorldSessionLoginFlow.cpp:84`), which an honest one does not.
