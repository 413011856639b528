------------------------------- MODULE QuestLog -------------------------------
(***************************************************************************)
(* The quests of one character: the store a session keeps of them in memory  *)
(* (PlayerQuestProgressStore), the two tables it is saved to, and the log     *)
(* window of the client, which the server fills slot by slot.  A save writes   *)
(* the whole store in one transaction: at each change that is marked dirty,    *)
(* and once more at logout.  A change may be left dirty (a quest taken by      *)
(* looking at it), a save may fail, and the server may crash.                  *)
(*                                                                            *)
(* Every packet is handled in one step.  Quests stand for those whose class,   *)
(* race and level conditions the character meets.                             *)
(***************************************************************************)
EXTENDS Integers, FiniteSetsExt, SequencesExt

CONSTANTS
  Session,
  Quest, Npc,
  Giver, Ender,    \* creature_queststarter and creature_questender
  Previous,        \* PrevQuestId: the quest that comes before, and its sign
  NoQuest,
  AutoAccept, AutoComplete,  \* quests with these flags
  Meets,           \* QuestCompletesOnMeetNpc at their ender
  Slots,           \* kMaxQuestLogSlots
  MaxFailures      \* bound: how many saves raise SQLException

ASSUME QuestAssumption ==
  /\ Giver \in [Quest -> Npc] /\ Ender \in [Quest -> Npc]
  /\ IsFiniteSet(Quest) /\ NoQuest \notin Quest
  /\ Previous \in [Quest -> [quest : Quest \cup {NoQuest}, rewarded : BOOLEAN]]
  /\ AutoAccept \subseteq Quest /\ AutoComplete \subseteq Quest
  /\ Meets \subseteq Quest \ AutoComplete
  /\ Slots \in Nat \ {0}
  /\ MaxFailures \in Nat

Slot == 1 .. Slots
Status == {"none", "incomplete", "complete"}

VARIABLES
  inWorld,
  log,      \* of each session: its store, dirty flag and what its client shows
  db,       \* character_queststatus and character_queststatus_rewarded
  turnIns,  \* history: how often each quest has been completed for good, up to two
  failures  \* history: the saves that failed

vars == <<inWorld, log, db, turnIns, failures>>

Line == [quest : Quest \cup {NoQuest}, done : BOOLEAN]
BlankLine == [quest |-> NoQuest, done |-> FALSE]
Blank == [i \in Slot |-> BlankLine]

Snapshot == [status : [Quest -> Status], rewarded : SUBSET Quest]
Fresh == [status |-> [q \in Quest |-> "none"], rewarded |-> {}]
Active(snapshot) == {q \in Quest : snapshot.status[q] # "none"}

Log == [status : [Quest -> Status], rewarded : SUBSET Quest,
        slots : [Slot -> Quest \cup {NoQuest}], dirty : BOOLEAN,
        shown : [Slot -> Line]]
EmptyLog == [status |-> Fresh.status, rewarded |-> {},
             slots |-> [i \in Slot |-> NoQuest], dirty |-> FALSE, shown |-> Blank]

TypeOK ==
  /\ inWorld \in [Session -> BOOLEAN]
  /\ log \in [Session -> Log]
  /\ db \in Snapshot
  /\ turnIns \in [Quest -> 0 .. 2]
  /\ failures \in 0 .. MaxFailures

Init ==
  /\ inWorld = [s \in Session |-> FALSE]
  /\ log = [s \in Session |-> EmptyLog]
  /\ db = Fresh
  /\ turnIns = [q \in Quest |-> 0]
  /\ failures = 0

---------------------------------------------------------------------------
\* The store.
SlotOf(l, q) == {i \in Slot : l.slots[i] = q}
FreeSlot(l) == {i \in Slot : l.slots[i] = NoQuest}
ClearQuestLogSlot(l, q) == [i \in Slot |-> IF l.slots[i] = q THEN NoQuest ELSE l.slots[i]]

\* An active quest gets the first free slot, if it has none and there is one.
SetQuestStatus(l, q, st) ==
  IF st = "none" THEN [l EXCEPT !.status[q] = st, !.slots = ClearQuestLogSlot(l, q)]
  ELSE IF SlotOf(l, q) # {} \/ FreeSlot(l) = {} THEN [l EXCEPT !.status[q] = st]
  ELSE [l EXCEPT !.status[q] = st, !.slots[Min(FreeSlot(l))] = q]

SetQuestRewarded(l, q) ==
  [l EXCEPT !.rewarded = @ \cup {q}, !.status[q] = "none",
            !.slots = ClearQuestLogSlot(l, q)]

LineOf(l, i) ==
  IF l.slots[i] = NoQuest THEN BlankLine
  ELSE [quest |-> l.slots[i], done |-> l.status[l.slots[i]] = "complete"]

SendPlayerQuestLogSlotWire(l, q) ==
  [l EXCEPT !.shown = [i \in Slot |-> IF i \in SlotOf(l, q) THEN LineOf(l, i) ELSE @[i]]]

\* The lines of the slots in places.
ClearPlayerQuestLogSlotWire(l, places) ==
  [l EXCEPT !.shown = [i \in Slot |-> IF i \in places THEN BlankLine ELSE @[i]]]

MarkQuestProgressDirty(l) == [l EXCEPT !.dirty = TRUE]

\* LoadSnapshot hands out slots in the order of a hash table: any order.
LoadSnapshot(snapshot) ==
  {[EmptyLog EXCEPT !.status = snapshot.status, !.rewarded = snapshot.rewarded,
                    !.slots = [i \in Slot |-> IF i <= Len(order) THEN order[i] ELSE NoQuest]] :
     order \in SetToSeqs(Active(snapshot))}

---------------------------------------------------------------------------
\* Conditions.
SatisfyQuestPreviousQuest(l, q) ==
  LET p == Previous[q] IN
  \/ p.quest = NoQuest
  \/ p.rewarded /\ p.quest \in l.rewarded
  \/ ~p.rewarded /\ l.status[p.quest] = "incomplete"

EvaluateQuestAccept(l, q) ==
  CASE q \in l.rewarded -> "already rewarded"
    [] q \notin l.rewarded /\ l.status[q] # "none" -> "already on quest"
    [] OTHER -> IF SatisfyQuestPreviousQuest(l, q) THEN "accepted"
                ELSE "prerequisites not met"

---------------------------------------------------------------------------
\* What a handler works on.  It may save more than once; each save may fail.
Outcome == IF failures < MaxFailures THEN BOOLEAN ELSE {TRUE}
Work(s) == [log |-> log[s], db |-> db, turnIns |-> turnIns, failures |-> failures]

TurnIn(w, q) == [w EXCEPT !.turnIns[q] = IF @ < 2 THEN @ + 1 ELSE @]

\* MUTANT: a save writes the quests in hand only.
SaveForCharacter_ActiveOnly(w) ==
  [w EXCEPT !.db.status = w.log.status, !.log.dirty = FALSE]

SaveForCharacter(w) ==
  [w EXCEPT !.db = [status |-> w.log.status, rewarded |-> w.log.rewarded],
            !.log.dirty = FALSE]

\* MUTANT: a failed save is not tried again.
PersistQuestProgress_Forgets(w, force, works) ==
  IF ~force /\ ~w.log.dirty THEN w
  ELSE IF works \/ w.failures = MaxFailures THEN SaveForCharacter(w)
  ELSE [w EXCEPT !.failures = @ + 1, !.log.dirty = FALSE]

\* A transaction that fails is rolled back, and leaves the store dirty.
PersistQuestProgress(w, force, works) ==
  IF ~force /\ ~w.log.dirty THEN w
  ELSE IF works \/ w.failures = MaxFailures THEN SaveForCharacter(w)
  ELSE [w EXCEPT !.failures = @ + 1]

MetAt(l, n) == {q \in Meets : Ender[q] = n /\ l.status[q] = "incomplete"}

\* The loop over them, as a whole: each has its slot already, so none is handed out.
Complete(l, met) ==
  LET done == [l EXCEPT !.status = [q \in Quest |-> IF q \in met THEN "complete" ELSE @[q]]]
  IN [MarkQuestProgressDirty(done) EXCEPT
        !.shown = [i \in Slot |-> IF l.slots[i] \in met THEN LineOf(done, i) ELSE @[i]]]

TryProgressMeetQuests(w, n, works) ==
  LET met == MetAt(w.log, n) IN
  IF met = {} THEN w
  ELSE PersistQuestProgress([w EXCEPT !.log = Complete(w.log, met)], FALSE, works)

\* A quest that completes itself passes through the log and is rewarded at once.
\* The marker of the giver is sent last, which counts as meeting it.
TryGrantQuest(w, q, persist, saves, met) ==
  IF EvaluateQuestAccept(w.log, q) # "accepted" \/ FreeSlot(w.log) = {} THEN w
  ELSE LET log1 == IF q \in AutoComplete THEN SetQuestRewarded(w.log, q)
                   ELSE SendPlayerQuestLogSlotWire(SetQuestStatus(w.log, q, "incomplete"), q)
           took == [w EXCEPT !.log = MarkQuestProgressDirty(log1)]
           granted == IF q \in AutoComplete THEN TurnIn(took, q) ELSE took
           saved == IF persist THEN PersistQuestProgress(granted, FALSE, saves) ELSE granted
       IN TryProgressMeetQuests(saved, Giver[q], met)

\* MUTANT: the slot is looked up after the store has cleared it.
TryRewardQuest_SlotLost(w, q, saves, met) ==
  LET log1 == SetQuestRewarded(w.log, q)
      log2 == ClearPlayerQuestLogSlotWire(log1, SlotOf(log1, q))
      granted == [TurnIn(w, q) EXCEPT !.log = MarkQuestProgressDirty(log2)]
  IN TryProgressMeetQuests(PersistQuestProgress(granted, FALSE, saves), Ender[q], met)

\* MUTANT: the reward waits for the save at logout.
TryRewardQuest_NotSaved(w, q, saves, met) ==
  LET log1 == ClearPlayerQuestLogSlotWire(SetQuestRewarded(w.log, q), SlotOf(w.log, q))
      granted == [TurnIn(w, q) EXCEPT !.log = MarkQuestProgressDirty(log1)]
  IN granted

TryRewardQuest(w, q, saves, met) ==
  LET log1 == ClearPlayerQuestLogSlotWire(SetQuestRewarded(w.log, q), SlotOf(w.log, q))
      granted == [TurnIn(w, q) EXCEPT !.log = MarkQuestProgressDirty(log1)]
  IN TryProgressMeetQuests(PersistQuestProgress(granted, FALSE, saves), Ender[q], met)

Commit(s, w) ==
  /\ log' = [log EXCEPT ![s] = w.log]
  /\ db' = w.db
  /\ turnIns' = w.turnIns
  /\ failures' = w.failures
  /\ UNCHANGED inWorld

---------------------------------------------------------------------------
\* Hello, the marker, the reward page: to look at a creature is to meet it.
MeetNpc(s, n) ==
  /\ inWorld[s]
  /\ \E met \in Outcome : Commit(s, TryProgressMeetQuests(Work(s), n, met))

\* To look at a quest with auto-accept takes it, and leaves it unsaved.
HandleQuestGiverQueryQuest(s, q, n) ==
  /\ inWorld[s]
  /\ \E met \in Outcome :
       \/ n = Ender[q] /\ Commit(s, TryProgressMeetQuests(Work(s), n, met))
       \/ /\ n = Giver[q] /\ n # Ender[q] /\ q \in AutoAccept
          /\ Commit(s, TryGrantQuest(Work(s), q, FALSE, TRUE, met))

\* A quest already in hand is shown again and, if need be, saved.
HandleQuestGiverAcceptQuest(s, q) ==
  /\ inWorld[s]
  /\ \E saves, met \in Outcome :
       LET w == Work(s)
           again == PersistQuestProgress(
                      [w EXCEPT !.log = SendPlayerQuestLogSlotWire(w.log, q)], FALSE, saves)
       IN Commit(s, IF EvaluateQuestAccept(w.log, q) = "already on quest"
                    THEN TryProgressMeetQuests(again, Giver[q], met)
                    ELSE TryGrantQuest(w, q, TRUE, saves, met))

\* CMSG_QUESTGIVER_CHOOSE_REWARD and CMSG_QUESTGIVER_COMPLETE_QUEST.
HandleQuestGiverChooseReward(s, q) ==
  /\ inWorld[s] /\ log[s].status[q] = "complete"
  /\ \E saves, met \in Outcome : Commit(s, TryRewardQuest(Work(s), q, saves, met))

HandleQuestLogRemoveQuest(s, i) ==
  /\ inWorld[s] /\ log[s].slots[i] # NoQuest
  /\ LET log1 == MarkQuestProgressDirty(SetQuestStatus(log[s], log[s].slots[i], "none"))
         removed == [Work(s) EXCEPT !.log = ClearPlayerQuestLogSlotWire(log1, {i})]
     IN \E saves \in Outcome : Commit(s, PersistQuestProgress(removed, FALSE, saves))

\* Login, once the store is loaded, sends every slot.
HandlePlayerLogin(s) ==
  /\ ~inWorld[s]
  /\ inWorld' = [inWorld EXCEPT ![s] = TRUE]
  /\ \E l \in LoadSnapshot(db) :
       log' = [log EXCEPT ![s] = [l EXCEPT !.shown = [i \in Slot |-> LineOf(l, i)]]]
  /\ UNCHANGED <<db, turnIns, failures>>

\* Logout saves, dirty or not, and empties the store.
FinalizeWorldExit(s) ==
  /\ inWorld[s]
  /\ inWorld' = [inWorld EXCEPT ![s] = FALSE]
  /\ \E saves \in Outcome :
       LET w == PersistQuestProgress(Work(s), TRUE, saves) IN
       /\ log' = [log EXCEPT ![s] = [EmptyLog EXCEPT !.dirty = w.log.dirty]]
       /\ db' = w.db
       /\ failures' = w.failures
  /\ UNCHANGED turnIns

Crash ==
  /\ \E s \in Session : inWorld[s]
  /\ inWorld' = [s \in Session |-> FALSE]
  /\ log' = [s \in Session |-> EmptyLog]
  /\ UNCHANGED <<db, turnIns, failures>>

Next ==
  \/ \E s \in Session :
       \/ HandlePlayerLogin(s) \/ FinalizeWorldExit(s)
       \/ \E n \in Npc : MeetNpc(s, n)
       \/ \E q \in Quest, n \in Npc : HandleQuestGiverQueryQuest(s, q, n)
       \/ \E q \in Quest : HandleQuestGiverAcceptQuest(s, q) \/ HandleQuestGiverChooseReward(s, q)
       \/ \E i \in Slot : HandleQuestLogRemoveQuest(s, i)
  \/ Crash

Spec == Init /\ [][Next]_vars

---------------------------------------------------------------------------
\* The client shows, slot by slot, the quests the server has in hand: each in one
\* slot, and as complete when it is, whatever order quests are taken, met, turned
\* in and dropped, and however the slots were dealt at login.
ClientShowsTheLog ==
  \A s \in Session : inWorld[s] =>
    /\ log[s].shown = [i \in Slot |-> LineOf(log[s], i)]
    /\ \A q \in Quest : Cardinality(SlotOf(log[s], q)) =
                          IF log[s].status[q] = "none" THEN 0 ELSE 1

\* What is not marked dirty is saved, after failed saves and quests taken by
\* looking at them too (PersistQuestProgressForCharacter).
CleanIsSaved ==
  \A s \in Session : inWorld[s] /\ ~log[s].dirty =>
    db = [status |-> log[s].status, rewarded |-> log[s].rewarded]

\* A chain is walked in order, in memory and in the tables: no quest is in hand or
\* done whose previous one must be rewarded first and is not.
ChainsInOrder ==
  LET InOrder(snapshot) ==
        \A q \in Active(snapshot) \cup snapshot.rewarded :
          Previous[q].rewarded /\ Previous[q].quest # NoQuest =>
            Previous[q].quest \in snapshot.rewarded
  IN InOrder(db) /\ \A s \in Session : InOrder(log[s])

\* No quest is completed for good twice, not even around a crash, as long as the
\* saves work.
TurnedInOnce == failures = 0 => \A q \in Quest : turnIns[q] <= 1
=============================================================================
