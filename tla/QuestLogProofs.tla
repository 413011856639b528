---------------------------- MODULE QuestLogProofs ----------------------------
(***************************************************************************)
(* Proofs about the quest log, for any number of quests, creatures and slots. *)
(* No save is assumed to work; CleanSaved and CompletedOnce assume a session   *)
(* alone with its character, the others do not.                               *)
(*                                                                            *)
(* The order of a chain is inductive with the types (Sound): a quest enters    *)
(* the store only when its previous one is rewarded there, a reward is never   *)
(* taken back, and the tables are only ever written with a whole store.  Each  *)
(* of the other properties is inductive together with Sound.  For each, every  *)
(* operation on a store keeps it, every helper keeps it of what the handler    *)
(* works on, and every handler commits a work that has it.                     *)
(***************************************************************************)
EXTENDS QuestLog, FiniteSetTheorems, WellFoundedInduction, TLAPS

\* Of a store or of the tables.
Ordered(snapshot) ==
  \A q \in Quest : snapshot.status[q] # "none" \/ q \in snapshot.rewarded =>
    (Previous[q].rewarded /\ Previous[q].quest # NoQuest =>
       Previous[q].quest \in snapshot.rewarded)

SoundLog(l) == l \in Log /\ Ordered(l)

Work_ == [log : Log, db : Snapshot, turnIns : [Quest -> 0 .. 2], failures : 0 .. MaxFailures]
SoundWork(w) == w \in Work_ /\ Ordered(w.log) /\ Ordered(w.db)

---------------------------------------------------------------------------
\* The operations on a store.

\* Taking a quest off the log, or moving it from incomplete to complete, keeps the order.
LEMMA SetStatusSound ==
  ASSUME NEW l, SoundLog(l), NEW q \in Quest, NEW st \in Status,
         st = "none" \/ l.status[q] # "none" \/ SatisfyQuestPreviousQuest(l, q)
  PROVE  SoundLog(SetQuestStatus(l, q, st))
<1> DEFINE m == SetQuestStatus(l, q, st)
<1>1. l \in Log BY DEF SoundLog
<1> DEFINE status == [l.status EXCEPT ![q] = st]
           cleared == ClearQuestLogSlot(l, q)
           filled == [l.slots EXCEPT ![Min(FreeSlot(l))] = q]
<1>2. status \in [Quest -> Status] BY <1>1 DEF Log
<1>3. cleared \in [Slot -> Quest \cup {NoQuest}] BY <1>1 DEF Log, ClearQuestLogSlot
<1>4. filled \in [Slot -> Quest \cup {NoQuest}] BY <1>1 DEF Log
<1>5. \/ m = [l EXCEPT !.status = status, !.slots = cleared]
      \/ m = [l EXCEPT !.status = status]
      \/ m = [l EXCEPT !.status = status, !.slots = filled]
  BY <1>1 DEF SetQuestStatus, Log
<1> HIDE DEF m, cleared, filled, status
<1>6. m \in Log
  BY <1>1, <1>2, <1>3, <1>4, <1>5 DEF Log
<1>7. m.rewarded = l.rewarded /\ m.status = [l.status EXCEPT ![q] = st]
  BY <1>1, <1>5 DEF Log, status
<1>8. l.status \in [Quest -> Status] BY <1>1 DEF Log
<1> HIDE DEF m
<1>9. SatisfyQuestPreviousQuest(l, q) /\ Previous[q].rewarded /\ Previous[q].quest # NoQuest
        => Previous[q].quest \in l.rewarded
  BY DEF SatisfyQuestPreviousQuest
<1>10. Ordered(m)
  BY <1>7, <1>8, <1>9 DEF Ordered, SoundLog
<1> QED BY <1>6, <1>10 DEF SoundLog, m

\* A quest in hand becomes a rewarded one; so may one whose previous quest allows it.
LEMMA RewardedSound ==
  ASSUME NEW l, SoundLog(l), NEW q \in Quest,
         l.status[q] # "none" \/ SatisfyQuestPreviousQuest(l, q)
  PROVE  SoundLog(SetQuestRewarded(l, q))
<1> DEFINE m == SetQuestRewarded(l, q)
<1>1. l \in Log BY DEF SoundLog
<1> DEFINE status == [l.status EXCEPT ![q] = "none"]
           cleared == ClearQuestLogSlot(l, q)
<1>2. status \in [Quest -> Status] BY <1>1 DEF Log, Status
<1>3. cleared \in [Slot -> Quest \cup {NoQuest}] BY <1>1 DEF Log, ClearQuestLogSlot
<1>4. m = [l EXCEPT !.rewarded = l.rewarded \cup {q}, !.status = status, !.slots = cleared]
  BY <1>1 DEF SetQuestRewarded, Log
<1> HIDE DEF m, cleared, status
<1>5. m \in Log
  BY <1>1, <1>2, <1>3, <1>4 DEF Log
<1>6. m.rewarded = l.rewarded \cup {q} /\ m.status = [l.status EXCEPT ![q] = "none"]
  BY <1>1, <1>4 DEF Log, status
<1>7. l.status \in [Quest -> Status] BY <1>1 DEF Log
<1> HIDE DEF m
<1>8. SatisfyQuestPreviousQuest(l, q) /\ Previous[q].rewarded /\ Previous[q].quest # NoQuest
        => Previous[q].quest \in l.rewarded
  BY DEF SatisfyQuestPreviousQuest
<1>9. Ordered(m)
  BY <1>6, <1>7, <1>8 DEF Ordered, SoundLog
<1> QED BY <1>5, <1>9 DEF SoundLog, m

\* A line of the client's window.
LEMMA LineType ==
  ASSUME NEW l \in Log, NEW i \in Slot
  PROVE  LineOf(l, i) \in Line
BY DEF LineOf, Line, BlankLine, Log

\* What is sent to the client changes nothing but what it shows.
LEMMA WireSound ==
  ASSUME NEW l, SoundLog(l)
  PROVE  /\ \A q : SoundLog(SendPlayerQuestLogSlotWire(l, q))
         /\ \A places : SoundLog(ClearPlayerQuestLogSlotWire(l, places))
         /\ SoundLog(MarkQuestProgressDirty(l))
<1>1. l \in Log BY DEF SoundLog
<1>2. ASSUME NEW f \in [Slot -> Line]
      PROVE  SoundLog([l EXCEPT !.shown = f])
  BY <1>1, <1>2 DEF SoundLog, Ordered, Log
<1>3. ASSUME NEW q PROVE SoundLog(SendPlayerQuestLogSlotWire(l, q))
  <2> DEFINE f == [i \in Slot |-> IF i \in SlotOf(l, q) THEN LineOf(l, i) ELSE l.shown[i]]
  <2>1. f \in [Slot -> Line]
    BY <1>1, LineType DEF Log
  <2> HIDE DEF f
  <2>2. SoundLog([l EXCEPT !.shown = f]) BY <1>2, <2>1
  <2> QED BY <2>2 DEF SendPlayerQuestLogSlotWire, f
<1>4. ASSUME NEW places PROVE SoundLog(ClearPlayerQuestLogSlotWire(l, places))
  <2> DEFINE f == [i \in Slot |-> IF i \in places THEN BlankLine ELSE l.shown[i]]
  <2>1. f \in [Slot -> Line]
    BY <1>1 DEF Log, Line, BlankLine
  <2> HIDE DEF f
  <2>2. SoundLog([l EXCEPT !.shown = f]) BY <1>2, <2>1
  <2> QED BY <2>2 DEF ClearPlayerQuestLogSlotWire, f
<1>5. SoundLog(MarkQuestProgressDirty(l))
  BY <1>1 DEF SoundLog, Ordered, Log, MarkQuestProgressDirty
<1> QED BY <1>3, <1>4, <1>5

\* Meeting the ender completes quests in hand.
LEMMA CompleteSound ==
  ASSUME NEW l, SoundLog(l), NEW n
  PROVE  SoundLog(Complete(l, MetAt(l, n)))
<1> DEFINE st == [q \in Quest |-> IF q \in MetAt(l, n) THEN "complete" ELSE l.status[q]]
           done == [l EXCEPT !.status = st]
           m == MarkQuestProgressDirty(done)
           f == [i \in Slot |-> IF l.slots[i] \in MetAt(l, n) THEN LineOf(done, i) ELSE m.shown[i]]
<1>1. l \in Log BY DEF SoundLog
<1>2. st \in [Quest -> Status] BY <1>1 DEF Log, Status
<1>3. \A q \in Quest : st[q] # "none" <=> l.status[q] # "none"
  BY DEF MetAt
<1> HIDE DEF st
<1>4. done \in Log /\ Ordered(done)
  BY <1>1, <1>2, <1>3 DEF Log, Ordered, SoundLog
<1> HIDE DEF done
<1>5. SoundLog(m) BY <1>4, WireSound DEF SoundLog
<1>6. m \in Log BY <1>5 DEF SoundLog
<1>7. f \in [Slot -> Line]
  BY <1>4, <1>6, LineType DEF Log
<1> HIDE DEF m, f
<1>8. SoundLog([m EXCEPT !.shown = f])
  BY <1>5, <1>6, <1>7 DEF SoundLog, Ordered, Log
<1> QED BY <1>8 DEF Complete, m, f, done, st

---------------------------------------------------------------------------
\* What a handler works on.

LEMMA WorkWithLog ==
  ASSUME NEW w, SoundWork(w), NEW l, SoundLog(l)
  PROVE  SoundWork([w EXCEPT !.log = l])
BY DEF SoundWork, SoundLog, Work_

LEMMA WorkHasLog ==
  ASSUME NEW w, SoundWork(w)
  PROVE  SoundLog(w.log)
BY DEF SoundWork, SoundLog, Work_

LEMMA TurnInSound ==
  ASSUME NEW w, SoundWork(w), NEW q \in Quest
  PROVE  SoundWork(TurnIn(w, q)) /\ TurnIn(w, q).log = w.log
<1> DEFINE t == [w.turnIns EXCEPT ![q] = IF @ < 2 THEN @ + 1 ELSE @]
<1>1. w.turnIns \in [Quest -> 0 .. 2] BY DEF SoundWork, Work_
<1>2. t \in [Quest -> 0 .. 2] BY <1>1
<1> HIDE DEF t
<1>3. [w EXCEPT !.turnIns = t] = TurnIn(w, q)
  BY SMT DEF TurnIn, t, SoundWork, Work_
<1>4. SoundWork([w EXCEPT !.turnIns = t]) /\ [w EXCEPT !.turnIns = t].log = w.log
  BY <1>2 DEF SoundWork, Work_
<1> QED BY <1>3, <1>4

\* A save copies the store, which is in order; a failed one leaves the tables alone.
LEMMA PersistSound ==
  ASSUME NEW w, SoundWork(w), NEW force, NEW works
  PROVE  SoundWork(PersistQuestProgress(w, force, works))
<1>1. w \in Work_ /\ w.log \in Log /\ w.failures \in 0 .. MaxFailures
  BY DEF SoundWork, Work_
<1>2. SoundWork(SaveForCharacter(w))
  <2> DEFINE d == [status |-> w.log.status, rewarded |-> w.log.rewarded]
             l == [w.log EXCEPT !.dirty = FALSE]
  <2>1. d \in Snapshot /\ Ordered(d)
    BY <1>1 DEF SoundWork, Log, Snapshot, Ordered
  <2>2. l \in Log /\ Ordered(l)
    BY <1>1 DEF SoundWork, Log, Ordered
  <2>3. SaveForCharacter(w) = [w EXCEPT !.db = d, !.log = l]
    BY <1>1 DEF SaveForCharacter, Work_
  <2> HIDE DEF d, l
  <2> QED BY <1>1, <2>1, <2>2, <2>3 DEF SoundWork, Work_
<1>3. w.failures # MaxFailures => SoundWork([w EXCEPT !.failures = @ + 1])
  <2>1. w.failures # MaxFailures => w.failures + 1 \in 0 .. MaxFailures
    BY <1>1, QuestAssumption
  <2> QED BY <1>1, <2>1 DEF SoundWork, Work_
<1> QED BY <1>2, <1>3 DEF PersistQuestProgress

LEMMA MeetSound ==
  ASSUME NEW w, SoundWork(w), NEW n, NEW works
  PROVE  SoundWork(TryProgressMeetQuests(w, n, works))
<1> DEFINE v == [w EXCEPT !.log = Complete(w.log, MetAt(w.log, n))]
<1>1. SoundWork(v) BY WorkHasLog, CompleteSound, WorkWithLog
<1> HIDE DEF v
<1>2. SoundWork(PersistQuestProgress(v, FALSE, works)) BY <1>1, PersistSound
<1> QED BY <1>2 DEF TryProgressMeetQuests, v

LEMMA GrantSound ==
  ASSUME NEW w, SoundWork(w), NEW q \in Quest, NEW persist, NEW saves, NEW met
  PROVE  SoundWork(TryGrantQuest(w, q, persist, saves, met))
<1> SUFFICES ASSUME EvaluateQuestAccept(w.log, q) = "accepted"
             PROVE  SoundWork(TryGrantQuest(w, q, persist, saves, met))
  BY DEF TryGrantQuest
<1> DEFINE log1 == IF q \in AutoComplete THEN SetQuestRewarded(w.log, q)
                   ELSE SendPlayerQuestLogSlotWire(SetQuestStatus(w.log, q, "incomplete"), q)
           took == [w EXCEPT !.log = MarkQuestProgressDirty(log1)]
           granted == IF q \in AutoComplete THEN TurnIn(took, q) ELSE took
           saved == IF persist THEN PersistQuestProgress(granted, FALSE, saves) ELSE granted
<1>1. SatisfyQuestPreviousQuest(w.log, q)
  BY DEF EvaluateQuestAccept
<1>2. SoundLog(w.log) BY WorkHasLog
<1>3. SoundLog(SetQuestRewarded(w.log, q)) BY <1>1, <1>2, RewardedSound
<1>4. SoundLog(SetQuestStatus(w.log, q, "incomplete"))
  BY <1>1, <1>2, SetStatusSound DEF Status
<1>5. SoundLog(log1) BY <1>3, <1>4, WireSound
<1> HIDE DEF log1
<1>6. SoundWork(took) BY <1>5, WireSound, WorkWithLog
<1> HIDE DEF took
<1>7. SoundWork(granted) BY <1>6, TurnInSound
<1> HIDE DEF granted
<1>8. SoundWork(saved) BY <1>7, PersistSound
<1> HIDE DEF saved
<1>9. SoundWork(TryProgressMeetQuests(saved, Giver[q], met)) BY <1>8, MeetSound
<1> QED BY <1>9, <1>6, <1>2 DEF TryGrantQuest, saved, granted, took, log1

LEMMA RewardSound ==
  ASSUME NEW w, SoundWork(w), NEW q \in Quest, w.log.status[q] = "complete",
         NEW saves, NEW met
  PROVE  SoundWork(TryRewardQuest(w, q, saves, met))
<1> DEFINE log1 == ClearPlayerQuestLogSlotWire(SetQuestRewarded(w.log, q), SlotOf(w.log, q))
           granted == [TurnIn(w, q) EXCEPT !.log = MarkQuestProgressDirty(log1)]
<1>1. SoundLog(SetQuestRewarded(w.log, q)) BY WorkHasLog, RewardedSound
<1>2. SoundLog(log1) BY <1>1, WireSound
<1> HIDE DEF log1
<1>3. SoundWork(granted) BY <1>2, WireSound, TurnInSound, WorkWithLog
<1> HIDE DEF granted
<1>4. SoundWork(PersistQuestProgress(granted, FALSE, saves)) BY <1>3, PersistSound
<1>5. SoundWork(TryProgressMeetQuests(PersistQuestProgress(granted, FALSE, saves), Ender[q], met))
  BY <1>4, MeetSound
<1> QED BY <1>5 DEF TryRewardQuest, granted, log1

---------------------------------------------------------------------------
\* The state.

Sound == TypeOK /\ Ordered(db) /\ \A s \in Session : Ordered(log[s])

LEMMA EmptyLogSound == SoundLog(EmptyLog) /\ Fresh \in Snapshot /\ Ordered(Fresh)
<1>1. Fresh \in Snapshot /\ Ordered(Fresh)
  BY DEF Fresh, Snapshot, Ordered, Status
<1>2. EmptyLog \in Log
  <2>1. Blank \in [Slot -> Line] BY DEF Blank, BlankLine, Line
  <2>2. [i \in Slot |-> NoQuest] \in [Slot -> Quest \cup {NoQuest}] OBVIOUS
  <2> QED BY <1>1, <2>1, <2>2 DEF EmptyLog, Log, Fresh, Status
<1>3. Ordered(EmptyLog) BY DEF EmptyLog, Fresh, Ordered
<1> QED BY <1>1, <1>2, <1>3 DEF SoundLog

\* A store loaded from tables in order is in order, however the slots are dealt.
LEMMA LoadSound ==
  ASSUME NEW d \in Snapshot, Ordered(d), NEW l \in LoadSnapshot(d)
  PROVE  SoundLog(l)
<1> DEFINE A == Active(d)
           slots(order) == [i \in Slot |-> IF i <= Len(order) THEN order[i] ELSE NoQuest]
<1>1. PICK order \in SetToSeqs(A) :
        l = [EmptyLog EXCEPT !.status = d.status, !.rewarded = d.rewarded,
                             !.slots = slots(order)]
  BY DEF LoadSnapshot
<1>2. A \subseteq Quest BY DEF Active
<1>3. Cardinality(A) \in Nat
  BY <1>2, QuestAssumption, FS_Subset, FS_CardinalityType
<1> HIDE DEF A
<1>4. order \in [1 .. Cardinality(A) -> A] BY DEF SetToSeqs
<1>5. order \in Seq(A) /\ Len(order) = Cardinality(A)
  BY <1>3, <1>4
<1>6. slots(order) \in [Slot -> Quest \cup {NoQuest}]
  BY <1>2, <1>3, <1>4, <1>5, QuestAssumption DEF Slot
<1> HIDE DEF slots
<1>7. EmptyLog \in Log BY EmptyLogSound DEF SoundLog
<1>8. d.status \in [Quest -> Status] /\ d.rewarded \in SUBSET Quest BY DEF Snapshot
<1>9. l \in Log /\ l.status = d.status /\ l.rewarded = d.rewarded
  BY <1>1, <1>6, <1>7, <1>8 DEF Log
<1> QED BY <1>9 DEF SoundLog, Ordered

\* A session starts on a sound work, and commits one.
LEMMA WorkSound ==
  ASSUME Sound, NEW s \in Session
  PROVE  SoundWork(Work(s)) /\ Work(s).log = log[s]
BY DEF Sound, TypeOK, SoundWork, Work_, Work

LEMMA CommitSound ==
  ASSUME Sound, NEW s \in Session, NEW w, SoundWork(w), Commit(s, w)
  PROVE  Sound'
<1>1. /\ w.log \in Log /\ w.db \in Snapshot /\ w.turnIns \in [Quest -> 0 .. 2]
      /\ w.failures \in 0 .. MaxFailures /\ Ordered(w.log) /\ Ordered(w.db)
  BY DEF SoundWork, Work_
<1>2. /\ log \in [Session -> Log] /\ log' = [log EXCEPT ![s] = w.log] /\ inWorld' = inWorld
      /\ db' = w.db /\ turnIns' = w.turnIns /\ failures' = w.failures
  BY DEF Sound, TypeOK, Commit
<1>3. TypeOK' BY <1>1, <1>2 DEF Sound, TypeOK
<1>4. Ordered(db') BY <1>1, <1>2
<1>5. \A r \in Session : log'[r] = IF r = s THEN w.log ELSE log[r] BY <1>2
<1>6. \A r \in Session : Ordered(log'[r]) BY <1>1, <1>5 DEF Sound
<1>7. Ordered(db)' BY <1>4 DEF Ordered
<1>8. (\A r \in Session : Ordered(log[r]))' BY <1>6 DEF Ordered
<1> QED BY <1>3, <1>7, <1>8 DEF Sound

---------------------------------------------------------------------------
\* The actions.

LEMMA InitSound == Init => Sound
<1> SUFFICES ASSUME Init PROVE Sound OBVIOUS
<1>1. TypeOK
  BY EmptyLogSound, QuestAssumption DEF Init, TypeOK, SoundLog
<1>2. Ordered(db) /\ \A s \in Session : Ordered(log[s])
  BY EmptyLogSound DEF Init, SoundLog
<1> QED BY <1>1, <1>2 DEF Sound

LEMMA MeetNpcSound ==
  ASSUME Sound, NEW s \in Session, NEW n \in Npc, MeetNpc(s, n)
  PROVE  Sound'
BY WorkSound, MeetSound, CommitSound DEF MeetNpc

LEMMA QuerySound ==
  ASSUME Sound, NEW s \in Session, NEW q \in Quest, NEW n \in Npc,
         HandleQuestGiverQueryQuest(s, q, n)
  PROVE  Sound'
<1>1. SoundWork(Work(s)) BY WorkSound
<1>2. PICK met : \/ Commit(s, TryProgressMeetQuests(Work(s), n, met))
                 \/ Commit(s, TryGrantQuest(Work(s), q, FALSE, TRUE, met))
  BY DEF HandleQuestGiverQueryQuest
<1>3. CASE Commit(s, TryProgressMeetQuests(Work(s), n, met))
  BY <1>1, <1>3, MeetSound, CommitSound
<1>4. CASE Commit(s, TryGrantQuest(Work(s), q, FALSE, TRUE, met))
  BY <1>1, <1>4, GrantSound, CommitSound
<1> QED BY <1>2, <1>3, <1>4

LEMMA AcceptSound ==
  ASSUME Sound, NEW s \in Session, NEW q \in Quest, HandleQuestGiverAcceptQuest(s, q)
  PROVE  Sound'
<1> DEFINE w == Work(s)
           shown == [w EXCEPT !.log = SendPlayerQuestLogSlotWire(w.log, q)]
           again(saves) == PersistQuestProgress(shown, FALSE, saves)
<1>1. SoundWork(w) BY WorkSound
<1> HIDE DEF w
<1>2. SoundWork(shown) BY <1>1, WorkHasLog, WireSound, WorkWithLog
<1>3. PICK saves, met : Commit(s, IF EvaluateQuestAccept(w.log, q) = "already on quest"
                    THEN TryProgressMeetQuests(again(saves), Giver[q], met)
                    ELSE TryGrantQuest(w, q, TRUE, saves, met))
  BY DEF HandleQuestGiverAcceptQuest, w
<1> HIDE DEF shown
<1>4. SoundWork(again(saves)) BY <1>2, PersistSound
<1> HIDE DEF again
<1>5. SoundWork(TryProgressMeetQuests(again(saves), Giver[q], met)) BY <1>4, MeetSound
<1>6. SoundWork(TryGrantQuest(w, q, TRUE, saves, met)) BY <1>1, GrantSound
<1> QED BY <1>3, <1>5, <1>6, CommitSound

LEMMA ChooseRewardSound ==
  ASSUME Sound, NEW s \in Session, NEW q \in Quest, HandleQuestGiverChooseReward(s, q)
  PROVE  Sound'
<1>1. SoundWork(Work(s)) /\ Work(s).log.status[q] = "complete"
  BY WorkSound DEF HandleQuestGiverChooseReward
<1>2. PICK saves, met : Commit(s, TryRewardQuest(Work(s), q, saves, met))
  BY DEF HandleQuestGiverChooseReward
<1>3. SoundWork(TryRewardQuest(Work(s), q, saves, met)) BY <1>1, RewardSound
<1> QED BY <1>2, <1>3, CommitSound

LEMMA RemoveSound ==
  ASSUME Sound, NEW s \in Session, NEW i \in Slot, HandleQuestLogRemoveQuest(s, i)
  PROVE  Sound'
<1> DEFINE q == log[s].slots[i]
           log1 == MarkQuestProgressDirty(SetQuestStatus(log[s], q, "none"))
           removed == [Work(s) EXCEPT !.log = ClearPlayerQuestLogSlotWire(log1, {i})]
<1>1. SoundLog(log[s]) BY DEF Sound, TypeOK, SoundLog
<1>2. q \in Quest
  BY <1>1 DEF HandleQuestLogRemoveQuest, SoundLog, Log
<1>3. SoundLog(SetQuestStatus(log[s], q, "none"))
  BY <1>1, <1>2, SetStatusSound DEF Status
<1>4. SoundLog(log1) BY <1>3, WireSound
<1>5. PICK saves : Commit(s, PersistQuestProgress(removed, FALSE, saves))
  BY DEF HandleQuestLogRemoveQuest
<1> HIDE DEF log1
<1>6. SoundWork(removed) BY <1>4, WorkSound, WireSound, WorkWithLog
<1> HIDE DEF removed
<1>7. SoundWork(PersistQuestProgress(removed, FALSE, saves)) BY <1>6, PersistSound
<1> QED BY <1>5, <1>7, CommitSound

LEMMA LoginSound ==
  ASSUME Sound, NEW s \in Session, HandlePlayerLogin(s)
  PROVE  Sound'
<1>1. PICK l \in LoadSnapshot(db) :
        log' = [log EXCEPT ![s] = [l EXCEPT !.shown = [i \in Slot |-> LineOf(l, i)]]]
  BY DEF HandlePlayerLogin
<1> DEFINE f == [i \in Slot |-> LineOf(l, i)]
           m == [l EXCEPT !.shown = f]
<1>2. SoundLog(l) BY LoadSound DEF Sound, TypeOK
<1>3. f \in [Slot -> Line] BY <1>2, LineType DEF SoundLog
<1> HIDE DEF f
<1>4. SoundLog(m) BY <1>2, <1>3 DEF SoundLog, Ordered, Log
<1>5. log' = [log EXCEPT ![s] = m] BY <1>1 DEF f
<1> HIDE DEF m
<1>6. \A r \in Session : log'[r] = IF r = s THEN m ELSE log[r]
  BY <1>5 DEF Sound, TypeOK
<1>7. \A r \in Session : Ordered(log'[r]) BY <1>4, <1>6 DEF Sound, SoundLog
<1>8. TypeOK'
  BY <1>4, <1>5 DEF Sound, TypeOK, SoundLog, HandlePlayerLogin
<1>9. Ordered(db') BY DEF Sound, HandlePlayerLogin
<1> QED BY <1>7, <1>8, <1>9 DEF Sound, Ordered

LEMMA ExitSound ==
  ASSUME Sound, NEW s \in Session, FinalizeWorldExit(s)
  PROVE  Sound'
<1>1. PICK saves :
        LET w == PersistQuestProgress(Work(s), TRUE, saves) IN
        /\ log' = [log EXCEPT ![s] = [EmptyLog EXCEPT !.dirty = w.log.dirty]]
        /\ db' = w.db
        /\ failures' = w.failures
  BY DEF FinalizeWorldExit
<1> DEFINE w == PersistQuestProgress(Work(s), TRUE, saves)
           m == [EmptyLog EXCEPT !.dirty = w.log.dirty]
<1>2. SoundWork(w) BY WorkSound, PersistSound
<1>3. /\ w.log \in Log /\ w.db \in Snapshot /\ w.failures \in 0 .. MaxFailures /\ Ordered(w.db)
  BY <1>2 DEF SoundWork, Work_
<1>4. log' = [log EXCEPT ![s] = m] /\ db' = w.db /\ failures' = w.failures BY <1>1
<1> HIDE DEF w
<1>5. w.log.dirty \in BOOLEAN BY <1>3 DEF Log
<1>6. SoundLog(m) BY <1>5, EmptyLogSound DEF SoundLog, Ordered, Log
<1> HIDE DEF m
<1>7. \A r \in Session : log'[r] = IF r = s THEN m ELSE log[r]
  BY <1>4 DEF Sound, TypeOK
<1>8. \A r \in Session : Ordered(log'[r]) BY <1>6, <1>7 DEF Sound, SoundLog
<1>9. TypeOK'
  BY <1>3, <1>4, <1>6 DEF Sound, TypeOK, SoundLog, FinalizeWorldExit
<1>10. Ordered(db') BY <1>3, <1>4
<1> QED BY <1>8, <1>9, <1>10 DEF Sound, Ordered

LEMMA CrashSound == ASSUME Sound, Crash PROVE Sound'
<1>1. TypeOK' BY EmptyLogSound DEF Sound, TypeOK, Crash, SoundLog
<1>2. \A r \in Session : Ordered(log'[r]) BY EmptyLogSound DEF Crash, SoundLog
<1>3. Ordered(db') BY DEF Sound, Crash
<1> QED BY <1>1, <1>2, <1>3 DEF Sound, Ordered

THEOREM SoundAlways == Spec => []Sound
<1>1. Init => Sound BY InitSound
<1>2. Sound /\ [Next]_vars => Sound'
  <2> SUFFICES ASSUME Sound, [Next]_vars PROVE Sound' OBVIOUS
  <2>1. CASE UNCHANGED vars
    BY <2>1 DEF vars, Sound, TypeOK, Ordered
  <2>2. CASE Crash BY <2>2, CrashSound
  <2>3. ASSUME NEW s \in Session,
          \/ HandlePlayerLogin(s) \/ FinalizeWorldExit(s)
          \/ \E n \in Npc : MeetNpc(s, n)
          \/ \E q \in Quest, n \in Npc : HandleQuestGiverQueryQuest(s, q, n)
          \/ \E q \in Quest : HandleQuestGiverAcceptQuest(s, q) \/ HandleQuestGiverChooseReward(s, q)
          \/ \E i \in Slot : HandleQuestLogRemoveQuest(s, i)
        PROVE Sound'
    BY <2>3, LoginSound, ExitSound, MeetNpcSound, QuerySound, AcceptSound,
       ChooseRewardSound, RemoveSound
  <2> QED BY <2>1, <2>2, <2>3 DEF Next
<1> QED BY <1>1, <1>2, PTL DEF Spec

\* Every store, the tables and what each client shows keep their types, with any number
\* of sessions on the character and whatever saves fail.
THEOREM TypeCorrect == Spec => []TypeOK
<1>1. Sound => TypeOK BY DEF Sound
<1> QED BY <1>1, SoundAlways, PTL

\* A chain of quests is walked in order, in every store and in the tables, even when
\* several sessions play and save the same character and the server crashes.
THEOREM ChainsWalkedInOrder == Spec => []ChainsInOrder
<1>1. ASSUME Sound PROVE ChainsInOrder
  <2>1. Ordered(db) /\ \A s \in Session : Ordered(log[s]) BY <1>1 DEF Sound
  <2>2. db.rewarded \subseteq Quest /\ \A s \in Session : log[s].rewarded \subseteq Quest
    BY <1>1 DEF Sound, TypeOK, Snapshot, Log
  <2> QED BY <2>1, <2>2 DEF ChainsInOrder, Ordered, Active
<1>2. Sound => ChainsInOrder BY <1>1
<1> QED BY <1>2, SoundAlways, PTL
---------------------------------------------------------------------------
\* What is not marked dirty is saved: with one session on the character, the tables
\* only change when that session saves.

Clean(w) == ~w.log.dirty => w.db = [status |-> w.log.status, rewarded |-> w.log.rewarded]

\* A handler that marks its change dirty has nothing to answer for.
LEMMA DirtyIsClean ==
  ASSUME NEW w, SoundWork(w), NEW l, SoundLog(l)
  PROVE  Clean([w EXCEPT !.log = MarkQuestProgressDirty(l)])
BY DEF SoundWork, SoundLog, Work_, Log, Clean, MarkQuestProgressDirty

LEMMA PersistClean ==
  ASSUME NEW w, SoundWork(w), Clean(w), NEW force, NEW works
  PROVE  Clean(PersistQuestProgress(w, force, works))
<1>1. w \in Work_ /\ w.log \in Log /\ w.failures \in 0 .. MaxFailures
  BY DEF SoundWork, Work_
<1>2. Clean(SaveForCharacter(w))
  <2> DEFINE d == [status |-> w.log.status, rewarded |-> w.log.rewarded]
             l == [w.log EXCEPT !.dirty = FALSE]
  <2>1. d = [status |-> l.status, rewarded |-> l.rewarded] BY <1>1 DEF Log
  <2>2. SaveForCharacter(w) = [w EXCEPT !.db = d, !.log = l]
    BY <1>1 DEF SaveForCharacter, Work_
  <2> HIDE DEF d, l
  <2> QED BY <1>1, <2>1, <2>2 DEF Clean, Work_
<1>3. Clean([w EXCEPT !.failures = @ + 1])
  BY <1>1 DEF Clean, Work_
<1> QED BY <1>2, <1>3 DEF PersistQuestProgress

LEMMA MeetClean ==
  ASSUME NEW w, SoundWork(w), Clean(w), NEW n, NEW works
  PROVE  Clean(TryProgressMeetQuests(w, n, works))
<1> DEFINE l == Complete(w.log, MetAt(w.log, n))
           v == [w EXCEPT !.log = l]
<1>1. SoundLog(l) BY WorkHasLog, CompleteSound
<1>2. l.dirty
  <2> DEFINE st == [q \in Quest |-> IF q \in MetAt(w.log, n) THEN "complete" ELSE w.log.status[q]]
             done == [w.log EXCEPT !.status = st]
             f == [i \in Slot |-> IF w.log.slots[i] \in MetAt(w.log, n) THEN LineOf(done, i)
                                  ELSE MarkQuestProgressDirty(done).shown[i]]
  <2>1. w.log \in Log BY DEF SoundWork, Work_
  <2>2. l = [MarkQuestProgressDirty(done) EXCEPT !.shown = f] BY DEF Complete
  <2> HIDE DEF f, st
  <2> QED BY <2>1, <2>2 DEF Log, MarkQuestProgressDirty
<1> HIDE DEF l
<1>3. SoundWork(v) /\ Clean(v)
  BY <1>1, <1>2, WorkWithLog DEF Clean, SoundWork, Work_
<1> HIDE DEF v
<1>4. Clean(PersistQuestProgress(v, FALSE, works)) BY <1>3, PersistClean
<1> QED BY <1>4 DEF TryProgressMeetQuests, v, l

LEMMA GrantClean ==
  ASSUME NEW w, SoundWork(w), Clean(w), NEW q \in Quest, NEW persist, NEW saves, NEW met
  PROVE  Clean(TryGrantQuest(w, q, persist, saves, met))
<1> SUFFICES ASSUME EvaluateQuestAccept(w.log, q) = "accepted"
             PROVE  Clean(TryGrantQuest(w, q, persist, saves, met))
  BY DEF TryGrantQuest
<1> DEFINE log1 == IF q \in AutoComplete THEN SetQuestRewarded(w.log, q)
                   ELSE SendPlayerQuestLogSlotWire(SetQuestStatus(w.log, q, "incomplete"), q)
           took == [w EXCEPT !.log = MarkQuestProgressDirty(log1)]
           granted == IF q \in AutoComplete THEN TurnIn(took, q) ELSE took
           saved == IF persist THEN PersistQuestProgress(granted, FALSE, saves) ELSE granted
<1>1. SatisfyQuestPreviousQuest(w.log, q)
  BY DEF EvaluateQuestAccept
<1>2. SoundLog(w.log) BY WorkHasLog
<1>3. SoundLog(SetQuestRewarded(w.log, q)) BY <1>1, <1>2, RewardedSound
<1>4. SoundLog(SetQuestStatus(w.log, q, "incomplete"))
  BY <1>1, <1>2, SetStatusSound DEF Status
<1>5. SoundLog(log1) BY <1>3, <1>4, WireSound
<1> HIDE DEF log1
<1>6. SoundWork(took) /\ Clean(took) BY <1>5, WireSound, WorkWithLog, DirtyIsClean
<1>7. took.log.dirty
  BY <1>5 DEF SoundWork, SoundLog, Work_, Log, MarkQuestProgressDirty
<1> HIDE DEF took
<1>8. SoundWork(granted) /\ Clean(granted) BY <1>6, <1>7, TurnInSound DEF Clean
<1> HIDE DEF granted
<1>9. SoundWork(saved) /\ Clean(saved) BY <1>8, PersistSound, PersistClean
<1> HIDE DEF saved
<1>10. Clean(TryProgressMeetQuests(saved, Giver[q], met)) BY <1>9, MeetClean
<1> QED BY <1>10 DEF TryGrantQuest, saved, granted, took, log1

LEMMA RewardClean ==
  ASSUME NEW w, SoundWork(w), NEW q \in Quest, w.log.status[q] = "complete",
         NEW saves, NEW met
  PROVE  Clean(TryRewardQuest(w, q, saves, met))
<1> DEFINE log1 == ClearPlayerQuestLogSlotWire(SetQuestRewarded(w.log, q), SlotOf(w.log, q))
           granted == [TurnIn(w, q) EXCEPT !.log = MarkQuestProgressDirty(log1)]
<1>1. SoundLog(SetQuestRewarded(w.log, q)) BY WorkHasLog, RewardedSound
<1>2. SoundLog(log1) BY <1>1, WireSound
<1> HIDE DEF log1
<1>3. SoundWork(granted) /\ Clean(granted)
  BY <1>2, WireSound, TurnInSound, WorkWithLog, DirtyIsClean
<1> HIDE DEF granted
<1>4. /\ SoundWork(PersistQuestProgress(granted, FALSE, saves))
      /\ Clean(PersistQuestProgress(granted, FALSE, saves))
  BY <1>3, PersistSound, PersistClean
<1>5. Clean(TryProgressMeetQuests(PersistQuestProgress(granted, FALSE, saves), Ender[q], met))
  BY <1>4, MeetClean
<1> QED BY <1>5 DEF TryRewardQuest, granted, log1

\* One session at a time holds the character.
OneSession == \A s, r \in Session : s = r

LEMMA WorkClean ==
  ASSUME Sound, CleanIsSaved, NEW s \in Session, inWorld[s]
  PROVE  Clean(Work(s))
BY DEF CleanIsSaved, Clean, Work

LEMMA CommitClean ==
  ASSUME Sound, OneSession, NEW s \in Session, NEW w, Clean(w), Commit(s, w)
  PROVE  CleanIsSaved'
<1>1. log'[s] = w.log /\ db' = w.db
  BY DEF Commit, Sound, TypeOK
<1>2. ~log'[s].dirty => db' = [status |-> log'[s].status, rewarded |-> log'[s].rewarded]
  BY <1>1 DEF Clean
<1>3. \A r \in Session : r = s BY DEF OneSession
<1> QED BY <1>2, <1>3 DEF CleanIsSaved

LEMMA CleanStep ==
  ASSUME Sound, OneSession, CleanIsSaved, [Next]_vars
  PROVE  CleanIsSaved'
<1>1. CASE UNCHANGED vars BY <1>1 DEF vars, CleanIsSaved
<1>2. CASE Crash BY <1>2 DEF Crash, CleanIsSaved
<1>3. ASSUME NEW s \in Session, HandlePlayerLogin(s) PROVE CleanIsSaved'
  <2>1. PICK l \in LoadSnapshot(db) :
          log' = [log EXCEPT ![s] = [l EXCEPT !.shown = [i \in Slot |-> LineOf(l, i)]]]
    BY <1>3 DEF HandlePlayerLogin
  <2> DEFINE m == [l EXCEPT !.shown = [i \in Slot |-> LineOf(l, i)]]
  <2>2. SoundLog(l) BY LoadSound DEF Sound, TypeOK
  <2>3. l.status = db.status /\ l.rewarded = db.rewarded
    BY EmptyLogSound DEF LoadSnapshot, Log, SoundLog
  <2>4. m.status = db.status /\ m.rewarded = db.rewarded
    BY <2>2, <2>3 DEF SoundLog, Log
  <2>5. log'[s] = m BY <2>1 DEF Sound, TypeOK
  <2> HIDE DEF m
  <2>6. db' = [status |-> log'[s].status, rewarded |-> log'[s].rewarded]
    BY <1>3, <2>4, <2>5 DEF HandlePlayerLogin, Sound, TypeOK, Snapshot
  <2> QED BY <2>6 DEF CleanIsSaved, OneSession
<1>4. ASSUME NEW s \in Session, FinalizeWorldExit(s) PROVE CleanIsSaved'
  BY <1>4 DEF FinalizeWorldExit, CleanIsSaved, OneSession, Sound, TypeOK
<1>5. ASSUME NEW s \in Session, inWorld[s] PROVE SoundWork(Work(s)) /\ Clean(Work(s))
  BY <1>5, WorkSound, WorkClean
<1>6. ASSUME NEW s \in Session, NEW n \in Npc, MeetNpc(s, n) PROVE CleanIsSaved'
  BY <1>5, <1>6, MeetClean, CommitClean DEF MeetNpc
<1>7. ASSUME NEW s \in Session, NEW q \in Quest, NEW n \in Npc,
             HandleQuestGiverQueryQuest(s, q, n)
      PROVE  CleanIsSaved'
  <2>1. SoundWork(Work(s)) /\ Clean(Work(s))
    BY <1>5, <1>7 DEF HandleQuestGiverQueryQuest
  <2>2. PICK met : \/ Commit(s, TryProgressMeetQuests(Work(s), n, met))
                   \/ Commit(s, TryGrantQuest(Work(s), q, FALSE, TRUE, met))
    BY <1>7 DEF HandleQuestGiverQueryQuest
  <2>3. CASE Commit(s, TryProgressMeetQuests(Work(s), n, met))
    BY <2>1, <2>3, MeetClean, CommitClean
  <2>4. CASE Commit(s, TryGrantQuest(Work(s), q, FALSE, TRUE, met))
    BY <2>1, <2>4, GrantClean, CommitClean
  <2> QED BY <2>2, <2>3, <2>4
<1>8. ASSUME NEW s \in Session, NEW q \in Quest, HandleQuestGiverAcceptQuest(s, q)
      PROVE  CleanIsSaved'
  <2> DEFINE w == Work(s)
             shown == [w EXCEPT !.log = SendPlayerQuestLogSlotWire(w.log, q)]
             again(saves) == PersistQuestProgress(shown, FALSE, saves)
  <2>1. SoundWork(w) /\ Clean(w) BY <1>5, <1>8 DEF HandleQuestGiverAcceptQuest
  <2> HIDE DEF w
  <2>2. SoundWork(shown) BY <2>1, WorkHasLog, WireSound, WorkWithLog
  <2>3. Clean(shown)
    <3>1. w \in Work_ /\ w.log \in Log BY <2>1 DEF SoundWork, Work_
    <3>2. shown.log = SendPlayerQuestLogSlotWire(w.log, q) /\ shown.db = w.db
      BY <3>1 DEF Work_
    <3>3. /\ shown.log.dirty = w.log.dirty /\ shown.log.status = w.log.status
          /\ shown.log.rewarded = w.log.rewarded
      BY <3>1, <3>2 DEF SendPlayerQuestLogSlotWire, Log
    <3> QED BY <2>1, <3>2, <3>3 DEF Clean
  <2>4. PICK saves, met : Commit(s, IF EvaluateQuestAccept(w.log, q) = "already on quest"
                      THEN TryProgressMeetQuests(again(saves), Giver[q], met)
                      ELSE TryGrantQuest(w, q, TRUE, saves, met))
    BY <1>8 DEF HandleQuestGiverAcceptQuest, w
  <2> HIDE DEF shown
  <2>5. SoundWork(again(saves)) /\ Clean(again(saves))
    BY <2>2, <2>3, PersistSound, PersistClean
  <2> HIDE DEF again
  <2>6. Clean(TryProgressMeetQuests(again(saves), Giver[q], met)) BY <2>5, MeetClean
  <2>7. Clean(TryGrantQuest(w, q, TRUE, saves, met)) BY <2>1, GrantClean
  <2> QED BY <2>4, <2>6, <2>7, CommitClean
<1>9. ASSUME NEW s \in Session, NEW q \in Quest, HandleQuestGiverChooseReward(s, q)
      PROVE  CleanIsSaved'
  <2>1. SoundWork(Work(s)) /\ Work(s).log.status[q] = "complete"
    BY <1>9, WorkSound DEF HandleQuestGiverChooseReward
  <2>2. PICK saves, met : Commit(s, TryRewardQuest(Work(s), q, saves, met))
    BY <1>9 DEF HandleQuestGiverChooseReward
  <2>3. Clean(TryRewardQuest(Work(s), q, saves, met)) BY <2>1, RewardClean
  <2> QED BY <2>2, <2>3, CommitClean
<1>10. ASSUME NEW s \in Session, NEW i \in Slot, HandleQuestLogRemoveQuest(s, i)
       PROVE  CleanIsSaved'
  <2> DEFINE q == log[s].slots[i]
             log1 == SetQuestStatus(log[s], q, "none")
             log2 == ClearPlayerQuestLogSlotWire(MarkQuestProgressDirty(log1), {i})
             removed == [Work(s) EXCEPT !.log = log2]
  <2>1. SoundLog(log[s]) BY DEF Sound, TypeOK, SoundLog
  <2>2. q \in Quest
    BY <1>10, <2>1 DEF HandleQuestLogRemoveQuest, SoundLog, Log
  <2>3. SoundLog(log1)
    BY <2>1, <2>2, SetStatusSound DEF Status
  <2>4. PICK saves : Commit(s, PersistQuestProgress(removed, FALSE, saves))
    BY <1>10 DEF HandleQuestLogRemoveQuest
  <2> HIDE DEF log1
  <2>5. SoundLog(log2) BY <2>3, WireSound
  <2>6. log2.dirty
    BY <2>3 DEF ClearPlayerQuestLogSlotWire, MarkQuestProgressDirty, SoundLog, Log
  <2> HIDE DEF log2
  <2>7. SoundWork(removed) BY <2>5, WorkSound, WorkWithLog
  <2>8. Clean(removed) BY <2>6, WorkSound DEF Clean, SoundWork, Work_
  <2> HIDE DEF removed
  <2>9. Clean(PersistQuestProgress(removed, FALSE, saves)) BY <2>7, <2>8, PersistClean
  <2> QED BY <2>4, <2>9, CommitClean
<1> QED BY <1>1, <1>2, <1>3, <1>4, <1>6, <1>7, <1>8, <1>9, <1>10 DEF Next

\* With one session on the character, what that session has not marked dirty is in the
\* tables, whatever saves have failed.
THEOREM CleanSaved ==
  ASSUME OneSession
  PROVE  Spec => []CleanIsSaved
<1>1. Init => CleanIsSaved BY DEF Init, CleanIsSaved
<1>2. Sound /\ CleanIsSaved /\ [Next]_vars => CleanIsSaved'
  BY CleanStep
<1> QED BY <1>1, <1>2, SoundAlways, PTL DEF Spec

---------------------------------------------------------------------------
\* What the operations on a store do to what counts and to what is saved.

LEMMA StoreFacts ==
  ASSUME NEW l \in Log, NEW q \in Quest, NEW st \in Status
  PROVE  /\ SetQuestStatus(l, q, st).status = [l.status EXCEPT ![q] = st]
         /\ SetQuestStatus(l, q, st).rewarded = l.rewarded
         /\ SetQuestStatus(l, q, st).shown = l.shown
         /\ SetQuestRewarded(l, q).status = [l.status EXCEPT ![q] = "none"]
         /\ SetQuestRewarded(l, q).rewarded = l.rewarded \cup {q}
         /\ SetQuestRewarded(l, q).shown = l.shown
         /\ SetQuestRewarded(l, q).slots = ClearQuestLogSlot(l, q)
<1> DEFINE status == [l.status EXCEPT ![q] = st]
           none == [l.status EXCEPT ![q] = "none"]
           cleared == ClearQuestLogSlot(l, q)
           filled == [l.slots EXCEPT ![Min(FreeSlot(l))] = q]
<1>1. \/ SetQuestStatus(l, q, st) = [l EXCEPT !.status = status, !.slots = cleared]
      \/ SetQuestStatus(l, q, st) = [l EXCEPT !.status = status]
      \/ SetQuestStatus(l, q, st) = [l EXCEPT !.status = status, !.slots = filled]
  BY DEF SetQuestStatus, Log
<1>2. SetQuestRewarded(l, q)
        = [l EXCEPT !.rewarded = l.rewarded \cup {q}, !.status = none, !.slots = cleared]
  BY DEF SetQuestRewarded, Log
<1> HIDE DEF status, none, cleared, filled
<1>3. /\ SetQuestStatus(l, q, st).status = status
      /\ SetQuestStatus(l, q, st).rewarded = l.rewarded
      /\ SetQuestStatus(l, q, st).shown = l.shown
  BY <1>1 DEF Log
<1>4. /\ SetQuestRewarded(l, q).status = none
      /\ SetQuestRewarded(l, q).rewarded = l.rewarded \cup {q}
      /\ SetQuestRewarded(l, q).shown = l.shown
      /\ SetQuestRewarded(l, q).slots = cleared
  BY <1>2 DEF Log
<1> QED BY <1>3, <1>4 DEF status, none, cleared

LEMMA WireFacts ==
  ASSUME NEW l \in Log, NEW q, NEW places
  PROVE  /\ SendPlayerQuestLogSlotWire(l, q).status = l.status
         /\ SendPlayerQuestLogSlotWire(l, q).rewarded = l.rewarded
         /\ SendPlayerQuestLogSlotWire(l, q).slots = l.slots
         /\ ClearPlayerQuestLogSlotWire(l, places).status = l.status
         /\ ClearPlayerQuestLogSlotWire(l, places).rewarded = l.rewarded
         /\ ClearPlayerQuestLogSlotWire(l, places).slots = l.slots
         /\ MarkQuestProgressDirty(l).status = l.status
         /\ MarkQuestProgressDirty(l).rewarded = l.rewarded
         /\ MarkQuestProgressDirty(l).slots = l.slots
         /\ MarkQuestProgressDirty(l).shown = l.shown
         /\ MarkQuestProgressDirty(l).dirty
BY DEF Log, SendPlayerQuestLogSlotWire, ClearPlayerQuestLogSlotWire, MarkQuestProgressDirty

LEMMA CompleteFacts ==
  ASSUME NEW l \in Log, NEW n
  PROVE  LET m == Complete(l, MetAt(l, n)) IN
         /\ m.status = [q \in Quest |-> IF q \in MetAt(l, n) THEN "complete" ELSE l.status[q]]
         /\ m.rewarded = l.rewarded
         /\ m.slots = l.slots
         /\ m.shown = [i \in Slot |-> IF l.slots[i] \in MetAt(l, n)
                                      THEN [quest |-> l.slots[i], done |-> TRUE] ELSE l.shown[i]]
         /\ m.dirty
<1> DEFINE st == [q \in Quest |-> IF q \in MetAt(l, n) THEN "complete" ELSE l.status[q]]
           done == [l EXCEPT !.status = st]
           m == MarkQuestProgressDirty(done)
           f == [i \in Slot |-> IF l.slots[i] \in MetAt(l, n) THEN LineOf(done, i) ELSE m.shown[i]]
<1>1. Complete(l, MetAt(l, n)) = [m EXCEPT !.shown = f] BY DEF Complete
<1>2. st \in [Quest -> Status] BY DEF Log, Status
<1>3. \A q \in MetAt(l, n) : q \in Quest /\ st[q] = "complete"
  BY QuestAssumption DEF MetAt
<1> HIDE DEF st
<1>4. done \in Log /\ done.status = st /\ done.rewarded = l.rewarded /\ done.slots = l.slots
      /\ done.shown = l.shown
  BY <1>2 DEF Log
<1>6. m \in Log BY <1>4 DEF m, MarkQuestProgressDirty, Log
<1> HIDE DEF done
<1>5. /\ m.status = st /\ m.rewarded = l.rewarded /\ m.slots = l.slots /\ m.dirty
      /\ m.shown = l.shown
  BY <1>4, WireFacts
<1> HIDE DEF m
<1>7. \A i \in Slot : l.slots[i] \in MetAt(l, n) =>
        LineOf(done, i) = [quest |-> l.slots[i], done |-> TRUE]
  BY <1>3, <1>4, QuestAssumption DEF LineOf
<1>8. f = [i \in Slot |-> IF l.slots[i] \in MetAt(l, n)
                          THEN [quest |-> l.slots[i], done |-> TRUE] ELSE l.shown[i]]
  BY <1>5, <1>7
<1> HIDE DEF f
<1>9. /\ Complete(l, MetAt(l, n)).status = st
      /\ Complete(l, MetAt(l, n)).rewarded = l.rewarded
      /\ Complete(l, MetAt(l, n)).slots = l.slots
      /\ Complete(l, MetAt(l, n)).shown = f
      /\ Complete(l, MetAt(l, n)).dirty
  BY <1>1, <1>5, <1>6 DEF Log
<1> QED BY <1>8, <1>9 DEF st

LEMMA PersistFacts ==
  ASSUME NEW w, SoundWork(w), NEW force, NEW works
  PROVE  LET v == PersistQuestProgress(w, force, works) IN
         /\ v.log.status = w.log.status /\ v.log.rewarded = w.log.rewarded
         /\ v.log.slots = w.log.slots /\ v.log.shown = w.log.shown
         /\ v.turnIns = w.turnIns
         /\ \/ v = w /\ ~force /\ ~w.log.dirty
            \/ v.failures = w.failures + 1 /\ v.db = w.db
            \/ /\ v.db = [status |-> w.log.status, rewarded |-> w.log.rewarded]
               /\ v.failures = w.failures
<1>1. w \in Work_ /\ w.log \in Log BY DEF SoundWork, Work_
<1> DEFINE d == [status |-> w.log.status, rewarded |-> w.log.rewarded]
           l == [w.log EXCEPT !.dirty = FALSE]
<1>2. SaveForCharacter(w) = [w EXCEPT !.db = d, !.log = l]
  BY <1>1 DEF SaveForCharacter, Work_
<1>3. /\ l.status = w.log.status /\ l.rewarded = w.log.rewarded
      /\ l.slots = w.log.slots /\ l.shown = w.log.shown
  BY <1>1 DEF Log
<1> HIDE DEF l
<1>4. LET v == SaveForCharacter(w) IN
      /\ v.log = l /\ v.turnIns = w.turnIns /\ v.db = d /\ v.failures = w.failures
  <2> HIDE DEF d
  <2> QED BY <1>1, <1>2 DEF Work_
<1>5. LET v == [w EXCEPT !.failures = @ + 1] IN
      /\ v.log = w.log /\ v.turnIns = w.turnIns /\ v.db = w.db /\ v.failures = w.failures + 1
  BY <1>1 DEF Work_
<1> HIDE DEF d
<1>6. CASE ~force /\ ~w.log.dirty
  BY <1>6 DEF PersistQuestProgress
<1>7. CASE ~(~force /\ ~w.log.dirty) /\ (works \/ w.failures = MaxFailures)
  BY <1>3, <1>4, <1>7 DEF PersistQuestProgress, d
<1>8. CASE ~(~force /\ ~w.log.dirty) /\ ~(works \/ w.failures = MaxFailures)
  BY <1>5, <1>8 DEF PersistQuestProgress
<1> QED BY <1>6, <1>7, <1>8

---------------------------------------------------------------------------
\* No quest is completed for good twice while the saves work: what has been turned in
\* is among the rewarded of the store, where it cannot be in hand as well, and the
\* handler that turns a quest in saves before it returns.  A quest that completes
\* itself must not be one that is taken by looking at it, for that is not saved.

Apart(l) == \A q \in Quest : q \in l.rewarded => l.status[q] = "none"
Once(w) ==
  w.failures = 0 =>
    \A q \in Quest : w.turnIns[q] <= 1 /\ (w.turnIns[q] = 1 => q \in w.log.rewarded)
Honest(w) == SoundWork(w) /\ Apart(w.log) /\ Apart(w.db) /\ Once(w)

\* What has been turned in is among the rewarded of the tables.
Kept(w) == w.failures = 0 => \A q \in Quest : w.turnIns[q] = 1 => q \in w.db.rewarded

LEMMA PersistHonest ==
  ASSUME NEW w, Honest(w), NEW force, NEW works, Kept(w) \/ force \/ w.log.dirty
  PROVE  LET v == PersistQuestProgress(w, force, works) IN Honest(v) /\ Kept(v)
<1> DEFINE v == PersistQuestProgress(w, force, works)
<1>1. SoundWork(w) /\ w.failures \in Nat
  BY QuestAssumption DEF Honest, SoundWork, Work_
<1>2. SoundWork(v) BY <1>1, PersistSound
<1>3. /\ v.log.status = w.log.status /\ v.log.rewarded = w.log.rewarded
      /\ v.turnIns = w.turnIns
      /\ \/ v = w /\ ~force /\ ~w.log.dirty
         \/ v.failures = w.failures + 1 /\ v.db = w.db
         \/ /\ v.db = [status |-> w.log.status, rewarded |-> w.log.rewarded]
            /\ v.failures = w.failures
  BY <1>1, PersistFacts
<1> HIDE DEF v
<1>4. v.failures = 0 => w.failures = 0 BY <1>1, <1>3
<1>5. Apart(v.log) /\ Apart(v.db) BY <1>3 DEF Honest, Apart
<1>6. Once(v) BY <1>3, <1>4 DEF Honest, Once
<1>7. Kept(v)
  <2>1. CASE v = w /\ ~force /\ ~w.log.dirty BY <2>1
  <2>2. CASE v.failures = w.failures + 1 BY <1>1, <2>2 DEF Kept
  <2>3. CASE /\ v.db = [status |-> w.log.status, rewarded |-> w.log.rewarded]
             /\ v.failures = w.failures
    BY <1>3, <2>3 DEF Honest, Once, Kept
  <2> QED BY <1>3, <2>1, <2>2, <2>3
<1> QED BY <1>2, <1>5, <1>6, <1>7 DEF Honest, v

\* A store with the same rewarded quests, none of which it takes in hand, is as honest.
LEMMA HonestWithLog ==
  ASSUME NEW w, Honest(w), NEW l, SoundLog(l), l.rewarded = w.log.rewarded, Apart(l)
  PROVE  LET v == [w EXCEPT !.log = l] IN Honest(v) /\ v.log = l /\ (Kept(w) => Kept(v))
<1> DEFINE v == [w EXCEPT !.log = l]
<1>1. w \in Work_ BY DEF Honest, SoundWork
<1>2. SoundWork(v) BY WorkWithLog DEF Honest
<1>3. v.log = l /\ v.db = w.db /\ v.turnIns = w.turnIns /\ v.failures = w.failures
  BY <1>1 DEF Work_
<1> HIDE DEF v
<1>4. Honest(v) BY <1>2, <1>3 DEF Honest, Once
<1>5. Kept(w) => Kept(v) BY <1>3 DEF Kept
<1> QED BY <1>3, <1>4, <1>5 DEF v

\* It is all the same whether the turn-in is counted before the store is put back or after.
LEMMA TurnInLog ==
  ASSUME NEW w \in Work_, NEW q \in Quest, NEW l, NEW u, u = [w EXCEPT !.log = l]
  PROVE  TurnIn(u, q) = [TurnIn(w, q) EXCEPT !.log = l] /\ TurnIn(u, q).log = l
<1> DEFINE t == [w.turnIns EXCEPT ![q] = IF @ < 2 THEN @ + 1 ELSE @]
<1>1. TurnIn(w, q) = [w EXCEPT !.turnIns = t] BY DEF TurnIn, Work_
<1>2. u.turnIns = w.turnIns BY DEF Work_
<1>3. TurnIn(u, q) = [u EXCEPT !.turnIns = t] BY <1>2 DEF TurnIn, Work_
<1> HIDE DEF t
<1> QED BY <1>1, <1>3 DEF Work_

\* A quest that was not rewarded is: this is its first turn-in.
LEMMA HonestTurnIn ==
  ASSUME NEW w, Honest(w), NEW q \in Quest, q \notin w.log.rewarded,
         NEW l, SoundLog(l), l.rewarded = w.log.rewarded \cup {q}, Apart(l)
  PROVE  Honest([TurnIn(w, q) EXCEPT !.log = l])
<1>1. w \in Work_ /\ w.turnIns \in [Quest -> 0 .. 2] BY DEF Honest, SoundWork, Work_
<1> DEFINE t == [w.turnIns EXCEPT ![q] = IF @ < 2 THEN @ + 1 ELSE @]
           v == [w EXCEPT !.turnIns = t, !.log = l]
<1>2. TurnIn(w, q) = [w EXCEPT !.turnIns = t] BY <1>1 DEF TurnIn, Work_
<1>3. /\ t \in [Quest -> 0 .. 2]
      /\ \A p \in Quest \ {q} : t[p] = w.turnIns[p]
      /\ (w.turnIns[q] <= 1 /\ w.turnIns[q] # 1 => t[q] = 1)
  BY <1>1
<1> HIDE DEF t
<1>4. [TurnIn(w, q) EXCEPT !.log = l] = v
  BY <1>1, <1>2 DEF Work_
<1>5. v.log = l /\ v.db = w.db /\ v.turnIns = t /\ v.failures = w.failures
  BY <1>1 DEF Work_
<1>6. SoundWork(v) BY <1>1, <1>3 DEF Honest, SoundWork, SoundLog, Work_
<1> HIDE DEF v
<1>7. Once(v)
  <2> SUFFICES ASSUME v.failures = 0, NEW p \in Quest
               PROVE  v.turnIns[p] <= 1 /\ (v.turnIns[p] = 1 => p \in v.log.rewarded)
    BY DEF Once
  <2>1. w.turnIns[p] <= 1 /\ (w.turnIns[p] = 1 => p \in w.log.rewarded)
    BY <1>5 DEF Honest, Once
  <2>2. CASE p = q BY <1>3, <1>5, <2>1, <2>2
  <2>3. CASE p # q
    <3>1. v.turnIns[p] = w.turnIns[p] BY <1>3, <1>5, <2>3
    <3> QED BY <1>5, <2>1, <3>1
  <2> QED BY <2>2, <2>3
<1> QED BY <1>4, <1>5, <1>6, <1>7 DEF Honest

LEMMA MeetHonest ==
  ASSUME NEW w, Honest(w), Kept(w), NEW n, NEW works
  PROVE  LET v == TryProgressMeetQuests(w, n, works) IN Honest(v) /\ Kept(v)
<1> DEFINE l == Complete(w.log, MetAt(w.log, n))
           v == [w EXCEPT !.log = l]
<1>1. SoundLog(w.log) /\ w.log \in Log BY WorkHasLog DEF Honest, SoundLog
<1>2. SoundLog(l) BY <1>1, CompleteSound
<1>3. l.rewarded = w.log.rewarded
      /\ l.status = [q \in Quest |-> IF q \in MetAt(w.log, n) THEN "complete" ELSE w.log.status[q]]
  BY <1>1, CompleteFacts
<1>4. \A q \in MetAt(w.log, n) : w.log.status[q] = "incomplete" BY DEF MetAt
<1> HIDE DEF l
<1>5. Apart(l) BY <1>3, <1>4 DEF Apart, Honest
<1>6. Honest(v) /\ Kept(v) BY <1>2, <1>3, <1>5, HonestWithLog
<1> HIDE DEF v
<1>7. LET u == PersistQuestProgress(v, FALSE, works) IN Honest(u) /\ Kept(u)
  BY <1>6, PersistHonest
<1> QED BY <1>7 DEF TryProgressMeetQuests, v, l

LEMMA GrantHonest ==
  ASSUME NEW w, Honest(w), Kept(w), NEW q \in Quest, NEW persist, NEW saves, NEW met,
         persist \/ q \notin AutoComplete
  PROVE  LET v == TryGrantQuest(w, q, persist, saves, met) IN Honest(v) /\ Kept(v)
<1> SUFFICES ASSUME EvaluateQuestAccept(w.log, q) = "accepted"
             PROVE  LET v == TryGrantQuest(w, q, persist, saves, met) IN Honest(v) /\ Kept(v)
  BY DEF TryGrantQuest
<1> DEFINE log1 == IF q \in AutoComplete THEN SetQuestRewarded(w.log, q)
                   ELSE SendPlayerQuestLogSlotWire(SetQuestStatus(w.log, q, "incomplete"), q)
           log2 == MarkQuestProgressDirty(log1)
           took == [w EXCEPT !.log = log2]
           granted == IF q \in AutoComplete THEN TurnIn(took, q) ELSE took
           saved == IF persist THEN PersistQuestProgress(granted, FALSE, saves) ELSE granted
<1>1. /\ SatisfyQuestPreviousQuest(w.log, q) /\ q \notin w.log.rewarded
      /\ w.log.status[q] = "none"
  BY DEF EvaluateQuestAccept
<1>2. SoundLog(w.log) /\ w.log \in Log BY WorkHasLog DEF Honest, SoundLog
<1>3. CASE q \in AutoComplete
  <2>1. SoundLog(SetQuestRewarded(w.log, q)) BY <1>1, <1>2, RewardedSound
  <2>2. SoundLog(log1) /\ log1 \in Log BY <1>3, <2>1 DEF SoundLog
  <2>3. /\ log1.rewarded = w.log.rewarded \cup {q}
        /\ log1.status = [w.log.status EXCEPT ![q] = "none"]
    BY <1>2, <1>3, StoreFacts DEF Status
  <2> HIDE DEF log1
  <2>4. SoundLog(log2) BY <2>2, WireSound
  <2>5. log2.rewarded = log1.rewarded /\ log2.status = log1.status /\ log2.dirty
    BY <2>2, WireFacts
  <2> HIDE DEF log2
  <2>6. Apart(log2) BY <1>2, <2>3, <2>5 DEF Apart, Honest, Log
  <2>7. took = [w EXCEPT !.log = log2] OBVIOUS
  <2> HIDE DEF took
  <2>8. log2.rewarded = w.log.rewarded \cup {q} BY <2>3, <2>5
  <2>9. Honest(TurnIn(took, q)) /\ TurnIn(took, q).log = log2
    <3>1. Honest([TurnIn(w, q) EXCEPT !.log = log2])
      BY <1>1, <2>4, <2>6, <2>8, HonestTurnIn
    <3>2. w \in Work_ BY DEF Honest, SoundWork
    <3> QED BY <2>7, <3>1, <3>2, TurnInLog
  <2>10. Honest(granted) /\ granted.log = log2
    BY <1>3, <2>9
  <2> HIDE DEF granted
  <2>11. Honest(saved) /\ Kept(saved) BY <1>3, <2>5, <2>10, PersistHonest
  <2> HIDE DEF saved
  <2> QED BY <1>2, <2>11, MeetHonest DEF TryGrantQuest, saved, granted, took, log2, log1
<1>4. CASE q \notin AutoComplete
  <2> DEFINE l == SetQuestStatus(w.log, q, "incomplete")
  <2>1. SoundLog(l) /\ l \in Log BY <1>1, <1>2, SetStatusSound DEF Status, SoundLog
  <2>2. l.rewarded = w.log.rewarded /\ l.status = [w.log.status EXCEPT ![q] = "incomplete"]
    BY <1>2, StoreFacts DEF Status
  <2>3. log1 = SendPlayerQuestLogSlotWire(l, q) BY <1>4
  <2> HIDE DEF l
  <2>4. SoundLog(log1) /\ log1 \in Log BY <2>1, <2>3, WireSound DEF SoundLog
  <2>5. log1.rewarded = w.log.rewarded /\ log1.status = [w.log.status EXCEPT ![q] = "incomplete"]
    BY <2>1, <2>2, <2>3, WireFacts
  <2> HIDE DEF log1
  <2>6. SoundLog(log2) BY <2>4, WireSound
  <2>7. log2.rewarded = log1.rewarded /\ log2.status = log1.status BY <2>4, WireFacts
  <2> HIDE DEF log2
  <2>8. Apart(log2) BY <1>1, <1>2, <2>5, <2>7 DEF Apart, Honest, Log
  <2>9. Honest(granted) /\ Kept(granted) BY <1>4, <2>5, <2>6, <2>7, <2>8, HonestWithLog
  <2> HIDE DEF granted
  <2>10. Honest(saved) /\ Kept(saved) BY <2>9, PersistHonest
  <2> HIDE DEF saved
  <2> QED BY <1>2, <2>10, MeetHonest DEF TryGrantQuest, saved, granted, took, log2, log1
<1> QED BY <1>3, <1>4

LEMMA RewardHonest ==
  ASSUME NEW w, Honest(w), NEW q \in Quest, w.log.status[q] = "complete",
         NEW saves, NEW met
  PROVE  LET v == TryRewardQuest(w, q, saves, met) IN Honest(v) /\ Kept(v)
<1> DEFINE log0 == SetQuestRewarded(w.log, q)
           log1 == ClearPlayerQuestLogSlotWire(log0, SlotOf(w.log, q))
           log2 == MarkQuestProgressDirty(log1)
           granted == [TurnIn(w, q) EXCEPT !.log = log2]
<1>1. SoundLog(w.log) /\ w.log \in Log BY WorkHasLog DEF Honest, SoundLog
<1>2. q \notin w.log.rewarded BY DEF Honest, Apart
<1>3. SoundLog(log0) /\ log0 \in Log BY <1>1, RewardedSound DEF SoundLog
<1>4. /\ log0.rewarded = w.log.rewarded \cup {q}
      /\ log0.status = [w.log.status EXCEPT ![q] = "none"]
  BY <1>1, StoreFacts DEF Status
<1> HIDE DEF log0
<1>5. SoundLog(log1) /\ log1 \in Log BY <1>3, WireSound DEF SoundLog
<1>6. log1.rewarded = log0.rewarded /\ log1.status = log0.status BY <1>3, WireFacts
<1> HIDE DEF log1
<1>7. SoundLog(log2) BY <1>5, WireSound
<1>8. log2.rewarded = log1.rewarded /\ log2.status = log1.status /\ log2.dirty
  BY <1>5, WireFacts
<1> HIDE DEF log2
<1>9. Apart(log2) BY <1>1, <1>4, <1>6, <1>8 DEF Apart, Honest, Log
<1>10. Honest(granted) BY <1>2, <1>4, <1>6, <1>7, <1>8, <1>9, HonestTurnIn
<1>11. granted.log = log2
  <2>1. TurnIn(w, q) \in Work_ BY TurnInSound DEF Honest, SoundWork
  <2> QED BY <2>1 DEF Work_
<1> HIDE DEF granted
<1>12. LET v == PersistQuestProgress(granted, FALSE, saves) IN Honest(v) /\ Kept(v)
  BY <1>8, <1>10, <1>11, PersistHonest
<1>13. LET v == TryProgressMeetQuests(PersistQuestProgress(granted, FALSE, saves), Ender[q], met)
       IN Honest(v) /\ Kept(v)
  BY <1>12, MeetHonest
<1> QED BY <1>13 DEF TryRewardQuest, granted, log2, log1, log0

OnceInv ==
  /\ Apart(db)
  /\ \A s \in Session : Apart(log[s])
  /\ failures = 0 =>
       /\ \A q \in Quest : turnIns[q] <= 1 /\ (turnIns[q] = 1 => q \in db.rewarded)
       /\ \A s \in Session, q \in Quest :
            inWorld[s] /\ turnIns[q] = 1 => q \in log[s].rewarded

LEMMA WorkHonest ==
  ASSUME Sound, OnceInv, NEW s \in Session, inWorld[s]
  PROVE  Honest(Work(s)) /\ Kept(Work(s))
<1>1. SoundWork(Work(s)) BY WorkSound
<1>2. /\ Work(s).log = log[s] /\ Work(s).db = db /\ Work(s).turnIns = turnIns
      /\ Work(s).failures = failures
  BY DEF Work
<1> QED BY <1>1, <1>2 DEF Honest, Kept, Once, OnceInv

LEMMA CommitOnce ==
  ASSUME Sound, OneSession, OnceInv, NEW s \in Session,
         NEW w, Honest(w), Kept(w), Commit(s, w)
  PROVE  OnceInv'
<1>1. /\ log'[s] = w.log /\ db' = w.db /\ turnIns' = w.turnIns /\ failures' = w.failures
  BY DEF Commit, Sound, TypeOK
<1>2. \A r \in Session : r = s BY DEF OneSession
<1>3. Apart(db') /\ Apart(log'[s]) BY <1>1 DEF Honest
<1>4. failures' = 0 =>
        /\ \A q \in Quest : turnIns'[q] <= 1 /\ (turnIns'[q] = 1 => q \in db'.rewarded)
        /\ \A q \in Quest : turnIns'[q] = 1 => q \in log'[s].rewarded
  BY <1>1 DEF Honest, Once, Kept
<1> QED BY <1>2, <1>3, <1>4 DEF OnceInv, Apart

LEMMA OnceStep ==
  ASSUME Sound, OneSession, OnceInv, AutoAccept \cap AutoComplete = {}, [Next]_vars
  PROVE  OnceInv'
<1>1. CASE UNCHANGED vars BY <1>1 DEF vars, OnceInv, Apart
<1>11. Apart(EmptyLog) BY DEF Apart, EmptyLog
<1>2. CASE Crash
  <2>1. \A s \in Session : log'[s] = EmptyLog /\ ~inWorld'[s] BY <1>2 DEF Crash
  <2> QED BY <1>2, <1>11, <2>1 DEF Crash, OnceInv, Apart
<1>3. ASSUME NEW s \in Session, HandlePlayerLogin(s) PROVE OnceInv'
  <2>1. PICK l \in LoadSnapshot(db) :
          log' = [log EXCEPT ![s] = [l EXCEPT !.shown = [i \in Slot |-> LineOf(l, i)]]]
    BY <1>3 DEF HandlePlayerLogin
  <2> DEFINE m == [l EXCEPT !.shown = [i \in Slot |-> LineOf(l, i)]]
  <2>2. SoundLog(l) BY LoadSound DEF Sound, TypeOK
  <2>3. l.status = db.status /\ l.rewarded = db.rewarded
    BY EmptyLogSound DEF LoadSnapshot, Log, SoundLog
  <2>4. m.status = db.status /\ m.rewarded = db.rewarded
    BY <2>2, <2>3 DEF SoundLog, Log
  <2>5. log'[s] = m BY <2>1 DEF Sound, TypeOK
  <2> HIDE DEF m
  <2>6. log'[s].status = db.status /\ log'[s].rewarded = db.rewarded BY <2>4, <2>5
  <2>7. \A r \in Session : r = s BY DEF OneSession
  <2>8. db' = db /\ turnIns' = turnIns /\ failures' = failures
    BY <1>3 DEF HandlePlayerLogin
  <2> QED BY <2>6, <2>7, <2>8 DEF OnceInv, Apart
<1>4. ASSUME NEW s \in Session, FinalizeWorldExit(s) PROVE OnceInv'
  <2>1. PICK saves :
          LET w == PersistQuestProgress(Work(s), TRUE, saves) IN
          /\ log' = [log EXCEPT ![s] = [EmptyLog EXCEPT !.dirty = w.log.dirty]]
          /\ db' = w.db
          /\ failures' = w.failures
    BY <1>4 DEF FinalizeWorldExit
  <2> DEFINE w == PersistQuestProgress(Work(s), TRUE, saves)
             m == [EmptyLog EXCEPT !.dirty = w.log.dirty]
  <2>2. Honest(Work(s)) /\ SoundWork(Work(s)) /\ Work(s).turnIns = turnIns
    BY <1>4, WorkHonest DEF FinalizeWorldExit, Honest, Work
  <2>3. Honest(w) /\ Kept(w) BY <2>2, PersistHonest
  <2>4. w.turnIns = turnIns
    BY <2>2 DEF PersistQuestProgress, SaveForCharacter, SoundWork, Work_
  <2>5. log' = [log EXCEPT ![s] = m] /\ db' = w.db /\ failures' = w.failures BY <2>1
  <2>6. m.status = EmptyLog.status /\ m.rewarded = EmptyLog.rewarded
    BY EmptyLogSound DEF SoundLog, Log
  <2> HIDE DEF w, m
  <2>7. log'[s] = m /\ ~inWorld'[s] /\ turnIns' = turnIns
    BY <1>4, <2>5 DEF FinalizeWorldExit, Sound, TypeOK
  <2>8. \A r \in Session : r = s BY DEF OneSession
  <2>9. Apart(log'[s]) BY <1>11, <2>6, <2>7 DEF Apart
  <2>10. Apart(db') BY <2>3, <2>5 DEF Honest
  <2>11. failures' = 0 =>
           \A q \in Quest : turnIns'[q] <= 1 /\ (turnIns'[q] = 1 => q \in db'.rewarded)
    BY <2>3, <2>4, <2>5, <2>7 DEF Honest, Once, Kept
  <2> QED BY <2>7, <2>8, <2>9, <2>10, <2>11 DEF OnceInv, Apart
<1>5. ASSUME NEW s \in Session, inWorld[s]
      PROVE  SoundWork(Work(s)) /\ Honest(Work(s)) /\ Kept(Work(s))
  BY <1>5, WorkSound, WorkHonest
<1>6. ASSUME NEW s \in Session, NEW n \in Npc, MeetNpc(s, n) PROVE OnceInv'
  BY <1>5, <1>6, MeetHonest, CommitOnce DEF MeetNpc
<1>7. ASSUME NEW s \in Session, NEW q \in Quest, NEW n \in Npc,
             HandleQuestGiverQueryQuest(s, q, n)
      PROVE  OnceInv'
  <2>1. Honest(Work(s)) /\ Kept(Work(s))
    BY <1>5, <1>7 DEF HandleQuestGiverQueryQuest
  <2>2. PICK met : \/ Commit(s, TryProgressMeetQuests(Work(s), n, met))
                   \/ q \in AutoAccept /\ Commit(s, TryGrantQuest(Work(s), q, FALSE, TRUE, met))
    BY <1>7 DEF HandleQuestGiverQueryQuest
  <2>3. CASE Commit(s, TryProgressMeetQuests(Work(s), n, met))
    BY <2>1, <2>3, MeetHonest, CommitOnce
  <2>4. CASE q \in AutoAccept /\ Commit(s, TryGrantQuest(Work(s), q, FALSE, TRUE, met))
    <3>1. q \notin AutoComplete BY <2>4
    <3> QED BY <2>1, <2>4, <3>1, GrantHonest, CommitOnce
  <2> QED BY <2>2, <2>3, <2>4
<1>8. ASSUME NEW s \in Session, NEW q \in Quest, HandleQuestGiverAcceptQuest(s, q)
      PROVE  OnceInv'
  <2> DEFINE w == Work(s)
             l == SendPlayerQuestLogSlotWire(w.log, q)
             shown == [w EXCEPT !.log = l]
             again(saves) == PersistQuestProgress(shown, FALSE, saves)
  <2>1. SoundWork(w) /\ Honest(w) /\ Kept(w) BY <1>5, <1>8 DEF HandleQuestGiverAcceptQuest
  <2> HIDE DEF w
  <2>2. SoundLog(w.log) /\ w.log \in Log BY <2>1, WorkHasLog DEF SoundLog
  <2>3. SoundLog(l) /\ l.status = w.log.status /\ l.rewarded = w.log.rewarded
    BY <2>2, WireSound, WireFacts
  <2>4. PICK saves, met : Commit(s, IF EvaluateQuestAccept(w.log, q) = "already on quest"
                      THEN TryProgressMeetQuests(again(saves), Giver[q], met)
                      ELSE TryGrantQuest(w, q, TRUE, saves, met))
    BY <1>8 DEF HandleQuestGiverAcceptQuest, w
  <2> HIDE DEF l
  <2>5. Apart(l) BY <2>1, <2>3 DEF Honest, Apart
  <2>6. Honest(shown) /\ Kept(shown) BY <2>1, <2>3, <2>5, HonestWithLog
  <2> HIDE DEF shown
  <2>7. Honest(again(saves)) /\ Kept(again(saves)) BY <2>6, PersistHonest
  <2> HIDE DEF again
  <2>8. LET v == TryProgressMeetQuests(again(saves), Giver[q], met) IN Honest(v) /\ Kept(v)
    BY <2>7, MeetHonest
  <2>9. LET v == TryGrantQuest(w, q, TRUE, saves, met) IN Honest(v) /\ Kept(v)
    BY <2>1, GrantHonest
  <2> QED BY <2>4, <2>8, <2>9, CommitOnce
<1>9. ASSUME NEW s \in Session, NEW q \in Quest, HandleQuestGiverChooseReward(s, q)
      PROVE  OnceInv'
  <2>1. Honest(Work(s)) /\ Work(s).log.status[q] = "complete"
    BY <1>5, <1>9, WorkSound DEF HandleQuestGiverChooseReward
  <2>2. PICK saves, met : Commit(s, TryRewardQuest(Work(s), q, saves, met))
    BY <1>9 DEF HandleQuestGiverChooseReward
  <2>3. LET v == TryRewardQuest(Work(s), q, saves, met) IN Honest(v) /\ Kept(v)
    BY <2>1, RewardHonest
  <2> QED BY <2>2, <2>3, CommitOnce
<1>10. ASSUME NEW s \in Session, NEW i \in Slot, HandleQuestLogRemoveQuest(s, i)
       PROVE  OnceInv'
  <2> DEFINE q == log[s].slots[i]
             log0 == SetQuestStatus(log[s], q, "none")
             log1 == MarkQuestProgressDirty(log0)
             log2 == ClearPlayerQuestLogSlotWire(log1, {i})
             removed == [Work(s) EXCEPT !.log = log2]
  <2>1. SoundLog(log[s]) /\ log[s] \in Log /\ Work(s).log = log[s]
    BY WorkSound DEF Sound, TypeOK, SoundLog
  <2>2. q \in Quest
    BY <1>10, <2>1 DEF HandleQuestLogRemoveQuest, SoundLog, Log
  <2>3. PICK saves : Commit(s, PersistQuestProgress(removed, FALSE, saves))
    BY <1>10 DEF HandleQuestLogRemoveQuest
  <2>4. SoundLog(log0) /\ log0 \in Log
    BY <2>1, <2>2, SetStatusSound DEF Status, SoundLog
  <2>5. log0.status = [log[s].status EXCEPT ![q] = "none"] /\ log0.rewarded = log[s].rewarded
    BY <2>1, <2>2, StoreFacts DEF Status
  <2> HIDE DEF log0, q
  <2>6. SoundLog(log1) /\ log1 \in Log BY <2>4, WireSound DEF SoundLog
  <2>7. log1.status = log0.status /\ log1.rewarded = log0.rewarded BY <2>4, WireFacts
  <2> HIDE DEF log1
  <2>8. SoundLog(log2) BY <2>6, WireSound
  <2>9. log2.status = log1.status /\ log2.rewarded = log1.rewarded BY <2>6, WireFacts
  <2> HIDE DEF log2
  <2>10. Honest(Work(s)) /\ Kept(Work(s))
    BY <1>5, <1>10 DEF HandleQuestLogRemoveQuest
  <2>11. log2.rewarded = Work(s).log.rewarded BY <2>1, <2>5, <2>7, <2>9
  <2>12. Apart(log2) BY <2>1, <2>5, <2>7, <2>9 DEF OnceInv, Apart, Log
  <2>13. Honest(removed) /\ Kept(removed) BY <2>8, <2>10, <2>11, <2>12, HonestWithLog
  <2> HIDE DEF removed
  <2>14. LET v == PersistQuestProgress(removed, FALSE, saves) IN Honest(v) /\ Kept(v)
    BY <2>13, PersistHonest
  <2> QED BY <2>3, <2>14, CommitOnce
<1> QED BY <1>1, <1>2, <1>3, <1>4, <1>6, <1>7, <1>8, <1>9, <1>10 DEF Next

\* With one session on the character, and no quest that both is taken by looking at it
\* and completes itself, no quest is completed for good twice while the saves work,
\* however often the server crashes.
THEOREM CompletedOnce ==
  ASSUME OneSession, AutoAccept \cap AutoComplete = {}
  PROVE  Spec => []TurnedInOnce
<1>1. Init => OnceInv
  <2> SUFFICES ASSUME Init PROVE OnceInv OBVIOUS
  <2>1. Apart(Fresh) /\ Apart(EmptyLog) BY DEF Apart, EmptyLog, Fresh
  <2>2. Apart(db) /\ \A s \in Session : Apart(log[s]) BY <2>1 DEF Init
  <2>3. \A q \in Quest : turnIns[q] = 0 BY DEF Init
  <2> QED BY <2>2, <2>3 DEF OnceInv
<1>2. Sound /\ OnceInv /\ [Next]_vars => OnceInv' BY OnceStep
<1>3. OnceInv => TurnedInOnce BY DEF OnceInv, TurnedInOnce
<1> QED BY <1>1, <1>2, <1>3, SoundAlways, PTL DEF Spec

---------------------------------------------------------------------------
\* The client shows the log: every quest in hand has one slot and no slot is stale
\* (Placed), and what is sent after each change is what the change touched (Shows).
\* A store that is loaded finds a slot for every quest, for what is saved fits in the
\* slots (Fits): it was in them when it was saved.

Placed(l) ==
  /\ \A i \in Slot : l.slots[i] # NoQuest => l.status[l.slots[i]] # "none"
  /\ \A i, j \in Slot : l.slots[i] = l.slots[j] /\ l.slots[i] # NoQuest => i = j
  /\ \A q \in Quest : l.status[q] # "none" => \E i \in Slot : l.slots[i] = q

Shows(l) == Placed(l) /\ l.shown = [i \in Slot |-> LineOf(l, i)]
Fits(d) == Cardinality(Active(d)) <= Slots
Told(w) == SoundWork(w) /\ Shows(w.log) /\ Fits(w.db)

LEMMA MinIsMember ==
  ASSUME NEW S \in SUBSET Nat, S # {}
  PROVE  Min(S) \in S
<1> DEFINE R == OpToRel(<, Nat)
<1>1. IsWellFoundedOn(R, Nat) BY NatLessThanWellFounded
<1>2. \A x, y \in Nat : <<x, y>> \in R <=> x < y BY Zenon DEF OpToRel
<1> HIDE DEF R
<1>3. PICK x \in S : \A y \in S : ~ (<<y, x>> \in R) BY <1>1, WFMin
<1>4. \A y \in S : <<y, x>> \in R <=> y < x BY <1>2, Zenon
<1>5. \A y \in S : ~ (y < x) BY <1>3, <1>4
<1>6. \A y \in S : x <= y BY <1>5
<1> QED BY <1>6 DEF Min

\* What shows depends on three fields.
LEMMA SameShows ==
  ASSUME NEW l, Shows(l), NEW m, m.status = l.status, m.slots = l.slots, m.shown = l.shown
  PROVE  Shows(m)
BY DEF Shows, Placed, LineOf

\* A quest taken into a free slot and sent.
LEMMA TakeShows ==
  ASSUME NEW l \in Log, Shows(l), NEW q \in Quest, l.status[q] = "none", FreeSlot(l) # {},
         SetQuestStatus(l, q, "incomplete") \in Log
  PROVE  Shows(SendPlayerQuestLogSlotWire(SetQuestStatus(l, q, "incomplete"), q))
<1> DEFINE k == Min(FreeSlot(l))
           m == SetQuestStatus(l, q, "incomplete")
           n == SendPlayerQuestLogSlotWire(m, q)
<1>1. k \in Slot /\ l.slots[k] = NoQuest
  <2>1. FreeSlot(l) \in SUBSET Nat BY QuestAssumption DEF FreeSlot, Slot
  <2>2. Min(FreeSlot(l)) \in FreeSlot(l) BY <2>1, MinIsMember
  <2> QED BY <2>2 DEF FreeSlot
<1>2. SlotOf(l, q) = {} BY QuestAssumption DEF Shows, Placed, SlotOf
<1>3. m = [l EXCEPT !.status[q] = "incomplete", !.slots[k] = q]
  BY <1>2 DEF SetQuestStatus
<1> HIDE DEF k
<1>4. /\ m.status = [l.status EXCEPT ![q] = "incomplete"]
      /\ m.slots = [l.slots EXCEPT ![k] = q]
      /\ m.shown = l.shown
  BY <1>3 DEF Log
<1>5. m \in Log OBVIOUS
<1> HIDE DEF m
<1>6. l.status \in [Quest -> Status] /\ l.slots \in [Slot -> Quest \cup {NoQuest}] BY DEF Log
<1>7. /\ n.status = m.status /\ n.slots = m.slots
      /\ n.shown = [i \in Slot |-> IF i \in SlotOf(m, q) THEN LineOf(m, i) ELSE l.shown[i]]
  <2>1. n.shown = [i \in Slot |-> IF i \in SlotOf(m, q) THEN LineOf(m, i) ELSE m.shown[i]]
    BY <1>5 DEF SendPlayerQuestLogSlotWire, Log
  <2> QED BY <1>4, <1>5, <2>1, WireFacts
<1>8. m.slots[k] = q /\ \A i \in Slot \ {k} : m.slots[i] = l.slots[i] /\ m.slots[i] # q
  BY <1>1, <1>2, <1>4, <1>6 DEF SlotOf
<1>9. m.status[q] = "incomplete" /\ \A p \in Quest \ {q} : m.status[p] = l.status[p]
  BY <1>4, <1>6
<1>10. Placed(m)
  BY <1>1, <1>6, <1>8, <1>9, QuestAssumption, SMTT(30) DEF Shows, Placed
<1>11. \A i \in Slot : n.shown[i] = LineOf(n, i)
  <2> SUFFICES ASSUME NEW i \in Slot PROVE n.shown[i] = LineOf(n, i) OBVIOUS
  <2>1. LineOf(n, i) = LineOf(m, i) BY <1>7 DEF LineOf
  <2>2. CASE i = k
    <3>1. i \in SlotOf(m, q) BY <1>8, <2>2 DEF SlotOf
    <3> QED BY <1>7, <2>1, <3>1
  <2>3. CASE i # k
    <3>1. i \notin SlotOf(m, q) BY <1>8, <2>3 DEF SlotOf
    <3>2. n.shown[i] = LineOf(l, i) BY <1>7, <3>1 DEF Shows
    <3>3. LineOf(m, i) = LineOf(l, i) BY <1>6, <1>8, <1>9, <2>3 DEF LineOf
    <3> QED BY <2>1, <3>2, <3>3
  <2> QED BY <2>2, <2>3
<1>12. n.shown = [i \in Slot |-> LineOf(n, i)]
  <2> HIDE DEF n
  <2> QED BY <1>7, <1>11
<1>13. Placed(n) BY <1>7, <1>10 DEF Placed
<1> QED BY <1>12, <1>13 DEF Shows, m

\* A quest taken off, with its lines blanked: those it had, or none if it was not in hand.
LEMMA DropShows ==
  ASSUME NEW l \in Log, Shows(l), NEW q \in Quest, NEW m,
         m.slots = ClearQuestLogSlot(l, q), m.status = [l.status EXCEPT ![q] = "none"],
         m.shown = [i \in Slot |-> IF i \in SlotOf(l, q) THEN BlankLine ELSE l.shown[i]]
  PROVE  Shows(m)
<1>1. l.status \in [Quest -> Status] /\ l.slots \in [Slot -> Quest \cup {NoQuest}] BY DEF Log
<1>2. \A i \in Slot : m.slots[i] = IF l.slots[i] = q THEN NoQuest ELSE l.slots[i]
  BY DEF ClearQuestLogSlot
<1>3. m.status[q] = "none" /\ \A p \in Quest \ {q} : m.status[p] = l.status[p]
  BY <1>1
<1>4. Placed(m)
  BY <1>1, <1>2, <1>3, QuestAssumption DEF Shows, Placed
<1>5. \A i \in Slot : m.shown[i] = LineOf(m, i)
  <2> SUFFICES ASSUME NEW i \in Slot PROVE m.shown[i] = LineOf(m, i) OBVIOUS
  <2>1. CASE l.slots[i] = q
    BY <1>2, <2>1 DEF SlotOf, LineOf
  <2>2. CASE l.slots[i] # q
    <3>1. m.shown[i] = LineOf(l, i) BY <2>2 DEF SlotOf, Shows
    <3>2. LineOf(m, i) = LineOf(l, i) BY <1>1, <1>2, <1>3, <2>2 DEF LineOf
    <3> QED BY <3>1, <3>2
  <2> QED BY <2>1, <2>2
<1> QED BY <1>4, <1>5 DEF Shows

LEMMA CompleteShows ==
  ASSUME NEW l \in Log, Shows(l), NEW n
  PROVE  Shows(Complete(l, MetAt(l, n)))
<1> DEFINE m == Complete(l, MetAt(l, n))
<1>1. l.status \in [Quest -> Status] /\ l.slots \in [Slot -> Quest \cup {NoQuest}] BY DEF Log
<1>2. /\ m.status = [q \in Quest |-> IF q \in MetAt(l, n) THEN "complete" ELSE l.status[q]]
      /\ m.slots = l.slots
      /\ m.shown = [i \in Slot |-> IF l.slots[i] \in MetAt(l, n)
                                   THEN [quest |-> l.slots[i], done |-> TRUE] ELSE l.shown[i]]
  BY CompleteFacts
<1> HIDE DEF m
<1>3. \A q \in MetAt(l, n) : q \in Quest /\ q # NoQuest /\ l.status[q] = "incomplete"
  BY QuestAssumption DEF MetAt
<1>4. Placed(m)
  BY <1>1, <1>2, <1>3 DEF Shows, Placed
<1>5. \A i \in Slot : m.shown[i] = LineOf(m, i)
  <2> SUFFICES ASSUME NEW i \in Slot PROVE m.shown[i] = LineOf(m, i) OBVIOUS
  <2>1. CASE l.slots[i] \in MetAt(l, n)
    BY <1>2, <1>3, <2>1 DEF LineOf
  <2>2. CASE l.slots[i] \notin MetAt(l, n)
    <3>1. m.shown[i] = LineOf(l, i) BY <1>2, <2>2 DEF Shows
    <3>2. LineOf(m, i) = LineOf(l, i) BY <1>1, <1>2, <2>2 DEF LineOf
    <3> QED BY <3>1, <3>2
  <2> QED BY <2>1, <2>2
<1>6. m.shown = [i \in Slot |-> LineOf(m, i)] BY <1>2, <1>5
<1> QED BY <1>4, <1>6 DEF Shows, m

---------------------------------------------------------------------------
\* What is saved fits in the slots, and is found in them again.

LEMMA PlacedFits ==
  ASSUME NEW l \in Log, Placed(l)
  PROVE  Cardinality(Active(l)) <= Slots
<1> DEFINE A == Active(l)
           f == [q \in A |-> CHOOSE i \in Slot : l.slots[i] = q]
<1>1. \A q \in A : f[q] \in Slot /\ l.slots[f[q]] = q
  BY DEF Active, Placed
<1>2. f \in [A -> Slot] BY <1>1
<1> HIDE DEF f
<1>3. f \in Injection(A, Slot)
  BY <1>1, <1>2 DEF Injection, IsInjective
<1>4. IsFiniteSet(Slot) /\ Cardinality(Slot) = Slots
  BY FS_Interval, QuestAssumption DEF Slot
<1> HIDE DEF A
<1>5. Cardinality(A) <= Cardinality(Slot) BY <1>3, <1>4, FS_Injection
<1> QED BY <1>4, <1>5 DEF A

LEMMA LoadShows ==
  ASSUME NEW d \in Snapshot, Fits(d), NEW l \in LoadSnapshot(d)
  PROVE  Placed(l)
<1> DEFINE A == Active(d)
           n == Cardinality(A)
           slots(order) == [i \in Slot |-> IF i <= Len(order) THEN order[i] ELSE NoQuest]
<1>1. PICK order \in SetToSeqs(A) :
        l = [EmptyLog EXCEPT !.status = d.status, !.rewarded = d.rewarded,
                             !.slots = slots(order)]
  BY DEF LoadSnapshot
<1>2. A \subseteq Quest /\ \A q \in Quest : q \in A <=> d.status[q] # "none" BY DEF Active
<1>3. n \in Nat /\ IsFiniteSet(A) /\ n <= Slots
  BY <1>2, QuestAssumption, FS_Subset, FS_CardinalityType DEF Fits
<1>4. order \in [1 .. n -> A] /\ \A i, j \in 1 .. n : i # j => order[i] # order[j]
  BY DEF SetToSeqs
<1> HIDE DEF A
<1>5. \A q \in A : \E i \in 1 .. n : order[i] = q
  <2>1. order \in Injection(1 .. n, A) BY <1>4 DEF Injection, IsInjective
  <2>2. Cardinality(1 .. n) = n BY <1>3, FS_Interval
  <2>3. order \in Surjection(1 .. n, A) BY <1>3, <2>1, <2>2, FS_Injection
  <2> QED BY <2>3 DEF Surjection
<1> HIDE DEF n
<1>6. Len(order) = n BY <1>3, <1>4
<1>7. EmptyLog \in Log BY EmptyLogSound DEF SoundLog
<1>8. l.status = d.status /\ l.slots = slots(order) BY <1>1, <1>7 DEF Log
<1>9. \A i \in Slot : l.slots[i] = IF i \in 1 .. n THEN order[i] ELSE NoQuest
  BY <1>3, <1>6, <1>8, QuestAssumption DEF Slot
<1> HIDE DEF slots
<1>10. 1 .. n \subseteq Slot BY <1>3, QuestAssumption DEF Slot
<1>11. \A i \in Slot : l.slots[i] # NoQuest => i \in 1 .. n /\ l.slots[i] = order[i]
  BY <1>9
<1>12. \A i \in Slot : l.slots[i] # NoQuest => l.status[l.slots[i]] # "none"
  BY <1>2, <1>4, <1>8, <1>11
<1>13. \A i, j \in Slot : l.slots[i] = l.slots[j] /\ l.slots[i] # NoQuest => i = j
  BY <1>4, <1>11
<1>14. \A q \in Quest : l.status[q] # "none" => \E i \in Slot : l.slots[i] = q
  BY <1>2, <1>5, <1>8, <1>9, <1>10
<1> QED BY <1>12, <1>13, <1>14 DEF Placed

---------------------------------------------------------------------------
\* What a handler works on.

LEMMA PersistTold ==
  ASSUME NEW w, Told(w), NEW force, NEW works
  PROVE  Told(PersistQuestProgress(w, force, works))
<1> DEFINE v == PersistQuestProgress(w, force, works)
<1>1. SoundWork(w) /\ w.log \in Log BY DEF Told, SoundWork, Work_
<1>2. SoundWork(v) BY <1>1, PersistSound
<1>3. /\ v.log.status = w.log.status
      /\ v.log.slots = w.log.slots /\ v.log.shown = w.log.shown
      /\ \/ v.db = w.db
         \/ v.db = [status |-> w.log.status, rewarded |-> w.log.rewarded]
  BY <1>1, PersistFacts
<1> HIDE DEF v
<1>4. Shows(v.log) BY <1>3, SameShows DEF Told
<1>5. Cardinality(Active(w.log)) <= Slots BY <1>1, PlacedFits DEF Told, Shows
<1>6. Active([status |-> w.log.status, rewarded |-> w.log.rewarded]) = Active(w.log)
  BY DEF Active
<1>7. Fits(v.db) BY <1>3, <1>5, <1>6 DEF Fits, Told
<1> QED BY <1>2, <1>4, <1>7 DEF Told, v

LEMMA ToldWithLog ==
  ASSUME NEW w, Told(w), NEW l, SoundLog(l), Shows(l)
  PROVE  Told([w EXCEPT !.log = l])
<1> DEFINE v == [w EXCEPT !.log = l]
<1>1. SoundWork(v) BY WorkWithLog DEF Told
<1>2. v.log = l /\ v.db = w.db BY DEF Told, SoundWork, Work_
<1> HIDE DEF v
<1> QED BY <1>1, <1>2 DEF Told, v

LEMMA TurnInTold ==
  ASSUME NEW w, Told(w), NEW q \in Quest
  PROVE  Told(TurnIn(w, q))
<1>1. SoundWork(TurnIn(w, q)) /\ TurnIn(w, q).log = w.log BY TurnInSound DEF Told
<1>2. TurnIn(w, q).db = w.db BY DEF TurnIn, Told, SoundWork, Work_
<1> QED BY <1>1, <1>2 DEF Told

LEMMA MeetTold ==
  ASSUME NEW w, Told(w), NEW n, NEW works
  PROVE  Told(TryProgressMeetQuests(w, n, works))
<1> DEFINE l == Complete(w.log, MetAt(w.log, n))
           v == [w EXCEPT !.log = l]
<1>1. SoundLog(w.log) /\ w.log \in Log /\ Shows(w.log) BY WorkHasLog DEF Told, SoundLog
<1>2. SoundLog(l) /\ Shows(l) BY <1>1, CompleteSound, CompleteShows
<1> HIDE DEF l
<1>3. Told(v) BY <1>2, ToldWithLog
<1> HIDE DEF v
<1>4. Told(PersistQuestProgress(v, FALSE, works)) BY <1>3, PersistTold
<1> QED BY <1>4 DEF TryProgressMeetQuests, v, l

LEMMA GrantTold ==
  ASSUME NEW w, Told(w), NEW q \in Quest, NEW persist, NEW saves, NEW met
  PROVE  Told(TryGrantQuest(w, q, persist, saves, met))
<1> SUFFICES ASSUME EvaluateQuestAccept(w.log, q) = "accepted", FreeSlot(w.log) # {}
             PROVE  Told(TryGrantQuest(w, q, persist, saves, met))
  BY DEF TryGrantQuest
<1> DEFINE log1 == IF q \in AutoComplete THEN SetQuestRewarded(w.log, q)
                   ELSE SendPlayerQuestLogSlotWire(SetQuestStatus(w.log, q, "incomplete"), q)
           log2 == MarkQuestProgressDirty(log1)
           took == [w EXCEPT !.log = log2]
           granted == IF q \in AutoComplete THEN TurnIn(took, q) ELSE took
           saved == IF persist THEN PersistQuestProgress(granted, FALSE, saves) ELSE granted
<1>1. SatisfyQuestPreviousQuest(w.log, q) /\ w.log.status[q] = "none"
  BY DEF EvaluateQuestAccept
<1>2. SoundLog(w.log) /\ w.log \in Log /\ Shows(w.log) BY WorkHasLog DEF Told, SoundLog
<1>3. SoundLog(log1) /\ Shows(log1)
  <2>1. CASE q \in AutoComplete
    <3> DEFINE m == SetQuestRewarded(w.log, q)
    <3>1. SoundLog(m) BY <1>1, <1>2, RewardedSound
    <3>2. /\ m.slots = ClearQuestLogSlot(w.log, q)
          /\ m.status = [w.log.status EXCEPT ![q] = "none"]
          /\ m.shown = w.log.shown
      BY <1>2, StoreFacts DEF Status
    <3> HIDE DEF m
    <3>3. SlotOf(w.log, q) = {} BY <1>1, <1>2, QuestAssumption DEF Shows, Placed, SlotOf
    <3>4. m.shown = [i \in Slot |-> IF i \in SlotOf(w.log, q) THEN BlankLine ELSE w.log.shown[i]]
      BY <1>2, <3>2, <3>3 DEF Log
    <3>5. Shows(m) BY <1>2, <3>2, <3>4, DropShows
    <3> QED BY <2>1, <3>1, <3>5 DEF m
  <2>2. CASE q \notin AutoComplete
    <3> DEFINE m == SetQuestStatus(w.log, q, "incomplete")
    <3>1. SoundLog(m) /\ m \in Log
      BY <1>1, <1>2, SetStatusSound DEF Status, SoundLog
    <3>2. Shows(SendPlayerQuestLogSlotWire(m, q)) BY <1>1, <1>2, <3>1, TakeShows
    <3> HIDE DEF m
    <3>3. SoundLog(SendPlayerQuestLogSlotWire(m, q)) BY <3>1, WireSound
    <3> QED BY <2>2, <3>2, <3>3 DEF m
  <2> QED BY <2>1, <2>2
<1> HIDE DEF log1
<1>4. SoundLog(log2) /\ Shows(log2)
  BY <1>3, WireSound, WireFacts, SameShows DEF SoundLog
<1> HIDE DEF log2
<1>5. Told(took) BY <1>4, ToldWithLog
<1> HIDE DEF took
<1>6. Told(granted) BY <1>5, TurnInTold
<1> HIDE DEF granted
<1>7. Told(saved) BY <1>6, PersistTold
<1> HIDE DEF saved
<1>8. Told(TryProgressMeetQuests(saved, Giver[q], met)) BY <1>7, MeetTold
<1> QED BY <1>2, <1>8 DEF TryGrantQuest, saved, granted, took, log2, log1

\* The quests taken off the log, at the turn-in and by the player: their lines are blanked.
LEMMA ClearWireShows ==
  ASSUME NEW l \in Log, Shows(l), NEW q \in Quest, NEW m \in Log,
         m.slots = ClearQuestLogSlot(l, q), m.status = [l.status EXCEPT ![q] = "none"],
         m.shown = l.shown
  PROVE  Shows(ClearPlayerQuestLogSlotWire(m, SlotOf(l, q)))
<1> DEFINE n == ClearPlayerQuestLogSlotWire(m, SlotOf(l, q))
<1>1. n.slots = m.slots /\ n.status = m.status BY WireFacts
<1>2. n.shown = [i \in Slot |-> IF i \in SlotOf(l, q) THEN BlankLine ELSE m.shown[i]]
  BY DEF ClearPlayerQuestLogSlotWire, Log
<1> HIDE DEF n
<1>3. Shows(n) BY <1>1, <1>2, DropShows
<1> QED BY <1>3 DEF n

LEMMA RewardTold ==
  ASSUME NEW w, Told(w), NEW q \in Quest, w.log.status[q] = "complete",
         NEW saves, NEW met
  PROVE  Told(TryRewardQuest(w, q, saves, met))
<1> DEFINE log0 == SetQuestRewarded(w.log, q)
           log1 == ClearPlayerQuestLogSlotWire(log0, SlotOf(w.log, q))
           log2 == MarkQuestProgressDirty(log1)
           granted == [TurnIn(w, q) EXCEPT !.log = log2]
<1>1. SoundLog(w.log) /\ w.log \in Log /\ Shows(w.log) BY WorkHasLog DEF Told, SoundLog
<1>2. SoundLog(log0) /\ log0 \in Log BY <1>1, RewardedSound DEF SoundLog
<1>3. /\ log0.slots = ClearQuestLogSlot(w.log, q)
      /\ log0.status = [w.log.status EXCEPT ![q] = "none"]
      /\ log0.shown = w.log.shown
  BY <1>1, StoreFacts DEF Status
<1> HIDE DEF log0
<1>4. SoundLog(log1) /\ Shows(log1) BY <1>1, <1>2, <1>3, WireSound, ClearWireShows
<1> HIDE DEF log1
<1>5. SoundLog(log2) /\ Shows(log2)
  BY <1>4, WireSound, WireFacts, SameShows DEF SoundLog
<1> HIDE DEF log2
<1>6. Told(granted) BY <1>5, TurnInTold, ToldWithLog
<1> HIDE DEF granted
<1>7. Told(TryProgressMeetQuests(PersistQuestProgress(granted, FALSE, saves), Ender[q], met))
  BY <1>6, PersistTold, MeetTold
<1> QED BY <1>7 DEF TryRewardQuest, granted, log2, log1, log0

---------------------------------------------------------------------------
ShownInv == Fits(db) /\ \A s \in Session : inWorld[s] => Shows(log[s])

LEMMA WorkTold ==
  ASSUME Sound, ShownInv, NEW s \in Session, inWorld[s]
  PROVE  Told(Work(s))
<1>1. SoundWork(Work(s)) BY WorkSound
<1>2. Work(s).log = log[s] /\ Work(s).db = db BY DEF Work
<1> QED BY <1>1, <1>2 DEF Told, ShownInv

LEMMA CommitTold ==
  ASSUME Sound, ShownInv, NEW s \in Session, NEW w, Told(w), Commit(s, w)
  PROVE  ShownInv'
<1>1. log' = [log EXCEPT ![s] = w.log] /\ db' = w.db /\ inWorld' = inWorld
  BY DEF Commit
<1>2. \A r \in Session : log'[r] = IF r = s THEN w.log ELSE log[r]
  BY <1>1 DEF Sound, TypeOK
<1>3. Fits(db') BY <1>1 DEF Told
<1>4. \A r \in Session : inWorld'[r] => Shows(log'[r])
  BY <1>1, <1>2 DEF Told, ShownInv
<1> QED BY <1>3, <1>4 DEF ShownInv, Fits, Shows, Placed, LineOf, Active

LEMMA ShownStep ==
  ASSUME Sound, ShownInv, [Next]_vars
  PROVE  ShownInv'
<1>1. CASE UNCHANGED vars
  BY <1>1 DEF vars, ShownInv, Fits, Shows, Placed, LineOf, Active
<1>2. CASE Crash
  BY <1>2 DEF Crash, ShownInv, Fits, Active
<1>3. ASSUME NEW s \in Session, HandlePlayerLogin(s) PROVE ShownInv'
  <2>1. PICK l \in LoadSnapshot(db) :
          log' = [log EXCEPT ![s] = [l EXCEPT !.shown = [i \in Slot |-> LineOf(l, i)]]]
    BY <1>3 DEF HandlePlayerLogin
  <2> DEFINE lines == [i \in Slot |-> LineOf(l, i)]
             m == [l EXCEPT !.shown = lines]
  <2>2. SoundLog(l) /\ Placed(l) BY LoadSound, LoadShows DEF Sound, TypeOK, ShownInv
  <2>3. log' = [log EXCEPT ![s] = m] BY <2>1
  <2>4. lines = [i \in Slot |-> LineOf(l, i)] OBVIOUS
  <2> HIDE DEF lines
  <2>5. m.status = l.status /\ m.slots = l.slots /\ m.shown = lines
    BY <2>2 DEF SoundLog, Log
  <2> HIDE DEF m
  <2>6. Shows(m) BY <2>2, <2>5, <2>4 DEF Shows, Placed, LineOf
  <2>7. \A r \in Session : log'[r] = IF r = s THEN m ELSE log[r]
    BY <2>3 DEF Sound, TypeOK
  <2>8. inWorld' = [inWorld EXCEPT ![s] = TRUE] /\ db' = db BY <1>3 DEF HandlePlayerLogin
  <2>9. \A r \in Session : inWorld'[r] => Shows(log'[r])
    BY <2>6, <2>7, <2>8 DEF ShownInv, Sound, TypeOK
  <2>10. Fits(db') BY <2>8 DEF ShownInv
  <2> QED BY <2>9, <2>10 DEF ShownInv, Fits, Shows, Placed, LineOf, Active
<1>4. ASSUME NEW s \in Session, FinalizeWorldExit(s) PROVE ShownInv'
  <2>1. PICK saves :
          LET w == PersistQuestProgress(Work(s), TRUE, saves) IN
          /\ log' = [log EXCEPT ![s] = [EmptyLog EXCEPT !.dirty = w.log.dirty]]
          /\ db' = w.db
    BY <1>4 DEF FinalizeWorldExit
  <2> DEFINE w == PersistQuestProgress(Work(s), TRUE, saves)
             m == [EmptyLog EXCEPT !.dirty = w.log.dirty]
  <2>2. Told(w) BY <1>4, WorkTold, PersistTold DEF FinalizeWorldExit
  <2>3. log' = [log EXCEPT ![s] = m] /\ db' = w.db BY <2>1
  <2> HIDE DEF w, m
  <2>4. \A r \in Session \ {s} : log'[r] = log[r] BY <2>3 DEF Sound, TypeOK
  <2>5. inWorld' = [inWorld EXCEPT ![s] = FALSE] BY <1>4 DEF FinalizeWorldExit
  <2>6. \A r \in Session : inWorld'[r] => Shows(log'[r])
    BY <2>4, <2>5 DEF ShownInv, Sound, TypeOK
  <2>7. Fits(db') BY <2>2, <2>3 DEF Told
  <2> QED BY <2>6, <2>7 DEF ShownInv, Fits, Shows, Placed, LineOf, Active
<1>5. ASSUME NEW s \in Session, inWorld[s]
      PROVE  SoundWork(Work(s)) /\ Told(Work(s))
  BY <1>5, WorkSound, WorkTold
<1>6. ASSUME NEW s \in Session, NEW n \in Npc, MeetNpc(s, n) PROVE ShownInv'
  BY <1>5, <1>6, MeetTold, CommitTold DEF MeetNpc
<1>7. ASSUME NEW s \in Session, NEW q \in Quest, NEW n \in Npc,
             HandleQuestGiverQueryQuest(s, q, n)
      PROVE  ShownInv'
  <2>1. Told(Work(s)) BY <1>5, <1>7 DEF HandleQuestGiverQueryQuest
  <2>2. PICK met : \/ Commit(s, TryProgressMeetQuests(Work(s), n, met))
                   \/ Commit(s, TryGrantQuest(Work(s), q, FALSE, TRUE, met))
    BY <1>7 DEF HandleQuestGiverQueryQuest
  <2>3. CASE Commit(s, TryProgressMeetQuests(Work(s), n, met))
    BY <2>1, <2>3, MeetTold, CommitTold
  <2>4. CASE Commit(s, TryGrantQuest(Work(s), q, FALSE, TRUE, met))
    BY <2>1, <2>4, GrantTold, CommitTold
  <2> QED BY <2>2, <2>3, <2>4
<1>8. ASSUME NEW s \in Session, NEW q \in Quest, HandleQuestGiverAcceptQuest(s, q)
      PROVE  ShownInv'
  <2> DEFINE w == Work(s)
             l == SendPlayerQuestLogSlotWire(w.log, q)
             shown == [w EXCEPT !.log = l]
             again(saves) == PersistQuestProgress(shown, FALSE, saves)
  <2>1. SoundWork(w) /\ Told(w) BY <1>5, <1>8 DEF HandleQuestGiverAcceptQuest
  <2> HIDE DEF w
  <2>2. SoundLog(w.log) /\ w.log \in Log /\ Shows(w.log)
    BY <2>1, WorkHasLog DEF SoundLog, Told
  <2>3. SoundLog(l) BY <2>2, WireSound
  <2>4. PICK saves, met : Commit(s, IF EvaluateQuestAccept(w.log, q) = "already on quest"
                      THEN TryProgressMeetQuests(again(saves), Giver[q], met)
                      ELSE TryGrantQuest(w, q, TRUE, saves, met))
    BY <1>8 DEF HandleQuestGiverAcceptQuest, w
  <2>5. /\ l.status = w.log.status /\ l.slots = w.log.slots
        /\ l.shown = [i \in Slot |-> IF i \in SlotOf(w.log, q) THEN LineOf(w.log, i)
                                     ELSE w.log.shown[i]]
    <3>1. l.shown = [i \in Slot |-> IF i \in SlotOf(w.log, q) THEN LineOf(w.log, i)
                                    ELSE w.log.shown[i]]
      BY <2>2 DEF SendPlayerQuestLogSlotWire, Log
    <3> QED BY <2>2, <3>1, WireFacts
  <2> HIDE DEF l
  <2>6. l.shown = w.log.shown BY <2>2, <2>5 DEF Shows
  <2>7. Shows(l) BY <2>2, <2>5, <2>6, SameShows
  <2>8. Told(shown) BY <2>1, <2>3, <2>7, ToldWithLog
  <2> HIDE DEF shown
  <2>9. Told(again(saves)) BY <2>8, PersistTold
  <2> HIDE DEF again
  <2>10. Told(TryProgressMeetQuests(again(saves), Giver[q], met)) BY <2>9, MeetTold
  <2>11. Told(TryGrantQuest(w, q, TRUE, saves, met)) BY <2>1, GrantTold
  <2> QED BY <2>4, <2>10, <2>11, CommitTold
<1>9. ASSUME NEW s \in Session, NEW q \in Quest, HandleQuestGiverChooseReward(s, q)
      PROVE  ShownInv'
  <2>1. Told(Work(s)) /\ Work(s).log.status[q] = "complete"
    BY <1>5, <1>9, WorkSound DEF HandleQuestGiverChooseReward
  <2>2. PICK saves, met : Commit(s, TryRewardQuest(Work(s), q, saves, met))
    BY <1>9 DEF HandleQuestGiverChooseReward
  <2>3. Told(TryRewardQuest(Work(s), q, saves, met)) BY <2>1, RewardTold
  <2> QED BY <2>2, <2>3, CommitTold
<1>10. ASSUME NEW s \in Session, NEW i \in Slot, HandleQuestLogRemoveQuest(s, i)
       PROVE  ShownInv'
  <2> DEFINE q == log[s].slots[i]
             log0 == SetQuestStatus(log[s], q, "none")
             log1 == MarkQuestProgressDirty(log0)
             log2 == ClearPlayerQuestLogSlotWire(log1, {i})
             removed == [Work(s) EXCEPT !.log = log2]
  <2>1. SoundLog(log[s]) /\ log[s] \in Log
    BY DEF Sound, TypeOK, SoundLog
  <2>2. q \in Quest /\ q # NoQuest
    BY <1>10, <2>1 DEF HandleQuestLogRemoveQuest, SoundLog, Log
  <2>3. PICK saves : Commit(s, PersistQuestProgress(removed, FALSE, saves))
    BY <1>10 DEF HandleQuestLogRemoveQuest
  <2>4. SoundLog(log0) /\ log0 \in Log
    BY <2>1, <2>2, SetStatusSound DEF Status, SoundLog
  <2>5. /\ log0.slots = ClearQuestLogSlot(log[s], q)
        /\ log0.status = [log[s].status EXCEPT ![q] = "none"]
        /\ log0.shown = log[s].shown
    <3>1. log0.slots = ClearQuestLogSlot(log[s], q)
      BY <2>1 DEF SetQuestStatus, Log
    <3> QED BY <2>1, <2>2, <3>1, StoreFacts DEF Status
  <2> HIDE DEF log0
  <2>6. Told(Work(s)) /\ Shows(log[s])
    BY <1>5, <1>10 DEF HandleQuestLogRemoveQuest, ShownInv
  <2>7. {i} = SlotOf(log[s], q)
    BY <2>2, <2>6 DEF Shows, Placed, SlotOf
  <2> HIDE DEF q
  <2>8. SoundLog(log1) /\ log1 \in Log BY <2>4, WireSound DEF SoundLog
  <2>9. log1.slots = log0.slots /\ log1.status = log0.status /\ log1.shown = log0.shown
    BY <2>4, WireFacts
  <2> HIDE DEF log1
  <2>10. SoundLog(log2) BY <2>8, WireSound
  <2>11. Shows(log2) BY <2>1, <2>2, <2>5, <2>6, <2>7, <2>8, <2>9, ClearWireShows
  <2> HIDE DEF log2
  <2>12. Told(removed) BY <2>6, <2>10, <2>11, ToldWithLog
  <2> HIDE DEF removed
  <2>13. Told(PersistQuestProgress(removed, FALSE, saves)) BY <2>12, PersistTold
  <2> QED BY <2>3, <2>13, CommitTold
<1> QED BY <1>1, <1>2, <1>3, <1>4, <1>6, <1>7, <1>8, <1>9, <1>10 DEF Next

\* The client shows, slot by slot, the quests the server has in hand, each in one slot,
\* for any number of sessions on the character and whatever saves fail.
THEOREM ShowsTheLog == Spec => []ClientShowsTheLog
<1>1. Init => ShownInv
  <2> SUFFICES ASSUME Init PROVE ShownInv OBVIOUS
  <2>1. Active(Fresh) = {} BY DEF Active, Fresh
  <2>2. Fits(db) BY <2>1, FS_EmptySet, QuestAssumption DEF Fits, Init
  <2> QED BY <2>2 DEF Init, ShownInv
<1>2. Sound /\ ShownInv /\ [Next]_vars => ShownInv' BY ShownStep
<1>3. Sound /\ ShownInv => ClientShowsTheLog
  <2> SUFFICES ASSUME Sound, ShownInv, NEW s \in Session, inWorld[s]
               PROVE  /\ log[s].shown = [i \in Slot |-> LineOf(log[s], i)]
                      /\ \A q \in Quest : Cardinality(SlotOf(log[s], q)) =
                                            IF log[s].status[q] = "none" THEN 0 ELSE 1
    BY DEF ClientShowsTheLog
  <2>1. Shows(log[s]) BY DEF ShownInv
  <2>2. ASSUME NEW q \in Quest
        PROVE  Cardinality(SlotOf(log[s], q)) = IF log[s].status[q] = "none" THEN 0 ELSE 1
    <3>1. CASE log[s].status[q] = "none"
      <4>1. SlotOf(log[s], q) = {} BY <2>1, <3>1, QuestAssumption DEF Shows, Placed, SlotOf
      <4> QED BY <3>1, <4>1, FS_EmptySet
    <3>2. CASE log[s].status[q] # "none"
      <4>1. PICK i \in Slot : log[s].slots[i] = q BY <2>1, <3>2 DEF Shows, Placed
      <4>2. SlotOf(log[s], q) = {i}
        BY <2>1, <4>1, QuestAssumption DEF Shows, Placed, SlotOf
      <4> QED BY <3>2, <4>2, FS_Singleton
    <3> QED BY <3>1, <3>2
  <2> QED BY <2>1, <2>2 DEF Shows
<1> QED BY <1>1, <1>2, <1>3, SoundAlways, PTL DEF Spec
=============================================================================
