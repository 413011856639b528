--------------------------- MODULE GmTicketsProofs ---------------------------
(***************************************************************************)
(* What TLAPS proves of GmTickets and of the desk over it, for every set   *)
(* of characters and staff, every number of tickets, of rows to a page and *)
(* of clicks under way, and with or without failing SQL statements.        *)
(***************************************************************************)
EXTENDS GmTicketDesk, FiniteSetTheorems, SequenceTheorems, TLAPS

(***************************************************************************)
(* The handlers that touch an existing row do one of these five things to  *)
(* it.  old and new are the row before and after the UPDATE.               *)
(***************************************************************************)
Edited(old, new) == \E text \in Text : new \in UpdateMessage(old, text)

PlayerClosed(old, new) ==
  \/ new \in CloseByPlayer(old, "ClosedAbandoned")
  \/ /\ old.status = "GmAnswered"
     /\ new \in CloseByPlayer(old, "ClosedResolved")

Claimed(old, new) == \E s \in Staff : new \in TryAssign(old, s)

Answered(old, new) ==
  \E s \in Staff, text \in Text : new \in SetGmResponseAndStatus(old, s, text)

StaffClosed(old, new) == \E s \in Staff : new \in CloseByStaff(old, s)

RowUpdate(old, new) ==
  Edited(old, new) \/ PlayerClosed(old, new) \/ Claimed(old, new)
    \/ Answered(old, new) \/ StaffClosed(old, new)

(* The row a new ticket starts as. *)
Fresh(c) == [NoRow EXCEPT !.character = c, !.status = "Open"]

(* A step leaves the table alone, updates one row, or inserts the next. *)
TableStep ==
  \/ UNCHANGED <<tickets, lastId>>
  \/ /\ \E t \in TicketId, row \in Row :
          /\ RowUpdate(tickets[t], row)
          /\ tickets' = [tickets EXCEPT ![t] = row]
     /\ UNCHANGED lastId
  \/ /\ lastId < MaxTickets
     /\ \E c \in Character :
          /\ ReadMayFail \/ FindOpenByCharacterGuid(c) = {}
          /\ tickets' = [tickets EXCEPT ![lastId + 1] = Fresh(c)]
     /\ lastId' = lastId + 1

(* What holds of each row on its own. *)
RowOK(row) ==
  /\ row.status \in {Absent, "Open"} => row.assigned = NoOne
  /\ row.status \in {"Assigned", "GmAnswered", "ClosedStaff"}
       => row.assigned # NoOne
  /\ row.response # NoText
       => /\ row.author = row.assigned
          /\ row.status \in Closed \cup {"GmAnswered"}
  /\ row.status \in {"GmAnswered", "ClosedResolved"} => row.response # NoText

(* The conjuncts that only make sense together. *)
IInv ==
  /\ TypeOK
  /\ IdsSequential
  /\ \A t \in TicketId : RowOK(tickets[t])

-----------------------------------------------------------------------------
(* Every UPDATE helper call leaves the table alone or writes the row. *)
LEMMA UpdateRowShape ==
  ASSUME NEW t \in TicketId, NEW row, UpdateRow(t, row)
  PROVE  /\ UNCHANGED lastId
         /\ tickets' = tickets \/ tickets' = [tickets EXCEPT ![t] = row]
BY DEF UpdateRow, UpdateRowEnding

(***************************************************************************)
(* What a row update asks of the old row, makes of it, and never undoes.   *)
(***************************************************************************)
LEMMA RowUpdateFacts ==
  ASSUME NEW old \in Row, RowOK(old), NEW new, RowUpdate(old, new)
  PROVE  /\ new \in Row
         /\ RowOK(new)
         /\ old.status \in Active
         /\ new.status # Absent
         /\ new.character = old.character
         /\ old.assigned # NoOne => new.assigned = old.assigned
         /\ old.response # NoText => new.response = old.response
<1> USE DEF Row, RowOK, Active, Closed, Absent, NoText, Affected
<1>1. CASE Edited(old, new)
  BY <1>1 DEF Edited, UpdateMessage
<1>2. CASE PlayerClosed(old, new)
  BY <1>2, ZenonT(60) DEF PlayerClosed, CloseByPlayer
<1>3. CASE Claimed(old, new)
  BY <1>3, GmTicketsAssumption, ZenonT(60) DEF Claimed, TryAssign
<1>4. CASE Answered(old, new)
  <2>1. PICK s \in Staff, text \in Text : new \in SetGmResponseAndStatus(old, s, text)
    BY <1>4 DEF Answered
  <2>2. /\ old.status \in {"Open", "Assigned"} /\ old.assigned = s
        /\ new = [old EXCEPT !.response = text, !.author = s, !.status = "GmAnswered"]
    BY <2>1 DEF SetGmResponseAndStatus
  <2>3. s # NoOne /\ text # NoText
    BY <2>1, GmTicketsAssumption, TextAssumption DEF NoText
  <2>4. QED
    BY <2>2, <2>3
<1>5. CASE StaffClosed(old, new)
  BY <1>5, GmTicketsAssumption, ZenonT(60) DEF StaffClosed, CloseByStaff
<1>6. QED
  BY <1>1, <1>2, <1>3, <1>4, <1>5 DEF RowUpdate

(* A handler that writes a row it may write takes a table step. *)
LEMMA UpdateIsTableStep ==
  ASSUME IInv, NEW t \in TicketId, NEW row, UpdateRow(t, row),
         RowUpdate(tickets[t], row)
  PROVE  TableStep
<1>1. tickets[t] \in Row /\ RowOK(tickets[t])
  BY DEF IInv, TypeOK
<1>2. row \in Row
  BY <1>1, RowUpdateFacts
<1>3. QED
  BY <1>2, UpdateRowShape DEF TableStep

(* Each handler is one of the table steps. *)
LEMMA NextIsTableStep ==
  ASSUME IInv, [Next]_vars
  PROVE  TableStep
<1>1. ASSUME NEW c \in Character, CreateTicket(c)
      PROVE  TableStep
  BY <1>1 DEF CreateTicket, TableStep, Fresh, DbRead
<1>2. ASSUME NEW c \in Character, NEW text \in Text, UpdateTicketText(c, text)
      PROVE  TableStep
  <2>1. PICK t \in FindOpenByCharacterGuid(c) :
          \E row \in UpdateMessage(tickets[t], text) : UpdateRow(t, row)
    BY <1>2 DEF UpdateTicketText
  <2>2. t \in TicketId
    BY <2>1 DEF FindOpenByCharacterGuid, ActiveOf
  <2>3. PICK row \in UpdateMessage(tickets[t], text) : UpdateRow(t, row)
    BY <2>1
  <2>4. RowUpdate(tickets[t], row)
    BY <2>3 DEF RowUpdate, Edited
  <2>5. QED
    BY <2>2, <2>3, <2>4, UpdateIsTableStep
<1>3. ASSUME NEW c \in Character, AbandonTicket(c)
      PROVE  TableStep
  <2>1. PICK t \in FindOpenByCharacterGuid(c) :
          \E row \in CloseByPlayer(tickets[t], "ClosedAbandoned") : UpdateRow(t, row)
    BY <1>3 DEF AbandonTicket
  <2>2. t \in TicketId
    BY <2>1 DEF FindOpenByCharacterGuid, ActiveOf
  <2>3. PICK row \in CloseByPlayer(tickets[t], "ClosedAbandoned") : UpdateRow(t, row)
    BY <2>1
  <2>4. RowUpdate(tickets[t], row)
    BY <2>3 DEF RowUpdate, PlayerClosed
  <2>5. QED
    BY <2>2, <2>3, <2>4, UpdateIsTableStep
<1>4. ASSUME NEW c \in Character, ResolveTicket(c)
      PROVE  TableStep
  <2>1. PICK t \in FindOpenByCharacterGuid(c) :
          /\ tickets[t].status = "GmAnswered"
          /\ \E row \in CloseByPlayer(tickets[t], "ClosedResolved") : UpdateRow(t, row)
    BY <1>4 DEF ResolveTicket
  <2>2. t \in TicketId
    BY <2>1 DEF FindOpenByCharacterGuid, ActiveOf
  <2>3. PICK row \in CloseByPlayer(tickets[t], "ClosedResolved") : UpdateRow(t, row)
    BY <2>1
  <2>4. RowUpdate(tickets[t], row)
    BY <2>1, <2>3 DEF RowUpdate, PlayerClosed
  <2>5. QED
    BY <2>2, <2>3, <2>4, UpdateIsTableStep
<1>5. ASSUME NEW t \in TicketId, NEW s \in Staff, AssignToStaff(t, s)
      PROVE  TableStep
  <2>1. PICK row \in TryAssign(tickets[t], s) : UpdateRow(t, row)
    BY <1>5 DEF AssignToStaff
  <2>2. RowUpdate(tickets[t], row)
    BY <2>1 DEF RowUpdate, Claimed
  <2>3. QED
    BY <2>1, <2>2, UpdateIsTableStep
<1>6. ASSUME NEW t \in TicketId, NEW s \in Staff, NEW text \in Text,
             StaffReply(t, s, text)
      PROVE  TableStep
  <2>1. PICK row \in SetGmResponseAndStatus(tickets[t], s, text) : UpdateRow(t, row)
    BY <1>6 DEF StaffReply
  <2>2. RowUpdate(tickets[t], row)
    BY <2>1 DEF RowUpdate, Answered
  <2>3. QED
    BY <2>1, <2>2, UpdateIsTableStep
<1>7. ASSUME NEW t \in TicketId, NEW s \in Staff, StaffClose(t, s)
      PROVE  TableStep
  <2>1. PICK row \in CloseByStaff(tickets[t], s) : UpdateRow(t, row)
    BY <1>7 DEF StaffClose
  <2>2. RowUpdate(tickets[t], row)
    BY <2>1 DEF RowUpdate, StaffClosed
  <2>3. QED
    BY <2>1, <2>2, UpdateIsTableStep
<1>8. CASE UNCHANGED vars
  BY <1>8 DEF vars, TableStep
<1>9. QED
  BY <1>1, <1>2, <1>3, <1>4, <1>5, <1>6, <1>7, <1>8
     DEF Next, PlayerNext, StaffNext

-----------------------------------------------------------------------------
(* The inductive invariant holds of the empty table. *)
LEMMA InitIInv == Init => IInv
<1> SUFFICES ASSUME Init
             PROVE  IInv
  OBVIOUS
<1>1. NoRow \in Row /\ RowOK(NoRow)
  BY TextAssumption DEF NoRow, Row, RowOK, Absent, NoText
<1>2. TypeOK
  <2>1. tickets \in [TicketId -> Row]
    BY <1>1 DEF Init
  <2>2. lastId \in 0 .. MaxTickets
    BY GmTicketsAssumption DEF Init
  <2>3. QED
    BY <2>1, <2>2 DEF TypeOK
<1>3. IdsSequential
  BY GmTicketsAssumption DEF Init, IdsSequential, TicketId, NoRow, Absent
<1>4. QED
  BY <1>1, <1>2, <1>3 DEF IInv, Init

(* Every table step preserves it. *)
LEMMA StepIInv == IInv /\ [Next]_vars => IInv'
<1> SUFFICES ASSUME IInv, [Next]_vars
             PROVE  IInv'
  OBVIOUS
<1>1. TableStep
  BY NextIsTableStep
<1>3. CASE UNCHANGED <<tickets, lastId>>
  BY <1>3 DEF IInv, TypeOK, IdsSequential
<1>4. ASSUME NEW t \in TicketId, NEW row \in Row, RowUpdate(tickets[t], row),
             tickets' = [tickets EXCEPT ![t] = row], UNCHANGED lastId
      PROVE  IInv'
  <2>1. TypeOK'
    BY <1>4 DEF IInv, TypeOK
  <2>2. \A u \in TicketId : tickets'[u] = IF u = t THEN row ELSE tickets[u]
    BY <1>4 DEF IInv, TypeOK
  <2>3. tickets[t] \in Row /\ RowOK(tickets[t])
    BY DEF IInv, TypeOK
  <2>4. RowOK(row) /\ row.status # Absent /\ tickets[t].status \in Active
    BY <1>4, <2>3, RowUpdateFacts
  <2>5. IdsSequential'
    BY <1>4, <2>2, <2>4 DEF IInv, IdsSequential, Active, Absent
  <2>6. \A u \in TicketId : RowOK(tickets'[u])
    BY <2>2, <2>4 DEF IInv
  <2>7. QED
    BY <2>1, <2>5, <2>6 DEF IInv
<1>5. ASSUME lastId < MaxTickets, NEW c \in Character,
             tickets' = [tickets EXCEPT ![lastId + 1] = Fresh(c)],
             lastId' = lastId + 1
      PROVE  IInv'
  <2>1. lastId + 1 \in TicketId /\ lastId \in Nat
    BY <1>5, GmTicketsAssumption DEF IInv, TypeOK, TicketId
  <2>2. \A u \in TicketId :
          tickets'[u] = IF u = lastId + 1 THEN Fresh(c) ELSE tickets[u]
    BY <1>5, <2>1 DEF IInv, TypeOK
  <2>3. Fresh(c) \in Row /\ Fresh(c).status = "Open" /\ RowOK(Fresh(c))
    BY TextAssumption DEF Fresh, NoRow, Row, RowOK, Active, NoText, Absent
  <2>4. TypeOK'
    BY <1>5, <2>1, <2>3, GmTicketsAssumption DEF IInv, TypeOK, TicketId
  <2>5. IdsSequential'
    BY <1>5, <2>1, <2>2, <2>3 DEF IInv, IdsSequential, TicketId, Absent
  <2>6. \A u \in TicketId : RowOK(tickets'[u])
    BY <2>2, <2>3 DEF IInv
  <2>7. QED
    BY <2>4, <2>5, <2>6 DEF IInv
<1>6. QED
  BY <1>1, <1>3, <1>4, <1>5 DEF TableStep

(* The columns of gm_ticket keep their types, whatever fails. *)
THEOREM TypeCorrect == Spec => []TypeOK
<1>1. IInv => TypeOK
  BY DEF IInv
<1>2. QED
  BY <1>1, InitIInv, StepIInv, PTL DEF Spec

(* The assignee column and the status column never disagree. *)
THEOREM AssignmentSafe == Spec => []AssignmentMatchesStatus
<1>1. IInv => AssignmentMatchesStatus
  BY DEF IInv, RowOK, AssignmentMatchesStatus
<1>2. QED
  BY <1>1, InitIInv, StepIInv, PTL DEF Spec

(* Replies are written by the holder; resolved tickets carry one. *)
THEOREM ReplySafe == Spec => []ReplyComesFromAssignee
<1>1. IInv => ReplyComesFromAssignee
  BY DEF IInv, RowOK, ReplyComesFromAssignee
<1>2. QED
  BY <1>1, InitIInv, StepIInv, PTL DEF Spec

-----------------------------------------------------------------------------
(* When every SELECT answers, a character never holds two active tickets. *)
LEMMA StepOneActive ==
  ASSUME ~ReadMayFail, IInv, OneActivePerCharacter, [Next]_vars
  PROVE  OneActivePerCharacter'
<1>1. TableStep
  BY NextIsTableStep
<1>2. CASE UNCHANGED <<tickets, lastId>>
  BY <1>2 DEF OneActivePerCharacter, ActiveOf
<1>3. ASSUME NEW t \in TicketId, NEW row \in Row, RowUpdate(tickets[t], row),
             tickets' = [tickets EXCEPT ![t] = row]
      PROVE  OneActivePerCharacter'
  <2>1. \A u \in TicketId : tickets'[u] = IF u = t THEN row ELSE tickets[u]
    BY <1>3 DEF IInv, TypeOK
  <2>2. tickets[t] \in Row /\ RowOK(tickets[t])
    BY DEF IInv, TypeOK
  <2>3. tickets[t].status \in Active /\ row.character = tickets[t].character
    BY <1>3, <2>2, RowUpdateFacts
  <2>4. \A c \in Character : ActiveOf(c)' \subseteq ActiveOf(c)
    BY <2>1, <2>3 DEF ActiveOf
  <2>5. QED
    BY <2>4 DEF OneActivePerCharacter
<1>4. ASSUME lastId < MaxTickets, NEW c \in Character,
             FindOpenByCharacterGuid(c) = {},
             tickets' = [tickets EXCEPT ![lastId + 1] = Fresh(c)]
      PROVE  OneActivePerCharacter'
  <2>1. \A u \in TicketId :
          tickets'[u] = IF u = lastId + 1 THEN Fresh(c) ELSE tickets[u]
    BY <1>4 DEF IInv, TypeOK
  <2>2. ActiveOf(c) = {}
    <3>1. ASSUME NEW t \in ActiveOf(c)
          PROVE  t \in FindOpenByCharacterGuid(c)
      <4>1. \A u \in ActiveOf(c) : u = t
        BY <1>4, <3>1 DEF OneActivePerCharacter
      <4>2. t =< t
        BY <3>1 DEF ActiveOf, TicketId
      <4>3. QED
        BY <3>1, <4>1, <4>2 DEF FindOpenByCharacterGuid
    <3>2. QED
      BY <1>4, <3>1
  <2>3. Fresh(c).character = c
    BY DEF Fresh, NoRow
  <2>4. ActiveOf(c)' \subseteq {lastId + 1}
    BY <2>1, <2>2 DEF ActiveOf
  <2>5. ASSUME NEW d \in Character, d # c
        PROVE  ActiveOf(d)' \subseteq ActiveOf(d)
    BY <2>1, <2>3, <2>5 DEF ActiveOf
  <2>6. QED
    BY <2>4, <2>5 DEF OneActivePerCharacter
<1>5. QED
  BY <1>1, <1>2, <1>3, <1>4 DEF TableStep

(* Design rule 1, for any number of characters and tickets. *)
THEOREM OneActive == ASSUME ~ReadMayFail
                     PROVE  Spec => []OneActivePerCharacter
<1>1. Init => OneActivePerCharacter
  BY DEF Init, OneActivePerCharacter, ActiveOf, NoRow, Active, Absent
<1>2. IInv /\ OneActivePerCharacter /\ [Next]_vars
        => IInv' /\ OneActivePerCharacter'
  BY StepIInv, StepOneActive
<1>3. QED
  BY <1>1, <1>2, InitIInv, PTL DEF Spec

-----------------------------------------------------------------------------
(* What one step may never do to a claimed, answered or closed row. *)
Kept(old, new) ==
  /\ old.assigned # NoOne => new.assigned = old.assigned
  /\ old.status \in Closed => new = old
  /\ old.response # NoText
       => /\ new.response = old.response
          /\ new.status \in Closed \cup {"GmAnswered"}

(* Every step keeps it of every ticket. *)
LEMMA StepKeepsHistory ==
  ASSUME IInv, [Next]_vars, NEW t \in TicketId
  PROVE  Kept(tickets[t], tickets'[t])
<1>1. TableStep
  BY NextIsTableStep
<1>2. tickets[t] \in Row /\ RowOK(tickets[t])
  BY DEF IInv, TypeOK
<1>3. CASE tickets'[t] = tickets[t]
  BY <1>2, <1>3 DEF Kept, RowOK
<1>4. ASSUME NEW u \in TicketId, NEW row \in Row, RowUpdate(tickets[u], row),
             tickets' = [tickets EXCEPT ![u] = row], u = t
      PROVE  Kept(tickets[t], tickets'[t])
  <2>1. tickets'[t] = row
    BY <1>4 DEF IInv, TypeOK
  <2>2. /\ RowOK(row)
        /\ tickets[t].status \in Active
        /\ tickets[t].assigned # NoOne => row.assigned = tickets[t].assigned
        /\ tickets[t].response # NoText => row.response = tickets[t].response
    BY <1>2, <1>4, RowUpdateFacts
  <2>3. tickets[t].status \notin Closed
    BY <2>2 DEF Active, Closed
  <2>4. QED
    BY <2>1, <2>2, <2>3 DEF Kept, RowOK
<1>5. ASSUME lastId < MaxTickets, t = lastId + 1
      PROVE  Kept(tickets[t], tickets'[t])
  <2>1. ~(t =< lastId)
    BY <1>5, GmTicketsAssumption DEF IInv, TypeOK, TicketId
  <2>2. tickets[t].status = Absent
    BY <2>1 DEF IInv, IdsSequential
  <2>3. tickets[t].assigned = NoOne /\ tickets[t].response = NoText
    BY <1>2, <2>2 DEF RowOK, Closed, Absent
  <2>4. QED
    BY <2>2, <2>3 DEF Kept, Closed, Absent
<1>6. QED
  BY <1>1, <1>3, <1>4, <1>5 DEF TableStep, IInv, TypeOK

(* Whoever takes a ticket keeps it. *)
THEOREM ClaimFinal == Spec => ClaimIsFinal
<1>1. IInv /\ [Next]_vars
        => [\A t \in TicketId :
              tickets[t].assigned # NoOne
                => tickets'[t].assigned = tickets[t].assigned]_vars
  BY StepKeepsHistory DEF Kept
<1>2. QED
  BY <1>1, InitIInv, StepIInv, PTL DEF Spec, ClaimIsFinal

(* A closed ticket never changes again. *)
THEOREM ClosedFinal == Spec => ClosedIsFinal
<1>1. IInv /\ [Next]_vars
        => [\A t \in TicketId :
              tickets[t].status \in Closed => tickets'[t] = tickets[t]]_vars
  BY StepKeepsHistory DEF Kept
<1>2. QED
  BY <1>1, InitIInv, StepIInv, PTL DEF Spec, ClosedIsFinal

(* A stored reply is never overwritten. *)
THEOREM ReplyFinal == Spec => ReplyIsFinal
<1>1. IInv /\ [Next]_vars
        => [\A t \in TicketId :
              tickets[t].response # NoText
                => /\ tickets'[t].response = tickets[t].response
                   /\ tickets'[t].status \in Closed \cup {"GmAnswered"}]_vars
  BY StepKeepsHistory DEF Kept
<1>2. QED
  BY <1>1, InitIInv, StepIInv, PTL DEF Spec, ReplyIsFinal

-----------------------------------------------------------------------------
(***************************************************************************)
(* The desk.  Its statements are those of GmTickets, so everything above   *)
(* holds of a world whose staff click.                                     *)
(***************************************************************************)
LEMMA DetailResolveIsAStep ==
  ASSUME NEW s \in Staff, NEW t, DetailResolve(s, t)
  PROVE  [Next]_vars
<1>1. CASE UNCHANGED vars
  BY <1>1
<1>2. CASE t \in TicketId /\ \E row \in CloseByStaff(tickets[t], s), outcome \in DbWrite :
             UpdateRowEnding(t, row, outcome)
  BY <1>2 DEF Next, StaffNext, StaffClose, UpdateRow
<1>3. "acked" \in DbWrite
  BY DEF DbWrite
<1>4. QED
  BY <1>1, <1>2, <1>3 DEF DetailResolve

LEMMA HandlerIsAStep ==
  ASSUME NEW s \in AtDesk, TryHandleGmTicketGossipSelect(s)
  PROVE  [Next]_vars
<1>0. s \in Staff
  BY GmTicketDeskAssumption
<1> DEFINE click == Head(clicks[s]).click
<1> DEFINE t == TargetOf(ui[s], click)
<1>1. CASE DetailTake(s, t)
  BY <1>0, <1>1 DEF DetailTake, Statement, Next, StaffNext
<1>2. CASE DetailReply(s, t)
  BY <1>0, <1>2 DEF DetailReply, Statement, Next, StaffNext
<1>3. CASE DetailResolve(s, t)
  BY <1>0, <1>3, DetailResolveIsAStep
<1>4. CASE UNCHANGED vars
  BY <1>4
<1>5. QED
  BY <1>1, <1>2, <1>3, <1>4
     DEF TryHandleGmTicketGossipSelect, OpenGmTicketUi, SelectAfterClose, MainSelect,
         ListSelect, DetailSelect

(* Every step at the desk is a step of the ticket service or none. *)
THEOREM DeskImplementsTickets == DeskSpec => Spec
<1>1. DeskInit => Init
  BY DEF DeskInit
<1>2. [DeskNext]_allVars => [Next]_vars
  <2>1. ASSUME NEW s \in AtDesk, AtDeskNext(s)
        PROVE  [Next]_vars
    BY <2>1, HandlerIsAStep DEF AtDeskNext, Press
  <2>2. QED
    BY <2>1 DEF DeskNext, ElsewhereNext, Restart, Next, allVars, vars
<1>3. QED
  BY <1>1, <1>2, PTL DEF DeskSpec, Spec

-----------------------------------------------------------------------------
(***************************************************************************)
(* A session remembers what its last window shows: every button on the     *)
(* screen that stands for a ticket leads to that ticket.                   *)
(***************************************************************************)
Matches(u, w) ==
  \A click \in Offered(w) :
    click.ticket # NoTicket => u.open /\ TargetOf(u, click) = click.ticket

(* Only the first click under way can have been a patient one. *)
OnlyFirstPatient ==
  \A s \in AtDesk : \A i \in DOMAIN clicks[s] : i # 1 => ~clicks[s][i].patient

DeskInv ==
  /\ DeskTypeOK
  /\ \A s \in AtDesk : Matches(ui[s], shown[s])
  /\ OnlyFirstPatient
  /\ ClickActsOnItsTicket

(* What the handler of a click may do to the desk. *)
DeskAnswers(s) ==
  \/ UNCHANGED <<ui, shown>>
  \/ \E u \in Desk, w \in Windows : Answer(s, u, w) /\ Matches(u, w)

LEMMA OrdersAreSequences ==
  ASSUME NEW S \in SUBSET TicketId, NEW list \in SetToSeqs(S)
  PROVE  list \in Seq(TicketId)
<1>1. Cardinality(S) \in Nat
  <2>1. IsFiniteSet(TicketId)
    BY GmTicketsAssumption, FS_Interval DEF TicketId
  <2>2. QED
    BY <2>1, FS_Subset, FS_CardinalityType
<1>2. list \in [1 .. Cardinality(S) -> S]
  BY DEF SetToSeqs
<1>3. QED
  BY <1>1, <1>2

LEMMA ListingsAreSequences ==
  ASSUME NEW s, NEW mode, NEW list \in Listings(s, mode)
  PROVE  list \in Seq(TicketId)
<1>1. /\ ListUnassignedOpen \in SUBSET TicketId
      /\ ListAssignedToAccount(s) \in SUBSET TicketId
  BY DEF ListUnassignedOpen, ListAssignedToAccount
<1>2. CASE list = <<>>
  BY <1>2
<1>3. CASE list \in SetToSeqs(ListUnassignedOpen)
  BY <1>1, <1>3, OrdersAreSequences
<1>4. CASE list \in SetToSeqs(ListAssignedToAccount(s))
  BY <1>1, <1>4, OrdersAreSequences
<1>5. QED
  BY <1>2, <1>3, <1>4 DEF Listings

LEMMA MainMenuMatches ==
  ASSUME NEW u
  PROVE  /\ MainMenu \in Windows /\ Matches(u, MainMenu)
         /\ NoWindow \in Windows /\ Matches(u, NoWindow)
<1>1. {"queue", "mine", "close"} \in SUBSET Buttons
  BY DEF Buttons
<1>2. MainMenu \in Windows /\ NoWindow \in Windows
  BY <1>1 DEF MainMenu, NoWindow, Window, Windows, Menus, NoTicket
<1>3. Matches(u, MainMenu) /\ Matches(u, NoWindow)
  BY DEF MainMenu, NoWindow, Window, Matches, Offered, Click, NoTicket
<1>4. QED
  BY <1>2, <1>3

LEMMA ListMenuMatches ==
  ASSUME NEW s, NEW u \in Desk, u.open, SendGmTicketListMenu(s, u)
  PROVE  \E v \in Desk, w \in Windows : Answer(s, v, w) /\ Matches(v, w)
<1>1. PICK list \in Listings(s, u.mode) :
        LET from == u.page * PageSize
            upTo == IF from + PageSize < Len(list) THEN from + PageSize ELSE Len(list)
            rows == SubSeq(list, from + 1, upTo)
        IN Answer(s, [u EXCEPT !.ids = rows],
                  Window("list", rows, NoTicket,
                         {"back"} \cup (IF u.page > 0 THEN {"prev"} ELSE {})
                                  \cup (IF upTo < Len(list) THEN {"next"} ELSE {})))
  BY DEF SendGmTicketListMenu
<1> DEFINE from == u.page * PageSize
           upTo == IF from + PageSize < Len(list) THEN from + PageSize ELSE Len(list)
           rows == SubSeq(list, from + 1, upTo)
           v == [u EXCEPT !.ids = rows]
           buttons == {"back"} \cup (IF u.page > 0 THEN {"prev"} ELSE {})
                               \cup (IF upTo < Len(list) THEN {"next"} ELSE {})
           w == Window("list", rows, NoTicket, buttons)
<1>2. list \in Seq(TicketId)
  BY ListingsAreSequences
<1>3. from \in Nat /\ PageSize \in Nat
  BY GmTicketDeskAssumption DEF Desk
<1>4. rows \in Seq(TicketId)
  <2>1. Len(list) \in Nat
    BY <1>2
  <2>2. upTo \in Nat /\ upTo =< Len(list)
    BY <1>3, <2>1
  <2>3. \A i \in (from + 1) .. upTo : list[i] \in TicketId
    BY <1>2, <1>3, <2>1, <2>2
  <2>4. QED
    BY <1>2, <1>3, <2>2, <2>3, SubSeqProperties
<1>5. buttons \in SUBSET Buttons /\ "row" \notin buttons
  BY DEF Buttons
<1> HIDE DEF rows, buttons
<1>6. v \in Desk /\ v.open /\ v.ids = rows
  BY <1>4 DEF Desk
<1>7. w \in Windows
  BY <1>4, <1>5 DEF Window, Windows, Menus, NoTicket
<1>8. Matches(v, w)
  BY <1>6 DEF Matches, Offered, Window, Click, TargetOf, NoTicket
<1>9. Answer(s, v, w)
  BY <1>1 DEF rows, buttons
<1>10. QED
  BY <1>6, <1>7, <1>8, <1>9

LEMMA DetailMenuMatches ==
  ASSUME NEW s, NEW u \in Desk, u.open, SendGmTicketDetailMenu(s, u)
  PROVE  \E v \in Desk, w \in Windows : Answer(s, v, w) /\ Matches(v, w)
<1>1. CASE SendGmTicketMainMenu(s, u)
  BY <1>1, MainMenuMatches DEF SendGmTicketMainMenu
<1>2. CASE u.selected \in TicketId
           /\ Answer(s, u, Window("detail", <<>>, u.selected,
                {"back"} \cup IF tickets'[u.selected].assigned = s
                              THEN {"reply", "resolve"} ELSE {"take"}))
  <2> DEFINE buttons == {"back"} \cup IF tickets'[u.selected].assigned = s
                                      THEN {"reply", "resolve"} ELSE {"take"}
             w == Window("detail", <<>>, u.selected, buttons)
  <2>1. buttons \in SUBSET Buttons /\ "row" \notin buttons
    BY DEF Buttons
  <2> HIDE DEF buttons
  <2>2. w \in Windows
    BY <1>2, <2>1 DEF Window, Windows, Menus
  <2>3. Matches(u, w)
    BY <2>1 DEF Matches, Offered, Window, Click, TargetOf
  <2>4. QED
    BY <1>2, <2>2, <2>3 DEF buttons
<1>3. QED
  BY <1>1, <1>2 DEF SendGmTicketDetailMenu

LEMMA HandlerAnswers ==
  ASSUME DeskTypeOK, NEW s \in AtDesk, TryHandleGmTicketGossipSelect(s)
  PROVE  DeskAnswers(s)
<1> DEFINE u == ui[s]
           click == Head(clicks[s]).click
           t == TargetOf(u, click)
<1>1. u \in Desk
  BY DEF DeskTypeOK
<1>2. t \in TicketId \cup {NoTicket}
  <2>1. \A i \in DOMAIN u.ids : u.ids[i] \in TicketId
    BY <1>1 DEF Desk
  <2>2. u.selected \in TicketId \cup {NoTicket}
    BY <1>1 DEF Desk
  <2>3. QED
    BY <2>1, <2>2 DEF TargetOf
<1>3. ClosedDesk \in Desk /\ FreshDesk \in Desk
  <2>1. <<>> \in Seq(TicketId)
    OBVIOUS
  <2>2. QED
    BY <2>1 DEF ClosedDesk, FreshDesk, Desk, NoTicket
<1> HIDE DEF t, u
<1>4. CASE \E v \in Desk : Answer(s, v, MainMenu) \/ Answer(s, v, NoWindow)
  BY <1>4, MainMenuMatches DEF DeskAnswers
<1>5. CASE \E v \in Desk : v.open /\ SendGmTicketListMenu(s, v)
  BY <1>5, ListMenuMatches DEF DeskAnswers
<1>6. CASE \E v \in Desk : v.open /\ SendGmTicketDetailMenu(s, v)
  BY <1>6, DetailMenuMatches DEF DeskAnswers
<1>7. CASE OpenGmTicketUi(s)
  BY <1>3, <1>4, <1>7 DEF OpenGmTicketUi, SendGmTicketMainMenu
<1>8. CASE SelectAfterClose(s)
  BY <1>1, <1>4, <1>8 DEF SelectAfterClose, u
<1>9. CASE MainSelect(s, click.option)
  <2>1. CASE click.option = "close" /\ Answer(s, ClosedDesk, NoWindow)
    BY <1>3, <1>4, <2>1
  <2>2. ASSUME u.open, click.option \in {"queue", "mine"},
               SendGmTicketListMenu(s, [u EXCEPT !.mode = click.option, !.page = 0])
        PROVE  DeskAnswers(s)
    <3>1. /\ [u EXCEPT !.mode = click.option, !.page = 0] \in Desk
          /\ [u EXCEPT !.mode = click.option, !.page = 0].open
      BY <1>1, <2>2 DEF Desk
    <3>2. QED
      BY <1>5, <2>2, <3>1
  <2>3. QED
    BY <1>9, <2>1, <2>2 DEF MainSelect, u
<1>10. CASE ListSelect(s, click)
  <2>1. u.open
    BY <1>10 DEF ListSelect, u
  <2>2. CASE SendGmTicketMainMenu(s, u)
    BY <1>1, <1>4, <2>2 DEF SendGmTicketMainMenu
  <2>3. CASE SendGmTicketListMenu(s, [u EXCEPT !.page = @ + 1])
    <3>1. [u EXCEPT !.page = @ + 1] \in Desk /\ [u EXCEPT !.page = @ + 1].open
      BY <1>1, <2>1 DEF Desk
    <3>2. QED
      BY <1>5, <2>3, <3>1
  <2>4. CASE SendGmTicketListMenu(s, [u EXCEPT !.page = IF @ > 0 THEN @ - 1 ELSE 0])
    <3>1. /\ [u EXCEPT !.page = IF @ > 0 THEN @ - 1 ELSE 0] \in Desk
          /\ [u EXCEPT !.page = IF @ > 0 THEN @ - 1 ELSE 0].open
      BY <1>1, <2>1 DEF Desk
    <3>2. QED
      BY <1>5, <2>4, <3>1
  <2>5. CASE SendGmTicketDetailMenu(s, [u EXCEPT !.selected = t])
    <3>1. [u EXCEPT !.selected = t] \in Desk /\ [u EXCEPT !.selected = t].open
      BY <1>1, <1>2, <2>1 DEF Desk
    <3>2. QED
      BY <1>6, <2>5, <3>1
  <2>6. CASE SendGmTicketListMenu(s, u)
    BY <1>1, <1>5, <2>1, <2>6
  <2>7. QED
    BY <1>10, <2>2, <2>3, <2>4, <2>5, <2>6 DEF ListSelect, t, u
<1>11. CASE DetailSelect(s, click)
  <2>1. u.open
    BY <1>11 DEF DetailSelect, u
  <2>2. CASE SendGmTicketDetailMenu(s, u)
    BY <1>1, <1>6, <2>1, <2>2
  <2>3. CASE SendGmTicketListMenu(s, u)
    BY <1>1, <1>5, <2>1, <2>3
  <2>4. CASE SendGmTicketListMenu(s, [u EXCEPT !.selected = NoTicket])
    <3>1. [u EXCEPT !.selected = NoTicket] \in Desk /\ [u EXCEPT !.selected = NoTicket].open
      BY <1>1, <2>1 DEF Desk
    <3>2. QED
      BY <1>5, <2>4, <3>1
  <2>5. CASE UNCHANGED <<ui, shown>>
    BY <2>5 DEF DeskAnswers
  <2>6. QED
    BY <1>11, <2>2, <2>3, <2>4, <2>5
       DEF DetailSelect, DetailTake, DetailReply, DetailResolve, u
<1>12. QED
  BY <1>7, <1>8, <1>9, <1>10, <1>11 DEF TryHandleGmTicketGossipSelect

(* A handled click leaves the rest of the queue and a window that matches. *)
LEMMA HandlerKeepsDesk ==
  ASSUME DeskInv, NEW s \in AtDesk, TryHandleGmTicketGossipSelect(s)
  PROVE  DeskInv'
<1>1. clicks[s] # <<>> /\ clicks' = [clicks EXCEPT ![s] = Tail(@)]
  BY DEF TryHandleGmTicketGossipSelect
<1>2. /\ ui \in [AtDesk -> Desk] /\ shown \in [AtDesk -> Windows]
      /\ clicks \in [AtDesk -> Seq([click : Clicks, patient : BOOLEAN])]
  BY DEF DeskInv, DeskTypeOK
<1>3. DeskTypeOK' /\ \A r \in AtDesk : Matches(ui'[r], shown'[r])
  <2>0. Tail(clicks[s]) \in Seq([click : Clicks, patient : BOOLEAN])
    <3> DEFINE Pressed == [click : Clicks, patient : BOOLEAN]
    <3>1. clicks[s] \in Seq(Pressed) /\ clicks[s] # <<>>
      BY <1>1, <1>2
    <3> HIDE DEF Pressed
    <3>2. Tail(clicks[s]) \in Seq(Pressed)
      BY <3>1
    <3>3. QED
      BY <3>2 DEF Pressed
  <2>1. clicks' \in [AtDesk -> Seq([click : Clicks, patient : BOOLEAN])]
    BY <1>1, <1>2, <2>0
  <2>2. CASE UNCHANGED <<ui, shown>>
    BY <1>2, <2>1, <2>2 DEF DeskInv, DeskTypeOK
  <2>3. ASSUME NEW u \in Desk, NEW w \in Windows, Answer(s, u, w), Matches(u, w)
        PROVE  DeskTypeOK' /\ \A r \in AtDesk : Matches(ui'[r], shown'[r])
    <3>1. ui' \in [AtDesk -> Desk] /\ shown' \in [AtDesk -> Windows]
      BY <1>2, <2>3 DEF Answer
    <3>2. ui'[s] = u /\ shown'[s] = w
      BY <1>2, <2>3 DEF Answer
    <3>3. \A r \in AtDesk : r # s => ui'[r] = ui[r] /\ shown'[r] = shown[r]
      BY <1>2, <2>3 DEF Answer
    <3>4. QED
      BY <2>1, <2>3, <3>1, <3>2, <3>3 DEF DeskInv, DeskTypeOK
  <2>4. QED
    BY <2>2, <2>3, HandlerAnswers DEF DeskAnswers, DeskInv
<1>4. \A r \in AtDesk : r # s => clicks'[r] = clicks[r] /\ ui'[r] = ui[r]
  <2>1. CASE UNCHANGED <<ui, shown>>
    BY <1>1, <1>2, <2>1
  <2>2. ASSUME NEW u, NEW w, Answer(s, u, w)
        PROVE  \A r \in AtDesk : r # s => clicks'[r] = clicks[r] /\ ui'[r] = ui[r]
    BY <1>1, <1>2, <2>2 DEF Answer
  <2>3. QED
    BY <2>1, <2>2, HandlerAnswers DEF DeskAnswers, DeskInv
<1>5. clicks'[s] = Tail(clicks[s])
  BY <1>1, <1>2
<1>6. \A i \in DOMAIN clicks'[s] : ~clicks'[s][i].patient
  <2>1. clicks[s] \in Seq([click : Clicks, patient : BOOLEAN])
    BY <1>2
  <2>2. ASSUME NEW i \in DOMAIN Tail(clicks[s])
        PROVE  Tail(clicks[s])[i] = clicks[s][i + 1] /\ i + 1 \in DOMAIN clicks[s] /\ i + 1 # 1
    BY <1>1, <2>1, <2>2
  <2>3. QED
    BY <1>5, <2>2 DEF DeskInv, OnlyFirstPatient
<1>7. OnlyFirstPatient'
  BY <1>4, <1>6 DEF DeskInv, OnlyFirstPatient
<1>8. ClickActsOnItsTicket'
  <2>1. ASSUME clicks'[s] # <<>>
        PROVE  ~Head(clicks'[s]).patient
    <3>1. clicks'[s] \in Seq([click : Clicks, patient : BOOLEAN])
      BY <1>3 DEF DeskTypeOK
    <3>2. 1 \in DOMAIN clicks'[s] /\ Head(clicks'[s]) = clicks'[s][1]
      BY <2>1, <3>1
    <3>3. QED
      BY <1>6, <3>2
  <2>2. QED
    BY <1>4, <2>1 DEF DeskInv, ClickActsOnItsTicket
<1>9. QED
  BY <1>3, <1>7, <1>8 DEF DeskInv

LEMMA OfferedAreClicks ==
  ASSUME NEW w \in Windows, NEW click \in Offered(w) \cup {OpenCommand}
  PROVE  click \in Clicks
<1>1. CASE click = OpenCommand
  BY <1>1 DEF OpenCommand, Click, Clicks, NoTicket
<1>2. CASE \E b \in w.buttons : click = Click(w.menu, b, 0, w.ticket)
  BY <1>2 DEF Click, Clicks, Windows
<1>3. CASE \E i \in DOMAIN w.ids : click = Click(w.menu, "row", i, w.ids[i])
  <2>1. PICK i \in DOMAIN w.ids : click = Click(w.menu, "row", i, w.ids[i])
    BY <1>3
  <2>2. i \in Nat /\ w.ids[i] \in TicketId
    BY <2>1 DEF Windows
  <2>3. QED
    BY <2>1, <2>2 DEF Click, Clicks, Windows
<1>4. QED
  BY <1>1, <1>2, <1>3 DEF Offered

(* A new click is patient only at the head, and then it is of the window   *)
(* the session remembers.                                                  *)
LEMMA PressKeepsDesk ==
  ASSUME DeskInv, NEW s \in AtDesk, Press(s)
  PROVE  DeskInv'
<1> DEFINE Pressed == [click : Clicks, patient : BOOLEAN]
<1>1. PICK click \in Offered(shown[s]) \cup {OpenCommand} :
        clicks' = [clicks EXCEPT ![s] =
                     Append(clicks[s], [click |-> click, patient |-> clicks[s] = <<>>])]
  BY DEF Press
<1> DEFINE new == [click |-> click, patient |-> clicks[s] = <<>>]
<1>2. /\ ui' = ui /\ shown' = shown
      /\ shown \in [AtDesk -> Windows]
      /\ clicks \in [AtDesk -> Seq(Pressed)]
  BY DEF Press, DeskInv, DeskTypeOK
<1>3. click \in Clicks
  BY <1>1, <1>2, OfferedAreClicks
<1>4. new \in Pressed
  BY <1>3
<1>5. clicks'[s] = Append(clicks[s], new) /\ clicks[s] \in Seq(Pressed)
  BY <1>1, <1>2
<1>6. \A r \in AtDesk : r # s => clicks'[r] = clicks[r]
  BY <1>1, <1>2
<1>7. DeskTypeOK'
  <2>0. Append(clicks[s], new) \in Seq(Pressed)
    BY <1>4, <1>5, AppendProperties
  <2> HIDE DEF Pressed, new
  <2>1. clicks' \in [AtDesk -> Seq(Pressed)]
    BY <1>1, <1>2, <2>0 DEF new
  <2>2. QED
    BY <1>2, <2>1 DEF DeskInv, DeskTypeOK, Pressed
<1>8. \A r \in AtDesk : Matches(ui'[r], shown'[r])
  BY <1>2 DEF DeskInv
<1>9. CASE clicks[s] = <<>>
  <2>1. clicks'[s] = <<new>>
    BY <1>5, <1>9
  <2>2. OnlyFirstPatient'
    BY <1>6, <2>1 DEF DeskInv, OnlyFirstPatient
  <2>3. click.ticket # NoTicket => ui[s].open /\ TargetOf(ui[s], click) = click.ticket
    BY DEF DeskInv, Matches, OpenCommand, Click
  <2>4. ClickActsOnItsTicket'
    <3>1. Head(clicks'[s]).click = click
      BY <2>1
    <3> HIDE DEF new
    <3>2. QED
      BY <1>2, <1>6, <2>3, <3>1 DEF DeskInv, ClickActsOnItsTicket
  <2>5. QED
    BY <1>7, <1>8, <2>2, <2>4 DEF DeskInv
<1>10. CASE clicks[s] # <<>>
  <2>1. /\ Head(clicks'[s]) = Head(clicks[s])
        /\ \A i \in DOMAIN clicks'[s] :
             i \notin DOMAIN clicks[s] => clicks'[s][i] = new
        /\ \A i \in DOMAIN clicks[s] : clicks'[s][i] = clicks[s][i]
    BY <1>4, <1>5, <1>10
  <2>2. ~new.patient
    BY <1>10
  <2>3. OnlyFirstPatient'
    BY <1>6, <2>1, <2>2 DEF DeskInv, OnlyFirstPatient
  <2>4. ClickActsOnItsTicket'
    BY <1>2, <1>6, <1>10, <2>1 DEF DeskInv, ClickActsOnItsTicket
  <2>5. QED
    BY <1>7, <1>8, <2>3, <2>4 DEF DeskInv
<1>11. QED
  BY <1>9, <1>10

LEMMA EmptyDesk ==
  ASSUME ui = [s \in AtDesk |-> ClosedDesk], clicks = [s \in AtDesk |-> <<>>],
         shown = [s \in AtDesk |-> NoWindow]
  PROVE  DeskInv
<1>1. NoWindow \in Windows /\ \A u : Matches(u, NoWindow)
  BY MainMenuMatches
<1>2. ClosedDesk \in Desk
  <2>1. <<>> \in Seq(TicketId)
    OBVIOUS
  <2>2. QED
    BY <2>1 DEF ClosedDesk, Desk, NoTicket
<1>3. DeskTypeOK
  BY <1>1, <1>2 DEF DeskTypeOK
<1>4. QED
  BY <1>1, <1>3 DEF DeskInv, OnlyFirstPatient, ClickActsOnItsTicket

LEMMA StepDeskInv == DeskInv /\ [DeskNext]_allVars => DeskInv'
<1> SUFFICES ASSUME DeskInv, [DeskNext]_allVars
             PROVE  DeskInv'
  OBVIOUS
<1>1. ASSUME NEW s \in AtDesk, AtDeskNext(s)
      PROVE  DeskInv'
  BY <1>1, HandlerKeepsDesk, PressKeepsDesk DEF AtDeskNext
<1>2. CASE UNCHANGED deskVars
  BY <1>2 DEF deskVars, DeskInv, DeskTypeOK, OnlyFirstPatient, ClickActsOnItsTicket
<1>3. CASE Restart
  <2>1. /\ ui' = [s \in AtDesk |-> ClosedDesk]
        /\ clicks' = [s \in AtDesk |-> <<>>]
        /\ shown' = [s \in AtDesk |-> NoWindow]
    BY <1>3 DEF Restart
  <2>2. NoWindow \in Windows /\ \A u : Matches(u, NoWindow)
    BY MainMenuMatches
  <2>3. ClosedDesk \in Desk
    <3>1. <<>> \in Seq(TicketId)
      OBVIOUS
    <3>2. QED
      BY <3>1 DEF ClosedDesk, Desk, NoTicket
  <2>4. DeskTypeOK'
    BY <2>1, <2>2, <2>3 DEF DeskTypeOK
  <2>5. QED
    BY <2>1, <2>2, <2>4 DEF DeskInv, OnlyFirstPatient, ClickActsOnItsTicket
<1>4. QED
  BY <1>1, <1>2, <1>3 DEF DeskNext, ElsewhereNext, allVars, deskVars

(* What the server remembers, what the clients show and the clicks on their way keep *)
(* their types, for any number of tickets, rows to a page and clicks.                *)
THEOREM DeskTypeCorrect == DeskSpec => []DeskTypeOK
<1>1. DeskInit => DeskInv
  BY EmptyDesk DEF DeskInit
<1>2. DeskInv => DeskTypeOK
  BY DEF DeskInv
<1>3. QED
  BY <1>1, <1>2, StepDeskInv, PTL DEF DeskSpec

(* A patient click acts on the ticket its button was drawn for. *)
THEOREM DeskButtons == DeskSpec => []ClickActsOnItsTicket
<1>1. DeskInit => DeskInv
  BY EmptyDesk DEF DeskInit
<1>2. DeskInv => ClickActsOnItsTicket
  BY DEF DeskInv
<1>3. QED
  BY <1>1, <1>2, StepDeskInv, PTL DEF DeskSpec
=============================================================================
