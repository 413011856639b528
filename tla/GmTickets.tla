------------------------------ MODULE GmTickets ------------------------------
(***************************************************************************)
(* The help-ticket queue: GmTicketService over MySqlGmTicketRepository, as *)
(* the player handlers (WorldSessionGmTicketHandlers.cpp) and the staff    *)
(* commands (CommandService::HandleTicket) drive it.                       *)
(*                                                                         *)
(* Every handler runs to completion on the one world thread, so a handler  *)
(* is one action.  The repository turns every SQL exception into "no row"  *)
(* or "false"; ReadMayFail and WriteMayFail let each statement end that    *)
(* way, a write even after the database already applied it.                *)
(***************************************************************************)
EXTENDS Integers

CONSTANTS Character,    \* characters that may open a ticket
          Staff,        \* staff accounts
          NoOne,        \* assigned_account_id IS NULL
          Text,         \* texts a writer may send, "first" among them
          MaxTickets,   \* bound: ids the AUTO_INCREMENT column hands out
          ReadMayFail,  \* whether a SELECT may throw
          WriteMayFail  \* whether an INSERT or UPDATE may throw

ASSUME GmTicketsAssumption ==
  /\ MaxTickets \in Nat
  /\ ReadMayFail \in BOOLEAN
  /\ WriteMayFail \in BOOLEAN
  /\ NoOne \notin Staff
  /\ NoOne \notin Character

(* A player sends some text first, and nobody sends the empty one. *)
ASSUME TextAssumption == "first" \in Text /\ "" \notin Text

TicketId == 1 .. MaxTickets

Active == {"Open", "Assigned", "GmAnswered"}     \* status IN (0,1,2)
Closed == {"ClosedResolved", "ClosedAbandoned", "ClosedStaff"}
Absent == "absent"                               \* no such row yet
NoText == ""                                     \* gm_response IS NULL

(***************************************************************************)
(* A row of gm_ticket.  author is not a column: it remembers whose reply   *)
(* gm_response holds.  Map, position, category and times are left out.     *)
(***************************************************************************)
Row == [character : Character \cup {NoOne},
        status    : Active \cup Closed \cup {Absent},
        assigned  : Staff \cup {NoOne},
        message   : Text,
        response  : Text \cup {NoText},
        author    : Staff \cup {NoOne}]

NoRow == [character |-> NoOne, status |-> Absent, assigned |-> NoOne,
          message |-> "first", response |-> NoText, author |-> NoOne]

VARIABLES
  tickets,     \* the gm_ticket table
  lastId       \* its AUTO_INCREMENT counter

vars == <<tickets, lastId>>

-----------------------------------------------------------------------------
DbRead  == IF ReadMayFail THEN BOOLEAN ELSE {TRUE}
DbWrite == IF WriteMayFail THEN {"acked", "unacked", "failed"} ELSE {"acked"}

(* One UPDATE of row t.  An unacked one applied and is reported as failed. *)
UpdateRowEnding(t, row, outcome) ==
  /\ tickets' = IF outcome = "failed" THEN tickets
                                      ELSE [tickets EXCEPT ![t] = row]
  /\ UNCHANGED lastId

UpdateRow(t, row) == \E outcome \in DbWrite : UpdateRowEnding(t, row, outcome)

(***************************************************************************)
(* The UPDATE statements of the repository: the rows one leaves behind, or *)
(* none when its WHERE clause does not match.                              *)
(***************************************************************************)
Affected(where, row) == IF where THEN {row} ELSE {}

UpdateMessage(row, text) ==
  Affected(row.status \in Active, [row EXCEPT !.message = text])

\* MUTANT: a claimed ticket is claimed again.
TryAssign_Retake(row, s) ==
  Affected(row.status \in {"Open", "Assigned"},
           [row EXCEPT !.assigned = s, !.status = "Assigned"])

TryAssign(row, s) ==
  Affected(row.status = "Open" /\ row.assigned = NoOne,
           [row EXCEPT !.assigned = s, !.status = "Assigned"])

\* MUTANT: whoever replies, not only the assignee.
SetGmResponseAndStatus_AnyStaff(row, s, text) ==
  Affected(row.status \in {"Open", "Assigned"} /\ row.assigned # NoOne,
           [row EXCEPT !.response = text, !.author = s, !.status = "GmAnswered"])

SetGmResponseAndStatus(row, s, text) ==
  Affected(row.status \in {"Open", "Assigned"} /\ row.assigned = s,
           [row EXCEPT !.response = text, !.author = s, !.status = "GmAnswered"])

CloseByPlayer(row, closedStatus) ==
  Affected(row.status \in Active, [row EXCEPT !.status = closedStatus])

\* MUTANT: a closed ticket is closed again.
CloseByStaff_AnyStatus(row, s) ==
  Affected(row.assigned = s, [row EXCEPT !.status = "ClosedStaff"])

CloseByStaff(row, s) ==
  Affected(row.status \in Active /\ row.assigned = s,
           [row EXCEPT !.status = "ClosedStaff"])

ActiveOf(c) == {t \in TicketId : /\ tickets[t].character = c
                                 /\ tickets[t].status \in Active}

(* ORDER BY id DESC LIMIT 1 over the character's active rows: the newest   *)
(* one, or nothing.                                                        *)
FindOpenByCharacterGuid(c) ==
  {t \in ActiveOf(c) : \A u \in ActiveOf(c) : u =< t}

-----------------------------------------------------------------------------
Init ==
  /\ tickets = [t \in TicketId |-> NoRow]
  /\ lastId = 0

(* A failed SELECT is indistinguishable from "no active ticket"; the id    *)
(* query that follows the INSERT may fail after the row is stored.         *)
\* MUTANT: no check for an active ticket.
CreateTicket_NoOpenCheck(c) ==
  /\ lastId < MaxTickets
  /\ tickets' = [tickets EXCEPT ![lastId + 1] =
                   [NoRow EXCEPT !.character = c, !.status = "Open"]]
  /\ lastId' = lastId + 1

CreateTicket(c) ==
  /\ \E readOk \in DbRead : readOk => FindOpenByCharacterGuid(c) = {}
  /\ lastId < MaxTickets
  /\ tickets' = [tickets EXCEPT ![lastId + 1] =
                   [NoRow EXCEPT !.character = c, !.status = "Open"]]
  /\ lastId' = lastId + 1

UpdateTicketText(c, text) ==
  \E t \in FindOpenByCharacterGuid(c) :
    \E row \in UpdateMessage(tickets[t], text) : UpdateRow(t, row)

AbandonTicket(c) ==
  \E t \in FindOpenByCharacterGuid(c) :
    \E row \in CloseByPlayer(tickets[t], "ClosedAbandoned") : UpdateRow(t, row)

ResolveTicket(c) ==
  \E t \in FindOpenByCharacterGuid(c) :
    /\ tickets[t].status = "GmAnswered"
    /\ \E row \in CloseByPlayer(tickets[t], "ClosedResolved") : UpdateRow(t, row)

AssignToStaff(t, s) ==
  \E row \in TryAssign(tickets[t], s) : UpdateRow(t, row)

StaffReply(t, s, text) ==
  \E row \in SetGmResponseAndStatus(tickets[t], s, text) : UpdateRow(t, row)

StaffClose(t, s) ==
  \E row \in CloseByStaff(tickets[t], s) : UpdateRow(t, row)

PlayerNext(c) ==
  \/ CreateTicket(c)
  \/ \E text \in Text : UpdateTicketText(c, text)
  \/ AbandonTicket(c)
  \/ ResolveTicket(c)

StaffNext(t, s) ==
  \/ AssignToStaff(t, s)
  \/ \E text \in Text : StaffReply(t, s, text)
  \/ StaffClose(t, s)

Next ==
  \/ \E c \in Character : PlayerNext(c)
  \/ \E t \in TicketId, s \in Staff : StaffNext(t, s)

Spec == Init /\ [][Next]_vars

-----------------------------------------------------------------------------
TypeOK ==
  /\ tickets \in [TicketId -> Row]
  /\ lastId \in 0 .. MaxTickets

(* Rows appear in id order and only as the counter passes them. *)
IdsSequential == \A t \in TicketId : (t =< lastId) <=> (tickets[t].status # Absent)

(* The two columns that say who owns a ticket never disagree: a row in the *)
(* unassigned queue has no assignee, a claimed or answered row has one.    *)
AssignmentMatchesStatus ==
  \A t \in TicketId :
    /\ tickets[t].status \in {Absent, "Open"} => tickets[t].assigned = NoOne
    /\ tickets[t].status \in {"Assigned", "GmAnswered", "ClosedStaff"}
         => tickets[t].assigned # NoOne

(* A reply was written by the account that holds the ticket; a ticket that *)
(* carries one has left the queue, and a player resolves only such a one.  *)
ReplyComesFromAssignee ==
  \A t \in TicketId :
    /\ tickets[t].response # NoText
         => /\ tickets[t].author = tickets[t].assigned
            /\ tickets[t].status \in Closed \cup {"GmAnswered"}
    /\ tickets[t].status \in {"GmAnswered", "ClosedResolved"}
         => tickets[t].response # NoText

(* Design rule 1 of docs/EN/modules/gm-tickets.md: one active ticket per   *)
(* character, across every order of opening, answering and closing.        *)
OneActivePerCharacter ==
  \A c \in Character : \A t, u \in ActiveOf(c) : t = u

(* The claim race is won once: whoever takes a ticket keeps it, and two    *)
(* staff members never both hold it, whatever becomes of the ticket.       *)
ClaimIsFinal ==
  [][\A t \in TicketId :
       tickets[t].assigned # NoOne => tickets'[t].assigned = tickets[t].assigned]_vars

(* A closed ticket is history: no later command, edit or reply, made from  *)
(* a stale view of the queue, changes any column of it.                    *)
ClosedIsFinal ==
  [][\A t \in TicketId :
       tickets[t].status \in Closed => tickets'[t] = tickets[t]]_vars

(* The reply the player was sent is the one the row keeps: staff cannot    *)
(* overwrite it, with a second reply or after the close.                   *)
ReplyIsFinal ==
  [][\A t \in TicketId :
       tickets[t].response # NoText
         => /\ tickets'[t].response = tickets[t].response
            /\ tickets'[t].status \in Closed \cup {"GmAnswered"}]_vars
=============================================================================
