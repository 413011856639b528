---------------------------- MODULE GmTicketDesk ----------------------------
(***************************************************************************)
(* The ticket desk of .ticket ui: gossip windows that list tickets, show   *)
(* one and claim, answer or close it through GmTickets                     *)
(* (WorldSessionGmTicketGossip.cpp).                                       *)
(*                                                                         *)
(* A click names a menu and an option, never a ticket: the session looks   *)
(* the ticket up in what it remembers of the window it sent last.  Between *)
(* the two lie clicks that are still on their way and a queue that players *)
(* and other staff change.  A window is on the screen once it is sent: a   *)
(* click made before it arrived is one made before the click it answers    *)
(* was handled.                                                            *)
(***************************************************************************)
EXTENDS GmTickets, SequencesExt

CONSTANTS AtDesk,      \* staff members who use the desk; all may use .ticket
          PageSize,    \* kMaxTicketsPerPage
          MaxInFlight  \* bound: clicks under way of one desk

ASSUME GmTicketDeskAssumption ==
  /\ AtDesk \subseteq Staff
  /\ PageSize \in Nat \ {0}
  /\ MaxInFlight \in Nat

VARIABLES
  ui,       \* _gmTicketUi of each session
  clicks,   \* CMSG_GOSSIP_SELECT_OPTION on the way to the server
  shown     \* SMSG_GOSSIP_MESSAGE: the window on the client's screen

deskVars == <<ui, clicks, shown>>
allVars == <<tickets, lastId, ui, clicks, shown>>

-----------------------------------------------------------------------------
NoTicket == 0

(* GmTicketUiSession; a null pointer is one that is not open. *)
ClosedDesk == [open |-> FALSE, selected |-> NoTicket, page |-> 0,
                mode |-> "queue", ids |-> <<>>]
FreshDesk == [ClosedDesk EXCEPT !.open = TRUE]

(* What a window shows: the tickets of its rows, or the one it is about,   *)
(* and the buttons beside them.                                            *)
Window(menu, ids, ticket, buttons) ==
  [menu |-> menu, ids |-> ids, ticket |-> ticket, buttons |-> buttons]

NoWindow == Window("none", <<>>, NoTicket, {})
MainMenu == Window("main", <<>>, NoTicket, {"queue", "mine", "close"})

(***************************************************************************)
(* The clicks a window offers.  ticket is what the button stands for on    *)
(* the screen; it is not on the wire.                                      *)
(***************************************************************************)
Click(menu, option, row, ticket) ==
  [menu |-> menu, option |-> option, row |-> row, ticket |-> ticket]

Offered(w) ==
  {Click(w.menu, b, 0, w.ticket) : b \in w.buttons}
    \cup {Click(w.menu, "row", i, w.ids[i]) : i \in DOMAIN w.ids}

OpenCommand == Click("command", "ui", 0, NoTicket)

(* The ticket the session takes a click to be about. *)
TargetOf(u, click) ==
  IF click.option # "row" THEN u.selected
  ELSE IF click.row \in DOMAIN u.ids THEN u.ids[click.row]
  ELSE NoTicket

(* Rows of the queue oldest first; one's own by their last change, which   *)
(* is any order.  A failed SELECT lists nothing.                           *)
ListUnassignedOpen ==
  {t \in TicketId : tickets[t].status = "Open" /\ tickets[t].assigned = NoOne}

ListAssignedToAccount(s) ==
  {t \in TicketId : tickets[t].assigned = s /\ tickets[t].status \in Active}

Listings(s, mode) ==
  (IF ReadMayFail THEN {<<>>} ELSE {})
    \cup (IF mode = "queue"
          THEN {list \in SetToSeqs(ListUnassignedOpen) :
                  \A i, j \in DOMAIN list : i < j => list[i] < list[j]}
          ELSE SetToSeqs(ListAssignedToAccount(s)))

-----------------------------------------------------------------------------
(* What a handler ends with: the state it leaves, the window it sends. *)
Answer(s, u, w) ==
  /\ ui' = [ui EXCEPT ![s] = u]
  /\ shown' = [shown EXCEPT ![s] = w]

SendGmTicketMainMenu(s, u) == Answer(s, u, MainMenu)

\* MUTANT: the rows of the page before stay in the session.
SendGmTicketListMenu_OldRows(s, u) ==
  \E list \in Listings(s, u.mode) :
    LET from == u.page * PageSize
        upTo == IF from + PageSize < Len(list) THEN from + PageSize ELSE Len(list)
        rows == SubSeq(list, from + 1, upTo)
    IN Answer(s, IF u.ids = <<>> THEN [u EXCEPT !.ids = rows] ELSE u,
              Window("list", rows, NoTicket,
                     {"back"} \cup (IF u.page > 0 THEN {"prev"} ELSE {})
                              \cup (IF upTo < Len(list) THEN {"next"} ELSE {})))

SendGmTicketListMenu(s, u) ==
  \E list \in Listings(s, u.mode) :
    LET from == u.page * PageSize
        upTo == IF from + PageSize < Len(list) THEN from + PageSize ELSE Len(list)
        rows == SubSeq(list, from + 1, upTo)
    IN Answer(s, [u EXCEPT !.ids = rows],
              Window("list", rows, NoTicket,
                     {"back"} \cup (IF u.page > 0 THEN {"prev"} ELSE {})
                              \cup (IF upTo < Len(list) THEN {"next"} ELSE {})))

(* The row is read after whatever the handler did to it. *)
SendGmTicketDetailMenu(s, u) ==
  \E found \in DbRead :
    IF found /\ u.selected \in TicketId /\ u.selected =< lastId
    THEN Answer(s, u, Window("detail", <<>>, u.selected,
           {"back"} \cup IF tickets'[u.selected].assigned = s
                         THEN {"reply", "resolve"} ELSE {"take"}))
    ELSE SendGmTicketMainMenu(s, u)

-----------------------------------------------------------------------------
DeskInit ==
  /\ Init
  /\ ui = [s \in AtDesk |-> ClosedDesk]
  /\ clicks = [s \in AtDesk |-> <<>>]
  /\ shown = [s \in AtDesk |-> NoWindow]

(***************************************************************************)
(* The staff member.  patient remembers that the click was made with       *)
(* nothing under way, and not, say, as the second of a double click.       *)
(***************************************************************************)
Press(s) ==
  /\ Len(clicks[s]) < MaxInFlight
  /\ \E click \in Offered(shown[s]) \cup {OpenCommand} :
       clicks' = [clicks EXCEPT ![s] =
                    Append(@, [click |-> click, patient |-> @ = <<>>])]
  /\ UNCHANGED <<vars, ui, shown>>

-----------------------------------------------------------------------------
(* OpenGmTicketUi: a desk that is open already starts over. *)
OpenGmTicketUi(s) == UNCHANGED vars /\ SendGmTicketMainMenu(s, FreshDesk)

(* A click on a desk that was closed falls through to the menus of the     *)
(* world, which have no such menu: SendGossipComplete.                     *)
SelectAfterClose(s) == ~ui[s].open /\ UNCHANGED vars /\ Answer(s, ui[s], NoWindow)

MainSelect(s, option) ==
  /\ ui[s].open
  /\ UNCHANGED vars
  /\ \/ /\ option \in {"queue", "mine"}
        /\ SendGmTicketListMenu(s, [ui[s] EXCEPT !.mode = option, !.page = 0])
     \/ option = "close" /\ Answer(s, ClosedDesk, NoWindow)

ListSelect(s, click) ==
  /\ ui[s].open
  /\ UNCHANGED vars
  /\ \/ click.option = "back" /\ SendGmTicketMainMenu(s, ui[s])
     \/ /\ click.option = "next"
        /\ SendGmTicketListMenu(s, [ui[s] EXCEPT !.page = @ + 1])
     \/ /\ click.option = "prev"
        /\ SendGmTicketListMenu(s, [ui[s] EXCEPT !.page = IF @ > 0 THEN @ - 1 ELSE 0])
     \/ /\ click.option = "row"
        /\ LET t == TargetOf(ui[s], click)
           IN IF t # NoTicket
              THEN SendGmTicketDetailMenu(s, [ui[s] EXCEPT !.selected = t])
              ELSE SendGmTicketListMenu(s, ui[s])

(* A statement that finds no row to change changes nothing. *)
Statement(t, Rows(_), Call) ==
  IF t \in TicketId /\ Rows(tickets[t]) # {} THEN Call ELSE UNCHANGED vars

DetailTake(s, t) ==
  /\ Statement(t, LAMBDA row : TryAssign(row, s), AssignToStaff(t, s))
  /\ SendGmTicketDetailMenu(s, ui[s])

(* Without text nothing is done and no window is sent. *)
DetailReply(s, t) ==
  \/ UNCHANGED <<vars, ui, shown>>
  \/ \E text \in Text :
       /\ Statement(t, LAMBDA row : SetGmResponseAndStatus(row, s, text),
                    StaffReply(t, s, text))
       /\ SendGmTicketDetailMenu(s, ui[s])

(* Only a reported close leaves the ticket for the list. *)
DetailResolve(s, t) ==
  \/ /\ t \in TicketId
     /\ \E row \in CloseByStaff(tickets[t], s) : UpdateRowEnding(t, row, "acked")
     /\ SendGmTicketListMenu(s, [ui[s] EXCEPT !.selected = NoTicket])
  \/ /\ IF t \in TicketId /\ CloseByStaff(tickets[t], s) # {}
        THEN \E row \in CloseByStaff(tickets[t], s), outcome \in DbWrite \ {"acked"} :
               UpdateRowEnding(t, row, outcome)
        ELSE UNCHANGED vars
     /\ SendGmTicketDetailMenu(s, ui[s])

DetailSelect(s, click) ==
  /\ ui[s].open
  /\ LET t == TargetOf(ui[s], click)
     IN \/ click.option = "take" /\ DetailTake(s, t)
        \/ click.option = "reply" /\ DetailReply(s, t)
        \/ click.option = "resolve" /\ DetailResolve(s, t)
        \/ click.option = "back" /\ UNCHANGED vars /\ SendGmTicketListMenu(s, ui[s])

TryHandleGmTicketGossipSelect(s) ==
  /\ clicks[s] # <<>>
  /\ clicks' = [clicks EXCEPT ![s] = Tail(@)]
  /\ LET click == Head(clicks[s]).click
     IN \/ click.menu = "command" /\ OpenGmTicketUi(s)
        \/ click.menu # "command" /\ SelectAfterClose(s)
        \/ click.menu = "main" /\ MainSelect(s, click.option)
        \/ click.menu = "list" /\ ListSelect(s, click)
        \/ click.menu = "detail" /\ DetailSelect(s, click)

(* A new world process has the same table and no sessions. *)
Restart ==
  /\ UNCHANGED vars
  /\ ui' = [s \in AtDesk |-> ClosedDesk]
  /\ clicks' = [s \in AtDesk |-> <<>>]
  /\ shown' = [s \in AtDesk |-> NoWindow]

AtDeskNext(s) ==
  Press(s) \/ TryHandleGmTicketGossipSelect(s)

ElsewhereNext ==
  /\ \/ \E c \in Character : PlayerNext(c)
     \/ \E t \in TicketId, s \in Staff : StaffNext(t, s)
  /\ UNCHANGED deskVars

DeskNext ==
  \/ \E s \in AtDesk : AtDeskNext(s)
  \/ ElsewhereNext
  \/ Restart

DeskSpec == DeskInit /\ [][DeskNext]_allVars

-----------------------------------------------------------------------------
Desk == [open : BOOLEAN, selected : TicketId \cup {NoTicket}, page : Nat,
         mode : {"queue", "mine"}, ids : Seq(TicketId)]

Menus == {"none", "main", "list", "detail"}
Buttons == {"queue", "mine", "close", "back", "prev", "next", "take", "reply",
            "resolve"}

Clicks == [menu : Menus \cup {"command"}, option : Buttons \cup {"row", "ui"},
           row : Nat, ticket : TicketId \cup {NoTicket}]

Windows == [menu : Menus, ids : Seq(TicketId),
            ticket : TicketId \cup {NoTicket}, buttons : SUBSET Buttons]

\* The type invariant of the desk.
DeskTypeOK ==
  /\ ui \in [AtDesk -> Desk]
  /\ shown \in [AtDesk -> Windows]
  /\ clicks \in [AtDesk -> Seq([click : Clicks, patient : BOOLEAN])]

(***************************************************************************)
(* A button acts on the ticket it was drawn for, whatever players and      *)
(* other staff have done to the queue since: when a click made with        *)
(* nothing under way is handled, the session's memory of the window is the *)
(* window it was made in.  A second click before the first was answered    *)
(* has no such luck: it is taken for one in the window still on its way.   *)
(***************************************************************************)
ClickActsOnItsTicket ==
  \A s \in AtDesk :
    clicks[s] # <<>> =>
      LET head == Head(clicks[s])
      IN (head.patient /\ head.click.ticket # NoTicket)
           => /\ ui[s].open
              /\ TargetOf(ui[s], head.click) = head.click.ticket
=============================================================================
