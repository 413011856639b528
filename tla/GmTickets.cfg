\* Two players, two staff members, one of them at the desk with one ticket to a
\* page; any INSERT or UPDATE may fail, before or after it applied.
SPECIFICATION DeskSpec
CONSTANTS
  Character = {c1, c2}
  Staff = {s1, s2}
  NoOne = NoOne
  Text = {"first"}
  MaxTickets = 2
  ReadMayFail = FALSE
  WriteMayFail = TRUE
  AtDesk = {s1}
  PageSize = 1
  MaxInFlight = 2
SYMMETRY TicketSymmetry
INVARIANTS ReplyComesFromAssignee OneActivePerCharacter ClickActsOnItsTicket
PROPERTIES ClaimIsFinal ClosedIsFinal
