----------------------------- MODULE MCGmTickets -----------------------------
EXTENDS GmTicketDesk

(* Characters are interchangeable; the staff are not, one sits at the desk. *)
TicketSymmetry == Permutations(Character)
=============================================================================
