------------------------- MODULE SessionsRefinement -------------------------
(***************************************************************************)
(* The refinement mapping from the requests and rows of Sessions to the    *)
(* tickets of SessionAuthority.                                            *)
(***************************************************************************)
EXTENDS Sessions

\* What a request other than a login has been told.
Status(q) ==
  CASE q.reply = "none" -> IF q.pc = "delete_all" THEN "granted" ELSE "pending"
    [] q.reply = "ok" -> IF q.op = "me" THEN "granted" ELSE "done"
    [] q.reply = "unauthorized" -> "refused"
    [] OTHER -> "failed"

TicketOf(q) ==
  IF q.op \in {"none", "login"}
  THEN [op |-> "none", cookie |-> NoCookie, status |-> "none", user |-> NoUser]
  ELSE [op |-> q.op, cookie |-> q.cookie, status |-> Status(q), user |-> q.user]

Tickets == [r \in Requests |-> TicketOf(req[r])]

Authority == INSTANCE SessionAuthority WITH
  holder <- owner,
  live <- LiveTokens,
  ticket <- Tickets

\* The concurrent service implements the atomic one: whatever the requests in
\* flight do between their round trips, each of them takes effect at once.
ImplementsAuthority == Authority!Spec
=============================================================================
