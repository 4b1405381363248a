-------------------------- MODULE SessionAuthority --------------------------
(***************************************************************************)
(* What the session service promises, with no table, no row keys and no    *)
(* steps inside a request: every lookup, logout and logout-all happens at  *)
(* one instant between its question and its answer.                        *)
(***************************************************************************)
CONSTANTS Requests, Users, Tokens, NoUser, NoCookie, UnknownToken

VARIABLES
  holder,   \* the user a token was created for
  live,     \* the tokens that are accepted
  ticket    \* what each request asks, and what it was told

avars == <<holder, live, ticket>>

Cookies == Tokens \cup {NoCookie, UnknownToken}

Ticket == [op     : {"none", "me", "logout", "logout_all"},
           cookie : Cookies,
           status : {"none", "pending", "granted", "refused", "done", "failed"},
           user   : Users \cup {NoUser}]

NoTicket == [op |-> "none", cookie |-> NoCookie, status |-> "none", user |-> NoUser]

Init ==
  /\ holder = [t \in Tokens |-> NoUser]
  /\ live = {}
  /\ ticket = [r \in Requests |-> NoTicket]

Mark(r, status, user) ==
  ticket' = [ticket EXCEPT ![r].status = status, ![r].user = user]

Create(t, u) ==
  /\ holder[t] = NoUser
  /\ holder' = [holder EXCEPT ![t] = u]
  /\ live' = live \cup {t}
  /\ UNCHANGED ticket

Ask(r, op, c) ==
  /\ ticket[r] = NoTicket
  /\ ticket' = [ticket EXCEPT ![r] =
       [op |-> op, cookie |-> c, user |-> NoUser,
        status |-> IF c # NoCookie THEN "pending"
                   ELSE IF op = "logout" THEN "done" ELSE "refused"]]
  /\ UNCHANGED <<holder, live>>

\* Only a live token is granted, and to the user that holds it.
Grant(r) ==
  /\ ticket[r].status = "pending"
  /\ ticket[r].op \in {"me", "logout_all"}
  /\ ticket[r].cookie \in live
  /\ Mark(r, "granted", holder[ticket[r].cookie])
  /\ UNCHANGED <<holder, live>>

\* A refused token is refused for good.
Refuse(r) ==
  /\ ticket[r].status = "pending"
  /\ ticket[r].op \in {"me", "logout_all"}
  /\ live' = live \ {ticket[r].cookie}
  /\ Mark(r, "refused", NoUser)
  /\ UNCHANGED holder

Logout(r) ==
  /\ ticket[r].status = "pending"
  /\ ticket[r].op = "logout"
  /\ live' = live \ {ticket[r].cookie}
  /\ Mark(r, "done", NoUser)
  /\ UNCHANGED holder

LogoutAll(r) ==
  /\ ticket[r].status = "granted"
  /\ ticket[r].op = "logout_all"
  /\ live' = {t \in live : holder[t] # ticket[r].user}
  /\ Mark(r, "done", ticket[r].user)
  /\ UNCHANGED holder

Fail(r) ==
  /\ ticket[r].status \in {"pending", "granted"}
  /\ Mark(r, "failed", ticket[r].user)
  /\ UNCHANGED <<holder, live>>

Forget(R) ==
  /\ ticket' = [r \in Requests |-> IF r \in R THEN NoTicket ELSE ticket[r]]
  /\ UNCHANGED <<holder, live>>

Next ==
  \/ \E t \in Tokens, u \in Users : Create(t, u)
  \/ \E r \in Requests :
       \/ \E op \in {"me", "logout", "logout_all"}, c \in Cookies : Ask(r, op, c)
       \/ Grant(r) \/ Refuse(r) \/ Logout(r) \/ LogoutAll(r) \/ Fail(r)
       \/ Forget({r})
  \/ Forget(Requests)

Spec == Init /\ [][Next]_avars
=============================================================================
