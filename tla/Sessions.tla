------------------------------ MODULE Sessions ------------------------------
(***************************************************************************)
(* Server-side sessions: the sessions table and every request that reads   *)
(* or writes it (login, /me, logout, logout-all), as they run concurrently *)
(* on the thread pool.  One action is one database round trip: a SELECT,   *)
(* or the flush and COMMIT of a unit of work, which no other connection    *)
(* sees half done.  Between two actions of a request any other may run.    *)
(***************************************************************************)
EXTENDS SessionRules

CONSTANTS
  Requests,      \* slots for requests in flight; a slot is reused
  Users,         \* primary keys of the users table
  Tokens,        \* raw tokens the generator can return, all distinct
  NoUser, NoCookie,
  UnknownToken,  \* any cookie value the service never issued
  ReuseRowIds,   \* TRUE: SQLite's INTEGER PRIMARY KEY; FALSE: a sequence
  MaxClock       \* bound on the clock

ASSUME SessionsAssumption ==
  /\ NoUser \notin Users
  /\ NoCookie \notin Tokens \cup {UnknownToken}
  /\ UnknownToken \notin Tokens
  /\ ReuseRowIds \in BOOLEAN
  /\ MaxClock \in Nat

VARIABLES
  clock,
  sessions,     \* the table: primary key -> row, for the keys in use
  last_id,      \* largest primary key ever given
  req,          \* the local state of each request
  held,         \* tokens a client has received in a login answer
  (* history, read by the properties only *)
  owner,        \* the user each token was created for
  uses,         \* for each token, the `now` of its creation and of every use
  liveAtAsk     \* for each request, the tokens with a row when it began

vars == <<clock, sessions, last_id, req, held, owner, uses, liveAtAsk>>

-----------------------------------------------------------------------------
(* Types *)

Row == [token : Tokens, user : Users,
        created_at : Nat, expires_at : Nat, last_used_at : Nat]

Lookups == {"me", "logout_all"}        \* the operations behind get_current_user
Operations == Lookups \cup {"login", "logout"}
DatabaseSteps == {"select", "purge", "slide", "reload", "delete_all",
                  "find", "delete", "insert"}

\* ok, the 401, and the three exceptions that surface as a 500.
Replies == {"ok", "unauthorized", "StaleDataError", "ObjectDeletedError",
            "OperationalError"}

RequestState ==
  [pc     : DatabaseSteps \cup {"idle", "answer"},
   op     : Operations \cup {"none"},
   cookie : Tokens \cup {NoCookie, UnknownToken},
   now    : Nat,
   row_id : Nat,
   user   : Users \cup {NoUser},
   reply  : Replies \cup {"none"}]

Idle == [pc |-> "idle", op |-> "none", cookie |-> NoCookie, now |-> 0,
         row_id |-> 0, user |-> NoUser, reply |-> "none"]

\* A login knows its user, and the token it is about to store.
WellFormed(q) ==
  /\ q.pc = "insert" => q.op = "login"
  /\ q.op = "login" => q.cookie \in Tokens /\ q.user \in Users

TypeOK ==
  /\ clock \in Nat
  /\ last_id \in Nat
  /\ DOMAIN sessions \subseteq 1..last_id
  /\ sessions \in [DOMAIN sessions -> Row]
  /\ req \in [Requests -> RequestState]
  /\ \A r \in Requests : WellFormed(req[r])
  /\ held \subseteq Tokens
  /\ owner \in [Tokens -> Users \cup {NoUser}]
  /\ uses \in [Tokens -> SUBSET Nat]
  /\ liveAtAsk \in [Requests -> SUBSET Tokens]

-----------------------------------------------------------------------------
(* The sessions repository *)

get_by_token_hash(t) == {i \in DOMAIN sessions : sessions[i].token = t}

delete(ids) == sessions' = [i \in DOMAIN sessions \ ids |-> sessions[i]]

\* The rows delete_all_for_user deletes; and two wrong readings of it.
EveryRow(u) == DOMAIN sessions
UnexpiredOf(u) ==
  {i \in DOMAIN sessions : /\ sessions[i].user = u
                           /\ ~is_expired(clock, sessions[i].expires_at,
                                          sessions[i].last_used_at)}
owned_by(u) == {i \in DOMAIN sessions : sessions[i].user = u}

\* The key the database gives to the next row: SQLite takes the one after
\* the largest in use, a sequence never gives the same one twice.
AfterLargest ==
  {id \in 1..(last_id + 1) : /\ \A i \in DOMAIN sessions : i < id
                             /\ id = 1 \/ id - 1 \in DOMAIN sessions}

NewIds == IF ReuseRowIds THEN AfterLargest ELSE {last_id + 1}

\* Wrong form: the sequence is not advanced.
CreateUnderSameKey(id, row) ==
  /\ sessions' = [i \in DOMAIN sessions \cup {id} |->
                    IF i = id THEN row ELSE sessions[i]]
  /\ UNCHANGED last_id

create(id, row) ==
  /\ sessions' = [i \in DOMAIN sessions \cup {id} |->
                    IF i = id THEN row ELSE sessions[i]]
  /\ last_id' = IF id > last_id THEN id ELSE last_id

LiveTokens == {sessions[i].token : i \in DOMAIN sessions}
Live(t) == t \in LiveTokens
Issued(t) == owner[t] # NoUser
Ended(t) == Issued(t) /\ ~Live(t)

-----------------------------------------------------------------------------
(* Requests *)

At(r, step) == req[r].pc = step

\* The handler returns or raises: its local variables are gone.
AnswerFor(r, u, reply) ==
  req' = [req EXCEPT ![r] = [Idle EXCEPT !.pc = "answer", !.op = req[r].op,
                               !.cookie = req[r].cookie, !.user = u,
                               !.reply = reply]]

Answer(r, reply) == AnswerFor(r, req[r].user, reply)

Goto(r, step, id) ==
  req' = [req EXCEPT ![r] = [@ EXCEPT !.pc = step, !.row_id = id]]

Begin(r, state) ==
  /\ At(r, "idle")
  /\ req' = [req EXCEPT ![r] = state]
  /\ liveAtAsk' = [liveAtAsk EXCEPT ![r] = LiveTokens]
  /\ UNCHANGED <<clock, sessions, last_id, held, owner, uses>>

Presentable == held \cup {UnknownToken}

\* get_current_user, up to the SELECT: validate_session reads the clock first.
AskLookup(r, operation, c) ==
  Begin(r, IF c = NoCookie
           THEN [Idle EXCEPT !.pc = "answer", !.op = operation,
                             !.reply = "unauthorized"]
           ELSE [Idle EXCEPT !.pc = "select", !.op = operation,
                             !.cookie = c, !.now = clock])

\* post_logout: no lookup of the user; without a cookie there is nothing to do.
AskLogout(r, c) ==
  Begin(r, IF c = NoCookie
           THEN [Idle EXCEPT !.pc = "answer", !.op = "logout", !.reply = "ok"]
           ELSE [Idle EXCEPT !.pc = "find", !.op = "logout", !.cookie = c])

\* create_session for a user whose password was accepted: it reads the clock
\* and draws the token, which no other session has or will have.
AskLogin(r, u, t) ==
  /\ ~Issued(t)
  /\ \A q \in Requests : req[q].cookie # t
  /\ Begin(r, [Idle EXCEPT !.pc = "insert", !.op = "login", !.cookie = t,
                           !.now = clock, !.user = u])

Insert(r) ==
  /\ At(r, "insert")
  /\ \E id \in NewIds :
       create(id, [token        |-> req[r].cookie,
                   user         |-> req[r].user,
                   created_at   |-> req[r].now,
                   expires_at   |-> absolute_expiry(req[r].now),
                   last_used_at |-> req[r].now])
  /\ owner' = [owner EXCEPT ![req[r].cookie] = req[r].user]
  /\ uses' = [uses EXCEPT ![req[r].cookie] = {req[r].now}]
  /\ Answer(r, "ok")
  /\ UNCHANGED <<clock, held, liveAtAsk>>

\* Wrong form: scalar_one, which has no answer for an unknown token.
SelectKnownRow(r) ==
  /\ At(r, "select")
  /\ \E i \in get_by_token_hash(req[r].cookie) : Goto(r, "slide", i)
  /\ UNCHANGED <<clock, sessions, last_id, held, owner, uses, liveAtAsk>>

\* validate_session's SELECT, and the decision taken on the row it loaded.
SelectRow(r) ==
  /\ At(r, "select")
  /\ \/ /\ get_by_token_hash(req[r].cookie) = {}
        /\ Answer(r, "unauthorized")
     \/ \E i \in get_by_token_hash(req[r].cookie) :
          Goto(r, IF is_expired(req[r].now, sessions[i].expires_at,
                                sessions[i].last_used_at)
                  THEN "purge" ELSE "slide", i)
  /\ UNCHANGED <<clock, sessions, last_id, held, owner, uses, liveAtAsk>>

\* Wrong form: the expired row is rejected but left in the table.
RejectOnly(r) ==
  /\ At(r, "purge")
  /\ Answer(r, "unauthorized")
  /\ UNCHANGED <<clock, sessions, last_id, held, owner, uses, liveAtAsk>>

\* DELETE WHERE id = row_id and COMMIT; no row matched is only a warning.
Purge(r) ==
  /\ At(r, "purge")
  /\ delete({req[r].row_id})
  /\ Answer(r, "unauthorized")
  /\ UNCHANGED <<clock, last_id, held, owner, uses, liveAtAsk>>

\* Wrong form: the loaded row is merged back, whether it is still there or not.
MergeRow(r) ==
  /\ At(r, "slide")
  /\ create(req[r].row_id, [token        |-> req[r].cookie,
                            user         |-> owner[req[r].cookie],
                            created_at   |-> req[r].now,
                            expires_at   |-> absolute_expiry(req[r].now),
                            last_used_at |-> req[r].now])
  /\ req' = [req EXCEPT ![r].pc = "reload"]
  /\ UNCHANGED <<clock, held, owner, uses, liveAtAsk>>

\* Wrong form: UPDATE ... AND last_used_at < now, which may match no live row.
SlideForwardOnly(r) ==
  /\ At(r, "slide")
  /\ IF /\ req[r].row_id \in DOMAIN sessions
        /\ sessions[req[r].row_id].last_used_at < req[r].now
     THEN /\ sessions' = [sessions EXCEPT
                            ![req[r].row_id].last_used_at = req[r].now]
          /\ req' = [req EXCEPT ![r].pc = "reload"]
     ELSE Answer(r, "StaleDataError") /\ UNCHANGED sessions
  /\ UNCHANGED <<clock, last_id, held, owner, uses, liveAtAsk>>

\* UPDATE WHERE id = row_id and COMMIT; the unit of work insists on one match.
Slide(r) ==
  /\ At(r, "slide")
  /\ IF req[r].row_id \in DOMAIN sessions
     THEN /\ sessions' = [sessions EXCEPT
                            ![req[r].row_id].last_used_at = req[r].now]
          /\ uses' = [uses EXCEPT ![req[r].cookie] = @ \cup {req[r].now}]
          /\ req' = [req EXCEPT ![r].pc = "reload"]
     ELSE Answer(r, "StaleDataError") /\ UNCHANGED <<sessions, uses>>
  /\ UNCHANGED <<clock, last_id, held, owner, liveAtAsk>>

\* The COMMIT expired the loaded row, so row.user_id reads it again by key.
Reload(r) ==
  /\ At(r, "reload")
  /\ IF req[r].row_id \notin DOMAIN sessions
     THEN Answer(r, "ObjectDeletedError")
     ELSE LET u == sessions[req[r].row_id].user IN
          IF req[r].op = "me"
          THEN AnswerFor(r, u, "ok")
          ELSE req' = [req EXCEPT ![r].user = u, ![r].pc = "delete_all"]
  /\ UNCHANGED <<clock, sessions, last_id, held, owner, uses, liveAtAsk>>

\* revoke_all_sessions
DeleteAll(r) ==
  /\ At(r, "delete_all")
  /\ delete(owned_by(req[r].user))
  /\ Answer(r, "ok")
  /\ UNCHANGED <<clock, last_id, held, owner, uses, liveAtAsk>>

\* Wrong form: an expired session counts as absent, its row is left.
FindUnexpiredRow(r) ==
  /\ At(r, "find")
  /\ LET found == {i \in get_by_token_hash(req[r].cookie) :
                     ~is_expired(clock, sessions[i].expires_at,
                                 sessions[i].last_used_at)}
     IN IF found = {} THEN Answer(r, "ok")
        ELSE \E i \in found : Goto(r, "delete", i)
  /\ UNCHANGED <<clock, sessions, last_id, held, owner, uses, liveAtAsk>>

\* revoke_session: its SELECT ...
FindRow(r) ==
  /\ At(r, "find")
  /\ \/ /\ get_by_token_hash(req[r].cookie) = {}
        /\ Answer(r, "ok")
     \/ \E i \in get_by_token_hash(req[r].cookie) : Goto(r, "delete", i)
  /\ UNCHANGED <<clock, sessions, last_id, held, owner, uses, liveAtAsk>>

\* ... and its DELETE WHERE id = row_id and COMMIT.
DeleteRow(r) ==
  /\ At(r, "delete")
  /\ delete({req[r].row_id})
  /\ Answer(r, "ok")
  /\ UNCHANGED <<clock, last_id, held, owner, uses, liveAtAsk>>

\* A round trip fails (busy timeout, pool timeout): the unit of work is
\* rolled back and the exception becomes a 500.
DatabaseError(r) ==
  /\ req[r].pc \in DatabaseSteps
  /\ Answer(r, "OperationalError")
  /\ UNCHANGED <<clock, sessions, last_id, held, owner, uses, liveAtAsk>>

Release(R) ==
  /\ req' = [r \in Requests |-> IF r \in R THEN Idle ELSE req[r]]
  /\ liveAtAsk' = [r \in Requests |-> IF r \in R THEN {} ELSE liveAtAsk[r]]
  /\ UNCHANGED <<clock, sessions, last_id, owner, uses>>

\* The answer reaches the client; a login's answer carries the token.
Deliver(r) ==
  /\ At(r, "answer")
  /\ held' = IF req[r].op = "login" /\ req[r].reply = "ok"
             THEN held \cup {req[r].cookie} ELSE held
  /\ Release({r})

\* A login's answer is lost: the row stays, nobody holds its token.
LoseAnswer(r) ==
  /\ At(r, "answer")
  /\ req[r].op = "login"
  /\ req[r].reply = "ok"
  /\ Release({r})
  /\ UNCHANGED held

\* The server process dies with everything in flight.
Crash ==
  /\ \E r \in Requests : ~At(r, "idle")
  /\ Release(Requests)
  /\ UNCHANGED held

Tick ==
  /\ clock < MaxClock
  /\ clock' = clock + 1
  /\ UNCHANGED <<sessions, last_id, req, held, owner, uses, liveAtAsk>>

-----------------------------------------------------------------------------
(* Specification *)

Init ==
  /\ clock = 0
  /\ sessions = [i \in {} |-> Idle]
  /\ last_id = 0
  /\ req = [r \in Requests |-> Idle]
  /\ held = {}
  /\ owner = [t \in Tokens |-> NoUser]
  /\ uses = [t \in Tokens |-> {}]
  /\ liveAtAsk = [r \in Requests |-> {}]

Ask(r) ==
  \/ \E c \in Presentable \cup {NoCookie} :
       AskLogout(r, c) \/ \E o \in Lookups : AskLookup(r, o, c)
  \/ \E u \in Users, t \in Tokens : AskLogin(r, u, t)

\* The next round trip of a request that is being served.
Serve(r) ==
  \/ Insert(r)
  \/ SelectRow(r) \/ Purge(r) \/ Slide(r) \/ Reload(r) \/ DeleteAll(r)
  \/ FindRow(r) \/ DeleteRow(r)

Reply(r) == Deliver(r) \/ LoseAnswer(r)

Next ==
  \/ \E r \in Requests : Ask(r) \/ Serve(r) \/ DatabaseError(r) \/ Reply(r)
  \/ Crash
  \/ Tick

\* A thread that can take its next step is not passed over for ever.
Fairness == \A r \in Requests : WF_vars(Serve(r)) /\ WF_vars(Reply(r))

Spec == Init /\ [][Next]_vars /\ Fairness

-----------------------------------------------------------------------------
(* The inductive invariant of a table whose keys are never reused *)

\* Where a request stands determines what it asks and what it knows.
ControlInv(q) ==
  /\ q.pc = "idle" => q = Idle
  /\ q.pc \in {"select", "purge", "slide", "reload"} =>
       q.op \in Lookups /\ q.user = NoUser /\ q.cookie # NoCookie
  /\ q.pc \in {"find", "delete"} =>
       q.op = "logout" /\ q.user = NoUser /\ q.cookie # NoCookie
  /\ q.pc = "delete_all" => q.op = "logout_all"
  /\ q.pc = "answer" <=> q.reply # "none"

\* A key read earlier still means the session of the cookie, if it is in use.
KeyMeansCookie(q) ==
  q.pc \in {"purge", "slide", "reload", "delete"} =>
    /\ q.row_id \in 1..last_id
    /\ q.cookie \in Tokens
    /\ Issued(q.cookie)
    /\ q.row_id \in DOMAIN sessions => sessions[q.row_id].token = q.cookie

\* A login stores a token that is new, and answers with one that is stored.
LoginToken(q) ==
  /\ q.pc = "insert" => ~Issued(q.cookie)
  /\ q.op = "login" /\ q.reply = "ok" => Issued(q.cookie)

\* The user a lookup resolved is the owner of its cookie.
ResolvedUser(q) ==
  q.op \in Lookups /\ (q.pc = "delete_all" \/ q.reply = "ok") =>
    q.cookie \in Tokens /\ Issued(q.cookie) /\ q.user = owner[q.cookie]

RequestInv(q) ==
  ControlInv(q) /\ KeyMeansCookie(q) /\ LoginToken(q) /\ ResolvedUser(q)

TableInv ==
  /\ \A i \in DOMAIN sessions : owner[sessions[i].token] = sessions[i].user
  /\ \A i, j \in DOMAIN sessions : sessions[i].token = sessions[j].token => i = j

FreshTokens ==
  /\ \A t \in held : Issued(t)
  /\ \A r, q \in Requests :
       r # q /\ At(r, "insert") => req[r].cookie # req[q].cookie

\* What makes the rows, the keys in flight and the cookies agree: it holds
\* only because no key comes back after its row is deleted.
IdentityInv ==
  TableInv /\ FreshTokens /\ \A r \in Requests : RequestInv(req[r])

-----------------------------------------------------------------------------
(* Properties *)

Answered(r, replies) == At(r, "answer") /\ req[r].reply \in replies
Granted(r) == req[r].op \in Lookups /\ Answered(r, {"ok"})

\* validate_session returns "the session's user": whoever /me shows or
\* logout-all acts for is the user the presented token was created for, even
\* if the row was deleted and its key given away between SELECT and reload.
GrantedToOwner ==
  \A r \in Requests : Granted(r) => req[r].user = owner[req[r].cookie]

\* Revocation is immediate: a request that began after its token was revoked,
\* purged or never issued is not granted, whatever else is in flight.
GrantedOnlyIfLiveAtAsk ==
  \A r \in Requests : Granted(r) => req[r].cookie \in liveAtAsk[r]

\* An answered logout leaves no session behind its cookie, though it deletes
\* by the key it read earlier and never looks at how many rows matched.
LogoutEndsSession ==
  \A r \in Requests :
    req[r].op = "logout" /\ Answered(r, {"ok"}) => ~Live(req[r].cookie)

\* An answered logout-all has ended every session its user had when the
\* request began, those nobody holds the token of included.
LogoutAllEndsSessions ==
  \A r \in Requests :
    req[r].op = "logout_all" /\ Answered(r, {"ok"}) =>
      \A t \in liveAtAsk[r] : owner[t] = owner[req[r].cookie] => ~Live(t)

\* A 401 is final: the token it was given for has no session any more.
RefusedMeansEnded ==
  \A r \in Requests : Answered(r, {"unauthorized"}) => ~Live(req[r].cookie)

\* However a session is used, no two of its uses are ABSOLUTE_LIFETIME apart,
\* although the row it is judged by is read before it is written.
AbsoluteCap ==
  \A t \in Tokens : \A m, n \in uses[t] : n < m + ABSOLUTE_LIFETIME

\* Every use of a session follows an earlier one (or its creation) by less
\* than IDLE_TIMEOUT, even if concurrent uses commit out of order.
NoIdleGap ==
  \A t \in Tokens : \A n \in uses[t] :
    (\E m \in uses[t] : m < n) => \E m \in uses[t] : m < n /\ n < m + IDLE_TIMEOUT

\* A row's times are ordered, and it was last used before its deadline.
RowTimesOrdered ==
  \A i \in DOMAIN sessions :
    /\ sessions[i].created_at <= sessions[i].last_used_at
    /\ sessions[i].last_used_at < sessions[i].expires_at
    /\ sessions[i].last_used_at <= clock

\* The exceptions of the unit of work (a row that vanished under UPDATE or
\* reload) only strike a request whose session is gone for good.
RowLossMeansEnded ==
  \A r \in Requests :
    Answered(r, {"StaleDataError", "ObjectDeletedError"}) => Ended(req[r].cookie)

\* A token that stopped working never works again.
NoResurrection == [][\A t \in Tokens : Ended(t) => Ended(t)']_vars

\* A session ends only on a request of its own user: a logout or a lookup
\* that presents its token, or a logout-all with one of its user's tokens.
EndedByItsUser ==
  [][\A t \in Tokens : Live(t) /\ ~Live(t)' =>
       \E r \in Requests :
         /\ req[r].pc # req'[r].pc
         /\ \/ req[r].cookie = t
            \/ /\ req[r].op = "logout_all"
               /\ owner[req[r].cookie] = owner[t]]_vars

\* Logout is of one session only: its DELETE ends the session whose token it
\* was given, and no other one.
LogoutSparesOthers ==
  [][\A r \in Requests : At(r, "delete") /\ req'[r].pc = "answer" =>
       \A t \in Tokens \ {req[r].cookie} : Live(t) => Live(t)']_vars

\* Only an expired session is purged: the row that goes is past one of its
\* deadlines when it goes, not only when it was read.
PurgedOnlyIfExpired ==
  [][\A r \in Requests : At(r, "purge") /\ req'[r].reply = "unauthorized" =>
       \A i \in DOMAIN sessions \ DOMAIN sessions' :
         is_expired(clock, sessions[i].expires_at, sessions[i].last_used_at)]_vars

\* The answer to a cookie whose session was revoked is the 401 that every
\* other invalid cookie gets.
RevokedGetsTheSame401 ==
  \A r \in Requests :
    req[r].op \in Lookups => ~Answered(r, {"StaleDataError", "ObjectDeletedError"})

\* Every request is answered (or dies with the process).
EveryRequestAnswered ==
  \A r \in Requests : ~At(r, "idle") ~> At(r, "idle")
=============================================================================
