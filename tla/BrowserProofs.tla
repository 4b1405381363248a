--------------------------- MODULE BrowserProofs ---------------------------
(***************************************************************************)
(* Theorems about Browser, for every set of requests, users and tokens,    *)
(* any lifetimes, and both ways of giving row keys.                        *)
(***************************************************************************)
EXTENDS Browser, SessionsSafetyProofs

USE SessionsAssumption, LifetimeAssumption

-----------------------------------------------------------------------------
(* The inductive invariant *)

\* No row lives longer than one that is created now.
RowDeadlines ==
  \A i \in DOMAIN sessions : sessions[i].expires_at <= clock + ABSOLUTE_LIFETIME

\* The cookie lasts as long as the row it stands for: what is to be shown,
\* before idleness and the clock are taken into account.
CookieCoversRow ==
  \A i \in DOMAIN sessions :
    sessions[i].token = jar => sessions[i].expires_at <= jar_until

\* A login about to store its token read the clock in the past and has a
\* token that nobody else has; only a stored one is answered with "ok".
LoginInv(q) ==
  /\ q.op = "login" => q.pc \in {"insert", "answer"}
  /\ q.pc = "insert" => q.now <= clock /\ ~Issued(q.cookie)
  /\ q.op = "login" /\ q.reply = "ok" => Issued(q.cookie)

FreshInserts ==
  \A r, q \in Requests :
    r # q /\ At(r, "insert") => req[r].cookie # req[q].cookie

BrowserInv ==
  /\ TypeOK
  /\ jar_until \in Nat
  /\ JarIsIssued
  /\ RowDeadlines
  /\ CookieCoversRow
  /\ \A r \in Requests : LoginInv(req[r])
  /\ FreshInserts

-----------------------------------------------------------------------------

\* A request moves on or begins, no login is stored, the table only loses
\* rows or moves a last_used_at: the invariant stays.
LEMMA QuietStep ==
  ASSUME BrowserInv, TypeOK', NEW r \in Requests, NEW state,
         req' = [req EXCEPT ![r] = state],
         state.pc # "insert", LoginInv(state),
         \A q \in Requests : q # r /\ At(q, "insert") => req[q].cookie # state.cookie,
         UNCHANGED <<clock, held, owner, jar, jar_until>>,
         DOMAIN sessions' \subseteq DOMAIN sessions,
         \A i \in DOMAIN sessions' :
           /\ sessions'[i].token = sessions[i].token
           /\ sessions'[i].expires_at = sessions[i].expires_at
  PROVE  BrowserInv'
  <1>1. JarIsIssued' /\ RowDeadlines' /\ CookieCoversRow'
    BY DEF BrowserInv, JarIsIssued, Issued, RowDeadlines, CookieCoversRow
  <1>2. \A q \in Requests : req'[q] = IF q = r THEN state ELSE req[q]
    BY DEF BrowserInv, TypeOK
  <1>3. \A q \in Requests : LoginInv(req[q])'
    BY <1>2 DEF BrowserInv, LoginInv, Issued
  <1>4. FreshInserts'
    BY <1>2 DEF BrowserInv, FreshInserts, At
  <1> QED
    BY <1>1, <1>3, <1>4 DEF BrowserInv

\* A handler answers, for a request other than a login or with an error.
LEMMA QuietAnswer ==
  ASSUME BrowserInv, TypeOK', NEW r \in Requests, NEW u, NEW reply,
         AnswerFor(r, u, reply), reply # "ok" \/ req[r].op # "login",
         UNCHANGED <<clock, held, owner, jar, jar_until>>,
         DOMAIN sessions' \subseteq DOMAIN sessions,
         \A i \in DOMAIN sessions' :
           /\ sessions'[i].token = sessions[i].token
           /\ sessions'[i].expires_at = sessions[i].expires_at
  PROVE  BrowserInv'
  <1>1. PICK state :
          state = [Idle EXCEPT !.pc = "answer", !.op = req[r].op,
                     !.cookie = req[r].cookie, !.user = u, !.reply = reply]
    OBVIOUS
  <1>2. /\ state.pc = "answer" /\ state.op = req[r].op
        /\ state.cookie = req[r].cookie /\ state.reply = reply
    BY <1>1 DEF Idle
  <1>3. req' = [req EXCEPT ![r] = state]
    BY <1>1 DEF AnswerFor
  <1>4. LoginInv(state)
    BY <1>2 DEF LoginInv
  <1>5. \A q \in Requests : q # r /\ At(q, "insert") => req[q].cookie # state.cookie
    BY <1>2 DEF BrowserInv, FreshInserts
  <1> QED
    BY <1>2, <1>3, <1>4, <1>5, QuietStep

\* It goes on to its next round trip.
LEMMA QuietMove ==
  ASSUME BrowserInv, TypeOK', NEW r \in Requests, NEW step, step # "insert",
         NEW id, NEW u, req[r].op # "login",
         req' = [req EXCEPT ![r] = [@ EXCEPT !.pc = step, !.row_id = id, !.user = u]],
         UNCHANGED <<clock, held, owner, jar, jar_until>>,
         DOMAIN sessions' \subseteq DOMAIN sessions,
         \A i \in DOMAIN sessions' :
           /\ sessions'[i].token = sessions[i].token
           /\ sessions'[i].expires_at = sessions[i].expires_at
  PROVE  BrowserInv'
  <1>0. req[r] \in RequestState
    BY DEF BrowserInv, TypeOK
  <1>1. PICK state : state = [req[r] EXCEPT !.pc = step, !.row_id = id, !.user = u]
    OBVIOUS
  <1>2. /\ state.pc = step /\ state.op = req[r].op
        /\ state.cookie = req[r].cookie
    BY <1>0, <1>1 DEF RequestState
  <1>3. req' = [req EXCEPT ![r] = state]
    BY <1>1
  <1>4. LoginInv(state)
    BY <1>2 DEF LoginInv
  <1>5. \A q \in Requests : q # r /\ At(q, "insert") => req[q].cookie # state.cookie
    BY <1>2 DEF BrowserInv, FreshInserts
  <1> QED
    BY <1>2, <1>3, <1>4, <1>5, QuietStep

\* A lookup or a logout begins with the cookie the browser sends, which is
\* none that a login is about to store.
LEMMA QuietBegin ==
  ASSUME BrowserInv, TypeOK', NEW r \in Requests, NEW state, Begin(r, state),
         state.pc # "insert", state.op # "login",
         state.cookie \in {NoCookie, SentCookie}, UNCHANGED jarVars
  PROVE  BrowserInv'
  <1>1. LoginInv(state)
    BY DEF LoginInv
  <1>2. \A q \in Requests : q # r /\ At(q, "insert") => req[q].cookie # state.cookie
    BY DEF BrowserInv, LoginInv, At, SentCookie, JarIsIssued, TypeOK, WellFormed
  <1> QED
    BY <1>1, <1>2, QuietStep DEF Begin, jarVars

\* A login begins: it reads the clock and draws a token of its own.
LEMMA LoginBegin ==
  ASSUME BrowserInv, TypeOK', NEW r \in Requests, NEW u \in Users, NEW t \in Tokens,
         AskLogin(r, u, t), UNCHANGED jarVars
  PROVE  BrowserInv'
  <1>1. PICK state :
          state = [Idle EXCEPT !.pc = "insert", !.op = "login", !.cookie = t,
                               !.now = clock, !.user = u]
    OBVIOUS
  <1>2. /\ state.pc = "insert" /\ state.op = "login" /\ state.cookie = t
        /\ state.now = clock /\ state.reply = "none"
    BY <1>1 DEF Idle
  <1>3. /\ req' = [req EXCEPT ![r] = state]
        /\ UNCHANGED <<clock, sessions, last_id, held, owner, uses>>
        /\ ~Issued(t) /\ \A q \in Requests : req[q].cookie # t
    BY <1>1 DEF AskLogin, Begin
  <1>4. JarIsIssued' /\ RowDeadlines' /\ CookieCoversRow' /\ jar_until' \in Nat
    BY <1>3 DEF BrowserInv, JarIsIssued, Issued, RowDeadlines, CookieCoversRow, jarVars
  <1>5. \A q \in Requests : req'[q] = IF q = r THEN state ELSE req[q]
    BY <1>3 DEF BrowserInv, TypeOK
  <1>6. \A q \in Requests : LoginInv(req[q])'
    <2> SUFFICES ASSUME NEW q \in Requests PROVE LoginInv(req[q])'
      OBVIOUS
    <2>1. CASE q = r
      BY <1>2, <1>3, <1>5, <2>1 DEF LoginInv, Issued, BrowserInv, TypeOK
    <2>2. CASE q # r
      BY <1>3, <1>5, <2>2 DEF BrowserInv, LoginInv, Issued
    <2> QED
      BY <2>1, <2>2
  <1>7. FreshInserts'
    BY <1>2, <1>3, <1>5 DEF BrowserInv, FreshInserts, At
  <1> QED
    BY <1>4, <1>6, <1>7 DEF BrowserInv

\* A login stores its row: the token is not the one of the browser's cookie,
\* and no other login is about to store it.
LEMMA InsertStep ==
  ASSUME BrowserInv, TypeOK', NEW r \in Requests, Insert(r), UNCHANGED jarVars
  PROVE  BrowserInv'
  <1>0. /\ req[r] \in RequestState /\ WellFormed(req[r]) /\ LoginInv(req[r])
        /\ req[r].pc = "insert"
    BY DEF BrowserInv, TypeOK, Insert, At
  <1>1. PICK t \in Tokens : t = req[r].cookie
    BY <1>0 DEF WellFormed
  <1>2. PICK u \in Users : u = req[r].user
    BY <1>0 DEF WellFormed
  <1>3. PICK now \in Nat : now = req[r].now
    BY <1>0 DEF RequestState
  <1>4. ~Issued(t) /\ now <= clock
    BY <1>0, <1>1, <1>3 DEF LoginInv
  <1>5. PICK state :
          state = [Idle EXCEPT !.pc = "answer", !.op = req[r].op,
                     !.cookie = req[r].cookie, !.user = req[r].user, !.reply = "ok"]
    OBVIOUS
  <1>6. state.pc = "answer" /\ state.cookie = t
    BY <1>1, <1>5 DEF Idle
  <1>7. /\ req' = [req EXCEPT ![r] = state]
        /\ owner' = [owner EXCEPT ![t] = u]
        /\ UNCHANGED <<clock, held>>
    BY <1>1, <1>2, <1>5 DEF Insert, Answer, AnswerFor
  <1>8. PICK row :
          row = [token |-> t, user |-> u, created_at |-> now,
                 expires_at |-> absolute_expiry(now), last_used_at |-> now]
    OBVIOUS
  <1>9. row.token = t /\ row.expires_at = now + ABSOLUTE_LIFETIME
    BY <1>8 DEF absolute_expiry
  <1>10. PICK id : create(id, row)
    BY <1>1, <1>2, <1>3, <1>8 DEF Insert
  <1>11. \A i \in DOMAIN sessions' :
           sessions'[i] = row \/ (i \in DOMAIN sessions /\ sessions'[i] = sessions[i])
    BY <1>10 DEF create
  <1>12. \A s \in Tokens : Issued(s)' <=> Issued(s) \/ s = t
    BY <1>7 DEF Issued, BrowserInv, TypeOK
  <1>13. JarIsIssued'
    BY <1>7, <1>12 DEF BrowserInv, JarIsIssued, jarVars, TypeOK
  <1>14. RowDeadlines'
    BY <1>4, <1>7, <1>9, <1>11 DEF BrowserInv, RowDeadlines, TypeOK
  <1>15. CookieCoversRow'
    <2>1. t # jar
      BY <1>4, SessionsAssumption DEF BrowserInv, JarIsIssued
    <2> QED
      BY <1>9, <1>11, <2>1 DEF BrowserInv, CookieCoversRow, jarVars
  <1>16. \A q \in Requests : req'[q] = IF q = r THEN state ELSE req[q]
    BY <1>7 DEF BrowserInv, TypeOK
  <1>17. ASSUME NEW q \in Requests PROVE LoginInv(req[q])'
    <2>1. CASE q = r
      BY <1>6, <1>12, <1>16, <2>1 DEF LoginInv
    <2>2. CASE q # r
      <3>1. req'[q] = req[q] /\ LoginInv(req[q]) /\ WellFormed(req[q])
        BY <1>16, <2>2 DEF BrowserInv, TypeOK
      <3>2. req[q].pc = "insert" => req[q].cookie # t
        BY <1>0, <1>1, <2>2 DEF BrowserInv, FreshInserts, At
      <3> QED
        BY <1>7, <1>12, <3>1, <3>2 DEF LoginInv, WellFormed
    <2> QED
      BY <2>1, <2>2
  <1>18. FreshInserts'
    BY <1>1, <1>6, <1>16 DEF BrowserInv, FreshInserts, At
  <1> QED
    BY <1>13, <1>14, <1>15, <1>17, <1>18 DEF BrowserInv, jarVars

\* Requests end or die and the browser keeps a cookie that the invariant
\* allows.
LEMMA ReleaseStep ==
  ASSUME BrowserInv, TypeOK', NEW R \in SUBSET Requests, Release(R),
         jar_until' \in Nat, JarIsIssued', CookieCoversRow'
  PROVE  BrowserInv'
  <1>1. RowDeadlines'
    BY DEF BrowserInv, RowDeadlines, Release
  <1>2. \A q \in Requests : req'[q] = req[q] \/ req'[q] = Idle
    BY DEF Release
  <1>3. Idle.pc = "idle" /\ Idle.op = "none" /\ Idle.cookie = NoCookie
    BY DEF Idle
  <1>4. \A q \in Requests : LoginInv(req[q])'
    BY <1>2, <1>3 DEF BrowserInv, LoginInv, Release, Issued
  <1>5. FreshInserts'
    BY <1>2, <1>3 DEF BrowserInv, FreshInserts, At, TypeOK, WellFormed
  <1> QED
    BY <1>1, <1>4, <1>5 DEF BrowserInv

\* An answer arrives.
LEMMA ReceiveStep ==
  ASSUME BrowserInv, TypeOK', NEW r \in Requests, Receive(r)
  PROVE  BrowserInv'
  <1>1. /\ Release({r}) /\ req[r].pc = "answer"
        /\ req[r] \in RequestState /\ WellFormed(req[r]) /\ LoginInv(req[r])
        /\ UNCHANGED <<clock, sessions, owner>> /\ clock \in Nat
    BY DEF Receive, Deliver, Release, At, BrowserInv, TypeOK
  <1>2. CASE SetsCookie(req[r])
    <2>1. /\ jar' = req[r].cookie /\ jar_until' = clock + ABSOLUTE_LIFETIME
          /\ held' = held \cup {req[r].cookie} /\ Issued(req[r].cookie)
      BY <1>1, <1>2 DEF Receive, SetsCookie, set_session_cookie, max_age, Deliver,
                        LoginInv
    <2>2. JarIsIssued' /\ jar_until' \in Nat
      BY <1>1, <2>1 DEF JarIsIssued, Issued
    <2>3. CookieCoversRow'
      BY <1>1, <2>1 DEF CookieCoversRow, BrowserInv, RowDeadlines
    <2> QED
      BY <1>1, <2>2, <2>3, ReleaseStep
  <1>3. CASE ~SetsCookie(req[r])
    <2>1. held' = held
      BY <1>1, <1>3 DEF Receive, Deliver, SetsCookie
    <2>2. CASE ClearsCookie(req[r])
      <3>1. jar' = NoCookie /\ jar_until' = 0
        BY <1>3, <2>2 DEF Receive, clear_session_cookie
      <3>2. JarIsIssued' /\ jar_until' \in Nat
        BY <3>1 DEF JarIsIssued
      <3>3. CookieCoversRow'
        BY <3>1, SessionsAssumption DEF CookieCoversRow, TypeOK, Row
      <3> QED
        BY <1>1, <3>2, <3>3, ReleaseStep
    <2>3. CASE ~ClearsCookie(req[r])
      <3>1. UNCHANGED <<jar, jar_until>>
        BY <1>3, <2>3 DEF Receive, jarVars
      <3>2. JarIsIssued' /\ jar_until' \in Nat /\ CookieCoversRow'
        BY <1>1, <2>1, <3>1 DEF BrowserInv, JarIsIssued, Issued, CookieCoversRow
      <3> QED
        BY <1>1, <3>2, ReleaseStep
    <2> QED
      BY <2>2, <2>3
  <1> QED
    BY <1>2, <1>3

-----------------------------------------------------------------------------

\* The browser only sends what a client may present.
LEMMA SendIsAsk ==
  ASSUME BrowserInv, NEW r \in Requests, Send(r)
  PROVE  Ask(r)
  <1>1. SentCookie \in Presentable \cup {NoCookie}
    BY DEF BrowserInv, JarIsIssued, SentCookie, Presentable
  <1> QED
    BY <1>1 DEF Send, Ask

\* The browser sends a request.
LEMMA SendStep ==
  ASSUME BrowserInv, TypeOK', NEW r \in Requests, Send(r), UNCHANGED jarVars
  PROVE  BrowserInv'
  <1>1. CASE AskLogout(r, SentCookie)
    <2>1. PICK state :
            state = IF SentCookie = NoCookie
                    THEN [Idle EXCEPT !.pc = "answer", !.op = "logout", !.reply = "ok"]
                    ELSE [Idle EXCEPT !.pc = "find", !.op = "logout",
                                      !.cookie = SentCookie]
      OBVIOUS
    <2>2. Begin(r, state)
      BY <1>1, <2>1 DEF AskLogout
    <2>3. /\ state.pc # "insert" /\ state.op # "login"
          /\ state.cookie \in {NoCookie, SentCookie}
      BY <2>1 DEF Idle
    <2> QED
      BY <2>2, <2>3, QuietBegin
  <1>2. ASSUME NEW o \in Lookups, AskLookup(r, o, SentCookie)
        PROVE  BrowserInv'
    <2>1. PICK state :
            state = IF SentCookie = NoCookie
                    THEN [Idle EXCEPT !.pc = "answer", !.op = o,
                                      !.reply = "unauthorized"]
                    ELSE [Idle EXCEPT !.pc = "select", !.op = o,
                                      !.cookie = SentCookie, !.now = clock]
      OBVIOUS
    <2>2. Begin(r, state)
      BY <1>2, <2>1 DEF AskLookup
    <2>3. /\ state.pc # "insert" /\ state.op # "login"
          /\ state.cookie \in {NoCookie, SentCookie}
      BY <2>1 DEF Idle, Lookups
    <2> QED
      BY <2>2, <2>3, QuietBegin
  <1> QED
    BY <1>1, <1>2, LoginBegin DEF Send

\* Past its INSERT a request that is being served is no login.
LEMMA NoLogin ==
  ASSUME BrowserInv, NEW r \in Requests, req[r].pc \notin {"insert", "answer"}
  PROVE  req[r].op # "login"
  BY DEF BrowserInv, LoginInv

\* A round trip of a request in service.
LEMMA ServeStep ==
  ASSUME BrowserInv, TypeOK', NEW r \in Requests, Serve(r), UNCHANGED jarVars
  PROVE  BrowserInv'
  <1>1. CASE SelectRow(r)
    <2>1. req[r].op # "login"
      BY <1>1, NoLogin DEF SelectRow, At
    <2>2. CASE Answer(r, "unauthorized")
      BY <1>1, <2>1, <2>2, QuietAnswer DEF SelectRow, Answer, jarVars
    <2>3. ASSUME NEW i, NEW step \in {"purge", "slide"}, Goto(r, step, i)
          PROVE  BrowserInv'
      <3>1. req' = [req EXCEPT ![r] = [@ EXCEPT !.pc = step, !.row_id = i,
                                                !.user = req[r].user]]
        BY <2>3 DEF Goto, BrowserInv, TypeOK, RequestState
      <3> QED
        BY <1>1, <2>1, <3>1, QuietMove DEF SelectRow, jarVars
    <2> QED
      BY <1>1, <2>2, <2>3 DEF SelectRow
  <1>2. CASE Purge(r)
    <2>1. req[r].op # "login"
      BY <1>2, NoLogin DEF Purge, At
    <2> QED
      BY <1>2, <2>1, QuietAnswer DEF Purge, Answer, delete, jarVars
  <1>3. CASE Slide(r)
    <2>1. req[r].op # "login"
      BY <1>3, NoLogin DEF Slide, At
    <2>2. /\ DOMAIN sessions' = DOMAIN sessions
          /\ \A i \in DOMAIN sessions' :
               /\ sessions'[i].token = sessions[i].token
               /\ sessions'[i].expires_at = sessions[i].expires_at
      BY <1>3 DEF Slide, BrowserInv, TypeOK, Row
    <2>3. CASE req[r].row_id \in DOMAIN sessions
      <3>1. req' = [req EXCEPT ![r] = [@ EXCEPT !.pc = "reload",
                                                !.row_id = req[r].row_id,
                                                !.user = req[r].user]]
        BY <1>3, <2>3 DEF Slide, BrowserInv, TypeOK, RequestState
      <3> QED
        BY <1>3, <2>1, <2>2, <3>1, QuietMove DEF Slide, jarVars
    <2>4. CASE req[r].row_id \notin DOMAIN sessions
      BY <1>3, <2>1, <2>2, <2>4, QuietAnswer DEF Slide, Answer, jarVars
    <2> QED
      BY <2>3, <2>4
  <1>4. CASE Reload(r)
    <2>1. req[r].op # "login"
      BY <1>4, NoLogin DEF Reload, At
    <2>2. CASE Answer(r, "ObjectDeletedError")
      BY <1>4, <2>1, <2>2, QuietAnswer DEF Reload, Answer, jarVars
    <2>3. ASSUME NEW u, AnswerFor(r, u, "ok")
          PROVE  BrowserInv'
      BY <1>4, <2>1, <2>3, QuietAnswer DEF Reload, jarVars
    <2>4. ASSUME NEW u, req' = [req EXCEPT ![r].user = u, ![r].pc = "delete_all"]
          PROVE  BrowserInv'
      <3> DEFINE state == [req[r] EXCEPT !.user = u, !.pc = "delete_all"]
      <3>0. req[r] \in RequestState
        BY DEF BrowserInv, TypeOK
      <3>1. req' = [req EXCEPT ![r] = state]
        BY <2>4, <3>0 DEF BrowserInv, TypeOK, RequestState
      <3>2. state = [req[r] EXCEPT !.pc = "delete_all",
                                   !.row_id = req[r].row_id, !.user = u]
        BY <3>0 DEF RequestState
      <3>3. req' = [req EXCEPT ![r] = [@ EXCEPT !.pc = "delete_all",
                                                !.row_id = req[r].row_id,
                                                !.user = u]]
        BY <3>1, <3>2
      <3> QED
        BY <1>4, <2>1, <3>3, QuietMove DEF Reload, jarVars
    <2> QED
      BY <1>4, <2>2, <2>3, <2>4 DEF Reload
  <1>5. CASE DeleteAll(r)
    <2>1. req[r].op # "login"
      BY <1>5, NoLogin DEF DeleteAll, At
    <2> QED
      BY <1>5, <2>1, QuietAnswer DEF DeleteAll, Answer, delete, jarVars
  <1>6. CASE FindRow(r)
    <2>1. req[r].op # "login"
      BY <1>6, NoLogin DEF FindRow, At
    <2>2. CASE Answer(r, "ok")
      BY <1>6, <2>1, <2>2, QuietAnswer DEF FindRow, Answer, jarVars
    <2>3. ASSUME NEW i, Goto(r, "delete", i)
          PROVE  BrowserInv'
      <3>1. req' = [req EXCEPT ![r] = [@ EXCEPT !.pc = "delete", !.row_id = i,
                                                !.user = req[r].user]]
        BY <2>3 DEF Goto, BrowserInv, TypeOK, RequestState
      <3> QED
        BY <1>6, <2>1, <3>1, QuietMove DEF FindRow, jarVars
    <2> QED
      BY <1>6, <2>2, <2>3 DEF FindRow
  <1>7. CASE DeleteRow(r)
    <2>1. req[r].op # "login"
      BY <1>7, NoLogin DEF DeleteRow, At
    <2> QED
      BY <1>7, <2>1, QuietAnswer DEF DeleteRow, Answer, delete, jarVars
  <1> QED
    BY <1>1, <1>2, <1>3, <1>4, <1>5, <1>6, <1>7, InsertStep DEF Serve

\* Every step of the browser and the service keeps the invariant.
LEMMA BrowserStep ==
  ASSUME BrowserInv, [BrowserNext]_browserVars
  PROVE  BrowserInv'
  <1>0. TypeOK
    BY DEF BrowserInv
  <1>1. ASSUME NEW r \in Requests, Receive(r)
        PROVE  BrowserInv'
    BY <1>0, <1>1, TypeStep, ReceiveStep DEF Receive, Next, Reply
  <1>2. ASSUME NEW r \in Requests, Miss(r)
        PROVE  BrowserInv'
    <2>1. TypeOK' /\ Release({r})
      BY <1>0, <1>2, ReleaseType DEF Miss, TypeOK
    <2> QED
      BY <1>2, <2>1, ReleaseStep
      DEF Miss, Release, BrowserInv, JarIsIssued, Issued, CookieCoversRow
  <1>3. ASSUME NEW r \in Requests, Send(r), UNCHANGED jarVars
        PROVE  BrowserInv'
    BY <1>0, <1>3, SendIsAsk, TypeStep, SendStep DEF Next
  <1>4. ASSUME NEW r \in Requests, Serve(r), UNCHANGED jarVars
        PROVE  BrowserInv'
    BY <1>0, <1>4, TypeStep, ServeStep DEF Next
  <1>5. ASSUME NEW r \in Requests, DatabaseError(r), UNCHANGED jarVars
        PROVE  BrowserInv'
    <2>1. TypeOK'
      BY <1>0, <1>5, TypeStep DEF Next
    <2> QED
      BY <1>5, <2>1, QuietAnswer DEF DatabaseError, Answer, jarVars
  <1>6. CASE Crash /\ UNCHANGED jarVars
    <2>1. TypeOK' /\ Release(Requests)
      BY <1>0, <1>6, TypeStep DEF Next, Crash
    <2> QED
      BY <1>6, <2>1, ReleaseStep
      DEF Crash, Release, BrowserInv, JarIsIssued, Issued, CookieCoversRow, jarVars
  <1>7. CASE Tick /\ UNCHANGED jarVars
    <2>1. TypeOK'
      BY <1>0, <1>7, TypeStep DEF Next
    <2>2. RowDeadlines'
      BY <1>7 DEF Tick, BrowserInv, RowDeadlines, TypeOK, Row
    <2>3. \A q \in Requests : LoginInv(req[q])'
      BY <1>7 DEF Tick, BrowserInv, LoginInv, Issued, TypeOK, RequestState
    <2> QED
      BY <1>7, <2>1, <2>2, <2>3
      DEF Tick, BrowserInv, JarIsIssued, Issued, CookieCoversRow, FreshInserts, At,
          jarVars
  <1>8. CASE UNCHANGED browserVars
    <2>1. TypeOK'
      BY <1>0, <1>8, TypeStep DEF browserVars, vars
    <2> QED
      BY <1>8, <2>1
      DEF browserVars, BrowserInv, JarIsIssued, Issued, RowDeadlines,
          CookieCoversRow, LoginInv, FreshInserts, At
  <1> QED
    BY <1>1, <1>2, <1>3, <1>4, <1>5, <1>6, <1>7, <1>8 DEF BrowserNext

LEMMA BrowserStart ==
  BrowserInit => BrowserInv
  <1> SUFFICES ASSUME BrowserInit PROVE BrowserInv
    OBVIOUS
  <1>1. Idle \in RequestState /\ WellFormed(Idle) /\ LoginInv(Idle)
    BY DEF Idle, RequestState, WellFormed, LoginInv
  <1>2. TypeOK
    BY <1>1 DEF BrowserInit, Init, TypeOK
  <1> QED
    BY <1>1, <1>2
    DEF BrowserInit, Init, BrowserInv, JarIsIssued, RowDeadlines, CookieCoversRow,
        FreshInserts, At, Idle

\* Cookie and row go together in every reachable state.
LEMMA BrowserInvariant ==
  BrowserSpec => []BrowserInv
  BY BrowserStart, BrowserStep, PTL DEF BrowserSpec

-----------------------------------------------------------------------------
(* Theorems *)

\* The browser never drops the cookie of a session that the service would
\* still accept (cookies.py gives it the absolute lifetime), however late the
\* login's answer came and however often the session was used.
THEOREM CookieOutlivesSessionHolds ==
  BrowserSpec => []CookieOutlivesSession
  <1>1. ASSUME BrowserInv, NEW i \in DOMAIN sessions, sessions[i].token = jar,
               Acceptable(i)
        PROVE  SentCookie = jar
    <2>1. /\ clock \in Nat /\ jar_until \in Nat
          /\ sessions[i].expires_at \in Nat
          /\ sessions[i].expires_at <= jar_until
      BY <1>1 DEF BrowserInv, TypeOK, Row, CookieCoversRow
    <2>2. clock < sessions[i].expires_at
      BY <1>1, <2>1 DEF Acceptable, is_expired, past_absolute
    <2> QED
      BY <2>1, <2>2 DEF SentCookie
  <1>2. BrowserInv => CookieOutlivesSession
    BY <1>1 DEF CookieOutlivesSession
  <1> QED
    BY <1>2, BrowserInvariant, PTL

\* The browser's cookie is always of a session that was created, and one
\* that an answer brought: a failed or lost login leaves it what it had.
THEOREM JarIsIssuedHolds ==
  BrowserSpec => []JarIsIssued
  <1>1. BrowserInv => JarIsIssued
    BY DEF BrowserInv
  <1> QED
    BY <1>1, BrowserInvariant, PTL

-----------------------------------------------------------------------------
(* What an answered logout-all has ended *)

\* Once a logout-all knows a user, it is the user of its cookie's row if there
\* still is one, whatever the row it read meanwhile; once it is answered with
\* "ok", there is none.
UserKnown(q) ==
  /\ q.pc = "delete_all" =>
       \A i \in DOMAIN sessions :
         sessions[i].token = q.cookie => sessions[i].user = q.user
  /\ q.op = "logout_all" /\ q.reply = "ok" => ~Live(q.cookie)

EndedInv == TypeOK /\ LifeInv /\ \A r \in Requests : UserKnown(req[r])

\* A row keeps its user as long as it is there.
LEMMA UsersStay ==
  ASSUME TypeOK, [Next]_vars, NEW i \in DOMAIN sessions, i \in DOMAIN sessions'
  PROVE  sessions'[i].user = sessions[i].user
  <1>1. ASSUME NEW r \in Requests, Insert(r)
        PROVE  sessions'[i].user = sessions[i].user
    <2>1. PICK id, row : id \in NewIds /\ create(id, row)
      BY <1>1 DEF Insert
    <2>2. id \notin DOMAIN sessions
      BY <2>1 DEF NewIds, AfterLargest, TypeOK
    <2> QED
      BY <2>1, <2>2 DEF create
  <1>2. ASSUME NEW r \in Requests, Slide(r)
        PROVE  sessions'[i].user = sessions[i].user
    BY <1>2 DEF Slide, TypeOK, Row
  <1>3. ASSUME NEW r \in Requests, Purge(r) \/ DeleteAll(r) \/ DeleteRow(r)
        PROVE  sessions'[i].user = sessions[i].user
    BY <1>3 DEF Purge, DeleteAll, DeleteRow, delete
  <1>4. ASSUME NEW r \in Requests,
               SelectRow(r) \/ Reload(r) \/ FindRow(r) \/ DatabaseError(r)
        PROVE  sessions'[i].user = sessions[i].user
    BY <1>4 DEF SelectRow, Reload, FindRow, DatabaseError
  <1>5. ASSUME NEW r \in Requests, Ask(r) \/ Reply(r)
        PROVE  sessions'[i].user = sessions[i].user
    <2>1. Ask(r) => UNCHANGED sessions
      BY DEF Ask, AskLogout, AskLookup, AskLogin, Begin
    <2>2. Reply(r) => UNCHANGED sessions
      BY DEF Reply, Deliver, LoseAnswer, Release
    <2> QED
      BY <1>5, <2>1, <2>2
  <1>6. CASE Crash \/ Tick \/ UNCHANGED vars
    BY <1>6 DEF Crash, Release, Tick, vars
  <1> QED
    BY <1>1, <1>2, <1>3, <1>4, <1>5, <1>6 DEF Next, Serve

\* A request that is about to delete all sessions of a user was so before, or
\* has just read that user in the row it found.
LEMMA UserRead ==
  ASSUME TypeOK, [Next]_vars, NEW r \in Requests, req'[r].pc = "delete_all"
  PROVE  \/ req'[r] = req[r]
         \/ /\ Reload(r) /\ req[r].row_id \in DOMAIN sessions
            /\ req'[r].cookie = req[r].cookie
            /\ req'[r].user = sessions[req[r].row_id].user
  <1>0. req \in [Requests -> RequestState]
    BY DEF TypeOK
  <1>1. ASSUME NEW u, NEW reply, AnswerFor(r, u, reply) PROVE FALSE
    BY <1>0, <1>1 DEF AnswerFor, Idle
  <1>2. ASSUME NEW step, NEW i, Goto(r, step, i) PROVE step = "delete_all"
    BY <1>0, <1>2 DEF Goto, RequestState
  <1>3. ~Ask(r)
    <2>1. ASSUME NEW c, AskLogout(r, c) PROVE FALSE
      BY <1>0, <2>1 DEF AskLogout, Begin, Idle
    <2>2. ASSUME NEW c, NEW o, AskLookup(r, o, c) PROVE FALSE
      BY <1>0, <2>2 DEF AskLookup, Begin, Idle
    <2>3. ASSUME NEW u, NEW t, AskLogin(r, u, t) PROVE FALSE
      BY <1>0, <2>3 DEF AskLogin, Begin, Idle
    <2> QED
      BY <2>1, <2>2, <2>3 DEF Ask
  <1>4. ~SelectRow(r) /\ ~FindRow(r)
    BY <1>1, <1>2 DEF SelectRow, FindRow, Answer
  <1>5. /\ ~Insert(r) /\ ~Purge(r) /\ ~DeleteAll(r) /\ ~DeleteRow(r)
        /\ ~DatabaseError(r)
    BY <1>1 DEF Insert, Purge, DeleteAll, DeleteRow, DatabaseError, Answer
  <1>6. ASSUME Slide(r) PROVE FALSE
    <2>1. CASE req[r].row_id \in DOMAIN sessions
      <3>1. req'[r].pc = "reload"
        BY <1>0, <1>6, <2>1 DEF Slide, RequestState
      <3> QED
        BY <3>1
    <2> QED
      BY <1>1, <1>6, <2>1 DEF Slide, Answer
  <1>7. ASSUME Reload(r)
        PROVE  /\ req[r].row_id \in DOMAIN sessions
               /\ req'[r].cookie = req[r].cookie
               /\ req'[r].user = sessions[req[r].row_id].user
    <2>1. req[r].row_id \in DOMAIN sessions /\ req[r].op # "me"
      BY <1>1, <1>7 DEF Reload, Answer
    <2>2. PICK u : u = sessions[req[r].row_id].user
      OBVIOUS
    <2>3. req' = [req EXCEPT ![r].user = u, ![r].pc = "delete_all"]
      BY <1>7, <2>1, <2>2 DEF Reload
    <2> QED
      BY <1>0, <2>1, <2>2, <2>3 DEF RequestState
  <1>8. ASSUME NEW q \in Requests, q # r, Ask(q) \/ Serve(q) \/ DatabaseError(q)
        PROVE  req'[r] = req[r]
    BY <1>0, <1>8
    DEF Ask, AskLogout, AskLookup, AskLogin, Begin, Serve, Insert, SelectRow,
        Purge, Slide, Reload, DeleteAll, FindRow, DeleteRow, DatabaseError,
        Answer, AnswerFor, Goto
  <1>9. ASSUME NEW R \in SUBSET Requests, Release(R) PROVE req'[r] = req[r]
    BY <1>0, <1>9 DEF Release, Idle
  <1>10. Tick \/ UNCHANGED vars => req'[r] = req[r]
    BY DEF Tick, vars
  <1> QED
    BY <1>3, <1>4, <1>5, <1>6, <1>7, <1>8, <1>9, <1>10
    DEF Next, Serve, Reply, Deliver, LoseAnswer, Crash

\* Every step of the service keeps it.
LEMMA EndedStep ==
  ASSUME EndedInv, [Next]_vars
  PROVE  EndedInv'
  <1>0. TypeOK /\ TypeOK' /\ LifeInv /\ LifeInv' /\ NoNewRows
    BY TypeStep, LifeStep DEF EndedInv
  <1>1. \A i \in DOMAIN sessions' : sessions'[i].token \in Tokens
    BY <1>0 DEF TypeOK, Row
  <1>2. ASSUME NEW r \in Requests
        PROVE  /\ ControlInv(req[r]) /\ CookieInv(req[r], liveAtAsk[r])
               /\ UserKnown(req[r])
    BY DEF EndedInv, LifeInv, RequestLife
  <1>3. ASSUME NEW r \in Requests, req'[r].pc = "delete_all",
               NEW i \in DOMAIN sessions', sessions'[i].token = req'[r].cookie
        PROVE  sessions'[i].user = req'[r].user
    <2>1. req'[r].cookie = req[r].cookie /\ req[r].op # "login"
      <3>1. CASE req'[r] = req[r]
        BY <1>2, <1>3, <3>1 DEF ControlInv
      <3>2. CASE Reload(r) /\ req'[r].cookie = req[r].cookie
        BY <1>2, <3>2 DEF Reload, At, ControlInv, Lookups
      <3> QED
        BY <1>0, <1>3, <3>1, <3>2, UserRead
    <2>2. /\ i \in DOMAIN sessions /\ sessions[i].token = req[r].cookie
          /\ sessions'[i].user = sessions[i].user
      <3>1. req[r].cookie \in Tokens /\ Issued(req[r].cookie)
        BY <1>1, <1>2, <1>3, <2>1 DEF CookieInv
      <3> QED
        BY <1>0, <1>3, <2>1, <3>1, UsersStay DEF NoNewRows
    <2>3. CASE req'[r] = req[r]
      BY <1>2, <1>3, <2>2, <2>3 DEF UserKnown
    <2>4. CASE Reload(r) /\ req'[r].user = sessions[req[r].row_id].user
      <3>1. i = req[r].row_id
        BY <1>2, <2>2, <2>4 DEF Reload, At, CookieInv, FoundRow
      <3> QED
        BY <2>2, <2>4, <3>1
    <2> QED
      BY <1>0, <1>3, <2>3, <2>4, UserRead
  <1>4. ASSUME NEW r \in Requests, req'[r].op = "logout_all", req'[r].reply = "ok"
        PROVE  req'[r].cookie \notin LiveTokens'
    <2>1. LogoutAllAnswered(r)'
      BY <1>0, <1>4 DEF LogoutAllAnswered, Answered, At, LifeInv, RequestLife,
                        ControlInv
    <2>2. CASE req'[r] = req[r]
      <3>1. ~Live(req[r].cookie) /\ req[r].op # "login"
        BY <1>2, <1>4, <2>2 DEF UserKnown
      <3>2. ASSUME NEW i \in DOMAIN sessions' PROVE sessions'[i].token # req[r].cookie
        BY <1>0, <1>1, <1>2, <3>1
        DEF CookieInv, NoNewRows, Live, LiveTokens
      <3> QED
        BY <2>2, <3>2, NoRowNotLive
    <2>3. CASE DeleteAll(r)
      <3>1. req[r].pc = "delete_all" /\ req'[r].cookie = req[r].cookie
        BY <1>0, <2>3 DEF DeleteAll, At, Answer, AnswerFor, Idle, TypeOK
      <3>2. ASSUME NEW i \in DOMAIN sessions' PROVE sessions'[i].token # req[r].cookie
        BY <1>2, <2>3, <3>1 DEF DeleteAll, delete, owned_by, UserKnown
      <3> QED
        BY <3>1, <3>2, NoRowNotLive
    <2> QED
      BY <1>0, <1>2, <2>1, <2>2, <2>3, LogoutAllAnswer
  <1>5. ASSUME NEW r \in Requests PROVE UserKnown(req[r])'
    BY <1>3, <1>4, <1>5 DEF UserKnown, Live
  <1> QED
    BY <1>0, <1>5 DEF EndedInv

\* Every step of the browser and the service is one of the service and a
\* client that only presents what it holds, or leaves the service alone.  A
\* lost answer looks to the service like a delivered one, unless it is that
\* of a login.
LEMMA BrowserIsClient ==
  ASSUME BrowserInv, [BrowserNext]_browserVars
  PROVE  [Next]_vars
  <1>1. ASSUME NEW r \in Requests, Receive(r) PROVE Next
    BY <1>1 DEF Receive, Next, Reply
  <1>2. ASSUME NEW r \in Requests, Miss(r) PROVE Next
    <2>1. Deliver(r) \/ LoseAnswer(r)
      BY <1>2 DEF Miss, Deliver, LoseAnswer
    <2> QED
      BY <2>1 DEF Next, Reply
  <1>3. ASSUME NEW r \in Requests, Send(r) PROVE Next
    BY <1>3, SendIsAsk DEF Next
  <1>4. ASSUME NEW r \in Requests, Serve(r) \/ DatabaseError(r) PROVE Next
    BY <1>4 DEF Next
  <1>5. UNCHANGED browserVars => UNCHANGED vars
    BY DEF browserVars, vars
  <1> QED
    BY <1>1, <1>2, <1>3, <1>4, <1>5 DEF BrowserNext, Next

LEMMA EndedInBrowser ==
  BrowserSpec => []EndedInv
  <1>1. BrowserInit => EndedInv
    <2> SUFFICES ASSUME BrowserInit PROVE EndedInv
      OBVIOUS
    <2>1. Init
      BY DEF BrowserInit
    <2>2. TypeOK /\ LifeInv
      BY <2>1, TypeStart, LifeStart
    <2>3. Idle.pc = "idle" /\ Idle.op = "none"
      BY DEF Idle
    <2> QED
      BY <2>1, <2>2, <2>3 DEF EndedInv, UserKnown, Init
  <1>2. BrowserInv /\ EndedInv /\ [BrowserNext]_browserVars => EndedInv'
    BY BrowserIsClient, EndedStep
  <1> QED
    BY <1>1, <1>2, BrowserInvariant, PTL DEF BrowserSpec

\* Only the answer that arrives changes the browser's cookie.
LEMMA OnlyItsAnswer ==
  ASSUME TypeOK, BrowserNext, NEW r \in Requests, At(r, "answer"),
         req'[r].pc = "idle", jar' # jar
  PROVE  Receive(r)
  <1>1. ASSUME NEW q \in Requests, Receive(q) PROVE q = r
    BY <1>1 DEF Receive, Deliver, Release, At
  <1>2. \A q \in Requests : ~Miss(q)
    BY DEF Miss
  <1> QED
    BY <1>1, <1>2 DEF BrowserNext, jarVars

\* The browser never forgets a session that lives on: when the answer to a
\* request that presented its cookie clears the cookie, the row is gone
\* (post_logout and post_logout_all clear it after the session service has
\* returned), whatever errors, other requests and reused keys came between.
THEOREM ClearedMeansEndedHolds == BrowserSpec => ClearedMeansEnded
  <1> DEFINE Cleared ==
        \A r \in Requests :
          /\ At(r, "answer") /\ req'[r].pc = "idle"
          /\ req[r].cookie = jar /\ jar # NoCookie /\ jar' = NoCookie
          => ~Live(jar)
  <1>1. EndedInv /\ BrowserNext => Cleared
    <2> SUFFICES ASSUME EndedInv, BrowserNext, NEW r \in Requests,
                        At(r, "answer"), req'[r].pc = "idle",
                        req[r].cookie = jar, jar # NoCookie, jar' = NoCookie
                 PROVE  ~Live(jar)
      OBVIOUS
    <2>1. Receive(r)
      BY OnlyItsAnswer DEF EndedInv
    <2>2. ~SetsCookie(req[r])
      BY <2>1 DEF Receive, set_session_cookie
    <2>3. ClearsCookie(req[r])
      BY <2>1, <2>2 DEF Receive, jarVars
    <2> QED
      BY <2>3 DEF ClearsCookie, EndedInv, UserKnown, LifeInv, RequestLife, CookieInv
  <1>2. EndedInv /\ [BrowserNext]_browserVars => [Cleared]_browserVars
    BY <1>1
  <1>3. BrowserSpec => [][Cleared]_browserVars
    BY <1>2, EndedInBrowser, PTL DEF BrowserSpec
  <1> QED
    BY <1>3 DEF ClearedMeansEnded
=============================================================================
