------------------------ MODULE SessionsSafetyProofs ------------------------
(***************************************************************************)
(* Theorems about how sessions end, for both ways of giving row keys, and  *)
(* that the service of Sessions implements the atomic SessionAuthority     *)
(* when row keys are never reused.                                         *)
(***************************************************************************)
EXTENDS SessionsRefinement, SessionsProofs

USE SessionsAssumption, LifetimeAssumption

-----------------------------------------------------------------------------
(* The life of a token *)

\* A token found in the table earlier: it was issued, and if it still has a
\* row, that row has the key the request remembers.
FoundRow(q) ==
  /\ q.cookie \in Tokens
  /\ \A i \in DOMAIN sessions : sessions[i].token = q.cookie => i = q.row_id

\* What a request knows of its cookie; `asked` are the tokens that had a row
\* when it began.
CookieInv(q, asked) ==
  /\ q.op # "login" /\ q.cookie \in Tokens => Issued(q.cookie)
  /\ q.op # "login" /\ Live(q.cookie) => q.cookie \in asked
  /\ q.pc \in {"purge", "slide", "reload", "delete"} => FoundRow(q)
  /\ q.pc \in {"slide", "reload", "delete_all"} => q.cookie \in asked
  /\ q.op \in Lookups /\ q.reply = "ok" => q.cookie \in asked
  /\ q.op = "logout" /\ q.reply = "ok" => ~Live(q.cookie)
  /\ q.reply = "unauthorized" => q.op # "login" /\ ~Live(q.cookie)
  /\ q.reply \in {"StaleDataError", "ObjectDeletedError"} =>
       q.op # "login" /\ q.cookie \in Tokens /\ ~Live(q.cookie)

RequestLife(q, asked) == ControlInv(q) /\ LoginToken(q) /\ CookieInv(q, asked)

TableLife ==
  /\ \A i \in DOMAIN sessions : Issued(sessions[i].token)
  /\ \A i, j \in DOMAIN sessions : sessions[i].token = sessions[j].token => i = j

LifeInv ==
  /\ TableLife
  /\ FreshTokens
  /\ \A r \in Requests : RequestLife(req[r], liveAtAsk[r])

-----------------------------------------------------------------------------

\* No row of an issued token appears, nor changes its token; none is forgotten
\* to have been issued.
NoNewRows ==
  \A t \in Tokens : Issued(t) =>
    /\ owner'[t] = owner[t]
    /\ \A i \in DOMAIN sessions' :
         sessions'[i].token = t => i \in DOMAIN sessions /\ sessions[i].token = t

\* The rows only lose members or change what is not their token.
Shrinks ==
  /\ DOMAIN sessions' \subseteq DOMAIN sessions
  /\ \A i \in DOMAIN sessions' : sessions'[i].token = sessions[i].token

LEMMA ShrinkNoNewRows ==
  ASSUME Shrinks, UNCHANGED owner
  PROVE  NoNewRows
  BY DEF Shrinks, NoNewRows

\* As long as no row of an issued token appears, a request keeps what it knows.
LEMMA LifeStable ==
  ASSUME TypeOK, NoNewRows, NEW q, NEW asked, RequestLife(q, asked),
         q.pc # "insert" \/ owner'[q.cookie] = owner[q.cookie],
         q.op = "login" => q.cookie \in Tokens,
         \A i \in DOMAIN sessions' : sessions'[i].token \in Tokens
  PROVE  RequestLife(q, asked)'
  <1>1. ControlInv(q)' /\ LoginToken(q)'
    BY DEF RequestLife, ControlInv, LoginToken, NoNewRows, Issued
  <1>2. ASSUME q.op # "login", Live(q.cookie)'
        PROVE  Live(q.cookie)
    <2>1. PICK i \in DOMAIN sessions' : sessions'[i].token = q.cookie
      BY <1>2 DEF Live, LiveTokens
    <2>2. q.cookie \in Tokens /\ Issued(q.cookie)
      BY <1>2, <2>1 DEF RequestLife, CookieInv
    <2> QED
      BY <2>1, <2>2 DEF NoNewRows, Live, LiveTokens
  <1>3. FoundRow(q) /\ Issued(q.cookie) => FoundRow(q)'
    BY DEF FoundRow, NoNewRows
  <1>4. q.pc \in {"purge", "slide", "reload", "delete"} => q.op # "login"
    BY DEF RequestLife, ControlInv, Lookups
  <1>5. CookieInv(q, asked)'
    BY <1>2, <1>3, <1>4
    DEF RequestLife, CookieInv, NoNewRows, Issued, FoundRow, Lookups
  <1> QED
    BY <1>1, <1>5 DEF RequestLife

\* One request moves on, and the table only loses rows.
LEMMA LifeMove ==
  ASSUME TypeOK, TypeOK', LifeInv, NEW r \in Requests, NEW state,
         req' = [req EXCEPT ![r] = state],
         UNCHANGED <<held, owner, liveAtAsk>>, Shrinks,
         state.cookie = req[r].cookie, state.pc # "insert",
         RequestLife(state, liveAtAsk[r])'
  PROVE  LifeInv'
  <1>1. TableLife'
    BY DEF LifeInv, TableLife, Shrinks, Issued
  <1>2. \A q \in Requests : req'[q] = IF q = r THEN state ELSE req[q]
    BY DEF TypeOK
  <1>3. FreshTokens'
    BY <1>2 DEF LifeInv, FreshTokens, At, Issued
  <1>4. ASSUME NEW q \in Requests PROVE RequestLife(req[q], liveAtAsk[q])'
    <2>1. CASE q = r
      BY <1>2, <2>1
    <2>2. CASE q # r
      <3>1. req'[q] = req[q] /\ liveAtAsk'[q] = liveAtAsk[q]
        BY <1>2, <2>2
      <3>2. /\ RequestLife(req[q], liveAtAsk[q])
            /\ req[q].op = "login" => req[q].cookie \in Tokens
        BY DEF LifeInv, TypeOK, WellFormed
      <3>3. \A i \in DOMAIN sessions' : sessions'[i].token \in Tokens
        BY DEF TypeOK, Row
      <3>4. PICK s, asked : s = req[q] /\ asked = liveAtAsk[q]
        OBVIOUS
      <3>5. RequestLife(s, asked)'
        BY <3>2, <3>3, <3>4, LifeStable, ShrinkNoNewRows
      <3> QED
        BY <3>1, <3>4, <3>5
    <2> QED
      BY <2>1, <2>2
  <1> QED
    BY <1>1, <1>3, <1>4 DEF LifeInv

\* A request is answered by another step than the INSERT of a login.
LEMMA LifeAnswer ==
  ASSUME TypeOK, TypeOK', LifeInv, NEW r \in Requests, NEW u, NEW reply \in Replies,
         AnswerFor(r, u, reply), UNCHANGED <<held, owner, liveAtAsk>>, Shrinks,
         req[r].op # "login" \/ reply = "OperationalError",
         req[r].op \in Lookups /\ reply = "ok" => req[r].cookie \in liveAtAsk[r],
         req[r].op = "logout" /\ reply = "ok" => req[r].cookie \notin LiveTokens',
         reply = "unauthorized" => req[r].cookie \notin LiveTokens',
         reply \in {"StaleDataError", "ObjectDeletedError"} =>
           req[r].cookie \in Tokens /\ req[r].cookie \notin LiveTokens'
  PROVE  LifeInv'
  <1>1. PICK state :
          state = [Idle EXCEPT !.pc = "answer", !.op = req[r].op,
                     !.cookie = req[r].cookie, !.user = u, !.reply = reply]
    OBVIOUS
  <1>2. /\ state.pc = "answer" /\ state.op = req[r].op
        /\ state.cookie = req[r].cookie /\ state.reply = reply
    BY <1>1 DEF Idle
  <1>3. PICK asked, c : asked = liveAtAsk[r] /\ c = req[r].cookie
    OBVIOUS
  <1>4. req' = [req EXCEPT ![r] = state] /\ liveAtAsk'[r] = asked
    BY <1>1, <1>3 DEF AnswerFor
  <1>5. /\ req[r].op # "login" /\ c \in Tokens => Issued(c)
        /\ req[r].op # "login" /\ Live(c) => c \in asked
    BY <1>3 DEF LifeInv, RequestLife, CookieInv
  <1>6. Live(c)' => Live(c)
    BY DEF Live, LiveTokens, Shrinks
  <1>7. CookieInv(state, asked)'
    BY <1>2, <1>3, <1>5, <1>6 DEF CookieInv, Issued, Live, Lookups
  <1>8. ControlInv(state)' /\ LoginToken(state)'
    BY <1>2 DEF ControlInv, LoginToken, Replies
  <1> QED
    BY <1>2, <1>3, <1>4, <1>7, <1>8, LifeMove DEF RequestLife

\* A request that is not a login goes on to its next round trip.
LEMMA LifeGoto ==
  ASSUME TypeOK, TypeOK', LifeInv, NEW r \in Requests, NEW state,
         req' = [req EXCEPT ![r] = state],
         UNCHANGED <<held, owner, liveAtAsk>>, Shrinks,
         state.op = req[r].op, state.cookie = req[r].cookie,
         state.reply = req[r].reply, req[r].op # "login", req[r].reply = "none",
         state.pc \in {"purge", "slide", "reload", "delete", "delete_all"},
         ControlInv(state),
         state.pc # "delete_all" => FoundRow(state)',
         state.pc \in {"slide", "reload", "delete_all"} =>
           state.cookie \in liveAtAsk[r]
  PROVE  LifeInv'
  <1>1. PICK asked, c : asked = liveAtAsk[r] /\ c = req[r].cookie
    OBVIOUS
  <1>2. /\ c \in Tokens => Issued(c)
        /\ Live(c) => c \in asked
    BY <1>1 DEF LifeInv, RequestLife, CookieInv
  <1>3. Live(c)' => Live(c)
    BY DEF Live, LiveTokens, Shrinks
  <1>4. CookieInv(state, asked)'
    BY <1>1, <1>2, <1>3 DEF CookieInv, Issued
  <1>5. ControlInv(state)' /\ LoginToken(state)'
    BY DEF ControlInv, LoginToken
  <1> QED
    BY <1>1, <1>4, <1>5, LifeMove DEF RequestLife

\* A request begins: with no cookie, an unknown one, a token a client holds,
\* or (a login) a token nobody has.
LEMMA LifeBegin ==
  ASSUME TypeOK, TypeOK', LifeInv, NEW r \in Requests, NEW state, Begin(r, state),
         ControlInv(state),
         \/ /\ state.pc \in {"select", "find", "answer"} /\ state.op # "login"
            /\ state.cookie \in Presentable \cup {NoCookie}
            /\ state.reply # "none" => /\ state.cookie = NoCookie
                                       /\ state.reply = "unauthorized" \/ state.op = "logout"
                                       /\ state.reply \in {"ok", "unauthorized"}
         \/ /\ state.pc = "insert" /\ state.op = "login" /\ state.reply = "none"
            /\ state.cookie \in Tokens /\ ~Issued(state.cookie)
            /\ \A q \in Requests : req[q].cookie # state.cookie
  PROVE  LifeInv'
  <1>1. TableLife' /\ NoNewRows
    BY DEF LifeInv, TableLife, Begin, Issued, NoNewRows
  <1>2. /\ \A q \in Requests : req'[q] = IF q = r THEN state ELSE req[q]
        /\ \A q \in Requests : liveAtAsk'[q] = IF q = r THEN LiveTokens ELSE liveAtAsk[q]
    BY DEF Begin, TypeOK
  <1>3. \A t \in held : Issued(t) /\ t \in Tokens
    BY DEF LifeInv, FreshTokens, TypeOK
  <1>4. FreshTokens'
    <2>1. \A a \in Requests : At(a, "insert") =>
            req[a].cookie \in Tokens /\ ~Issued(req[a].cookie)
      BY DEF At, TypeOK, WellFormed, LifeInv, RequestLife, LoginToken
    <2>2. ASSUME NEW a \in Requests, NEW b \in Requests, a # b, At(a, "insert")'
          PROVE  req'[a].cookie # req'[b].cookie
      <3>1. CASE a # r /\ b # r
        BY <1>2, <2>2, <3>1 DEF LifeInv, FreshTokens, At
      <3>2. CASE a = r
        BY <1>2, <2>2, <3>2 DEF At
      <3>3. CASE b = r /\ a # r
        <4>1. req'[a] = req[a] /\ req'[b] = state
          BY <1>2, <3>3
        <4>2. req[a].cookie \in Tokens /\ ~Issued(req[a].cookie)
          BY <2>1, <2>2, <4>1 DEF At
        <4> QED
          BY <1>3, <4>1, <4>2 DEF Presentable
      <3> QED
        BY <3>1, <3>2, <3>3
    <2> QED
      BY <1>3, <2>2 DEF FreshTokens, Begin, Issued
  <1>5. NoCookie \notin LiveTokens /\ LiveTokens \subseteq Tokens
    <2>1. \A i \in DOMAIN sessions : sessions[i].token \in Tokens
      BY DEF TypeOK, Row
    <2> QED
      BY <2>1 DEF LiveTokens
  <1>6. RequestLife(state, LiveTokens)
    <2>1. CookieInv(state, LiveTokens)
      BY <1>3, <1>5
      DEF CookieInv, Presentable, Live, Lookups
    <2> QED
      BY <2>1 DEF RequestLife, LoginToken
  <1>7. ASSUME NEW q \in Requests PROVE RequestLife(req[q], liveAtAsk[q])'
    <2>1. RequestLife(req'[q], liveAtAsk'[q])
      BY <1>2, <1>6 DEF LifeInv
    <2> QED
      BY <2>1 DEF Begin, RequestLife, ControlInv, LoginToken, CookieInv, FoundRow,
                  Issued, Live, LiveTokens
  <1> QED
    BY <1>1, <1>4, <1>7 DEF LifeInv

\* Requests go back to idle.
LEMMA LifeRelease ==
  ASSUME TypeOK, TypeOK', LifeInv, NEW R \in SUBSET Requests, Release(R),
         \A t \in held' : Issued(t)
  PROVE  LifeInv'
  <1>1. TableLife'
    BY DEF LifeInv, TableLife, Release, Issued
  <1>2. Idle.pc = "idle" /\ Idle.op = "none" /\ Idle.cookie = NoCookie /\ Idle.reply = "none"
    BY DEF Idle
  <1>3. FreshTokens'
    <2>1. \A q \in Requests : req'[q] = req[q] \/ req'[q] = Idle
      BY DEF Release
    <2> QED
      BY <1>2, <2>1 DEF LifeInv, FreshTokens, Release, Issued, At, TypeOK, WellFormed
  <1>4. ASSUME NEW q \in Requests PROVE RequestLife(req[q], liveAtAsk[q])'
    <2>1. RequestLife(req'[q], liveAtAsk'[q])
      <3>1. CASE q \in R
        <4>1. req'[q] = Idle /\ liveAtAsk'[q] = {}
          BY <3>1 DEF Release
        <4>2. ~Live(NoCookie)
          BY DEF Live, LiveTokens, TypeOK, Row
        <4>3. RequestLife(Idle, {})
          BY <1>2, <4>2 DEF RequestLife, ControlInv, LoginToken, CookieInv, Lookups
        <4> QED
          BY <4>1, <4>3
      <3>2. CASE q \notin R
        BY <3>2 DEF Release, LifeInv
      <3> QED
        BY <3>1, <3>2
    <2> QED
      BY <2>1 DEF Release, RequestLife, ControlInv, LoginToken, CookieInv, FoundRow,
                  Issued, Live, LiveTokens
  <1> QED
    BY <1>1, <1>3, <1>4 DEF LifeInv

\* The INSERT of a login: its token had no row, and no other request has it.
LEMMA LifeInsert ==
  ASSUME TypeOK, TypeOK', LifeInv, NEW r \in Requests, Insert(r)
  PROVE  LifeInv' /\ NoNewRows
  <1>1. PICK row \in Row, cookie \in Tokens, u \in Users, id \in NewIds :
          /\ cookie = req[r].cookie /\ u = req[r].user
          /\ row.token = cookie
          /\ create(id, row)
    <2>1. /\ req[r].cookie \in Tokens /\ req[r].user \in Users
          /\ req[r].now \in Nat
      BY DEF Insert, At, TypeOK, WellFormed, RequestState
    <2> QED
      BY <2>1 DEF Insert, Row, absolute_expiry
  <1>2. /\ ~Issued(cookie)
        /\ \A q \in Requests \ {r} : req[q].cookie # cookie
    BY <1>1 DEF LifeInv, RequestLife, LoginToken, FreshTokens, Insert, At
  <1>3. id \notin DOMAIN sessions
    BY <1>1 DEF NewIds, AfterLargest, TypeOK
  <1>4. /\ owner' = [owner EXCEPT ![cookie] = u]
        /\ DOMAIN sessions' = DOMAIN sessions \cup {id}
        /\ sessions'[id] = row
        /\ \A i \in DOMAIN sessions : sessions'[i] = sessions[i]
    BY <1>1, <1>3 DEF Insert, create, TypeOK
  <1>5. \A i \in DOMAIN sessions : /\ sessions[i].token \in Tokens
                                   /\ Issued(sessions[i].token)
                                   /\ sessions[i].token # cookie
    BY <1>2 DEF TypeOK, Row, LifeInv, TableLife
  <1>6. NoNewRows
    BY <1>1, <1>2, <1>4 DEF NoNewRows, TypeOK, Issued
  <1>7. TableLife'
    BY <1>1, <1>4, <1>5 DEF TableLife, LifeInv, TypeOK, Issued
  <1>8. /\ req'[r].pc = "answer" /\ req'[r].cookie = cookie
        /\ req'[r].op = "login" /\ req'[r].reply = "ok"
        /\ \A q \in Requests \ {r} : req'[q] = req[q]
    BY <1>1 DEF Insert, Answer, AnswerFor, Idle, TypeOK, WellFormed, At
  <1>9. FreshTokens'
    BY <1>1, <1>2, <1>4, <1>8
    DEF FreshTokens, LifeInv, Issued, TypeOK, Insert, At, WellFormed
  <1>10. ASSUME NEW q \in Requests PROVE RequestLife(req[q], liveAtAsk[q])'
    <2>1. CASE q = r
      <3>1. PICK s, asked : s = req'[r] /\ asked = liveAtAsk'[r]
        OBVIOUS
      <3>2. Issued(cookie)'
        BY <1>1, <1>4 DEF Issued, TypeOK
      <3>3. RequestLife(s, asked)'
        BY <1>8, <3>1, <3>2
        DEF RequestLife, ControlInv, LoginToken, CookieInv, Lookups, Issued
      <3> QED
        BY <2>1, <3>1, <3>3
    <2>2. CASE q # r
      <3>1. PICK s, asked : s = req[q] /\ asked = liveAtAsk[q]
        OBVIOUS
      <3>2. RequestLife(s, asked) /\ (s.op = "login" => s.cookie \in Tokens)
        BY <3>1 DEF LifeInv, TypeOK, WellFormed
      <3>3. owner'[s.cookie] = owner[s.cookie]
        BY <1>2, <1>4, <2>2, <3>1 DEF TypeOK
      <3>4. \A i \in DOMAIN sessions' : sessions'[i].token \in Tokens
        BY DEF TypeOK, Row
      <3>5. RequestLife(s, asked)'
        BY <1>6, <3>2, <3>3, <3>4, LifeStable
      <3>6. req'[q] = req[q] /\ liveAtAsk'[q] = liveAtAsk[q]
        BY <1>8, <2>2 DEF Insert
      <3> QED
        BY <3>1, <3>5, <3>6
    <2> QED
      BY <2>1, <2>2
  <1> QED
    BY <1>6, <1>7, <1>9, <1>10 DEF LifeInv

\* Every other round trip of a request keeps or shrinks the table.
LEMMA ServeShrinks ==
  ASSUME TypeOK, NEW r \in Requests,
         Serve(r) \/ DatabaseError(r), ~Insert(r)
  PROVE  Shrinks /\ UNCHANGED <<held, owner, liveAtAsk>>
  <1>1. UNCHANGED <<held, owner, liveAtAsk>>
    BY DEF Serve, Insert, SelectRow, Purge, Slide, Reload, DeleteAll, FindRow,
           DeleteRow, DatabaseError
  <1>2. CASE Purge(r) \/ DeleteAll(r) \/ DeleteRow(r)
    BY <1>2 DEF Purge, DeleteAll, DeleteRow, delete, Shrinks
  <1>3. CASE Slide(r)
    BY <1>3 DEF Slide, Shrinks, TypeOK, Row
  <1>4. CASE SelectRow(r) \/ Reload(r) \/ FindRow(r) \/ DatabaseError(r)
    BY <1>4 DEF SelectRow, Reload, FindRow, DatabaseError, Shrinks
  <1> QED
    BY <1>1, <1>2, <1>3, <1>4 DEF Serve

\* What a cookie without a row means for the next state of the table.
LEMMA NoRowNotLive ==
  ASSUME NEW c, \A i \in DOMAIN sessions' : sessions'[i].token # c
  PROVE  c \notin LiveTokens'
  BY DEF LiveTokens

\* Deleting the row a request found, or finding it gone, ends its session.
LEMMA FoundRowGone ==
  ASSUME TypeOK, LifeInv, NEW r \in Requests,
         req[r].pc \in {"purge", "slide", "reload", "delete"}, Shrinks,
         req[r].row_id \notin DOMAIN sessions'
  PROVE  req[r].cookie \in Tokens /\ req[r].cookie \notin LiveTokens'
  <1>1. FoundRow(req[r])
    BY DEF LifeInv, RequestLife, CookieInv
  <1>2. \A i \in DOMAIN sessions' : sessions'[i].token # req[r].cookie
    BY <1>1 DEF FoundRow, Shrinks
  <1> QED
    BY <1>1, <1>2, NoRowNotLive DEF FoundRow

\* A SELECT that finds a row: what the request then knows of its cookie.
LEMMA SelectFinds ==
  ASSUME TypeOK, LifeInv, NEW r \in Requests, req[r].op # "login",
         NEW i \in get_by_token_hash(req[r].cookie), UNCHANGED sessions,
         NEW state, state.row_id = i, state.cookie = req[r].cookie
  PROVE  FoundRow(state)' /\ state.cookie \in liveAtAsk[r]
  <1>1. i \in DOMAIN sessions /\ sessions[i].token = state.cookie
    BY DEF get_by_token_hash
  <1>2. state.cookie \in Tokens /\ Live(state.cookie)
    BY <1>1 DEF TypeOK, Row, Live, LiveTokens
  <1>3. FoundRow(state)'
    BY <1>1, <1>2 DEF LifeInv, TableLife, FoundRow
  <1> QED
    BY <1>2, <1>3 DEF LifeInv, RequestLife, CookieInv

\* Every round trip of a request keeps what is known of the cookies.
LEMMA LifeServe ==
  ASSUME TypeOK, TypeOK', LifeInv, NEW r \in Requests,
         Serve(r) \/ DatabaseError(r)
  PROVE  LifeInv' /\ NoNewRows
  <1>0. /\ ControlInv(req[r]) /\ CookieInv(req[r], liveAtAsk[r])
        /\ req[r] \in RequestState
    BY DEF LifeInv, RequestLife, TypeOK
  <1>1. CASE Insert(r)
    BY <1>1, LifeInsert
  <1> SUFFICES ASSUME ~Insert(r)
               PROVE  LifeInv'
    BY <1>1, ServeShrinks, ShrinkNoNewRows
  <1>2. Shrinks /\ UNCHANGED <<held, owner, liveAtAsk>>
    BY ServeShrinks
  <1>3. CASE DatabaseError(r)
    BY <1>2, <1>3, LifeAnswer DEF DatabaseError, Answer, Replies
  <1>4. CASE SelectRow(r)
    <2>1. req[r].op \in Lookups /\ req[r].op # "login" /\ req[r].op # "logout"
                               /\ req[r].reply = "none"
      BY <1>0, <1>4 DEF SelectRow, At, ControlInv, Lookups
    <2>2. CASE get_by_token_hash(req[r].cookie) = {} /\ Answer(r, "unauthorized")
      <3>1. req[r].cookie \notin LiveTokens'
        BY <1>4, <2>2 DEF SelectRow, get_by_token_hash, LiveTokens
      <3> QED
        BY <1>2, <2>1, <2>2, <3>1, LifeAnswer DEF Answer, Replies
    <2>3. ASSUME NEW i \in get_by_token_hash(req[r].cookie),
                 NEW step \in {"purge", "slide"}, Goto(r, step, i)
          PROVE  LifeInv'
      <3>1. PICK state : state = [req[r] EXCEPT !.pc = step, !.row_id = i]
        OBVIOUS
      <3>2. /\ state.pc = step /\ state.row_id = i /\ state.op = req[r].op
            /\ state.cookie = req[r].cookie /\ state.user = req[r].user
            /\ state.reply = req[r].reply
        BY <1>0, <3>1 DEF RequestState
      <3>3. FoundRow(state)' /\ state.cookie \in liveAtAsk[r]
        BY <1>4, <2>1, <3>2, SelectFinds DEF SelectRow
      <3>4. ControlInv(state)
        BY <1>0, <1>4, <2>1, <3>2 DEF SelectRow, At, ControlInv
      <3> QED
        BY <1>2, <2>1, <2>3, <3>1, <3>2, <3>3, <3>4, LifeGoto DEF Goto
    <2> QED
      BY <1>4, <2>2, <2>3 DEF SelectRow
  <1>5. CASE Purge(r)
    <2>1. req[r].op \in Lookups /\ req[r].op # "login" /\ req[r].op # "logout"
      BY <1>0, <1>5 DEF Purge, At, ControlInv, Lookups
    <2>2. req[r].cookie \notin LiveTokens'
      BY <1>2, <1>5, FoundRowGone DEF Purge, At, delete
    <2> QED
      BY <1>2, <1>5, <2>1, <2>2, LifeAnswer DEF Purge, Answer, Replies
  <1>6. CASE Slide(r)
    <2>1. /\ req[r].op \in Lookups /\ req[r].op # "login" /\ req[r].op # "logout"
          /\ req[r].reply = "none"
      BY <1>0, <1>6 DEF Slide, At, ControlInv, Lookups
    <2>2. CASE req[r].row_id \in DOMAIN sessions
      <3>1. PICK state : state = [req[r] EXCEPT !.pc = "reload"]
        OBVIOUS
      <3>2. /\ state.pc = "reload" /\ state.row_id = req[r].row_id
            /\ state.op = req[r].op /\ state.cookie = req[r].cookie
            /\ state.user = req[r].user /\ state.reply = req[r].reply
        BY <1>0, <3>1 DEF RequestState
      <3>3. req' = [req EXCEPT ![r] = state]
        BY <1>6, <2>2, <3>1 DEF Slide
      <3>4. FoundRow(state)' /\ state.cookie \in liveAtAsk[r]
        BY <1>0, <1>2, <1>6, <3>2 DEF Slide, At, CookieInv, FoundRow, Shrinks
      <3>5. ControlInv(state)
        BY <1>0, <1>6, <2>1, <3>2 DEF Slide, At, ControlInv
      <3> QED
        BY <1>2, <2>1, <3>2, <3>3, <3>4, <3>5, LifeGoto
    <2>3. CASE req[r].row_id \notin DOMAIN sessions
      <3>1. req[r].cookie \in Tokens /\ req[r].cookie \notin LiveTokens'
        BY <1>2, <1>6, <2>3, FoundRowGone DEF Slide, At
      <3> QED
        BY <1>2, <1>6, <2>1, <2>3, <3>1, LifeAnswer DEF Slide, Answer, Replies
    <2> QED
      BY <2>2, <2>3
  <1>7. CASE Reload(r)
    <2>1. /\ req[r].op \in Lookups /\ req[r].op # "login" /\ req[r].op # "logout"
          /\ req[r].reply = "none" /\ req[r].cookie \in liveAtAsk[r]
      BY <1>0, <1>7 DEF Reload, At, ControlInv, CookieInv, Lookups
    <2>2. CASE req[r].row_id \notin DOMAIN sessions
      <3>1. req[r].cookie \in Tokens /\ req[r].cookie \notin LiveTokens'
        BY <1>2, <1>7, <2>2, FoundRowGone DEF Reload, At
      <3> QED
        BY <1>2, <1>7, <2>1, <2>2, <3>1, LifeAnswer DEF Reload, Answer, Replies
    <2>3. CASE req[r].row_id \in DOMAIN sessions
      <3>1. PICK u : u = sessions[req[r].row_id].user
        OBVIOUS
      <3>2. CASE req[r].op = "me"
        BY <1>2, <1>7, <2>1, <2>3, <3>1, <3>2, LifeAnswer DEF Reload, Replies
      <3>3. CASE req[r].op # "me"
        <4>1. PICK state : state = [req[r] EXCEPT !.user = u, !.pc = "delete_all"]
          OBVIOUS
        <4>2. /\ state.pc = "delete_all" /\ state.op = req[r].op
              /\ state.op = "logout_all"
              /\ state.cookie = req[r].cookie /\ state.reply = req[r].reply
          BY <1>0, <2>1, <3>3, <4>1 DEF RequestState, Lookups
        <4>3. req' = [req EXCEPT ![r] = state]
          BY <1>0, <1>7, <2>3, <3>1, <3>3, <4>1 DEF Reload, TypeOK, RequestState
        <4>4. ControlInv(state)
          BY <2>1, <4>2 DEF ControlInv
        <4> QED
          BY <1>2, <2>1, <4>2, <4>3, <4>4, LifeGoto
      <3> QED
        BY <3>2, <3>3
    <2> QED
      BY <2>2, <2>3
  <1>8. CASE DeleteAll(r)
    <2>1. req[r].op = "logout_all" /\ req[r].cookie \in liveAtAsk[r]
      BY <1>0, <1>8 DEF DeleteAll, At, ControlInv, CookieInv
    <2> QED
      BY <1>2, <1>8, <2>1, LifeAnswer DEF DeleteAll, Answer, Replies
  <1>9. CASE FindRow(r)
    <2>1. req[r].op = "logout" /\ req[r].op \notin Lookups /\ req[r].reply = "none"
      BY <1>0, <1>9 DEF FindRow, At, ControlInv, Lookups
    <2>2. CASE get_by_token_hash(req[r].cookie) = {} /\ Answer(r, "ok")
      <3>1. req[r].cookie \notin LiveTokens'
        BY <1>9, <2>2 DEF FindRow, get_by_token_hash, LiveTokens
      <3> QED
        BY <1>2, <2>1, <2>2, <3>1, LifeAnswer DEF Answer, Replies
    <2>3. ASSUME NEW i \in get_by_token_hash(req[r].cookie), Goto(r, "delete", i)
          PROVE  LifeInv'
      <3>1. PICK state : state = [req[r] EXCEPT !.pc = "delete", !.row_id = i]
        OBVIOUS
      <3>2. /\ state.pc = "delete" /\ state.row_id = i /\ state.op = req[r].op
            /\ state.cookie = req[r].cookie /\ state.user = req[r].user
            /\ state.reply = req[r].reply
        BY <1>0, <3>1 DEF RequestState
      <3>3. FoundRow(state)' /\ state.cookie \in liveAtAsk[r]
        BY <1>9, <2>1, <3>2, SelectFinds DEF FindRow
      <3>4. ControlInv(state)
        BY <1>0, <1>9, <2>1, <3>2 DEF FindRow, At, ControlInv
      <3> QED
        BY <1>2, <2>1, <2>3, <3>1, <3>2, <3>3, <3>4, LifeGoto DEF Goto
    <2> QED
      BY <1>9, <2>2, <2>3 DEF FindRow
  <1>10. CASE DeleteRow(r)
    <2>1. req[r].op = "logout" /\ req[r].op \notin Lookups
      BY <1>0, <1>10 DEF DeleteRow, At, ControlInv, Lookups
    <2>2. req[r].cookie \notin LiveTokens'
      BY <1>2, <1>10, FoundRowGone DEF DeleteRow, At, delete
    <2> QED
      BY <1>2, <1>10, <2>1, <2>2, LifeAnswer DEF DeleteRow, Answer, Replies
  <1> QED
    BY <1>3, <1>4, <1>5, <1>6, <1>7, <1>8, <1>9, <1>10 DEF Serve

\* Every step of the service keeps what is known of the cookies.
LEMMA LifeStep ==
  ASSUME TypeOK, LifeInv, [Next]_vars
  PROVE  LifeInv' /\ NoNewRows
  <1>0. TypeOK'
    BY TypeStep
  <1>1. ASSUME NEW r \in Requests, Ask(r) PROVE LifeInv' /\ NoNewRows
    <2>0. NoNewRows
      BY <1>1 DEF Ask, AskLogout, AskLookup, AskLogin, Begin, NoNewRows
    <2>1. ASSUME NEW c \in Presentable \cup {NoCookie}, AskLogout(r, c)
          PROVE  LifeInv'
      <3>1. PICK state :
              state = IF c = NoCookie
                      THEN [Idle EXCEPT !.pc = "answer", !.op = "logout", !.reply = "ok"]
                      ELSE [Idle EXCEPT !.pc = "find", !.op = "logout", !.cookie = c]
        OBVIOUS
      <3>2. /\ ControlInv(state) /\ state.cookie = c /\ state.op = "logout"
            /\ state.pc \in {"find", "answer"}
            /\ state.reply # "none" => c = NoCookie /\ state.reply = "ok"
        BY <3>1 DEF Idle, ControlInv, Lookups
      <3> QED
        BY <1>0, <2>1, <3>1, <3>2, LifeBegin DEF AskLogout
    <2>2. ASSUME NEW c \in Presentable \cup {NoCookie}, NEW o \in Lookups,
                 AskLookup(r, o, c)
          PROVE  LifeInv'
      <3>1. PICK state :
              state = IF c = NoCookie
                      THEN [Idle EXCEPT !.pc = "answer", !.op = o,
                                        !.reply = "unauthorized"]
                      ELSE [Idle EXCEPT !.pc = "select", !.op = o,
                                        !.cookie = c, !.now = clock]
        OBVIOUS
      <3>2. /\ ControlInv(state) /\ state.cookie = c /\ state.op # "login"
            /\ state.pc \in {"select", "answer"}
            /\ state.reply # "none" => c = NoCookie /\ state.reply = "unauthorized"
        BY <3>1 DEF Idle, ControlInv, Lookups
      <3> QED
        BY <1>0, <2>2, <3>1, <3>2, LifeBegin DEF AskLookup
    <2>3. ASSUME NEW u \in Users, NEW t \in Tokens, AskLogin(r, u, t)
          PROVE  LifeInv'
      <3>1. PICK state :
              state = [Idle EXCEPT !.pc = "insert", !.op = "login", !.cookie = t,
                                   !.now = clock, !.user = u]
        OBVIOUS
      <3>2. /\ ControlInv(state) /\ state.cookie = t /\ state.op = "login"
            /\ state.pc = "insert" /\ state.reply = "none"
        BY <3>1 DEF Idle, ControlInv, Lookups
      <3> QED
        BY <1>0, <2>3, <3>1, <3>2, LifeBegin DEF AskLogin
    <2> QED
      BY <1>1, <2>0, <2>1, <2>2, <2>3 DEF Ask
  <1>2. ASSUME NEW r \in Requests, Serve(r) \/ DatabaseError(r)
        PROVE  LifeInv' /\ NoNewRows
    BY <1>0, <1>2, LifeServe
  <1>3. ASSUME NEW r \in Requests, Reply(r) PROVE LifeInv' /\ NoNewRows
    <2>1. \A t \in held' : Issued(t)
      BY <1>3 DEF Reply, Deliver, LoseAnswer, LifeInv, FreshTokens, RequestLife,
                  LoginToken
    <2>2. NoNewRows
      BY <1>3 DEF Reply, Deliver, LoseAnswer, Release, NoNewRows
    <2> QED
      BY <1>0, <1>3, <2>1, <2>2, LifeRelease DEF Reply, Deliver, LoseAnswer
  <1>4. CASE Crash
    <2>1. NoNewRows
      BY <1>4 DEF Crash, Release, NoNewRows
    <2> QED
      BY <1>0, <1>4, <2>1, LifeRelease DEF Crash, LifeInv, FreshTokens
  <1>5. CASE Tick \/ UNCHANGED vars
    BY <1>5 DEF Tick, vars, LifeInv, TableLife, FreshTokens, RequestLife, At,
                ControlInv, LoginToken, CookieInv, FoundRow, Issued, Live,
                LiveTokens, NoNewRows
  <1> QED
    BY <1>1, <1>2, <1>3, <1>4, <1>5 DEF Next

\* Nothing is stored and nothing in flight at the start.
LEMMA LifeStart ==
  ASSUME Init
  PROVE  LifeInv
  <1>1. \A t : ~Live(t)
    BY DEF Init, Live, LiveTokens
  <1>2. /\ Idle.pc = "idle" /\ Idle.op = "none"
        /\ Idle.reply = "none" /\ Idle.cookie = NoCookie
    BY DEF Idle
  <1>3. ASSUME NEW r \in Requests PROVE RequestLife(req[r], liveAtAsk[r])
    BY <1>1, <1>2 DEF Init, RequestLife, ControlInv, LoginToken, CookieInv, Lookups
  <1> QED
    BY <1>2, <1>3 DEF Init, LifeInv, TableLife, FreshTokens, At

\* However row keys are given, the rows, what requests know of their cookies
\* and what they answer agree.
THEOREM LifeHolds == Spec => [](TypeOK /\ LifeInv)
  BY LifeStart, LifeStep, TypeCorrect, PTL DEF Spec

\* Revocation is immediate: a request that began after its token lost its row
\* is not granted, even if the key of the row was given to another session.
THEOREM GrantedOnlyIfLiveAtAskHolds == Spec => []GrantedOnlyIfLiveAtAsk
  <1>1. LifeInv => GrantedOnlyIfLiveAtAsk
    BY DEF LifeInv, RequestLife, CookieInv, GrantedOnlyIfLiveAtAsk, Granted, Answered
  <1> QED
    BY <1>1, LifeHolds, PTL

\* An answered logout leaves no session behind its cookie.
THEOREM LogoutEndsSessionHolds == Spec => []LogoutEndsSession
  <1>1. LifeInv => LogoutEndsSession
    BY DEF LifeInv, RequestLife, CookieInv, LogoutEndsSession, Answered
  <1> QED
    BY <1>1, LifeHolds, PTL

\* A 401 is final: the token it was given for has no session any more.
THEOREM RefusedMeansEndedHolds == Spec => []RefusedMeansEnded
  <1>1. LifeInv => RefusedMeansEnded
    BY DEF LifeInv, RequestLife, CookieInv, RefusedMeansEnded, Answered
  <1> QED
    BY <1>1, LifeHolds, PTL

\* The exceptions of a row that vanished only strike a request whose session
\* is gone for good.
THEOREM RowLossMeansEndedHolds == Spec => []RowLossMeansEnded
  <1>1. LifeInv => RowLossMeansEnded
    BY DEF LifeInv, RequestLife, CookieInv, RowLossMeansEnded, Answered, Ended
  <1> QED
    BY <1>1, LifeHolds, PTL

\* A token that stopped working never works again, on either database.
THEOREM NoResurrectionHolds == Spec => NoResurrection
  <1>1. NoNewRows => \A t \in Tokens : Ended(t) => Ended(t)'
    BY DEF NoNewRows, Ended, Issued, Live, LiveTokens
  <1>2. TypeOK /\ LifeInv /\ [Next]_vars =>
          [\A t \in Tokens : Ended(t) => Ended(t)']_vars
    BY <1>1, LifeStep
  <1> QED
    BY <1>2, LifeHolds, PTL DEF Spec, NoResurrection

-----------------------------------------------------------------------------
(* Logout-all *)

LogoutAllAnswered(r) == req[r].op = "logout_all" /\ Answered(r, {"ok"})

\* A logout-all is answered by its DELETE only.
LEMMA LogoutAllAnswer ==
  ASSUME TypeOK, \A q \in Requests : ControlInv(req[q]), [Next]_vars,
         NEW r \in Requests, LogoutAllAnswered(r)'
  PROVE  \/ req'[r] = req[r] /\ liveAtAsk'[r] = liveAtAsk[r]
         \/ DeleteAll(r)
  <1>0. /\ req \in [Requests -> RequestState] /\ liveAtAsk \in [Requests -> SUBSET Tokens]
        /\ \A q \in Requests : ControlInv(req[q]) /\ WellFormed(req[q])
        /\ req'[r].pc = "answer" /\ req'[r].op = "logout_all" /\ req'[r].reply = "ok"
    BY DEF TypeOK, LogoutAllAnswered, Answered, At
  <1>1. ASSUME NEW q \in Requests, Ask(q) PROVE q # r
    <2>1. ASSUME NEW c, AskLogout(q, c) PROVE req'[q].op = "logout"
      BY <1>0, <2>1 DEF AskLogout, Begin, Idle
    <2>2. ASSUME NEW c, NEW o, AskLookup(q, o, c) PROVE req'[q].reply # "ok"
      BY <1>0, <2>2 DEF AskLookup, Begin, Idle
    <2>3. ASSUME NEW u, NEW t, AskLogin(q, u, t) PROVE req'[q].op = "login"
      BY <1>0, <2>3 DEF AskLogin, Begin, Idle
    <2> QED
      BY <1>0, <1>1, <2>1, <2>2, <2>3 DEF Ask
  <1>2. ASSUME NEW q \in Requests, Serve(q) \/ DatabaseError(q), q = r
        PROVE  DeleteAll(r)
    <2>1. ASSUME NEW u, NEW reply, AnswerFor(r, u, reply)
          PROVE  req'[r].op = req[r].op /\ req'[r].reply = reply
      BY <1>0, <2>1 DEF AnswerFor, Idle
    <2>2. ASSUME NEW step, NEW i, Goto(r, step, i) PROVE req'[r].pc = step
      BY <1>0, <2>2 DEF Goto, RequestState
    <2>3. ~Insert(r) /\ ~FindRow(r) /\ ~DeleteRow(r)
      BY <1>0, <2>1, <2>2 DEF Insert, FindRow, DeleteRow, At, Answer, ControlInv,
                              WellFormed
    <2>4. ~SelectRow(r) /\ ~Purge(r) /\ ~DatabaseError(r)
      BY <1>0, <2>1, <2>2 DEF SelectRow, Purge, DatabaseError, Answer
    <2>5. ASSUME Slide(r) PROVE FALSE
      <3>1. CASE req[r].row_id \in DOMAIN sessions
        <4>1. req'[r].pc = "reload"
          BY <1>0, <2>5, <3>1 DEF Slide, RequestState
        <4> QED
          BY <1>0, <4>1
      <3> QED
        BY <1>0, <2>1, <2>5, <3>1 DEF Slide, Answer
    <2>6. ASSUME Reload(r) PROVE FALSE
      <3>1. req[r].op = "me" => req'[r].op = "me" \/ req'[r].reply # "ok"
        BY <2>1, <2>6 DEF Reload, Answer
      <3>2. CASE req[r].row_id \in DOMAIN sessions /\ req[r].op # "me"
        <4>1. req'[r].pc = "delete_all"
          BY <1>0, <2>6, <3>2 DEF Reload, RequestState
        <4> QED
          BY <1>0, <4>1
      <3>3. CASE req[r].row_id \notin DOMAIN sessions
        BY <1>0, <2>1, <2>6, <3>3 DEF Reload, Answer
      <3> QED
        BY <1>0, <3>1, <3>2, <3>3
    <2> QED
      BY <1>2, <2>3, <2>4, <2>5, <2>6 DEF Serve
  <1>3. ASSUME NEW q \in Requests, q # r, Ask(q) \/ Serve(q) \/ DatabaseError(q)
        PROVE  req'[r] = req[r] /\ liveAtAsk'[r] = liveAtAsk[r]
    BY <1>0, <1>3
    DEF Ask, AskLogout, AskLookup, AskLogin, Begin, Serve, Insert, SelectRow,
        Purge, Slide, Reload, DeleteAll, FindRow, DeleteRow, DatabaseError,
        Answer, AnswerFor, Goto
  <1>4. ASSUME NEW R \in SUBSET Requests, Release(R)
        PROVE  req'[r] = req[r] /\ liveAtAsk'[r] = liveAtAsk[r]
    BY <1>0, <1>4 DEF Release, Idle
  <1>5. Tick \/ UNCHANGED vars => req'[r] = req[r] /\ liveAtAsk'[r] = liveAtAsk[r]
    BY DEF Tick, vars
  <1> QED
    BY <1>1, <1>2, <1>3, <1>4, <1>5 DEF Next, Reply, Deliver, LoseAnswer, Crash

\* The tokens that had a row when a request began were issued.
AskedIssued == \A r \in Requests : \A t \in liveAtAsk[r] : Issued(t)

\* Every step keeps that what logout-all has ended stays ended.
LEMMA LogoutAllStep ==
  ASSUME TypeOK, IdentityInv, LifeInv, AskedIssued, LogoutAllEndsSessions,
         [Next]_vars
  PROVE  AskedIssued' /\ LogoutAllEndsSessions'
  <1>0. NoNewRows
    BY LifeStep
  <1>1. \A t \in LiveTokens : t \in Tokens /\ Issued(t)
    BY DEF LiveTokens, LifeInv, TableLife, TypeOK, Row
  <1>2. \A r \in Requests : liveAtAsk'[r] \in {liveAtAsk[r], {}, LiveTokens}
    BY DEF Next, Ask, AskLogout, AskLookup, AskLogin, Begin, Serve, Insert,
           SelectRow, Purge, Slide, Reload, DeleteAll, FindRow, DeleteRow,
           DatabaseError, Reply, Deliver, LoseAnswer, Crash, Release, Tick,
           vars, TypeOK
  <1>3. \A t \in Tokens : Issued(t) => Issued(t)' /\ owner'[t] = owner[t]
    BY <1>0 DEF NoNewRows, Issued
  <1>4. AskedIssued'
    BY <1>1, <1>2, <1>3 DEF AskedIssued, TypeOK
  <1>5. ASSUME NEW r \in Requests, LogoutAllAnswered(r)',
               NEW t \in liveAtAsk'[r], owner'[t] = owner'[req'[r].cookie]
        PROVE  t \notin LiveTokens'
    <2>1. CASE req'[r] = req[r] /\ liveAtAsk'[r] = liveAtAsk[r]
      <3>1. LogoutAllAnswered(r)
        BY <1>5, <2>1 DEF LogoutAllAnswered, Answered, At
      <3>2. req[r].cookie \in Tokens /\ Issued(req[r].cookie)
        BY <3>1 DEF LogoutAllAnswered, Answered, At, IdentityInv, RequestInv,
                    ResolvedUser, Lookups
      <3>3. t \in Tokens /\ Issued(t)
        BY <1>5, <2>1 DEF TypeOK, AskedIssued
      <3>4. owner[t] = owner[req[r].cookie]
        BY <1>3, <1>5, <2>1, <3>2, <3>3
      <3>5. ~Live(t)
        BY <1>5, <2>1, <3>1, <3>4 DEF LogoutAllEndsSessions, LogoutAllAnswered
      <3> QED
        BY <1>0, <3>3, <3>5 DEF NoNewRows, Live, LiveTokens
    <2>2. CASE DeleteAll(r)
      <3>1. /\ req[r].user = owner[req[r].cookie] /\ req'[r].cookie = req[r].cookie
            /\ UNCHANGED owner
        BY <2>2 DEF DeleteAll, At, IdentityInv, RequestInv, ControlInv,
                    ResolvedUser, Lookups, Answer, AnswerFor, Idle, TypeOK
      <3>2. ASSUME NEW i \in DOMAIN sessions' PROVE sessions'[i].token # t
        <4>1. /\ i \in DOMAIN sessions /\ sessions'[i] = sessions[i]
              /\ sessions[i].user # req[r].user
          BY <2>2 DEF DeleteAll, delete, owned_by
        <4>2. owner[sessions[i].token] = sessions[i].user
          BY <4>1 DEF IdentityInv, TableInv
        <4> QED
          BY <1>5, <3>1, <4>1, <4>2
      <3> QED
        BY <3>2, NoRowNotLive
    <2>3. \A q \in Requests : ControlInv(req[q])
      BY DEF IdentityInv, RequestInv
    <2> QED
      BY <1>5, <2>1, <2>2, <2>3, LogoutAllAnswer
  <1>6. LogoutAllEndsSessions'
    BY <1>5 DEF LogoutAllEndsSessions, LogoutAllAnswered, Answered, At, Live
  <1> QED
    BY <1>4, <1>6

\* An answered logout-all has ended every session its user had when the
\* request began, and none of them comes back.
THEOREM LogoutAllEndsSessionsHolds ==
  ASSUME ~ReuseRowIds
  PROVE  Spec => []LogoutAllEndsSessions
  <1>1. Init => AskedIssued /\ LogoutAllEndsSessions
    BY DEF Init, AskedIssued, LogoutAllEndsSessions, Answered, At, Idle
  <1>2. TypeOK /\ IdentityInv /\ LifeInv /\ AskedIssued /\ LogoutAllEndsSessions
          /\ [Next]_vars => (AskedIssued /\ LogoutAllEndsSessions)'
    BY LogoutAllStep
  <1> QED
    BY <1>1, <1>2, IdentityHolds, LifeHolds, PTL DEF Spec

-----------------------------------------------------------------------------
(* Tickets *)

Asking == {"me", "logout", "logout_all"}

\* One request moves on: so does its ticket, and no other one.
LEMMA TicketMove ==
  ASSUME TypeOK, NEW r \in Requests, NEW state, req' = [req EXCEPT ![r] = state]
  PROVE  Tickets' = [Tickets EXCEPT ![r] = TicketOf(state)]
  <1>1. /\ Tickets' = [q \in Requests |-> TicketOf(req'[q])]
        /\ \A q \in Requests : req'[q] = IF q = r THEN state ELSE req[q]
    BY DEF Tickets, TypeOK, TicketOf, Status
  <1>2. Tickets = [q \in Requests |-> TicketOf(req[q])]
    BY DEF Tickets
  <1> QED
    BY <1>1, <1>2

\* The ticket of a request that is not a login.
LEMMA TicketShape ==
  ASSUME NEW q, q.op \in Asking
  PROVE  TicketOf(q) = [op |-> q.op, cookie |-> q.cookie, status |-> Status(q),
                        user |-> q.user]
  BY DEF TicketOf, Asking

\* A login holds no ticket.
LEMMA NoTicketShape ==
  ASSUME NEW q, q.op \in {"none", "login"}
  PROVE  TicketOf(q) = Authority!NoTicket
  BY DEF TicketOf, Authority!NoTicket

\* A request of the same question is told something.
LEMMA TicketMark ==
  ASSUME TypeOK, NEW r \in Requests, NEW state, req' = [req EXCEPT ![r] = state],
         req[r].op \in Asking, state.op = req[r].op, state.cookie = req[r].cookie
  PROVE  Authority!Mark(r, Status(state), state.user)
  <1>1. Tickets' = [Tickets EXCEPT ![r] = TicketOf(state)]
    BY TicketMove
  <1>2. Tickets[r] = [op |-> req[r].op, cookie |-> req[r].cookie,
                      status |-> Status(req[r]), user |-> req[r].user]
    BY TicketShape DEF Tickets
  <1>3. TicketOf(state) = [op |-> req[r].op, cookie |-> req[r].cookie,
                           status |-> Status(state), user |-> state.user]
    BY TicketShape
  <1>4. PICK t1, s1, u1 : t1 = Tickets[r] /\ s1 = Status(state) /\ u1 = state.user
    OBVIOUS
  <1>5. PICK t2 : t2 = [t1 EXCEPT !.status = s1]
    OBVIOUS
  <1>6. t2 = [op |-> req[r].op, cookie |-> req[r].cookie, status |-> s1,
              user |-> req[r].user]
    BY <1>2, <1>4, <1>5
  <1>7. TicketOf(state) = [t2 EXCEPT !.user = u1]
    BY <1>3, <1>4, <1>6
  <1>8. r \in DOMAIN Tickets
    BY DEF Tickets
  <1>9. [Tickets EXCEPT ![r].status = s1, ![r].user = u1]
          = [Tickets EXCEPT ![r] = [t2 EXCEPT !.user = u1]]
    BY <1>4, <1>5, <1>8
  <1> QED
    BY <1>1, <1>4, <1>7, <1>9 DEF Authority!Mark

\* A request that answers marks its ticket.
LEMMA AnswerMark ==
  ASSUME TypeOK, NEW r \in Requests, NEW u, NEW reply, AnswerFor(r, u, reply),
         req[r].op \in Asking, reply # "none"
  PROVE  /\ reply = "ok" =>
              Authority!Mark(r, IF req[r].op = "me" THEN "granted" ELSE "done", u)
         /\ reply = "unauthorized" => Authority!Mark(r, "refused", u)
         /\ reply \notin {"ok", "unauthorized"} => Authority!Mark(r, "failed", u)
  <1>1. PICK state :
          state = [Idle EXCEPT !.pc = "answer", !.op = req[r].op,
                     !.cookie = req[r].cookie, !.user = u, !.reply = reply]
    OBVIOUS
  <1>2. /\ state.pc = "answer" /\ state.op = req[r].op /\ state.user = u
        /\ state.cookie = req[r].cookie /\ state.reply = reply
    BY <1>1 DEF Idle
  <1>3. Authority!Mark(r, Status(state), state.user)
    BY <1>1, <1>2, TicketMark DEF AnswerFor
  <1>4. /\ reply = "ok" => Status(state) = IF req[r].op = "me" THEN "granted" ELSE "done"
        /\ reply = "unauthorized" => Status(state) = "refused"
        /\ reply \notin {"ok", "unauthorized"} => Status(state) = "failed"
    BY <1>2 DEF Status
  <1> QED
    BY <1>2, <1>3, <1>4

\* A request that moves on without being told anything keeps its ticket.
LEMMA TicketKeep ==
  ASSUME TypeOK, NEW r \in Requests, NEW state, req' = [req EXCEPT ![r] = state],
         \/ req[r].op = "login" /\ state.op = "login"
         \/ /\ req[r].op \in Asking /\ state.op = req[r].op
            /\ state.cookie = req[r].cookie /\ state.user = req[r].user
            /\ Status(state) = Status(req[r])
  PROVE  UNCHANGED Tickets
  <1>1. Tickets' = [Tickets EXCEPT ![r] = TicketOf(state)]
    BY TicketMove
  <1>2. TicketOf(state) = Tickets[r]
    BY NoTicketShape, TicketShape DEF Tickets
  <1>3. Tickets = [q \in Requests |-> Tickets[q]]
    BY DEF Tickets
  <1> QED
    BY <1>1, <1>2, <1>3

-----------------------------------------------------------------------------
(* Steps *)

AuthorityInv == TypeOK /\ IdentityInv /\ LifeInv

\* Deleting the row a request found takes its token, and only its token, away.
LEMMA DeleteFound ==
  ASSUME AuthorityInv, NEW r \in Requests, req[r].pc \in {"purge", "delete"},
         delete({req[r].row_id})
  PROVE  LiveTokens' = LiveTokens \ {req[r].cookie}
  <1>1. \A i \in DOMAIN sessions : sessions[i].token = req[r].cookie <=> i = req[r].row_id
    BY DEF AuthorityInv, LifeInv, RequestLife, CookieInv, FoundRow, IdentityInv, RequestInv,
           KeyMeansCookie
  <1>2. /\ DOMAIN sessions' = DOMAIN sessions \ {req[r].row_id}
        /\ \A i \in DOMAIN sessions' : sessions'[i] = sessions[i]
    BY DEF delete
  <1>3. ASSUME NEW t
        PROVE  t \in LiveTokens' <=> t \in LiveTokens /\ t # req[r].cookie
    BY <1>1, <1>2 DEF LiveTokens
  <1> QED
    BY <1>3

\* A token without a row is not accepted, and taking it away changes nothing.
LEMMA NotFound ==
  ASSUME NEW c, get_by_token_hash(c) = {}, UNCHANGED sessions
  PROVE  LiveTokens' = LiveTokens \ {c}
  BY DEF get_by_token_hash, LiveTokens

\* A question: the ticket it opens is the one the authority opens, and a login
\* opens none.
LEMMA AskRefines ==
  ASSUME AuthorityInv, NEW r \in Requests, Ask(r)
  PROVE  Authority!Next \/ UNCHANGED Authority!avars
  <1>0. /\ req[r] = Idle
        /\ UNCHANGED <<owner, LiveTokens>>
    <2>1. At(r, "idle") /\ UNCHANGED <<owner, sessions>>
      BY DEF Ask, AskLogout, AskLookup, AskLogin, Begin
    <2> QED
      BY <2>1 DEF At, AuthorityInv, LifeInv, RequestLife, ControlInv, LiveTokens
  <1>1. Tickets[r] = Authority!NoTicket
    BY <1>0, NoTicketShape DEF Tickets, Idle
  <1>2. Presentable \cup {NoCookie} \subseteq Authority!Cookies
    BY DEF Presentable, Authority!Cookies, AuthorityInv, TypeOK
  <1>3. ASSUME NEW c \in Presentable \cup {NoCookie}, AskLogout(r, c)
        PROVE  Authority!Ask(r, "logout", c)
    <2>1. PICK state :
            state = IF c = NoCookie
                    THEN [Idle EXCEPT !.pc = "answer", !.op = "logout", !.reply = "ok"]
                    ELSE [Idle EXCEPT !.pc = "find", !.op = "logout", !.cookie = c]
      OBVIOUS
    <2>2. /\ state.op = "logout" /\ state.cookie = c /\ state.user = NoUser
          /\ state.pc # "delete_all"
          /\ state.reply = IF c = NoCookie THEN "ok" ELSE "none"
      BY <2>1 DEF Idle
    <2>3. TicketOf(state) =
            [op |-> "logout", cookie |-> c, user |-> NoUser,
             status |-> IF c # NoCookie THEN "pending" ELSE "done"]
      BY <2>2, TicketShape DEF Asking, Status
    <2>4. Tickets' = [Tickets EXCEPT ![r] = TicketOf(state)]
      BY <1>3, <2>1, TicketMove DEF AskLogout, Begin, AuthorityInv
    <2> QED
      BY <1>0, <1>1, <2>3, <2>4 DEF Authority!Ask
  <1>4. ASSUME NEW c \in Presentable \cup {NoCookie}, NEW o \in Lookups,
               AskLookup(r, o, c)
        PROVE  Authority!Ask(r, o, c)
    <2>1. PICK state :
            state = IF c = NoCookie
                    THEN [Idle EXCEPT !.pc = "answer", !.op = o,
                                      !.reply = "unauthorized"]
                    ELSE [Idle EXCEPT !.pc = "select", !.op = o,
                                      !.cookie = c, !.now = clock]
      OBVIOUS
    <2>2. /\ state.op = o /\ state.cookie = c /\ state.user = NoUser
          /\ state.pc # "delete_all"
          /\ state.reply = IF c = NoCookie THEN "unauthorized" ELSE "none"
      BY <2>1 DEF Idle
    <2>3. TicketOf(state) =
            [op |-> o, cookie |-> c, user |-> NoUser,
             status |-> IF c # NoCookie THEN "pending" ELSE "refused"]
      BY <2>2, TicketShape DEF Asking, Status, Lookups
    <2>4. Tickets' = [Tickets EXCEPT ![r] = TicketOf(state)]
      BY <1>4, <2>1, TicketMove DEF AskLookup, Begin, AuthorityInv
    <2> QED
      BY <1>0, <1>1, <2>3, <2>4 DEF Authority!Ask, Lookups
  <1>5. ASSUME NEW u \in Users, NEW t \in Tokens, AskLogin(r, u, t)
        PROVE  UNCHANGED Tickets
    <2>1. PICK state :
            state = [Idle EXCEPT !.pc = "insert", !.op = "login", !.cookie = t,
                                 !.now = clock, !.user = u]
      OBVIOUS
    <2>2. TicketOf(state) = Authority!NoTicket
      <3>1. state.op = "login"
        BY <2>1 DEF Idle
      <3> QED
        BY <3>1, NoTicketShape
    <2>3. Tickets' = [Tickets EXCEPT ![r] = TicketOf(state)]
      BY <1>5, <2>1, TicketMove DEF AskLogin, Begin, AuthorityInv
    <2>4. Tickets = [q \in Requests |-> Tickets[q]]
      BY DEF Tickets
    <2> QED
      BY <1>1, <2>2, <2>3, <2>4
  <1> QED
    BY <1>0, <1>2, <1>3, <1>4, <1>5
    DEF Ask, Authority!Next, Authority!avars, Lookups

\* The INSERT of a login creates its token.
LEMMA InsertRefines ==
  ASSUME ~ReuseRowIds, AuthorityInv, NEW r \in Requests, Insert(r)
  PROVE  Authority!Next
  <1>1. PICK c \in Tokens, u \in Users : c = req[r].cookie /\ u = req[r].user
    BY DEF Insert, At, AuthorityInv, TypeOK, WellFormed
  <1>2. owner[c] = NoUser
    BY <1>1 DEF Insert, At, AuthorityInv, LifeInv, RequestLife, LoginToken, Issued
  <1>3. PICK new : new.token = c /\ create(last_id + 1, new)
    BY <1>1 DEF Insert, NewIds
  <1>4. /\ DOMAIN sessions' = DOMAIN sessions \cup {last_id + 1}
        /\ sessions'[last_id + 1] = new
        /\ \A i \in DOMAIN sessions : sessions'[i] = sessions[i]
    BY <1>3 DEF create, AuthorityInv, TypeOK
  <1>5. LiveTokens' = LiveTokens \cup {c}
    <2>1. ASSUME NEW t PROVE t \in LiveTokens' <=> t \in LiveTokens \/ t = c
      BY <1>3, <1>4 DEF LiveTokens
    <2> QED
      BY <2>1
  <1>6. UNCHANGED Tickets
    <2>1. PICK state :
            state = [Idle EXCEPT !.pc = "answer", !.op = req[r].op,
                       !.cookie = c, !.user = u, !.reply = "ok"]
      OBVIOUS
    <2>2. req' = [req EXCEPT ![r] = state]
      BY <1>1, <2>1 DEF Insert, Answer, AnswerFor
    <2>3. req[r].op = "login" /\ state.op = "login"
      BY <2>1 DEF Insert, At, AuthorityInv, TypeOK, WellFormed, Idle
    <2> QED
      BY <2>2, <2>3, TicketKeep DEF AuthorityInv
  <1>7. owner' = [owner EXCEPT ![c] = u]
    BY <1>1 DEF Insert
  <1>8. Authority!Create(c, u)
    BY <1>2, <1>5, <1>6, <1>7 DEF Authority!Create
  <1> QED
    BY <1>8 DEF Authority!Next

\* What the ticket of a request says while it is being served.
LEMMA TicketNow ==
  ASSUME NEW r \in Requests, req[r].op \in Asking, req[r].reply = "none"
  PROVE  /\ Tickets[r].op = req[r].op /\ Tickets[r].cookie = req[r].cookie
         /\ Tickets[r].user = req[r].user
         /\ Tickets[r].status =
              IF req[r].pc = "delete_all" THEN "granted" ELSE "pending"
  BY TicketShape DEF Tickets, Status

\* A round trip that fails, in the database or in the unit of work, fails the
\* ticket; a login has none.
LEMMA FailRefines ==
  ASSUME AuthorityInv, NEW r \in Requests, req[r].pc \in DatabaseSteps,
         UNCHANGED <<sessions, owner>>,
         NEW reply \in {"OperationalError", "StaleDataError", "ObjectDeletedError"},
         Answer(r, reply)
  PROVE  Authority!Next \/ UNCHANGED Authority!avars
  <1>0. /\ ControlInv(req[r]) /\ req[r] \in RequestState /\ WellFormed(req[r])
        /\ UNCHANGED LiveTokens
    BY DEF AuthorityInv, LifeInv, RequestLife, TypeOK, LiveTokens
  <1>1. CASE req[r].op \in Asking
    <2>1. req[r].reply = "none"
      BY <1>0 DEF ControlInv, DatabaseSteps
    <2>2. Authority!Mark(r, "failed", req[r].user)
      BY <1>1, AnswerMark DEF Answer, AuthorityInv
    <2>3. Authority!Fail(r)
      BY <1>0, <1>1, <2>1, <2>2, TicketNow DEF Authority!Fail
    <2> QED
      BY <2>3 DEF Authority!Next
  <1>2. CASE req[r].op = "login"
    <2>1. PICK state :
            state = [Idle EXCEPT !.pc = "answer", !.op = req[r].op,
                       !.cookie = req[r].cookie, !.user = req[r].user, !.reply = reply]
      OBVIOUS
    <2>2. req' = [req EXCEPT ![r] = state] /\ state.op = "login"
      BY <1>2, <2>1 DEF Answer, AnswerFor, Idle
    <2> QED
      BY <1>0, <1>2, <2>2, TicketKeep DEF AuthorityInv, Authority!avars
  <1>3. req[r].op # "none"
    BY <1>0 DEF ControlInv, DatabaseSteps, Lookups, WellFormed
  <1> QED
    BY <1>0, <1>1, <1>2, <1>3 DEF RequestState, Operations, Lookups, Asking

\* Every round trip of a request is a step of the authority, or none.
LEMMA ServeRefines ==
  ASSUME ~ReuseRowIds, AuthorityInv, NEW r \in Requests, Serve(r)
  PROVE  Authority!Next \/ UNCHANGED Authority!avars
  <1>0. /\ ControlInv(req[r]) /\ req[r] \in RequestState
        /\ RequestInv(req[r]) /\ CookieInv(req[r], liveAtAsk[r])
    BY DEF AuthorityInv, LifeInv, RequestLife, IdentityInv, TypeOK
  <1>1. CASE Insert(r)
    BY <1>1, InsertRefines
  <1>2. CASE SelectRow(r)
    <2>1. /\ req[r].op \in Asking /\ req[r].op \in {"me", "logout_all"}
          /\ req[r].reply = "none" /\ req[r].user = NoUser /\ req[r].pc = "select"
      BY <1>0, <1>2 DEF SelectRow, At, ControlInv, Lookups, Asking
    <2>2. CASE get_by_token_hash(req[r].cookie) = {} /\ Answer(r, "unauthorized")
      <3>1. LiveTokens' = LiveTokens \ {req[r].cookie}
        BY <1>2, <2>2, NotFound DEF SelectRow
      <3>2. Authority!Mark(r, "refused", NoUser)
        BY <2>1, <2>2, AnswerMark DEF Answer, AuthorityInv
      <3>3. Authority!Refuse(r)
        BY <1>2, <2>1, <3>1, <3>2, TicketNow DEF Authority!Refuse, SelectRow
      <3> QED
        BY <3>3 DEF Authority!Next
    <2>3. ASSUME NEW i, NEW step \in {"purge", "slide"}, Goto(r, step, i)
          PROVE  UNCHANGED Tickets
      <3>1. PICK state : state = [req[r] EXCEPT !.pc = step, !.row_id = i]
        OBVIOUS
      <3>2. /\ state.pc # "delete_all" /\ state.op = req[r].op
            /\ state.cookie = req[r].cookie /\ state.user = req[r].user
            /\ state.reply = req[r].reply
        BY <1>0, <3>1 DEF RequestState
      <3>3. Status(state) = Status(req[r])
        BY <2>1, <3>2 DEF Status
      <3> QED
        BY <2>1, <2>3, <3>1, <3>2, <3>3, TicketKeep DEF Goto, AuthorityInv
    <2>4. UNCHANGED <<owner, LiveTokens>>
      BY <1>2 DEF SelectRow, LiveTokens
    <2> QED
      BY <1>2, <2>2, <2>3, <2>4 DEF SelectRow, Authority!avars
  <1>3. CASE Purge(r)
    <2>1. /\ req[r].op \in Asking /\ req[r].op \in {"me", "logout_all"}
          /\ req[r].reply = "none" /\ req[r].user = NoUser /\ req[r].pc = "purge"
      BY <1>0, <1>3 DEF Purge, At, ControlInv, Lookups, Asking
    <2>2. LiveTokens' = LiveTokens \ {req[r].cookie}
      BY <1>3, <2>1, DeleteFound DEF Purge
    <2>3. Authority!Mark(r, "refused", NoUser)
      BY <1>3, <2>1, AnswerMark DEF Purge, Answer, AuthorityInv
    <2>4. Authority!Refuse(r)
      BY <1>3, <2>1, <2>2, <2>3, TicketNow DEF Authority!Refuse, Purge
    <2> QED
      BY <2>4 DEF Authority!Next
  <1>4. CASE Slide(r)
    <2>1. /\ req[r].op \in Asking /\ req[r].reply = "none" /\ req[r].pc = "slide"
      BY <1>0, <1>4 DEF Slide, At, ControlInv, Lookups, Asking
    <2>2. CASE req[r].row_id \in DOMAIN sessions
      <3>1. PICK state : state = [req[r] EXCEPT !.pc = "reload"]
        OBVIOUS
      <3>2. /\ state.pc # "delete_all" /\ state.op = req[r].op
            /\ state.cookie = req[r].cookie /\ state.user = req[r].user
            /\ state.reply = req[r].reply
        BY <1>0, <3>1 DEF RequestState
      <3>3. Status(state) = Status(req[r])
        BY <2>1, <3>2 DEF Status
      <3>4. UNCHANGED Tickets
        BY <1>4, <2>1, <2>2, <3>1, <3>2, <3>3, TicketKeep DEF Slide, AuthorityInv
      <3>5. /\ DOMAIN sessions' = DOMAIN sessions
            /\ \A i \in DOMAIN sessions : sessions'[i].token = sessions[i].token
        BY <1>4, <2>2 DEF Slide, AuthorityInv, TypeOK, Row
      <3>6. UNCHANGED <<owner, LiveTokens>>
        BY <1>4, <3>5 DEF Slide, LiveTokens
      <3> QED
        BY <3>4, <3>6 DEF Authority!avars
    <2>3. CASE req[r].row_id \notin DOMAIN sessions
      BY <1>4, <2>1, <2>3, FailRefines DEF Slide, DatabaseSteps
    <2> QED
      BY <2>2, <2>3
  <1>5. CASE Reload(r)
    <2>1. /\ req[r].op \in Asking /\ req[r].op \in {"me", "logout_all"}
          /\ req[r].reply = "none" /\ req[r].pc = "reload"
      BY <1>0, <1>5 DEF Reload, At, ControlInv, Lookups, Asking
    <2>2. CASE req[r].row_id \in DOMAIN sessions
      <3>1. PICK u : u = sessions[req[r].row_id].user
        OBVIOUS
      <3>2. req[r].cookie \in LiveTokens /\ u = owner[req[r].cookie]
        <4>1. sessions[req[r].row_id].token = req[r].cookie
          BY <1>0, <2>1, <2>2 DEF RequestInv, KeyMeansCookie
        <4> QED
          BY <2>2, <3>1, <4>1 DEF LiveTokens, AuthorityInv, IdentityInv, TableInv
      <3>3. Authority!Mark(r, "granted", u)
        <4>1. CASE req[r].op = "me"
          BY <1>5, <2>1, <2>2, <3>1, <4>1, AnswerMark DEF Reload, AuthorityInv
        <4>2. CASE req[r].op # "me"
          <5>1. PICK state : state = [req[r] EXCEPT !.user = u, !.pc = "delete_all"]
            OBVIOUS
          <5>2. /\ state.pc = "delete_all" /\ state.op = req[r].op
                /\ state.cookie = req[r].cookie /\ state.reply = "none"
                /\ state.user = u
            BY <1>0, <2>1, <5>1 DEF RequestState
          <5>3. req' = [req EXCEPT ![r] = state]
            BY <1>0, <1>5, <2>2, <3>1, <4>2, <5>1 DEF Reload, AuthorityInv, TypeOK, RequestState
          <5>4. Status(state) = "granted"
            BY <5>2 DEF Status
          <5> QED
            BY <2>1, <5>2, <5>3, <5>4, TicketMark DEF AuthorityInv
        <4> QED
          BY <4>1, <4>2
      <3>4. UNCHANGED <<owner, LiveTokens>>
        BY <1>5 DEF Reload, LiveTokens
      <3>5. Authority!Grant(r)
        BY <2>1, <3>2, <3>3, <3>4, TicketNow DEF Authority!Grant
      <3> QED
        BY <3>5 DEF Authority!Next
    <2>3. CASE req[r].row_id \notin DOMAIN sessions
      BY <1>5, <2>1, <2>3, FailRefines DEF Reload, DatabaseSteps
    <2> QED
      BY <2>2, <2>3
  <1>6. CASE DeleteAll(r)
    <2>1. /\ req[r].op \in Asking /\ req[r].op = "logout_all"
          /\ req[r].reply = "none" /\ req[r].pc = "delete_all"
      BY <1>0, <1>6 DEF DeleteAll, At, ControlInv, Asking
    <2>2. /\ DOMAIN sessions' = {i \in DOMAIN sessions : sessions[i].user # req[r].user}
          /\ \A i \in DOMAIN sessions' : sessions'[i] = sessions[i]
      BY <1>6 DEF DeleteAll, delete, owned_by
    <2>3. ASSUME NEW t
          PROVE  t \in LiveTokens' <=> t \in LiveTokens /\ owner[t] # req[r].user
      <3>1. \A i \in DOMAIN sessions : owner[sessions[i].token] = sessions[i].user
        BY DEF AuthorityInv, IdentityInv, TableInv
      <3> QED
        BY <2>2, <3>1 DEF LiveTokens
    <2>4. LiveTokens' = {t \in LiveTokens : owner[t] # Tickets[r].user}
      BY <2>1, <2>3, TicketNow
    <2>5. Authority!Mark(r, "done", Tickets[r].user)
      BY <1>6, <2>1, AnswerMark, TicketNow DEF DeleteAll, Answer, AuthorityInv
    <2>6. Authority!LogoutAll(r)
      BY <1>6, <2>1, <2>4, <2>5, TicketNow DEF Authority!LogoutAll, DeleteAll
    <2> QED
      BY <2>6 DEF Authority!Next
  <1>7. CASE FindRow(r)
    <2>1. /\ req[r].op \in Asking /\ req[r].op = "logout"
          /\ req[r].reply = "none" /\ req[r].user = NoUser /\ req[r].pc = "find"
      BY <1>0, <1>7 DEF FindRow, At, ControlInv, Asking
    <2>2. CASE get_by_token_hash(req[r].cookie) = {} /\ Answer(r, "ok")
      <3>1. LiveTokens' = LiveTokens \ {req[r].cookie}
        BY <1>7, <2>2, NotFound DEF FindRow
      <3>2. Authority!Mark(r, "done", NoUser)
        BY <2>1, <2>2, AnswerMark DEF Answer, AuthorityInv
      <3>3. Authority!Logout(r)
        BY <1>7, <2>1, <3>1, <3>2, TicketNow DEF Authority!Logout, FindRow
      <3> QED
        BY <3>3 DEF Authority!Next
    <2>3. ASSUME NEW i, Goto(r, "delete", i)
          PROVE  UNCHANGED Tickets
      <3>1. PICK state : state = [req[r] EXCEPT !.pc = "delete", !.row_id = i]
        OBVIOUS
      <3>2. /\ state.pc # "delete_all" /\ state.op = req[r].op
            /\ state.cookie = req[r].cookie /\ state.user = req[r].user
            /\ state.reply = req[r].reply
        BY <1>0, <3>1 DEF RequestState
      <3>3. Status(state) = Status(req[r])
        BY <2>1, <3>2 DEF Status
      <3> QED
        BY <2>1, <2>3, <3>1, <3>2, <3>3, TicketKeep DEF Goto, AuthorityInv
    <2>4. UNCHANGED <<owner, LiveTokens>>
      BY <1>7 DEF FindRow, LiveTokens
    <2> QED
      BY <1>7, <2>2, <2>3, <2>4 DEF FindRow, Authority!avars
  <1>8. CASE DeleteRow(r)
    <2>1. /\ req[r].op \in Asking /\ req[r].op = "logout"
          /\ req[r].reply = "none" /\ req[r].user = NoUser /\ req[r].pc = "delete"
      BY <1>0, <1>8 DEF DeleteRow, At, ControlInv, Asking
    <2>2. LiveTokens' = LiveTokens \ {req[r].cookie}
      BY <1>8, <2>1, DeleteFound DEF DeleteRow
    <2>3. Authority!Mark(r, "done", NoUser)
      BY <1>8, <2>1, AnswerMark DEF DeleteRow, Answer, AuthorityInv
    <2>4. Authority!Logout(r)
      BY <1>8, <2>1, <2>2, <2>3, TicketNow DEF Authority!Logout, DeleteRow
    <2> QED
      BY <2>4 DEF Authority!Next
  <1> QED
    BY <1>1, <1>2, <1>3, <1>4, <1>5, <1>6, <1>7, <1>8 DEF Serve

\* Requests that end forget their tickets.
LEMMA ReleaseRefines ==
  ASSUME NEW R \in SUBSET Requests, Release(R)
  PROVE  Authority!Forget(R)
  <1>1. Tickets' = [q \in Requests |-> TicketOf(req'[q])]
    BY DEF Tickets, TicketOf, Status
  <1>2. TicketOf(Idle) = Authority!NoTicket
    BY NoTicketShape DEF Idle
  <1>3. \A q \in Requests : TicketOf(req'[q]) =
          IF q \in R THEN Authority!NoTicket ELSE Tickets[q]
    BY <1>2 DEF Release, Tickets
  <1>4. UNCHANGED <<owner, LiveTokens>>
    BY DEF Release, LiveTokens
  <1> QED
    BY <1>1, <1>3, <1>4 DEF Authority!Forget

\* The concurrent service implements the atomic one: for every set of requests,
\* users and tokens, each lookup, logout and logout-all takes effect at one
\* instant, whatever the others do between its round trips.
THEOREM ImplementsAuthorityHolds ==
  ASSUME ~ReuseRowIds
  PROVE  Spec => ImplementsAuthority
  <1>1. ASSUME Init PROVE Authority!Init
    <2>1. LiveTokens = {}
      BY <1>1 DEF Init, LiveTokens
    <2>2. TicketOf(Idle) = Authority!NoTicket
      BY NoTicketShape DEF Idle
    <2>3. Tickets = [r \in Requests |-> Authority!NoTicket]
      BY <1>1, <2>2 DEF Init, Tickets
    <2> QED
      BY <1>1, <2>1, <2>3 DEF Init, Authority!Init
  <1>2. ASSUME AuthorityInv, [Next]_vars PROVE Authority!Next \/ UNCHANGED Authority!avars
    <2>1. ASSUME NEW r \in Requests, Ask(r) \/ Serve(r)
          PROVE  Authority!Next \/ UNCHANGED Authority!avars
      BY <1>2, <2>1, AskRefines, ServeRefines
    <2>2. ASSUME NEW r \in Requests, DatabaseError(r)
          PROVE  Authority!Next \/ UNCHANGED Authority!avars
      BY <1>2, <2>2, FailRefines DEF DatabaseError
    <2>3. ASSUME NEW r \in Requests, Reply(r)
          PROVE  Authority!Next
      BY <2>3, ReleaseRefines DEF Reply, Deliver, LoseAnswer, Authority!Next
    <2>4. CASE Crash
      BY <2>4, ReleaseRefines DEF Crash, Authority!Next
    <2>5. CASE Tick \/ UNCHANGED vars
      BY <2>5 DEF Tick, vars, Authority!avars, LiveTokens, Tickets, TicketOf, Status
    <2> QED
      BY <1>2, <2>1, <2>2, <2>3, <2>4, <2>5 DEF Next
  <1> QED
    BY <1>1, <1>2, IdentityHolds, LifeHolds, PTL
    DEF Spec, ImplementsAuthority, Authority!Spec, AuthorityInv
=============================================================================
