--------------------------- MODULE SessionsProofs ---------------------------
(***************************************************************************)
(* Theorems about Sessions, for every set of requests, users and tokens    *)
(* and every pair of lifetimes: types, whose session a token is, and the   *)
(* two deadlines.                                                          *)
(***************************************************************************)
EXTENDS Sessions, TLAPS

USE SessionsAssumption, LifetimeAssumption

-----------------------------------------------------------------------------
(* Types *)

ReqType ==
  /\ req \in [Requests -> RequestState]
  /\ \A r \in Requests : WellFormed(req[r])

TableType ==
  /\ last_id \in Nat
  /\ DOMAIN sessions \subseteq 1..last_id
  /\ sessions \in [DOMAIN sessions -> Row]

\* Deleting rows leaves a table with keys already given.
LEMMA DeleteType ==
  ASSUME TypeOK, NEW ids, delete(ids), UNCHANGED last_id
  PROVE  TableType'
  BY DEF TypeOK, delete, TableType

\* A key the database gives to a new row is the next one or an earlier one.
LEMMA NewIdType ==
  ASSUME TypeOK, NEW id \in NewIds
  PROVE  id \in 1..(last_id + 1)
  BY DEF TypeOK, NewIds, AfterLargest

\* Inserting a row under such a key leaves a table.
LEMMA CreateType ==
  ASSUME TypeOK, NEW id \in NewIds, NEW row \in Row, create(id, row)
  PROVE  TableType'
  BY NewIdType DEF TypeOK, create, TableType

\* One request moves to a well-formed state.
LEMMA MoveType ==
  ASSUME TypeOK, NEW r \in Requests, NEW state \in RequestState,
         WellFormed(state), req' = [req EXCEPT ![r] = state]
  PROVE  ReqType'
  BY DEF TypeOK, ReqType

\* Answering leaves well-formed requests.
LEMMA AnswerType ==
  ASSUME TypeOK, NEW r \in Requests, NEW u, u \in Users \/ u = req[r].user,
         NEW reply \in Replies, AnswerFor(r, u, reply)
  PROVE  ReqType'
  <1> DEFINE state == [Idle EXCEPT !.pc = "answer", !.op = req[r].op,
                         !.cookie = req[r].cookie, !.user = u, !.reply = reply]
  <1>1. req[r] \in RequestState /\ WellFormed(req[r])
    BY DEF TypeOK
  <1>2. state \in RequestState /\ WellFormed(state)
    BY <1>1 DEF RequestState, Idle, WellFormed
  <1> QED
    BY <1>2, MoveType DEF AnswerFor

\* So does going on with the row that was found.
LEMMA GotoType ==
  ASSUME TypeOK, NEW r \in Requests, NEW id \in DOMAIN sessions,
         NEW step \in DatabaseSteps \ {"insert"}, Goto(r, step, id)
  PROVE  ReqType'
  <1> DEFINE state == [req[r] EXCEPT !.pc = step, !.row_id = id]
  <1>1. req[r] \in RequestState /\ WellFormed(req[r]) /\ id \in Nat
    BY DEF TypeOK
  <1>2. state \in RequestState /\ WellFormed(state)
    BY <1>1 DEF RequestState, WellFormed
  <1> QED
    BY <1>2, MoveType DEF Goto

\* A request that begins in a well-formed state leaves the service well formed.
LEMMA BeginType ==
  ASSUME TypeOK, NEW r \in Requests, NEW state \in RequestState, Begin(r, state),
         WellFormed(state)
  PROVE  TypeOK'
  <1>1. LiveTokens \subseteq Tokens
    BY DEF TypeOK, LiveTokens, Row
  <1> QED
    BY <1>1 DEF TypeOK, Begin

\* When requests end or die, what is left is well formed.
LEMMA ReleaseType ==
  ASSUME TypeOK, NEW R \in SUBSET Requests, Release(R), held' \subseteq Tokens
  PROVE  TypeOK'
  <1>1. Idle \in RequestState /\ WellFormed(Idle)
    BY DEF Idle, RequestState, WellFormed
  <1> QED
    BY <1>1 DEF Release, TypeOK

\* Every step leaves a well-formed service well formed.
LEMMA TypeStep ==
  ASSUME TypeOK, [Next]_vars
  PROVE  TypeOK'
  <1>1. ASSUME NEW r \in Requests, Ask(r) PROVE TypeOK'
    <2>1. ASSUME NEW c \in Presentable \cup {NoCookie}, AskLogout(r, c)
          PROVE  TypeOK'
      BY <2>1, BeginType
      DEF AskLogout, Presentable, TypeOK, Idle, RequestState, DatabaseSteps,
          Operations, Replies, WellFormed, Lookups
    <2>2. ASSUME NEW c \in Presentable \cup {NoCookie}, NEW o \in Lookups,
                 AskLookup(r, o, c)
          PROVE  TypeOK'
      BY <2>2, BeginType
      DEF AskLookup, Presentable, TypeOK, Idle, RequestState, DatabaseSteps,
          Operations, Replies, WellFormed, Lookups
    <2>3. ASSUME NEW u \in Users, NEW t \in Tokens, AskLogin(r, u, t)
          PROVE  TypeOK'
      BY <2>3, BeginType
      DEF AskLogin, TypeOK, Idle, RequestState, DatabaseSteps, Operations,
          WellFormed
    <2> QED
      BY <1>1, <2>1, <2>2, <2>3 DEF Ask
  <1>2. ASSUME NEW r \in Requests, Serve(r) PROVE TypeOK'
    <2>0. req[r] \in RequestState /\ WellFormed(req[r])
      BY DEF TypeOK
    <2>1. CASE Insert(r)
      <3>1. PICK id \in NewIds :
              create(id, [token        |-> req[r].cookie,
                          user         |-> req[r].user,
                          created_at   |-> req[r].now,
                          expires_at   |-> absolute_expiry(req[r].now),
                          last_used_at |-> req[r].now])
        BY <2>1 DEF Insert
      <3>2. /\ req[r].cookie \in Tokens
            /\ req[r].user \in Users
            /\ req[r].now \in Nat
        BY <2>0, <2>1 DEF Insert, At, RequestState, WellFormed
      <3>3. TableType'
        BY <3>1, <3>2, CreateType DEF Row, absolute_expiry
      <3>4. ReqType'
        BY <2>1, <3>2, AnswerType DEF Insert, Answer, Replies
      <3> QED
        BY <2>1, <3>2, <3>3, <3>4 DEF Insert, TypeOK, TableType, ReqType
    <2>2. CASE SelectRow(r)
      <3>1. CASE Answer(r, "unauthorized")
        BY <2>0, <2>2, <3>1, AnswerType
        DEF SelectRow, Answer, RequestState, Replies, TypeOK, ReqType
      <3>2. ASSUME NEW i \in DOMAIN sessions, NEW step \in {"purge", "slide"},
                   Goto(r, step, i)
            PROVE  TypeOK'
        BY <2>2, <3>2, GotoType
        DEF SelectRow, DatabaseSteps, TypeOK, ReqType
      <3> QED
        BY <2>2, <3>1, <3>2 DEF SelectRow, get_by_token_hash
    <2>3. CASE Purge(r)
      BY <2>0, <2>3, DeleteType, AnswerType
      DEF Purge, Answer, RequestState, Replies, TypeOK, ReqType, TableType
    <2>4. CASE Slide(r)
      <3>1. CASE req[r].row_id \in DOMAIN sessions
        <4>1. req[r].now \in Nat
          BY <2>0 DEF RequestState
        <4>2. TableType'
          BY <2>4, <3>1, <4>1 DEF Slide, TypeOK, TableType, Row
        <4>3. ReqType'
          <5> DEFINE state == [req[r] EXCEPT !.pc = "reload"]
          <5>1. state \in RequestState /\ WellFormed(state)
            BY <2>0 DEF RequestState, DatabaseSteps, WellFormed
          <5> QED
            BY <2>4, <3>1, <5>1, MoveType DEF Slide
        <4> QED
          BY <2>4, <3>1, <4>1, <4>2, <4>3 DEF Slide, TypeOK, TableType, ReqType
      <3>2. CASE req[r].row_id \notin DOMAIN sessions
        BY <2>0, <2>4, <3>2, AnswerType
        DEF Slide, Answer, RequestState, Replies, TypeOK, ReqType
      <3> QED
        BY <3>1, <3>2
    <2>5. CASE Reload(r)
      <3> DEFINE u == sessions[req[r].row_id].user
                 state == [req[r] EXCEPT !.user = u, !.pc = "delete_all"]
      <3>1. CASE req[r].row_id \notin DOMAIN sessions
        BY <2>0, <2>5, <3>1, AnswerType
        DEF Reload, Answer, RequestState, Replies, TypeOK, ReqType
      <3>2. CASE req[r].row_id \in DOMAIN sessions
        <4>1. u \in Users
          BY <3>2 DEF TypeOK, Row
        <4>2. state \in RequestState /\ WellFormed(state)
          BY <2>0, <4>1 DEF RequestState, DatabaseSteps, WellFormed
        <4>3. CASE req[r].op = "me"
          BY <2>5, <3>2, <4>1, <4>3, AnswerType
          DEF Reload, Replies, TypeOK, ReqType
        <4>4. CASE req[r].op # "me"
          <5>1. req' = [req EXCEPT ![r] = state]
            BY <2>0, <2>5, <3>2, <4>4 DEF Reload, TypeOK, RequestState
          <5>2. ReqType'
            BY <4>2, <5>1, MoveType
          <5> QED
            BY <2>5, <5>2 DEF Reload, TypeOK, ReqType
        <4> QED
          BY <4>3, <4>4
      <3> QED
        BY <3>1, <3>2
    <2>6. CASE DeleteAll(r)
      BY <2>0, <2>6, DeleteType, AnswerType
      DEF DeleteAll, Answer, RequestState, Replies, TypeOK, ReqType, TableType
    <2>7. CASE FindRow(r)
      <3>1. CASE Answer(r, "ok")
        BY <2>0, <2>7, <3>1, AnswerType
        DEF FindRow, Answer, RequestState, Replies, TypeOK, ReqType
      <3>2. ASSUME NEW i \in DOMAIN sessions, Goto(r, "delete", i)
            PROVE  TypeOK'
        BY <2>7, <3>2, GotoType
        DEF FindRow, DatabaseSteps, TypeOK, ReqType
      <3> QED
        BY <2>7, <3>1, <3>2 DEF FindRow, get_by_token_hash
    <2>8. CASE DeleteRow(r)
      BY <2>0, <2>8, DeleteType, AnswerType
      DEF DeleteRow, Answer, RequestState, Replies, TypeOK, ReqType, TableType
    <2> QED
      BY <1>2, <2>1, <2>2, <2>3, <2>4, <2>5, <2>6, <2>7, <2>8 DEF Serve
  <1>3. ASSUME NEW r \in Requests, DatabaseError(r) PROVE TypeOK'
    <2> QED
      BY <1>3, AnswerType
      DEF DatabaseError, Answer, Replies, TypeOK, ReqType
  <1>4. ASSUME NEW r \in Requests, Reply(r) PROVE TypeOK'
    <2>1. CASE LoseAnswer(r)
      BY <2>1, ReleaseType DEF LoseAnswer, TypeOK
    <2>2. CASE Deliver(r)
      <3>1. req[r].op = "login" => req[r].cookie \in Tokens
        BY DEF TypeOK, WellFormed
      <3> QED
        BY <2>2, <3>1, ReleaseType DEF Deliver, TypeOK
    <2> QED
      BY <1>4, <2>1, <2>2 DEF Reply
  <1>5. CASE Crash
    BY ReleaseType, <1>5 DEF Crash, TypeOK
  <1>6. CASE Tick
    BY <1>6 DEF Tick, TypeOK
  <1>7. CASE UNCHANGED vars
    BY <1>7 DEF vars, TypeOK
  <1> QED
    BY <1>1, <1>2, <1>3, <1>4, <1>5, <1>6, <1>7 DEF Next

LEMMA TypeStart ==
  ASSUME Init
  PROVE  TypeOK
  BY DEF Init, TypeOK, Idle, RequestState, WellFormed

\* Type correctness: every reachable state of the service is well formed, with
\* either way of giving row keys.
THEOREM TypeCorrect == Spec => []TypeOK
  BY TypeStart, TypeStep, PTL DEF Spec

-----------------------------------------------------------------------------
(* Identity: a table whose keys are never reused *)

\* What a request knows depends on the table only through the rows behind
\* keys already given, which may lose rows but never change their tokens.
LEMMA RequestInvStable ==
  ASSUME TypeOK, NEW q, RequestInv(q),
         last_id' >= last_id, last_id' \in Nat,
         \A i \in DOMAIN sessions' :
           \/ i \in DOMAIN sessions /\ sessions'[i].token = sessions[i].token
           \/ i > last_id,
         q.pc # "insert" \/ owner'[q.cookie] = owner[q.cookie],
         \A t \in Tokens : Issued(t) => owner'[t] = owner[t],
         q.op = "login" => q.cookie \in Tokens
  PROVE  RequestInv(q)'
  BY DEF RequestInv, ControlInv, KeyMeansCookie, LoginToken, ResolvedUser,
         Issued, TypeOK

\* One request moves on and the rows, if they change, only lose members or
\* move their last_used_at.
LEMMA MoveInv ==
  ASSUME TypeOK, IdentityInv, NEW r \in Requests, NEW state,
         req' = [req EXCEPT ![r] = state],
         UNCHANGED <<last_id, held, owner>>,
         DOMAIN sessions' \subseteq DOMAIN sessions,
         \A i \in DOMAIN sessions' : /\ sessions'[i].token = sessions[i].token
                                     /\ sessions'[i].user = sessions[i].user,
         state.cookie = req[r].cookie, state.pc # "insert", RequestInv(state)'
  PROVE  IdentityInv'
  <1>1. TableInv'
    BY DEF IdentityInv, TableInv
  <1>2. FreshTokens'
    BY DEF IdentityInv, FreshTokens, At, TypeOK, Issued
  <1>3. ASSUME NEW q \in Requests PROVE RequestInv(req[q])'
    <2>1. CASE q = r
      BY <2>1 DEF TypeOK
    <2>2. CASE q # r
      <3>1. req'[q] = req[q] /\ RequestInv(req[q]) /\ WellFormed(req[q])
        BY <2>2 DEF TypeOK, IdentityInv
      <3>2. RequestInv(req[q])'
        BY <3>1 DEF TypeOK, WellFormed, RequestInv, ControlInv, KeyMeansCookie,
                    LoginToken, ResolvedUser, Issued
      <3> QED
        BY <3>2
    <2> QED
      BY <2>1, <2>2
  <1> QED
    BY <1>1, <1>2, <1>3 DEF IdentityInv

\* A request begins: with no cookie, an unknown one, a token a client holds,
\* or (a login) a token nobody has.
LEMMA BeginInv ==
  ASSUME TypeOK, IdentityInv, NEW r \in Requests, NEW state, Begin(r, state),
         RequestInv(state),
         \/ state.pc # "insert" /\ state.cookie \in Presentable \cup {NoCookie}
         \/ /\ state.cookie \in Tokens /\ ~Issued(state.cookie)
            /\ \A q \in Requests : req[q].cookie # state.cookie
  PROVE  IdentityInv'
  <1>1. TableInv'
    BY DEF IdentityInv, TableInv, Begin
  <1>2. FreshTokens'
    <2>1. \A t \in held : Issued(t) /\ Issued(t)'
      BY DEF IdentityInv, FreshTokens, Begin, Issued
    <2>2. ASSUME NEW a \in Requests, NEW b \in Requests, a # b, At(a, "insert")'
          PROVE  req'[a].cookie # req'[b].cookie
      <3>1. CASE a # r /\ b # r
        BY <2>2, <3>1 DEF IdentityInv, FreshTokens, Begin, TypeOK, At
      <3>2. CASE a = r
        BY <2>2, <3>2 DEF Begin, TypeOK, At
      <3>3. CASE b = r /\ a # r
        <4>1. req'[a] = req[a] /\ req'[b] = state
          BY <3>3 DEF Begin, TypeOK
        <4>2. req[a].cookie \in Tokens /\ ~Issued(req[a].cookie)
          BY <2>2, <4>1
          DEF At, TypeOK, WellFormed, IdentityInv, RequestInv, LoginToken
        <4> QED
          BY <2>1, <4>1, <4>2 DEF Presentable
      <3> QED
        BY <3>1, <3>2, <3>3
    <2> QED
      BY <2>1, <2>2 DEF FreshTokens, Begin
  <1>3. ASSUME NEW q \in Requests PROVE RequestInv(req[q])'
    <2>1. RequestInv(req'[q])
      BY DEF Begin, TypeOK, IdentityInv
    <2> QED
      BY <2>1 DEF Begin, RequestInv, ControlInv, KeyMeansCookie, LoginToken,
                  ResolvedUser, Issued
  <1> QED
    BY <1>1, <1>2, <1>3 DEF IdentityInv

\* The answered state a handler leaves.
Answering(q, u, reply) ==
  [Idle EXCEPT !.pc = "answer", !.op = q.op, !.cookie = q.cookie, !.user = u,
               !.reply = reply]

\* A request that answers leaves the invariant, if its answer is sound.
LEMMA AnswerInv ==
  ASSUME TypeOK, IdentityInv, NEW r \in Requests, NEW u, NEW reply \in Replies,
         AnswerFor(r, u, reply),
         UNCHANGED <<last_id, held, owner>>,
         DOMAIN sessions' \subseteq DOMAIN sessions,
         \A i \in DOMAIN sessions' : /\ sessions'[i].token = sessions[i].token
                                     /\ sessions'[i].user = sessions[i].user,
         reply = "ok" =>
           /\ req[r].op # "login"
           /\ req[r].op \in Lookups =>
                /\ req[r].cookie \in Tokens
                /\ Issued(req[r].cookie)
                /\ u = owner[req[r].cookie]
  PROVE  IdentityInv'
  <1>0. PICK state : state = Answering(req[r], u, reply)
    OBVIOUS
  <1>1. req' = [req EXCEPT ![r] = state]
    BY <1>0 DEF AnswerFor, Answering
  <1>2. /\ state.pc = "answer" /\ state.op = req[r].op /\ state.user = u
        /\ state.cookie = req[r].cookie /\ state.reply = reply
    BY <1>0 DEF Answering, Idle
  <1>3. RequestInv(state)'
    BY <1>2 DEF RequestInv, ControlInv, KeyMeansCookie, LoginToken,
                ResolvedUser, Issued, Replies
  <1> QED
    BY <1>1, <1>2, <1>3, MoveInv

\* The INSERT of a login: its row has a key never given before.
LEMMA InsertInv ==
  ASSUME ~ReuseRowIds, TypeOK, IdentityInv, NEW r \in Requests, Insert(r)
  PROVE  IdentityInv'
  <1>1. PICK row \in Row, cookie \in Tokens, u \in Users :
          /\ cookie = req[r].cookie /\ u = req[r].user
          /\ row.token = cookie /\ row.user = u
          /\ create(last_id + 1, row)
    <2>1. /\ req[r].cookie \in Tokens /\ req[r].user \in Users
          /\ req[r].now \in Nat
      BY DEF Insert, At, TypeOK, WellFormed, RequestState
    <2> QED
      BY <2>1 DEF Insert, NewIds, Row, absolute_expiry
  <1>2. /\ ~Issued(cookie)
        /\ \A q \in Requests \ {r} : req[q].cookie # cookie
    BY <1>1 DEF IdentityInv, RequestInv, LoginToken, FreshTokens, Insert, At
  <1>3. /\ owner' = [owner EXCEPT ![cookie] = u]
        /\ last_id' = last_id + 1
        /\ DOMAIN sessions' = DOMAIN sessions \cup {last_id + 1}
        /\ sessions'[last_id + 1] = row
        /\ \A i \in DOMAIN sessions : sessions'[i] = sessions[i]
    BY <1>1 DEF Insert, create, TypeOK
  <1>4. \A i \in DOMAIN sessions : /\ sessions[i].token \in Tokens
                                   /\ sessions[i].token # cookie
    BY <1>2 DEF TypeOK, Row, IdentityInv, TableInv, Issued
  <1>5. TableInv'
    BY <1>1, <1>3, <1>4 DEF TableInv, IdentityInv, TypeOK
  <1>6. /\ req'[r].pc = "answer" /\ req'[r].cookie = cookie
        /\ \A q \in Requests \ {r} : req'[q] = req[q]
    BY <1>1 DEF Insert, Answer, AnswerFor, Idle, TypeOK
  <1>7. FreshTokens'
    BY <1>1, <1>2, <1>3, <1>6
    DEF FreshTokens, IdentityInv, Issued, TypeOK, Insert, At, WellFormed
  <1>8. ASSUME NEW q \in Requests PROVE RequestInv(req[q])'
    <2>1. CASE q = r
      <3>1. PICK s : s = req'[r]
        OBVIOUS
      <3>2. /\ s.pc = "answer" /\ s.op = "login" /\ s.cookie = cookie
            /\ s.reply = "ok"
        BY <1>1, <3>1 DEF Insert, Answer, AnswerFor, Idle, TypeOK, WellFormed, At
      <3>3. RequestInv(s)'
        BY <1>3, <3>2
        DEF RequestInv, ControlInv, KeyMeansCookie, LoginToken, ResolvedUser,
            Issued, Lookups, TypeOK
      <3> QED
        BY <2>1, <3>1, <3>3
    <2>2. CASE q # r
      <3>1. PICK s : s = req[q]
        OBVIOUS
      <3>2. RequestInv(s) /\ (s.op = "login" => s.cookie \in Tokens)
        BY <3>1 DEF IdentityInv, TypeOK, WellFormed
      <3>3. owner'[s.cookie] = owner[s.cookie]
        BY <1>2, <1>3, <2>2, <3>1 DEF TypeOK
      <3>4. \A t \in Tokens : Issued(t) => owner'[t] = owner[t]
        BY <1>2, <1>3 DEF TypeOK, Issued
      <3>5. RequestInv(s)'
        BY <1>3, <3>2, <3>3, <3>4, RequestInvStable DEF TypeOK
      <3> QED
        BY <1>6, <2>2, <3>1, <3>5
    <2> QED
      BY <2>1, <2>2
  <1> QED
    BY <1>5, <1>7, <1>8 DEF IdentityInv

\* Deleting rows changes nothing in those that stay.
LEMMA DeleteKeeps ==
  ASSUME NEW ids, delete(ids)
  PROVE  /\ DOMAIN sessions' \subseteq DOMAIN sessions
         /\ \A i \in DOMAIN sessions' : /\ sessions'[i].token = sessions[i].token
                                        /\ sessions'[i].user = sessions[i].user
  BY DEF delete

\* Requests go back to idle.
LEMMA ReleaseInv ==
  ASSUME TypeOK, IdentityInv, NEW R \in SUBSET Requests, Release(R),
         \A t \in held' : Issued(t)
  PROVE  IdentityInv'
  <1>1. TableInv'
    BY DEF IdentityInv, TableInv, Release
  <1>2. FreshTokens'
    <2>1. \A q \in Requests : req'[q] = req[q] \/ req'[q] = Idle
      BY DEF Release
    <2>2. Idle.pc # "insert" /\ Idle.cookie = NoCookie
      BY DEF Idle
    <2> QED
      BY <2>1, <2>2
      DEF IdentityInv, FreshTokens, Release, Issued, At, TypeOK, WellFormed
  <1>3. ASSUME NEW q \in Requests PROVE RequestInv(req[q])'
    <2>1. PICK s : s = req'[q]
      OBVIOUS
    <2>2. RequestInv(s)
      BY <2>1 DEF Release, IdentityInv, RequestInv, ControlInv, KeyMeansCookie,
                  LoginToken, ResolvedUser, Idle, Lookups
    <2>3. RequestInv(s)'
      BY <2>2 DEF Release, RequestInv, ControlInv, KeyMeansCookie, LoginToken,
                  ResolvedUser, Issued
    <2> QED
      BY <2>1, <2>3
  <1> QED
    BY <1>1, <1>2, <1>3 DEF IdentityInv

\* Every step of a service with unique keys keeps the invariant.
LEMMA IdentityStep ==
  ASSUME ~ReuseRowIds, TypeOK, IdentityInv, [Next]_vars
  PROVE  IdentityInv'
  <1>0. NoCookie \notin held
    BY DEF TypeOK
  <1>1. ASSUME NEW r \in Requests, Ask(r) PROVE IdentityInv'
    <2>1. ASSUME NEW c \in Presentable \cup {NoCookie}, AskLogout(r, c)
          PROVE  IdentityInv'
      <3>1. PICK state :
              state = IF c = NoCookie
                      THEN [Idle EXCEPT !.pc = "answer", !.op = "logout", !.reply = "ok"]
                      ELSE [Idle EXCEPT !.pc = "find", !.op = "logout", !.cookie = c]
        OBVIOUS
      <3>2. RequestInv(state) /\ state.pc # "insert" /\ state.cookie = c
        BY <3>1 DEF Idle, RequestInv, ControlInv, KeyMeansCookie, LoginToken,
                    ResolvedUser, Lookups
      <3> QED
        BY <2>1, <3>1, <3>2, BeginInv DEF AskLogout
    <2>2. ASSUME NEW c \in Presentable \cup {NoCookie}, NEW o \in Lookups,
                 AskLookup(r, o, c)
          PROVE  IdentityInv'
      <3>1. PICK state :
              state = IF c = NoCookie
                      THEN [Idle EXCEPT !.pc = "answer", !.op = o,
                                        !.reply = "unauthorized"]
                      ELSE [Idle EXCEPT !.pc = "select", !.op = o,
                                        !.cookie = c, !.now = clock]
        OBVIOUS
      <3>2. RequestInv(state) /\ state.pc # "insert" /\ state.cookie = c
        BY <3>1 DEF Idle, RequestInv, ControlInv, KeyMeansCookie, LoginToken,
                    ResolvedUser, Lookups
      <3> QED
        BY <2>2, <3>1, <3>2, BeginInv DEF AskLookup
    <2>3. ASSUME NEW u \in Users, NEW t \in Tokens, AskLogin(r, u, t)
          PROVE  IdentityInv'
      <3>1. PICK state :
              state = [Idle EXCEPT !.pc = "insert", !.op = "login", !.cookie = t,
                                   !.now = clock, !.user = u]
        OBVIOUS
      <3>2. RequestInv(state) /\ state.cookie = t
        BY <2>3, <3>1 DEF AskLogin, Idle, RequestInv, ControlInv, KeyMeansCookie,
                          LoginToken, ResolvedUser, Lookups
      <3> QED
        BY <2>3, <3>1, <3>2, BeginInv DEF AskLogin
    <2> QED
      BY <1>1, <2>1, <2>2, <2>3 DEF Ask
  <1>2. ASSUME NEW r \in Requests, Serve(r) PROVE IdentityInv'
    <2>0. RequestInv(req[r]) /\ WellFormed(req[r]) /\ req[r] \in RequestState
      BY DEF IdentityInv, TypeOK
    <2>1. CASE Insert(r)
      BY <2>1, InsertInv
    <2>2. CASE SelectRow(r)
      <3>1. req[r].op \in Lookups /\ req[r].cookie # NoCookie /\ req[r].user = NoUser
        BY <2>0, <2>2 DEF SelectRow, At, RequestInv, ControlInv
      <3>2. CASE Answer(r, "unauthorized")
        BY <2>2, <3>2, AnswerInv DEF SelectRow, Answer, Replies
      <3>3. ASSUME NEW i \in get_by_token_hash(req[r].cookie),
                   NEW step \in {"purge", "slide"}, Goto(r, step, i)
            PROVE  IdentityInv'
        <4>1. PICK state : state = [req[r] EXCEPT !.pc = step, !.row_id = i]
          OBVIOUS
        <4>2. /\ state.pc = step /\ state.row_id = i /\ state.op = req[r].op
              /\ state.cookie = req[r].cookie /\ state.user = req[r].user
              /\ state.reply = req[r].reply
          BY <2>0, <4>1 DEF RequestState
        <4>3. /\ i \in 1..last_id /\ sessions[i].token = req[r].cookie
              /\ req[r].cookie \in Tokens /\ Issued(req[r].cookie)
          BY DEF get_by_token_hash, TypeOK, Row, IdentityInv, TableInv, Issued
        <4>4. RequestInv(state)'
          BY <2>0, <2>2, <3>1, <4>2, <4>3
          DEF SelectRow, At, RequestInv, ControlInv, KeyMeansCookie,
              LoginToken, ResolvedUser, Issued, Lookups
        <4> QED
          BY <2>2, <3>3, <4>1, <4>2, <4>4, MoveInv DEF SelectRow, Goto
      <3> QED
        BY <2>2, <3>2, <3>3 DEF SelectRow
    <2>3. CASE Purge(r)
      BY <2>3, AnswerInv, DeleteKeeps DEF Purge, Answer, Replies
    <2>4. CASE Slide(r)
      <3>1. CASE req[r].row_id \in DOMAIN sessions
        <4>1. PICK state : state = [req[r] EXCEPT !.pc = "reload"]
          OBVIOUS
        <4>2. /\ state.pc = "reload" /\ state.row_id = req[r].row_id
              /\ state.op = req[r].op /\ state.cookie = req[r].cookie
              /\ state.user = req[r].user /\ state.reply = req[r].reply
          BY <2>0, <4>1 DEF RequestState
        <4>3. /\ req' = [req EXCEPT ![r] = state]
              /\ DOMAIN sessions' = DOMAIN sessions
              /\ \A i \in DOMAIN sessions : /\ sessions'[i].token = sessions[i].token
                                            /\ sessions'[i].user = sessions[i].user
          BY <2>4, <3>1, <4>1 DEF Slide, TypeOK, Row
        <4>4. RequestInv(state)'
          BY <2>0, <2>4, <4>2, <4>3
          DEF Slide, At, RequestInv, ControlInv, KeyMeansCookie, LoginToken,
              ResolvedUser, Issued, Lookups
        <4> QED
          BY <2>4, <4>2, <4>3, <4>4, MoveInv DEF Slide
      <3>2. CASE req[r].row_id \notin DOMAIN sessions
        BY <2>4, <3>2, AnswerInv DEF Slide, Answer, Replies
      <3> QED
        BY <3>1, <3>2
    <2>5. CASE Reload(r)
      <3>1. CASE req[r].row_id \notin DOMAIN sessions
        BY <2>5, <3>1, AnswerInv DEF Reload, Answer, Replies
      <3>2. CASE req[r].row_id \in DOMAIN sessions
        <4>1. PICK u : u = sessions[req[r].row_id].user
          OBVIOUS
        <4>2. /\ req[r].op \in Lookups /\ req[r].reply = "none"
              /\ req[r].cookie \in Tokens /\ Issued(req[r].cookie)
              /\ u = owner[req[r].cookie]
          BY <2>0, <2>5, <3>2, <4>1
          DEF Reload, At, RequestInv, ControlInv, KeyMeansCookie, IdentityInv, TableInv
        <4>3. CASE req[r].op = "me"
          BY <2>5, <3>2, <4>1, <4>2, <4>3, AnswerInv
          DEF Reload, Replies, Lookups
        <4>4. CASE req[r].op # "me"
          <5>1. PICK state : state = [req[r] EXCEPT !.user = u, !.pc = "delete_all"]
            OBVIOUS
          <5>2. /\ state.pc = "delete_all" /\ state.op = "logout_all"
                /\ state.cookie = req[r].cookie /\ state.user = u
                /\ state.reply = "none"
            BY <2>0, <4>2, <4>4, <5>1 DEF RequestState, Lookups
          <5>3. req' = [req EXCEPT ![r] = state]
            BY <2>0, <2>5, <3>2, <4>1, <4>4, <5>1 DEF Reload, TypeOK, RequestState
          <5>4. RequestInv(state)'
            BY <2>5, <4>2, <5>2
            DEF Reload, RequestInv, ControlInv, KeyMeansCookie,
                LoginToken, ResolvedUser, Issued, Lookups
          <5> QED
            BY <2>5, <5>2, <5>3, <5>4, MoveInv DEF Reload
        <4> QED
          BY <4>3, <4>4
      <3> QED
        BY <3>1, <3>2
    <2>6. CASE DeleteAll(r)
      <3>1. /\ req[r].op = "logout_all" /\ req[r].cookie \in Tokens
            /\ Issued(req[r].cookie) /\ req[r].user = owner[req[r].cookie]
        BY <2>0, <2>6
        DEF DeleteAll, At, RequestInv, ControlInv, ResolvedUser, Lookups
      <3> QED
        BY <2>6, <3>1, AnswerInv, DeleteKeeps DEF DeleteAll, Answer, Replies
    <2>7. CASE FindRow(r)
      <3>1. req[r].op = "logout" /\ req[r].cookie # NoCookie /\ req[r].user = NoUser
        BY <2>0, <2>7 DEF FindRow, At, RequestInv, ControlInv
      <3>2. CASE Answer(r, "ok")
        BY <2>7, <3>1, <3>2, AnswerInv DEF FindRow, Answer, Replies, Lookups
      <3>3. ASSUME NEW i \in get_by_token_hash(req[r].cookie), Goto(r, "delete", i)
            PROVE  IdentityInv'
        <4>1. PICK state : state = [req[r] EXCEPT !.pc = "delete", !.row_id = i]
          OBVIOUS
        <4>2. /\ state.pc = "delete" /\ state.row_id = i /\ state.op = req[r].op
              /\ state.cookie = req[r].cookie /\ state.user = req[r].user
              /\ state.reply = req[r].reply
          BY <2>0, <4>1 DEF RequestState
        <4>3. /\ i \in 1..last_id /\ sessions[i].token = req[r].cookie
              /\ req[r].cookie \in Tokens /\ Issued(req[r].cookie)
          BY DEF get_by_token_hash, TypeOK, Row, IdentityInv, TableInv, Issued
        <4>4. RequestInv(state)'
          BY <2>0, <2>7, <3>1, <4>2, <4>3
          DEF FindRow, At, RequestInv, ControlInv, KeyMeansCookie,
              LoginToken, ResolvedUser, Issued, Lookups
        <4> QED
          BY <2>7, <3>3, <4>1, <4>2, <4>4, MoveInv DEF FindRow, Goto
      <3> QED
        BY <2>7, <3>2, <3>3 DEF FindRow
    <2>8. CASE DeleteRow(r)
      <3>1. req[r].op = "logout"
        BY <2>0, <2>8 DEF DeleteRow, At, RequestInv, ControlInv
      <3> QED
        BY <2>8, <3>1, AnswerInv, DeleteKeeps
        DEF DeleteRow, Answer, Replies, Lookups
    <2> QED
      BY <1>2, <2>1, <2>2, <2>3, <2>4, <2>5, <2>6, <2>7, <2>8 DEF Serve
  <1>3. ASSUME NEW r \in Requests, DatabaseError(r) PROVE IdentityInv'
    BY <1>3, AnswerInv DEF DatabaseError, Answer, Replies
  <1>4. ASSUME NEW r \in Requests, Reply(r) PROVE IdentityInv'
    <2>1. \A t \in held' : Issued(t)
      BY <1>4 DEF Reply, Deliver, LoseAnswer, IdentityInv, FreshTokens, RequestInv,
                  LoginToken
    <2> QED
      BY <1>4, <2>1, ReleaseInv DEF Reply, Deliver, LoseAnswer
  <1>5. CASE Crash
    BY <1>5, ReleaseInv DEF Crash, IdentityInv, FreshTokens
  <1>6. CASE Tick \/ UNCHANGED vars
    BY <1>6 DEF Tick, vars, IdentityInv, TableInv, FreshTokens, RequestInv,
                ControlInv, KeyMeansCookie, LoginToken, ResolvedUser, Issued, At
  <1> QED
    BY <1>1, <1>2, <1>3, <1>4, <1>5, <1>6 DEF Next

LEMMA IdentityStart ==
  ASSUME Init
  PROVE  IdentityInv
  BY DEF Init, IdentityInv, TableInv, FreshTokens, RequestInv, ControlInv, At,
         KeyMeansCookie, LoginToken, ResolvedUser, Idle, Lookups

\* With unique row keys, rows, keys in flight and cookies always agree.
THEOREM IdentityHolds ==
  ASSUME ~ReuseRowIds
  PROVE  Spec => [](TypeOK /\ IdentityInv)
  BY IdentityStart, IdentityStep, TypeCorrect, PTL DEF Spec

\* The user a request runs as is the one its cookie was created for, whatever
\* is revoked and created while it is being resolved.
THEOREM GrantedToOwnerHolds ==
  ASSUME ~ReuseRowIds
  PROVE  Spec => []GrantedToOwner
  <1>1. IdentityInv => GrantedToOwner
    BY DEF IdentityInv, RequestInv, ResolvedUser, GrantedToOwner, Granted, Answered
  <1> QED
    BY <1>1, IdentityHolds, PTL

-----------------------------------------------------------------------------
(* Whose sessions end *)

\* A deletion by key ends the session of the request's own cookie, and no other.
LEMMA DeleteByKey ==
  ASSUME TypeOK, IdentityInv, NEW r \in Requests, req[r].pc \in {"purge", "delete"},
         delete({req[r].row_id}), NEW t \in Tokens, Live(t), ~Live(t)'
  PROVE  t = req[r].cookie
  <1>1. PICK i \in DOMAIN sessions : sessions[i].token = t
    BY DEF Live, LiveTokens
  <1>2. i = req[r].row_id
    BY <1>1 DEF delete, Live, LiveTokens
  <1> QED
    BY <1>1, <1>2 DEF IdentityInv, RequestInv, KeyMeansCookie

\* A session ends only on a request of its own user: no deletion reaches a
\* row that took the key of the one the request had loaded.
THEOREM EndedByItsUserHolds ==
  ASSUME ~ReuseRowIds
  PROVE  Spec => EndedByItsUser
  <1> DEFINE ByItsUser(t) ==
        \E r \in Requests :
          /\ req[r].pc # req'[r].pc
          /\ \/ req[r].cookie = t
             \/ /\ req[r].op = "logout_all"
                /\ owner[req[r].cookie] = owner[t]
  <1>1. ASSUME TypeOK, IdentityInv, [Next]_vars, NEW t \in Tokens, Live(t), ~Live(t)'
        PROVE  ByItsUser(t)
    <2>1. CASE UNCHANGED sessions
      BY <1>1, <2>1 DEF Live, LiveTokens
    <2>2. ASSUME NEW r \in Requests, Insert(r) PROVE FALSE
      <3>1. PICK id \in NewIds : \E row : create(id, row)
        BY <2>2 DEF Insert
      <3>2. id \notin DOMAIN sessions
        BY <3>1, <1>1 DEF NewIds, TypeOK
      <3> QED
        BY <1>1, <3>1, <3>2 DEF create, Live, LiveTokens
    <2>3. ASSUME NEW r \in Requests, Purge(r) \/ DeleteRow(r) PROVE ByItsUser(t)
      <3>1. req[r].cookie = t
        BY <1>1, <2>3, DeleteByKey DEF Purge, DeleteRow, At
      <3>2. req[r].pc # req'[r].pc
        <4>1. req[r].pc # "answer"
          BY <2>3 DEF Purge, DeleteRow, At
        <4>2. \E u, reply : AnswerFor(r, u, reply)
          BY <2>3 DEF Purge, DeleteRow, Answer
        <4> QED
          BY <1>1, <4>1, <4>2 DEF AnswerFor, Idle, TypeOK
      <3> QED
        BY <3>1, <3>2
    <2>4. ASSUME NEW r \in Requests, Slide(r) PROVE FALSE
      <3>1. /\ DOMAIN sessions' = DOMAIN sessions
            /\ \A i \in DOMAIN sessions : sessions'[i].token = sessions[i].token
        BY <1>1, <2>4 DEF Slide, TypeOK, Row
      <3> QED
        BY <1>1, <3>1 DEF Live, LiveTokens
    <2>5. ASSUME NEW r \in Requests, DeleteAll(r) PROVE ByItsUser(t)
      <3>1. PICK i \in DOMAIN sessions : sessions[i].token = t
        BY <1>1 DEF Live, LiveTokens
      <3>2. sessions[i].user = req[r].user
        BY <1>1, <2>5, <3>1 DEF DeleteAll, delete, owned_by, Live, LiveTokens
      <3>3. owner[t] = sessions[i].user
        BY <1>1, <3>1 DEF IdentityInv, TableInv
      <3>4. req[r].op = "logout_all" /\ req[r].user = owner[req[r].cookie]
        BY <1>1, <2>5
        DEF DeleteAll, At, IdentityInv, RequestInv, ControlInv, ResolvedUser, Lookups
      <3>5. req[r].pc # req'[r].pc
        BY <1>1, <2>5 DEF DeleteAll, At, Answer, AnswerFor, Idle, TypeOK
      <3> QED
        BY <3>2, <3>3, <3>4, <3>5
    <2>6. ASSUME NEW r \in Requests,
                 Ask(r) \/ SelectRow(r) \/ Reload(r) \/ FindRow(r)
                   \/ DatabaseError(r) \/ Reply(r)
          PROVE  UNCHANGED sessions
      BY <2>6 DEF Ask, AskLogout, AskLookup, AskLogin, Begin, SelectRow, Reload,
                  FindRow, DatabaseError, Reply, Deliver, LoseAnswer, Release
    <2>7. Crash \/ Tick \/ UNCHANGED vars => UNCHANGED sessions
      BY DEF Crash, Release, Tick, vars
    <2> QED
      BY <1>1, <2>1, <2>2, <2>3, <2>4, <2>5, <2>6, <2>7 DEF Next, Serve
  <1>2. TypeOK /\ IdentityInv /\ [Next]_vars =>
          [\A t \in Tokens : Live(t) /\ ~Live(t)' => ByItsUser(t)]_vars
    BY <1>1
  <1> QED
    BY <1>2, IdentityHolds, PTL DEF Spec, EndedByItsUser

\* Logout ends one session only: its DELETE by key hits the row its cookie
\* belongs to or none at all.
THEOREM LogoutSparesOthersHolds ==
  ASSUME ~ReuseRowIds
  PROVE  Spec => LogoutSparesOthers
  <1>1. ASSUME TypeOK, IdentityInv, [Next]_vars, NEW r \in Requests,
               At(r, "delete"), req'[r].pc = "answer",
               NEW t \in Tokens \ {req[r].cookie}, Live(t)
        PROVE  Live(t)'
    <2>1. CASE DeleteRow(r)
      BY <1>1, <2>1, DeleteByKey DEF DeleteRow, At
    <2>2. CASE UNCHANGED sessions
      BY <1>1, <2>2 DEF Live, LiveTokens
    <2>3. ASSUME NEW q \in Requests, q # r, Serve(q)
          PROVE  FALSE
      <3>1. req \in [Requests -> RequestState]
        BY <1>1 DEF TypeOK
      <3>2. req'[r] = req[r]
        BY <2>3, <3>1
        DEF Serve, Insert, SelectRow, Purge, Slide, Reload, DeleteAll, FindRow,
            DeleteRow, Answer, AnswerFor, Goto
      <3> QED
        BY <1>1, <3>2 DEF At
    <2>4. Serve(r) => DeleteRow(r)
      BY <1>1 DEF Serve, Insert, SelectRow, Purge, Slide, Reload, DeleteAll,
                  FindRow, At
    <2>5. ASSUME NEW q \in Requests, Ask(q) \/ DatabaseError(q) \/ Reply(q)
          PROVE  UNCHANGED sessions
      BY <2>5 DEF Ask, AskLogout, AskLookup, AskLogin, Begin, DatabaseError,
                  Reply, Deliver, LoseAnswer, Release
    <2>6. Crash \/ Tick \/ UNCHANGED vars => UNCHANGED sessions
      BY DEF Crash, Release, Tick, vars
    <2> QED
      BY <1>1, <2>1, <2>2, <2>3, <2>4, <2>5, <2>6 DEF Next
  <1>2. TypeOK /\ IdentityInv /\ [Next]_vars =>
          [\A r \in Requests : At(r, "delete") /\ req'[r].pc = "answer" =>
             \A t \in Tokens \ {req[r].cookie} : Live(t) => Live(t)']_vars
    BY <1>1
  <1> QED
    BY <1>2, IdentityHolds, PTL DEF Spec, LogoutSparesOthers

-----------------------------------------------------------------------------
(* The two deadlines, with keys that are never reused *)

\* A row's times, and those of the uses of its session.
RowTime(row) ==
  /\ row.expires_at = row.created_at + ABSOLUTE_LIFETIME
  /\ row.created_at <= row.last_used_at
  /\ row.last_used_at < row.expires_at
  /\ row.last_used_at <= clock
  /\ row.created_at \in uses[row.token]
  /\ row.last_used_at \in uses[row.token]
  /\ \A n \in uses[row.token] : row.created_at <= n /\ n < row.expires_at

\* The instant a request reads is not before the creation of the row it then
\* loads; once it decides to slide, the instant is before the deadline of that
\* row and within the idle timeout of a use.
RequestTimes(q) ==
  /\ q.now <= clock
  /\ q.pc \in {"select", "slide"} =>
       \A i \in DOMAIN sessions :
         sessions[i].token = q.cookie => sessions[i].created_at <= q.now
  /\ q.pc = "slide" =>
       /\ \A i \in DOMAIN sessions :
            sessions[i].token = q.cookie => q.now < sessions[i].expires_at
       /\ \E m \in uses[q.cookie] : q.now < m + IDLE_TIMEOUT

\* From its first use to its last, no instant of a session is IDLE_TIMEOUT or
\* more after the latest use before it.
Covered(U) ==
  \A n \in U : \A x \in 0..n :
    (\E k \in U : k < x) => \E m \in U : m < x /\ x < m + IDLE_TIMEOUT

TimeInv ==
  /\ \A i \in DOMAIN sessions : RowTime(sessions[i])
  /\ \A r \in Requests : RequestTimes(req[r])
  /\ AbsoluteCap
  /\ \A t \in Tokens : Covered(uses[t])

-----------------------------------------------------------------------------

\* A use less than IDLE_TIMEOUT after another one, and not before the first,
\* leaves the uses without a gap, wherever it falls among them.
LEMMA CoveredAdd ==
  ASSUME NEW U \in SUBSET Nat, Covered(U), NEW first \in U, NEW n0 \in Nat,
         first <= n0, NEW m1 \in U, n0 < m1 + IDLE_TIMEOUT
  PROVE  Covered(U \cup {n0})
  <1> SUFFICES ASSUME NEW n \in U \cup {n0}, NEW x \in 0..n,
                      NEW k \in U \cup {n0}, k < x
               PROVE  \E m \in U : m < x /\ x < m + IDLE_TIMEOUT
    BY DEF Covered
  <1>1. x \in Nat /\ x <= n /\ n \in Nat /\ k \in Nat /\ m1 \in Nat /\ first \in Nat
    OBVIOUS
  <1>2. PICK j \in U : j < x
    <2>1. CASE k \in U
      BY <2>1
    <2>2. CASE k = n0
      <3>1. first < x
        BY <1>1, <2>2
      <3> QED
        BY <3>1
    <2> QED
      BY <2>1, <2>2
  <1>3. ASSUME NEW y \in U, x <= y
        PROVE  \E m \in U : m < x /\ x < m + IDLE_TIMEOUT
    <2>1. x \in 0..y
      BY <1>1, <1>3
    <2> QED
      BY <1>2, <2>1 DEF Covered
  <1>4. CASE n \in U
    BY <1>1, <1>3, <1>4
  <1>5. CASE n = n0 /\ x <= m1
    BY <1>3, <1>5
  <1>6. CASE n = n0 /\ m1 < x
    <2>1. x < m1 + IDLE_TIMEOUT
      BY <1>1, <1>6
    <2> QED
      BY <1>6, <2>1
  <1> QED
    BY <1>1, <1>4, <1>5, <1>6

\* Rows may go; those that stay are the same, and so are the uses.
RowsLost ==
  /\ DOMAIN sessions' \subseteq DOMAIN sessions
  /\ \A i \in DOMAIN sessions' : sessions'[i] = sessions[i]
  /\ UNCHANGED uses
  /\ clock' \in Nat /\ clock <= clock'

Slides(r) == Slide(r) /\ req[r].row_id \in DOMAIN sessions

\* All that is not an INSERT or an UPDATE only loses rows.
LEMMA OthersLoseRows ==
  ASSUME TypeOK, [Next]_vars, \A r \in Requests : ~Insert(r) /\ ~Slides(r)
  PROVE  RowsLost
  <1>0. clock \in Nat
    BY DEF TypeOK
  <1>1. ASSUME NEW r \in Requests, Purge(r) \/ DeleteAll(r) \/ DeleteRow(r)
        PROVE  RowsLost
    BY <1>0, <1>1 DEF Purge, DeleteAll, DeleteRow, delete, RowsLost
  <1>2. ASSUME NEW r \in Requests, Slide(r) PROVE RowsLost
    BY <1>0, <1>2 DEF Slide, Slides, RowsLost
  <1>3. ASSUME NEW r \in Requests,
               SelectRow(r) \/ Reload(r) \/ FindRow(r) \/ DatabaseError(r)
        PROVE  RowsLost
    BY <1>0, <1>3 DEF SelectRow, Reload, FindRow, DatabaseError, RowsLost
  <1>4. ASSUME NEW r \in Requests, Ask(r) \/ Reply(r)
        PROVE  RowsLost
    <2>1. Ask(r) => UNCHANGED <<sessions, uses, clock>>
      BY DEF Ask, AskLogout, AskLookup, AskLogin, Begin
    <2>2. Reply(r) => UNCHANGED <<sessions, uses, clock>>
      BY DEF Reply, Deliver, LoseAnswer, Release
    <2> QED
      BY <1>0, <1>4, <2>1, <2>2 DEF RowsLost
  <1>5. CASE Crash
    BY <1>0, <1>5 DEF Crash, Release, RowsLost
  <1>6. CASE Tick \/ UNCHANGED vars
    BY <1>0, <1>6 DEF Tick, vars, RowsLost
  <1> QED
    BY <1>1, <1>2, <1>3, <1>4, <1>5, <1>6 DEF Next, Serve

\* A request moves only to a step that keeps no deadline in mind, except when
\* a lookup begins and when its SELECT finds a row that is not expired.
LEMMA RequestMoves ==
  ASSUME TypeOK, [Next]_vars, NEW r \in Requests
  PROVE  \/ req'[r] = req[r]
         \/ /\ req'[r].pc \notin {"select", "slide"}
            /\ req'[r].now \in {0, clock, req[r].now}
         \/ \E o \in Lookups, c \in Presentable : AskLookup(r, o, c)
         \/ /\ SelectRow(r)
            /\ \E i \in get_by_token_hash(req[r].cookie) :
                 /\ Goto(r, "slide", i)
                 /\ ~is_expired(req[r].now, sessions[i].expires_at,
                                sessions[i].last_used_at)
  <1> DEFINE Quiet == /\ req'[r].pc \notin {"select", "slide"}
                      /\ req'[r].now \in {0, clock, req[r].now}
  <1>0. req \in [Requests -> RequestState]
    BY DEF TypeOK
  <1>1. ASSUME NEW u, NEW reply, AnswerFor(r, u, reply) PROVE Quiet
    BY <1>0, <1>1 DEF AnswerFor, Idle
  <1>2. ASSUME NEW step, NEW i, Goto(r, step, i)
        PROVE  req'[r].pc = step /\ req'[r].now = req[r].now
    BY <1>0, <1>2 DEF Goto, RequestState
  <1>3. ASSUME NEW c \in Presentable \cup {NoCookie}, AskLogout(r, c) PROVE Quiet
    BY <1>0, <1>3 DEF AskLogout, Begin, Idle
  <1>4. ASSUME NEW c \in Presentable \cup {NoCookie}, NEW o \in Lookups,
               AskLookup(r, o, c), c \notin Presentable
        PROVE  Quiet
    BY <1>0, <1>4 DEF AskLookup, Begin, Idle
  <1>5. ASSUME NEW u, NEW t, AskLogin(r, u, t) PROVE Quiet
    BY <1>0, <1>5 DEF AskLogin, Begin, Idle
  <1>6. CASE SelectRow(r)
    BY <1>1, <1>2, <1>6 DEF SelectRow, Answer
  <1>7. ASSUME Insert(r) \/ Purge(r) \/ DeleteAll(r) \/ DeleteRow(r) \/ DatabaseError(r)
       PROVE  Quiet
    BY <1>1, <1>7 DEF Insert, Purge, DeleteAll, DeleteRow, DatabaseError, Answer
  <1>8. ASSUME Slide(r) PROVE Quiet
    <2>1. CASE req[r].row_id \in DOMAIN sessions
      <3>1. req'[r].pc = "reload" /\ req'[r].now = req[r].now
        BY <1>0, <1>8, <2>1 DEF Slide, RequestState
      <3> QED
        BY <3>1
    <2> QED
      BY <1>1, <1>8, <2>1 DEF Slide, Answer
  <1>9. ASSUME Reload(r) PROVE Quiet
    <2>1. CASE req[r].row_id \in DOMAIN sessions /\ req[r].op # "me"
      <3>1. req'[r].pc = "delete_all" /\ req'[r].now = req[r].now
        BY <1>0, <1>9, <2>1 DEF Reload, RequestState
      <3> QED
        BY <3>1
    <2> QED
      BY <1>1, <1>9, <2>1 DEF Reload, Answer
  <1>10. ASSUME FindRow(r) PROVE Quiet
    BY <1>1, <1>2, <1>10 DEF FindRow, Answer
  <1>11. ASSUME NEW R \in SUBSET Requests, Release(R) PROVE req'[r] = req[r] \/ Quiet
    BY <1>11 DEF Release, Idle
  <1>12. ASSUME NEW q \in Requests, q # r, Ask(q) \/ Serve(q) \/ DatabaseError(q)
         PROVE  req'[r] = req[r]
    BY <1>0, <1>12
    DEF Ask, AskLogout, AskLookup, AskLogin, Begin, Serve, Insert, SelectRow,
        Purge, Slide, Reload, DeleteAll, FindRow, DeleteRow, DatabaseError,
        Answer, AnswerFor, Goto
  <1>13. ASSUME Ask(r)
         PROVE  Quiet \/ \E o \in Lookups, c \in Presentable : AskLookup(r, o, c)
    BY <1>3, <1>4, <1>5, <1>13 DEF Ask
  <1>14. ASSUME Serve(r) \/ DatabaseError(r), ~SelectRow(r) PROVE Quiet
    BY <1>7, <1>8, <1>9, <1>10, <1>14 DEF Serve
  <1>15. CASE Tick \/ UNCHANGED vars
    BY <1>15 DEF Tick, vars
  <1> QED
    BY <1>6, <1>11, <1>12, <1>13, <1>14, <1>15
    DEF Next, Reply, Deliver, LoseAnswer, Crash

\* A request that keeps no deadline in mind has read a clock that is past.
LEMMA QuietTimes ==
  ASSUME TypeOK, TimeInv, NEW r \in Requests, clock' \in Nat, clock <= clock',
         req'[r].pc \notin {"select", "slide"},
         req'[r].now \in {0, clock, req[r].now}
  PROVE  RequestTimes(req[r])'
  <1>1. req[r].now <= clock /\ clock \in Nat /\ req[r].now \in Nat
    BY DEF TimeInv, RequestTimes, TypeOK, RequestState
  <1>2. req'[r].now <= clock'
    BY <1>1
  <1> QED
    BY <1>2 DEF RequestTimes

\* What a request knows of the deadlines stays true as long as the rows of its
\* token stay and no use of it is forgotten.
LEMMA TimesStay ==
  ASSUME TypeOK, IdentityInv, TimeInv, [Next]_vars, NEW r \in Requests,
         clock' \in Nat, clock <= clock',
         \A i \in DOMAIN sessions' : sessions'[i].token = req'[r].cookie =>
           /\ i \in DOMAIN sessions /\ sessions[i].token = req'[r].cookie
           /\ sessions'[i].created_at = sessions[i].created_at
           /\ sessions'[i].expires_at = sessions[i].expires_at,
         \A m \in uses[req[r].cookie] : m \in uses'[req[r].cookie]
  PROVE  RequestTimes(req[r])'
  <1>0. /\ clock \in Nat /\ req \in [Requests -> RequestState]
        /\ RequestTimes(req[r]) /\ req[r].now \in Nat
    BY DEF TypeOK, TimeInv, RequestState
  <1>1. CASE req'[r] = req[r]
    <2>1. PICK s : s = req[r]
      OBVIOUS
    <2>2. s.now <= clock'
      BY <1>0, <2>1 DEF RequestTimes
    <2>3. RequestTimes(s)'
      BY <1>0, <1>1, <2>1, <2>2 DEF RequestTimes
    <2> QED
      BY <1>1, <2>1, <2>3
  <1>2. CASE /\ req'[r].pc \notin {"select", "slide"}
             /\ req'[r].now \in {0, clock, req[r].now}
    BY <1>2, QuietTimes
  <1>3. ASSUME NEW o \in Lookups, NEW c \in Presentable, AskLookup(r, o, c)
        PROVE  RequestTimes(req[r])'
    <2>1. /\ req'[r].pc # "slide" /\ req'[r].now \in {0, clock}
          /\ req'[r].pc = "select" => req'[r].now = clock
      BY <1>0, <1>3 DEF AskLookup, Begin, Idle
    <2>2. \A i \in DOMAIN sessions : sessions[i].created_at <= clock
      <3>1. ASSUME NEW i \in DOMAIN sessions PROVE sessions[i].created_at <= clock
        <4>1. /\ sessions[i].created_at \in Nat /\ sessions[i].last_used_at \in Nat
              /\ sessions[i].created_at <= sessions[i].last_used_at
              /\ sessions[i].last_used_at <= clock
          BY DEF TypeOK, Row, TimeInv, RowTime
        <4> QED
          BY <1>0, <4>1
      <3> QED
        BY <3>1
    <2>3. req'[r].now <= clock'
      BY <1>0, <2>1
    <2> QED
      BY <2>1, <2>2, <2>3 DEF RequestTimes
  <1>4. ASSUME SelectRow(r), NEW i \in get_by_token_hash(req[r].cookie),
               Goto(r, "slide", i),
               ~is_expired(req[r].now, sessions[i].expires_at,
                           sessions[i].last_used_at)
        PROVE  RequestTimes(req[r])'
    <2>1. req'[r].now = req[r].now /\ req'[r].cookie = req[r].cookie
      BY <1>0, <1>4 DEF Goto, RequestState
    <2>2. /\ i \in DOMAIN sessions /\ sessions[i].token = req[r].cookie
          /\ sessions[i].expires_at \in Nat /\ sessions[i].last_used_at \in Nat
          /\ sessions[i].last_used_at \in uses[req[r].cookie]
          /\ sessions[i].created_at <= req[r].now
      BY <1>0, <1>4
      DEF get_by_token_hash, TypeOK, Row, TimeInv, RowTime, RequestTimes,
          SelectRow, At
    <2>3. /\ req[r].now < sessions[i].expires_at
          /\ req[r].now < sessions[i].last_used_at + IDLE_TIMEOUT
      BY <1>0, <1>4, <2>2 DEF is_expired, past_absolute, past_idle
    <2>4. \A j \in DOMAIN sessions' : sessions'[j].token = req'[r].cookie =>
            /\ sessions'[j].created_at <= req'[r].now
            /\ req'[r].now < sessions'[j].expires_at
      BY <2>1, <2>2, <2>3 DEF IdentityInv, TableInv
    <2>5. req'[r].now <= clock'
      BY <1>0, <2>1 DEF RequestTimes
    <2>6. \E m \in uses'[req'[r].cookie] : req'[r].now < m + IDLE_TIMEOUT
      BY <2>1, <2>2, <2>3
    <2> QED
      BY <2>4, <2>5, <2>6 DEF RequestTimes
  <1> QED
    BY <1>1, <1>2, <1>3, <1>4, RequestMoves

\* Steps that only lose rows keep every time.
LEMMA TimeLost ==
  ASSUME TypeOK, TypeOK', IdentityInv, TimeInv, [Next]_vars, RowsLost
  PROVE  TimeInv'
  <1>1. ASSUME NEW i \in DOMAIN sessions' PROVE RowTime(sessions[i])'
    <2>1. PICK row : row = sessions[i]
      OBVIOUS
    <2>2. /\ RowTime(row) /\ sessions'[i] = row
          /\ clock \in Nat /\ row.last_used_at \in Nat
      BY <2>1 DEF TimeInv, RowsLost, TypeOK, Row
    <2>3. row.last_used_at <= clock'
      BY <2>2 DEF RowTime, RowsLost
    <2>4. RowTime(row)'
      BY <2>2, <2>3 DEF RowTime, RowsLost
    <2> QED
      BY <2>2, <2>4
  <1>2. ASSUME NEW r \in Requests PROVE RequestTimes(req[r])'
    BY TimesStay DEF RowsLost
  <1>3. AbsoluteCap' /\ \A t \in Tokens : Covered(uses[t])'
    BY DEF TimeInv, RowsLost, AbsoluteCap, Covered
  <1> QED
    BY <1>1, <1>2, <1>3 DEF TimeInv

\* The UPDATE of a lookup: its instant may be before other uses that committed
\* first, but is still between the creation and the deadline of the row.
LEMMA TimeSlide ==
  ASSUME TypeOK, TypeOK', IdentityInv, TimeInv, [Next]_vars,
         NEW r \in Requests, Slides(r)
  PROVE  TimeInv'
  <1>1. PICK id, c, n0 : id = req[r].row_id /\ c = req[r].cookie /\ n0 = req[r].now
    OBVIOUS
  <1>2. PICK U, row : U = uses[c] /\ row = sessions[id]
    OBVIOUS
  <1>3. /\ id \in DOMAIN sessions /\ c \in Tokens /\ n0 \in Nat /\ clock \in Nat
        /\ row.token = c /\ U \in SUBSET Nat
        /\ row.created_at \in Nat /\ row.expires_at \in Nat
    <2>1. c \in Tokens /\ id \in DOMAIN sessions /\ sessions[id].token = c
      BY <1>1 DEF Slides, Slide, At, IdentityInv, RequestInv, KeyMeansCookie
    <2> QED
      BY <1>1, <1>2, <2>1 DEF TypeOK, Row, RequestState
  <1>4. /\ RowTime(row) /\ row.created_at \in U
        /\ row.created_at <= n0 /\ n0 < row.expires_at /\ n0 <= clock
        /\ \E m \in U : n0 < m + IDLE_TIMEOUT
    BY <1>1, <1>2, <1>3 DEF TimeInv, RowTime, RequestTimes, Slides, Slide, At
  <1>5. /\ DOMAIN sessions' = DOMAIN sessions
        /\ sessions'[id] = [row EXCEPT !.last_used_at = n0]
        /\ \A i \in DOMAIN sessions : i # id => sessions'[i] = sessions[i]
        /\ uses' = [uses EXCEPT ![c] = U \cup {n0}]
        /\ UNCHANGED clock
    BY <1>1, <1>2 DEF Slides, Slide
  <1>6. /\ uses'[c] = U \cup {n0}
        /\ \A t \in Tokens \ {c} : uses'[t] = uses[t]
    BY <1>3, <1>5 DEF TypeOK
  <1>7. ASSUME NEW i \in DOMAIN sessions' PROVE RowTime(sessions[i])'
    <2>1. CASE i = id
      <3>1. PICK new : new = sessions'[id]
        OBVIOUS
      <3>2. /\ new.token = c /\ new.created_at = row.created_at
            /\ new.expires_at = row.expires_at /\ new.last_used_at = n0
        BY <1>2, <1>3, <1>5, <3>1 DEF TypeOK, Row
      <3>3. RowTime(new)'
        BY <1>2, <1>3, <1>4, <1>5, <1>6, <3>2 DEF RowTime
      <3> QED
        BY <2>1, <3>1, <3>3
    <2>2. CASE i # id
      <3>1. PICK old : old = sessions[i]
        OBVIOUS
      <3>2. /\ old.token \in Tokens \ {c} /\ RowTime(old) /\ sessions'[i] = old
        BY <1>2, <1>3, <1>5, <2>2, <3>1
        DEF TypeOK, Row, IdentityInv, TableInv, TimeInv
      <3>3. RowTime(old)'
        BY <1>5, <1>6, <3>2 DEF RowTime
      <3> QED
        BY <3>2, <3>3
    <2> QED
      BY <2>1, <2>2
  <1>8. ASSUME NEW q \in Requests PROVE RequestTimes(req[q])'
    <2>1. \A i \in DOMAIN sessions' :
            /\ i \in DOMAIN sessions
            /\ sessions'[i].token = sessions[i].token
            /\ sessions'[i].created_at = sessions[i].created_at
            /\ sessions'[i].expires_at = sessions[i].expires_at
      BY <1>2, <1>3, <1>5 DEF TypeOK, Row
    <2>2. \A m \in uses[req[q].cookie] : m \in uses'[req[q].cookie]
      BY <1>2, <1>5 DEF TypeOK
    <2> QED
      BY <1>3, <1>5, <2>1, <2>2, TimesStay
  <1>9. AbsoluteCap'
    <2>1. ASSUME NEW m \in U \cup {n0}, NEW n \in U \cup {n0}
          PROVE  n < m + ABSOLUTE_LIFETIME
      <3>1. /\ m \in Nat /\ n \in Nat /\ row.created_at <= m /\ n < row.expires_at
            /\ row.expires_at = row.created_at + ABSOLUTE_LIFETIME
        BY <1>2, <1>3, <1>4 DEF RowTime
      <3> QED
        BY <1>3, <3>1
    <2> QED
      BY <1>6, <2>1 DEF AbsoluteCap, TimeInv
  <1>10. ASSUME NEW t \in Tokens PROVE Covered(uses'[t])
    <2>1. Covered(U)
      BY <1>2, <1>3 DEF TimeInv
    <2>2. Covered(U \cup {n0})
      BY <1>3, <1>4, <2>1, CoveredAdd
    <2> QED
      BY <1>6, <2>2 DEF TimeInv
  <1> QED
    BY <1>7, <1>8, <1>9, <1>10 DEF TimeInv, Covered

\* The INSERT of a login: the first use of a new token.
LEMMA TimeInsert ==
  ASSUME ~ReuseRowIds, TypeOK, TypeOK', IdentityInv, TimeInv, [Next]_vars,
         NEW r \in Requests, Insert(r)
  PROVE  TimeInv'
  <1>1. PICK c, n0 : c = req[r].cookie /\ n0 = req[r].now
    OBVIOUS
  <1>2. /\ c \in Tokens /\ n0 \in Nat /\ clock \in Nat /\ n0 <= clock /\ ~Issued(c)
        /\ \A q \in Requests \ {r} : req[q].cookie # c
    BY <1>1 DEF TypeOK, WellFormed, RequestState, Insert, At, TimeInv, RequestTimes,
                IdentityInv, RequestInv, LoginToken, FreshTokens
  <1>3. PICK new : /\ new.token = c /\ new.created_at = n0 /\ new.last_used_at = n0
                   /\ new.expires_at = n0 + ABSOLUTE_LIFETIME
                   /\ create(last_id + 1, new)
    BY <1>1 DEF Insert, NewIds, absolute_expiry
  <1>4. /\ DOMAIN sessions' = DOMAIN sessions \cup {last_id + 1}
        /\ sessions'[last_id + 1] = new
        /\ \A i \in DOMAIN sessions : i # last_id + 1 /\ sessions'[i] = sessions[i]
        /\ uses' = [uses EXCEPT ![c] = {n0}]
        /\ UNCHANGED clock
    BY <1>1, <1>3 DEF Insert, create, TypeOK
  <1>5. /\ uses'[c] = {n0}
        /\ \A t \in Tokens \ {c} : uses'[t] = uses[t]
    BY <1>2, <1>4 DEF TypeOK
  <1>6. \A i \in DOMAIN sessions : sessions[i].token \in Tokens \ {c}
    BY <1>2 DEF TypeOK, Row, IdentityInv, TableInv, Issued
  <1>7. ASSUME NEW i \in DOMAIN sessions' PROVE RowTime(sessions[i])'
    <2>1. CASE i = last_id + 1
      <3>1. n0 < n0 + ABSOLUTE_LIFETIME
        BY <1>2
      <3>2. RowTime(new)'
        BY <1>2, <1>3, <1>4, <1>5, <3>1 DEF RowTime
      <3> QED
        BY <1>4, <2>1, <3>2
    <2>2. CASE i # last_id + 1
      <3>1. PICK old : old = sessions[i]
        OBVIOUS
      <3>2. old.token \in Tokens \ {c} /\ RowTime(old) /\ sessions'[i] = old
        BY <1>4, <1>6, <2>2, <3>1 DEF TimeInv
      <3>3. RowTime(old)'
        BY <1>4, <1>5, <3>2 DEF RowTime
      <3> QED
        BY <3>2, <3>3
    <2> QED
      BY <2>1, <2>2
  <1>8. ASSUME NEW q \in Requests PROVE RequestTimes(req[q])'
    <2>1. CASE q = r
      <3>1. req'[r].pc = "answer" /\ req'[r].now = 0
        BY DEF Insert, Answer, AnswerFor, Idle, TypeOK
      <3> QED
        BY <1>2, <1>4, <2>1, <3>1, QuietTimes
    <2>2. CASE q # r
      <3>1. req'[q] = req[q] /\ req[q].cookie # c
        BY <1>2, <2>2 DEF Insert, Answer, AnswerFor, TypeOK
      <3>2. \A i \in DOMAIN sessions' : sessions'[i].token = req'[q].cookie =>
              i \in DOMAIN sessions /\ sessions'[i] = sessions[i]
        BY <1>3, <1>4, <3>1
      <3>3. uses'[req[q].cookie] = uses[req[q].cookie]
        BY <1>4, <3>1 DEF TypeOK
      <3> QED
        BY <1>2, <1>4, <3>2, <3>3, TimesStay
    <2> QED
      BY <2>1, <2>2
  <1>9. AbsoluteCap'
    <2>1. n0 < n0 + ABSOLUTE_LIFETIME
      BY <1>2
    <2> QED
      BY <1>5, <2>1 DEF AbsoluteCap, TimeInv
  <1>10. ASSUME NEW t \in Tokens PROVE Covered(uses'[t])
    <2>1. Covered({n0})
      BY <1>2 DEF Covered
    <2> QED
      BY <1>5, <2>1 DEF TimeInv
  <1> QED
    BY <1>7, <1>8, <1>9, <1>10 DEF TimeInv, Covered

\* With unique row keys, the rows, the instants in flight and the uses of the
\* sessions agree with the two deadlines.
THEOREM TimeHolds ==
  ASSUME ~ReuseRowIds
  PROVE  Spec => []TimeInv
  <1>1. Init => TimeInv
    BY DEF Init, TimeInv, RequestTimes, AbsoluteCap, Covered, Idle
  <1>2. TypeOK /\ TypeOK' /\ IdentityInv /\ TimeInv /\ [Next]_vars => TimeInv'
    BY TimeInsert, TimeSlide, TimeLost, OthersLoseRows
  <1> QED
    BY <1>1, <1>2, IdentityHolds, PTL DEF Spec

\* No two uses of a session are ABSOLUTE_LIFETIME apart, however its requests
\* interleave.
THEOREM AbsoluteCapHolds ==
  ASSUME ~ReuseRowIds
  PROVE  Spec => []AbsoluteCap
  <1>1. TimeInv => AbsoluteCap
    BY DEF TimeInv
  <1> QED
    BY <1>1, TimeHolds, PTL

\* Every use of a session follows an earlier one by less than IDLE_TIMEOUT,
\* even if concurrent uses commit out of order.
THEOREM NoIdleGapHolds ==
  ASSUME ~ReuseRowIds
  PROVE  Spec => []NoIdleGap
  <1>1. ASSUME TypeOK, TimeInv PROVE NoIdleGap
    <2>1. ASSUME NEW t \in Tokens, NEW n \in uses[t], \E m \in uses[t] : m < n
          PROVE  \E m \in uses[t] : m < n /\ n < m + IDLE_TIMEOUT
      <3>1. n \in 0..n
        BY <1>1 DEF TypeOK
      <3> QED
        BY <1>1, <2>1, <3>1 DEF TimeInv, Covered
    <2> QED
      BY <2>1 DEF NoIdleGap
  <1> QED
    BY <1>1, TimeHolds, TypeCorrect, PTL

\* A row's times are ordered, and it was last used before its deadline.
THEOREM RowTimesOrderedHolds ==
  ASSUME ~ReuseRowIds
  PROVE  Spec => []RowTimesOrdered
  <1>1. TimeInv => RowTimesOrdered
    BY DEF TimeInv, RowTime, RowTimesOrdered
  <1> QED
    BY <1>1, TimeHolds, PTL
=============================================================================
