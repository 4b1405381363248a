------------------------- MODULE AuthServiceProofs -------------------------
(***************************************************************************)
(* Theorems about AuthService, which put those about Sessions and Accounts *)
(* together: for every set of requests, tokens, addresses and passwords.   *)
(***************************************************************************)
EXTENDS AuthService, FiniteSetTheorems, TLAPS

SP == INSTANCE SessionsSafetyProofs WITH req <- sreq, Users <- 1..MaxAccounts
AP == INSTANCE AccountsProofs WITH req <- areq

-----------------------------------------------------------------------------
(* The parts, as their theorems name them *)

LEMMA Constants ==
  /\ SP!LifetimeAssumption /\ SP!SessionsAssumption
  /\ AP!PasswordsAssumption /\ AP!AccountsAssumption
  <1>1. SP!LifetimeAssumption /\ SP!SessionsAssumption
    BY AuthServiceAssumption DEF S!LifetimeAssumption, S!SessionsAssumption,
       SP!LifetimeAssumption, SP!SessionsAssumption
  <1>2. AP!PasswordsAssumption
    BY AuthServiceAssumption DEF A!PasswordsAssumption, AP!PasswordsAssumption
  <1>3. AP!AccountsAssumption
    BY AuthServiceAssumption
    DEF A!AccountsAssumption, AP!AccountsAssumption,
        A!WellFormedTable, AP!WellFormedTable, A!Hashes, AP!Hashes,
        A!User, AP!User, A!normalized, AP!normalized, A!Emails, AP!Emails,
        A!Argon2Hashes, AP!Argon2Hashes, A!LegacyHashes, AP!LegacyHashes,
        A!Argon2Params, AP!Argon2Params, A!unrecognised, AP!unrecognised
  <1> QED
    BY <1>1, <1>2, <1>3

LEMMA SessionsStep ==
  ASSUME SP!TypeOK, SP!LifeInv, SP!Next
  PROVE  SP!TypeOK' /\ SP!LifeInv' /\ SP!NoNewRows
  <1>1. [SP!Next]_(SP!vars)
    OBVIOUS
  <1>2. SP!TypeOK'
    BY <1>1, Constants, SP!TypeStep
  <1>3. SP!LifeInv' /\ SP!NoNewRows
    BY <1>1, Constants, SP!LifeStep
  <1> QED
    BY <1>2, <1>3

-----------------------------------------------------------------------------
(* The steps of the parts, as their theorems name them *)

LEMMA SessionNames ==
  ASSUME NEW r
  PROVE  /\ \A p : S!At(r, p) <=> SP!At(r, p)
         /\ S!Presentable = SP!Presentable /\ S!Lookups = SP!Lookups
         /\ \A u, t : S!AskLogin(r, u, t) => SP!AskLogin(r, u, t)
         /\ \A c : S!AskLogout(r, c) => SP!AskLogout(r, c)
         /\ \A o, c : S!AskLookup(r, o, c) => SP!AskLookup(r, o, c)
  <1>1. \A p : S!At(r, p) <=> SP!At(r, p)
    BY DEF S!At, SP!At
  <1>2. S!Presentable = SP!Presentable /\ S!Lookups = SP!Lookups
    BY DEF S!Presentable, SP!Presentable, S!Lookups, SP!Lookups
  <1>3. \A u, t : S!AskLogin(r, u, t) => SP!AskLogin(r, u, t)
    BY DEF S!AskLogin, SP!AskLogin, S!Issued, SP!Issued, S!Begin, SP!Begin,
           S!At, SP!At, S!Idle, SP!Idle, S!LiveTokens, SP!LiveTokens
  <1>4. \A c : S!AskLogout(r, c) => SP!AskLogout(r, c)
    BY DEF S!AskLogout, SP!AskLogout, S!Begin, SP!Begin,
           S!At, SP!At, S!Idle, SP!Idle, S!LiveTokens, SP!LiveTokens
  <1>5. \A o, c : S!AskLookup(r, o, c) => SP!AskLookup(r, o, c)
    BY DEF S!AskLookup, SP!AskLookup, S!Begin, SP!Begin,
           S!At, SP!At, S!Idle, SP!Idle, S!LiveTokens, SP!LiveTokens
  <1> QED
    BY <1>1, <1>2, <1>3, <1>4, <1>5

LEMMA ServeNames ==
  ASSUME NEW r
  PROVE  /\ S!Insert(r) => SP!Insert(r)
         /\ S!Serve(r) => SP!Serve(r)
         /\ S!DatabaseError(r) => SP!DatabaseError(r)
         /\ S!Reply(r) => SP!Reply(r)
         /\ S!Release(Requests) => SP!Release(Requests)
         /\ S!Tick => SP!Tick
         /\ S!Init => SP!Init
  <1>1. S!Insert(r) => SP!Insert(r)
    BY DEF S!Insert, SP!Insert, S!At, SP!At, S!NewIds, SP!NewIds, S!AfterLargest,
           SP!AfterLargest, S!create, SP!create, S!absolute_expiry, SP!absolute_expiry,
           S!Answer, SP!Answer, S!AnswerFor, SP!AnswerFor, S!Idle, SP!Idle
  <1>2. S!SelectRow(r) => SP!SelectRow(r)
    BY DEF S!SelectRow, SP!SelectRow, S!At, SP!At, S!get_by_token_hash,
           SP!get_by_token_hash, S!Goto, SP!Goto, S!is_expired, SP!is_expired,
           S!past_absolute, SP!past_absolute, S!past_idle, SP!past_idle,
           S!Answer, SP!Answer, S!AnswerFor, SP!AnswerFor, S!Idle, SP!Idle
  <1>3. S!Purge(r) => SP!Purge(r)
    BY DEF S!Purge, SP!Purge, S!At, SP!At, S!delete, SP!delete,
           S!Answer, SP!Answer, S!AnswerFor, SP!AnswerFor, S!Idle, SP!Idle
  <1>4. S!Slide(r) => SP!Slide(r)
    BY DEF S!Slide, SP!Slide, S!At, SP!At,
           S!Answer, SP!Answer, S!AnswerFor, SP!AnswerFor, S!Idle, SP!Idle
  <1>5. S!Reload(r) => SP!Reload(r)
    BY DEF S!Reload, SP!Reload, S!At, SP!At,
           S!Answer, SP!Answer, S!AnswerFor, SP!AnswerFor, S!Idle, SP!Idle
  <1>6. S!DeleteAll(r) => SP!DeleteAll(r)
    BY DEF S!DeleteAll, SP!DeleteAll, S!At, SP!At, S!delete, SP!delete,
           S!owned_by, SP!owned_by,
           S!Answer, SP!Answer, S!AnswerFor, SP!AnswerFor, S!Idle, SP!Idle
  <1>7. S!FindRow(r) => SP!FindRow(r)
    BY DEF S!FindRow, SP!FindRow, S!At, SP!At, S!get_by_token_hash,
           SP!get_by_token_hash, S!Goto, SP!Goto,
           S!Answer, SP!Answer, S!AnswerFor, SP!AnswerFor, S!Idle, SP!Idle
  <1>8. S!DeleteRow(r) => SP!DeleteRow(r)
    BY DEF S!DeleteRow, SP!DeleteRow, S!At, SP!At, S!delete, SP!delete,
           S!Answer, SP!Answer, S!AnswerFor, SP!AnswerFor, S!Idle, SP!Idle
  <1>9. S!DatabaseError(r) => SP!DatabaseError(r)
    BY DEF S!DatabaseError, SP!DatabaseError, S!DatabaseSteps, SP!DatabaseSteps,
           S!Answer, SP!Answer, S!AnswerFor, SP!AnswerFor, S!Idle, SP!Idle
  <1>10. S!Reply(r) => SP!Reply(r)
    BY DEF S!Reply, SP!Reply, S!Deliver, SP!Deliver, S!LoseAnswer, SP!LoseAnswer,
           S!At, SP!At, S!Release, SP!Release, S!Idle, SP!Idle
  <1>11. /\ S!Release(Requests) => SP!Release(Requests)
         /\ S!Tick => SP!Tick
         /\ S!Init => SP!Init
    BY DEF S!Release, SP!Release, S!Tick, SP!Tick, S!Init, SP!Init, S!Idle, SP!Idle
  <1>12. S!Serve(r) => SP!Serve(r)
    BY <1>1, <1>2, <1>3, <1>4, <1>5, <1>6, <1>7, <1>8 DEF S!Serve, SP!Serve
  <1> QED
    BY <1>1, <1>9, <1>10, <1>11, <1>12

LEMMA AccountNames ==
  ASSUME NEW r
  PROVE  /\ \A p : A!At(r, p) <=> AP!At(r, p)
         /\ A!Ask(r) => AP!Ask(r)
         /\ A!InsertUser(r) => AP!InsertUser(r)
         /\ A!SelectUser(r) => AP!SelectUser(r)
         /\ A!CommitLogin(r) => AP!CommitLogin(r)
         /\ A!DatabaseError(r) => AP!DatabaseError(r)
         /\ A!Deliver(r) => AP!Deliver(r)
         /\ A!Release(Requests) => AP!Release(Requests)
         /\ A!Init => AP!Init
  <1>1. \A p : A!At(r, p) <=> AP!At(r, p)
    BY DEF A!At, AP!At
  <1>2. A!Ask(r) => AP!Ask(r)
    BY DEF A!Ask, AP!Ask, A!AskRegister, AP!AskRegister, A!AskLogin, AP!AskLogin,
           A!Begin, AP!Begin, A!At, AP!At, A!Idle, AP!Idle, A!SomeEmail, AP!SomeEmail,
           A!SomePassword, AP!SomePassword, A!Emails, AP!Emails,
           A!check_password, AP!check_password
  <1>3. A!InsertUser(r) => AP!InsertUser(r)
    BY DEF A!InsertUser, AP!InsertUser, A!At, AP!At, A!UserRow, AP!UserRow,
           A!normalized, AP!normalized, A!hash_password, AP!hash_password,
           A!argon2, AP!argon2, A!get_by_email, AP!get_by_email,
           A!Answer, AP!Answer, A!Idle, AP!Idle, A!SomeEmail, AP!SomeEmail,
           A!SomePassword, AP!SomePassword, A!Emails, AP!Emails
  <1>4. A!SelectUser(r) => AP!SelectUser(r)
    BY DEF A!SelectUser, AP!SelectUser, A!At, AP!At, A!normalized, AP!normalized,
           A!get_by_email, AP!get_by_email, A!Judge, AP!Judge,
           A!verify_password, AP!verify_password, A!verify_argon2, AP!verify_argon2,
           A!verify_pbkdf2, AP!verify_pbkdf2, A!Outcome, AP!Outcome,
           A!AcceptedIterations, AP!AcceptedIterations, A!needs_rehash, AP!needs_rehash,
           A!Answer, AP!Answer, A!Idle, AP!Idle, A!SomeEmail, AP!SomeEmail,
           A!SomePassword, AP!SomePassword, A!Emails, AP!Emails
  <1>5. A!CommitLogin(r) => AP!CommitLogin(r)
    BY DEF A!CommitLogin, AP!CommitLogin, A!At, AP!At, A!Upgraded, AP!Upgraded,
           A!hash_password, AP!hash_password, A!argon2, AP!argon2,
           A!Answer, AP!Answer, A!Idle, AP!Idle, A!SomeEmail, AP!SomeEmail,
           A!SomePassword, AP!SomePassword, A!Emails, AP!Emails
  <1>6. A!DatabaseError(r) => AP!DatabaseError(r)
    BY DEF A!DatabaseError, AP!DatabaseError,
           A!Answer, AP!Answer, A!Idle, AP!Idle, A!SomeEmail, AP!SomeEmail,
           A!SomePassword, AP!SomePassword, A!Emails, AP!Emails
  <1>7. /\ A!Deliver(r) => AP!Deliver(r)
        /\ A!Release(Requests) => AP!Release(Requests)
        /\ A!Init => AP!Init
    BY DEF A!Deliver, AP!Deliver, A!Release, AP!Release, A!Init, AP!Init,
           A!At, AP!At, A!Idle, AP!Idle, A!SomeEmail, AP!SomeEmail,
           A!SomePassword, AP!SomePassword, A!Emails, AP!Emails
  <1> QED
    BY <1>1, <1>2, <1>3, <1>4, <1>5, <1>6, <1>7

-----------------------------------------------------------------------------
(* The inductive invariant *)

\* What the parts know of their own tables and requests.
PartsInv == SP!TypeOK /\ SP!LifeInv /\ AP!TypeOK /\ AP!AccountsInv

\* A login stands at the COMMIT of both parts or of none; there, both are about
\* the same user, and the token was drawn for the password that was accepted.
Coupled(r) ==
  /\ areq[r].pc = "commit" <=> sreq[r].pc = "insert"
  /\ areq[r].pc = "commit" =>
       /\ sreq[r].user = areq[r].user_id
       /\ credential[sreq[r].cookie] = <<areq[r].email, areq[r].password>>

\* An issued token was obtained with the address and the password its user
\* has, and since then its user has an up-to-date hash.
TokenSound(t) ==
  LET u == users[owner[t]] IN
  /\ owner[t] \in 1..Len(users)
  /\ credential[t] \in AP!Emails \X Passwords
  /\ u.email[1] = credential[t][1][1]
  /\ AP!Verifies(credential[t][2], u.password_hash)
  /\ AP!Current(u.password_hash)

TokensOf(u) == {t \in Tokens : owner[t] = u}
LoginsOf(u) == {n \in 1..Len(created) : created[n] = u}

\* Even of the users that are still to register.
CountInv ==
  \A u \in 1..MaxAccounts :
    /\ IsFiniteSet(TokensOf(u))
    /\ Cardinality(TokensOf(u)) = Cardinality(LoginsOf(u))

BothInv ==
  /\ \A t \in Tokens : owner[t] # NoUser => TokenSound(t)
  /\ \A i \in DOMAIN sessions : owner[sessions[i].token] = sessions[i].user
  /\ CountInv

AuthInv ==
  /\ PartsInv
  /\ Len(users) <= MaxAccounts
  /\ DOMAIN credential = Tokens
  /\ \A r \in Requests : Coupled(r)
  /\ BothInv

-----------------------------------------------------------------------------
(* Who moves *)

\* A step of Sessions moves one request, and no step but AskLogin moves it to
\* the INSERT of a login.
LEMMA SessionMoves ==
  ASSUME SP!TypeOK, NEW r \in Requests,
         \/ SP!Serve(r) \/ SP!DatabaseError(r) \/ SP!Reply(r)
         \/ \E c : SP!AskLogout(r, c) \/ \E o : SP!AskLookup(r, o, c)
  PROVE  /\ \A q \in Requests \ {r} : sreq'[q] = sreq[q]
         /\ sreq'[r].pc # "insert"
  <1>0. sreq \in [Requests -> SP!RequestState]
    BY DEF SP!TypeOK
  <1>1. ASSUME NEW reply, NEW u, SP!AnswerFor(r, u, reply)
        PROVE  /\ \A q \in Requests \ {r} : sreq'[q] = sreq[q]
               /\ sreq'[r].pc # "insert"
    BY <1>0, <1>1 DEF SP!AnswerFor, SP!Idle
  <1>2. ASSUME NEW id, NEW step, step # "insert", SP!Goto(r, step, id)
        PROVE  /\ \A q \in Requests \ {r} : sreq'[q] = sreq[q]
               /\ sreq'[r].pc # "insert"
    BY <1>0, <1>2 DEF SP!Goto, SP!RequestState
  <1>3. CASE SP!Serve(r)
    <2>1. CASE SP!Insert(r) \/ SP!Purge(r) \/ SP!DeleteAll(r) \/ SP!DeleteRow(r)
      BY <1>1, <2>1 DEF SP!Insert, SP!Purge, SP!DeleteAll, SP!DeleteRow, SP!Answer
    <2>2. CASE SP!SelectRow(r) \/ SP!FindRow(r)
      BY <1>1, <1>2, <2>2 DEF SP!SelectRow, SP!FindRow, SP!Answer
    <2>3. CASE SP!Slide(r)
      <3>1. CASE sreq' = [sreq EXCEPT ![r].pc = "reload"]
        BY <1>0, <3>1 DEF SP!RequestState
      <3> QED
        BY <1>1, <2>3, <3>1 DEF SP!Slide, SP!Answer
    <2>4. CASE SP!Reload(r)
      <3>1. ASSUME NEW u, sreq' = [sreq EXCEPT ![r].user = u, ![r].pc = "delete_all"]
            PROVE  /\ \A q \in Requests \ {r} : sreq'[q] = sreq[q]
                   /\ sreq'[r].pc # "insert"
        BY <1>0, <3>1 DEF SP!RequestState
      <3> QED
        BY <1>1, <2>4, <3>1 DEF SP!Reload, SP!Answer
    <2> QED
      BY <1>3, <2>1, <2>2, <2>3, <2>4 DEF SP!Serve
  <1>4. CASE SP!DatabaseError(r)
    BY <1>1, <1>4 DEF SP!DatabaseError, SP!Answer
  <1>5. CASE SP!Reply(r)
    BY <1>5 DEF SP!Reply, SP!Deliver, SP!LoseAnswer, SP!Release, SP!Idle
  <1>6. ASSUME NEW c, SP!AskLogout(r, c)
        PROVE  /\ \A q \in Requests \ {r} : sreq'[q] = sreq[q]
               /\ sreq'[r].pc # "insert"
    BY <1>0, <1>6 DEF SP!AskLogout, SP!Begin, SP!Idle
  <1>7. ASSUME NEW c, NEW o, SP!AskLookup(r, o, c)
        PROVE  /\ \A q \in Requests \ {r} : sreq'[q] = sreq[q]
               /\ sreq'[r].pc # "insert"
    BY <1>0, <1>7 DEF SP!AskLookup, SP!Begin, SP!Idle
  <1> QED
    BY <1>3, <1>4, <1>5, <1>6, <1>7

\* A step of Accounts moves one request, and only the SELECT of a login moves
\* it to its COMMIT.
LEMMA AccountMoves ==
  ASSUME AP!TypeOK, NEW r \in Requests,
         \/ AP!Ask(r) \/ AP!InsertUser(r) \/ AP!SelectUser(r) \/ AP!CommitLogin(r)
         \/ AP!DatabaseError(r) \/ AP!Deliver(r)
  PROVE  /\ \A q \in Requests \ {r} : areq'[q] = areq[q]
         /\ areq'[r].pc = "commit" =>
              /\ AP!SelectUser(r)
              /\ areq'[r].email = areq[r].email
              /\ areq'[r].password = areq[r].password
  <1>0. areq \in [Requests -> AP!RequestState]
    BY DEF AP!TypeOK
  <1>1. ASSUME NEW reply \in {"ok", "invalid_credentials", "PasswordPolicyError",
                              "ValueError", "OperationalError"},
               AP!Answer(r, reply)
        PROVE  /\ \A q \in Requests \ {r} : areq'[q] = areq[q]
               /\ areq'[r].pc # "commit"
    <2>1. PICK state \in AP!RequestState :
            areq' = [areq EXCEPT ![r] = state] /\ state.pc = "answer"
      BY <1>1, Constants, AP!AnswerShape
    <2> QED
      BY <1>0, <2>1
  <1>2. CASE AP!Ask(r)
    <2>1. ASSUME NEW op, NEW email, NEW p, NEW step \in {"insert", "answer", "lookup"},
                 NEW reply, AP!Begin(r, op, email, p, step, reply)
          PROVE  /\ \A q \in Requests \ {r} : areq'[q] = areq[q]
                 /\ areq'[r].pc # "commit"
      <3>1. PICK state :
              /\ areq' = [areq EXCEPT ![r] = state]
              /\ state = [AP!Idle EXCEPT !.pc = step, !.op = op, !.email = email,
                                         !.password = p, !.reply = reply]
        BY <2>1 DEF AP!Begin
      <3>2. state.pc = step
        BY <3>1 DEF AP!Idle
      <3> QED
        BY <1>0, <3>1, <3>2
    <2> QED
      BY <1>2, <2>1 DEF AP!Ask, AP!AskRegister, AP!AskLogin
  <1>3. CASE AP!InsertUser(r) \/ AP!CommitLogin(r) \/ AP!DatabaseError(r)
    BY <1>1, <1>3 DEF AP!InsertUser, AP!CommitLogin, AP!DatabaseError
  <1>4. CASE AP!SelectUser(r)
    <2>1. ASSUME NEW i, AP!Judge(r, i)
          PROVE  /\ \A q \in Requests \ {r} : areq'[q] = areq[q]
                 /\ areq'[r].pc = "commit" => /\ areq'[r].email = areq[r].email
                                              /\ areq'[r].password = areq[r].password
      <3>1. ASSUME NEW up, areq' = [areq EXCEPT ![r].pc = "commit", ![r].user_id = i,
                                                ![r].upgrade = up]
            PROVE  /\ \A q \in Requests \ {r} : areq'[q] = areq[q]
                   /\ areq'[r].email = areq[r].email
                   /\ areq'[r].password = areq[r].password
        BY <1>0, <3>1 DEF AP!RequestState
      <3>2. \/ AP!Answer(r, "invalid_credentials") \/ AP!Answer(r, "ValueError")
            \/ \E up : areq' = [areq EXCEPT ![r].pc = "commit", ![r].user_id = i,
                                            ![r].upgrade = up]
        BY <2>1 DEF AP!Judge
      <3> QED
        BY <1>1, <3>1, <3>2
    <2> QED
      BY <1>1, <1>4, <2>1 DEF AP!SelectUser
  <1>5. CASE AP!Deliver(r)
    <2>1. AP!Idle.pc = "idle"
      BY Constants, AP!IdleType
    <2> QED
      BY <1>5, <2>1 DEF AP!Deliver, AP!Release
  <1> QED
    BY <1>2, <1>3, <1>4, <1>5

-----------------------------------------------------------------------------
(* Steps that neither create a session nor change what tokens stand for *)

QuietRows ==
  /\ UNCHANGED owner
  /\ \A i \in DOMAIN sessions' : /\ i \in DOMAIN sessions
                                 /\ sessions'[i].token = sessions[i].token
                                 /\ sessions'[i].user = sessions[i].user

\* In Sessions, every step but the INSERT of a login.
LEMMA QuietSessions ==
  ASSUME SP!TypeOK, NEW r \in Requests,
         \/ (SP!Serve(r) /\ ~SP!Insert(r)) \/ SP!DatabaseError(r)
         \/ SP!Reply(r) \/ SP!Release(Requests) \/ SP!Tick \/ UNCHANGED svars
         \/ \E c : SP!AskLogout(r, c) \/ \E o : SP!AskLookup(r, o, c)
         \/ \E u, t : SP!AskLogin(r, u, t)
  PROVE  QuietRows
  <1>1. CASE UNCHANGED <<sessions, owner>>
    BY <1>1 DEF QuietRows
  <1>2. CASE SP!Purge(r) \/ SP!DeleteAll(r) \/ SP!DeleteRow(r)
    BY <1>2 DEF SP!Purge, SP!DeleteAll, SP!DeleteRow, SP!delete, QuietRows
  <1>3. CASE SP!Slide(r)
    <2>1. UNCHANGED owner /\ sessions \in [DOMAIN sessions -> SP!Row]
      BY <1>3 DEF SP!Slide, SP!TypeOK
    <2>2. CASE UNCHANGED sessions
      BY <1>1, <2>1, <2>2
    <2>3. ASSUME NEW k, NEW n, sessions' = [sessions EXCEPT ![k].last_used_at = n]
          PROVE  QuietRows
      <3>1. ASSUME NEW i \in DOMAIN sessions'
            PROVE  /\ i \in DOMAIN sessions
                   /\ sessions'[i].token = sessions[i].token
                   /\ sessions'[i].user = sessions[i].user
        <4>1. i \in DOMAIN sessions /\ sessions[i] \in SP!Row
          BY <2>1, <2>3, <3>1
        <4>2. sessions'[i] = IF i = k THEN [sessions[i] EXCEPT !.last_used_at = n]
                             ELSE sessions[i]
          BY <2>3, <4>1
        <4> QED
          BY <4>1, <4>2 DEF SP!Row
      <3> QED
        BY <2>1, <3>1 DEF QuietRows
    <2> QED
      BY <1>3, <2>2, <2>3 DEF SP!Slide
  <1>4. CASE SP!SelectRow(r) \/ SP!Reload(r) \/ SP!FindRow(r) \/ SP!DatabaseError(r)
    BY <1>1, <1>4 DEF SP!SelectRow, SP!Reload, SP!FindRow, SP!DatabaseError
  <1>5. CASE SP!Reply(r) \/ SP!Release(Requests) \/ SP!Tick \/ UNCHANGED svars
    BY <1>1, <1>5 DEF SP!Reply, SP!Deliver, SP!LoseAnswer, SP!Release, SP!Tick, svars
  <1>6. CASE \/ \E c : SP!AskLogout(r, c) \/ \E o : SP!AskLookup(r, o, c)
             \/ \E u, t : SP!AskLogin(r, u, t)
    BY <1>1, <1>6 DEF SP!AskLogout, SP!AskLookup, SP!AskLogin, SP!Begin
  <1> QED
    BY <1>2, <1>3, <1>4, <1>5, <1>6 DEF SP!Serve

\* In Accounts, every step but the COMMIT of a login; and no step makes the
\* table longer than its bound.
LEMMA QuietAccounts ==
  ASSUME AP!TypeOK, Len(users) <= MaxAccounts, NEW r \in Requests,
         \/ AP!Ask(r) \/ AP!InsertUser(r) \/ AP!SelectUser(r) \/ AP!DatabaseError(r)
         \/ AP!Deliver(r) \/ AP!Release(Requests) \/ UNCHANGED avars
  PROVE  UNCHANGED created /\ Len(users') <= MaxAccounts
  BY DEF AP!Ask, AP!AskRegister, AP!AskLogin, AP!Begin, AP!InsertUser, AP!SelectUser,
         AP!DatabaseError, AP!Deliver, AP!Release, avars

LEMMA CommitFits ==
  ASSUME AP!TypeOK, AP!TypeOK', Len(users) <= MaxAccounts, NEW r, AP!CommitLogin(r)
  PROVE  Len(users') <= MaxAccounts
  <1>1. DOMAIN users' = DOMAIN users
    BY DEF AP!CommitLogin, AP!Upgraded
  <1>2. Len(users') = Len(users)
    BY <1>1 DEF AP!TypeOK
  <1> QED
    BY <1>2

\* A token keeps what it stands for: accounts keep their addresses, what
\* their hashes accept, and up-to-date hashes.
LEMMA TokenStays ==
  ASSUME AP!TypeOK, AP!Keeps, NEW t, TokenSound(t),
         owner'[t] = owner[t], credential'[t] = credential[t]
  PROVE  TokenSound(t)'
  <1>1. PICK u \in 1..Len(users), c \in AP!Emails \X Passwords :
          u = owner[t] /\ c = credential[t]
    BY DEF TokenSound
  <1>2. /\ u \in 1..Len(users')
        /\ users'[u].email = users[u].email
        /\ AP!Verifies(c[2], users'[u].password_hash)
             <=> AP!Verifies(c[2], users[u].password_hash)
        /\ AP!Current(users[u].password_hash) => AP!Current(users'[u].password_hash)
    BY <1>1 DEF AP!Keeps
  <1>3. /\ users[u].email[1] = c[1][1]
        /\ AP!Verifies(c[2], users[u].password_hash)
        /\ AP!Current(users[u].password_hash)
    BY <1>1 DEF TokenSound
  <1>4. /\ users'[u].email[1] = c[1][1]
        /\ AP!Verifies(c[2], users'[u].password_hash)
        /\ AP!Current(users'[u].password_hash)
    BY <1>2, <1>3
  <1>5. owner'[t] = u /\ credential'[t] = c
    BY <1>1
  <1> QED
    BY <1>1, <1>2, <1>4, <1>5 DEF TokenSound, AP!Verifies, AP!Current

LEMMA QuietBoth ==
  ASSUME SP!TypeOK, SP!LifeInv, AP!TypeOK, AP!Keeps, BothInv,
         QuietRows, UNCHANGED created,
         \A t \in Tokens : owner[t] # NoUser => credential'[t] = credential[t]
  PROVE  BothInv'
  <1>1. \A t \in Tokens : owner'[t] # NoUser => TokenSound(t)'
    BY TokenStays DEF BothInv, QuietRows
  <1>2. \A i \in DOMAIN sessions' : owner'[sessions'[i].token] = sessions'[i].user
    BY DEF BothInv, QuietRows
  <1>3. CountInv'
    BY DEF BothInv, CountInv, TokensOf, LoginsOf, QuietRows
  <1> QED
    BY <1>1, <1>2, <1>3 DEF BothInv

-----------------------------------------------------------------------------
(* The COMMIT of a login *)

\* The account of the login has, with its new session, an up-to-date hash.
LEMMA CommitCurrent ==
  ASSUME AP!TypeOK, AP!AccountsInv, AP!TypeOK', AP!AccountsInv', AP!Keeps,
         NEW r \in Requests, AP!CommitLogin(r)
  PROVE  /\ areq[r].user_id \in 1..Len(users')
         /\ users'[areq[r].user_id].email[1] = areq[r].email[1]
         /\ AP!Verifies(areq[r].password, users'[areq[r].user_id].password_hash)
         /\ AP!Current(users'[areq[r].user_id].password_hash)
  <1>1. PICK q \in AP!RequestState : q = areq[r] /\ q.op = "login" /\ AP!Accepted(q)
    BY DEF AP!TypeOK, AP!AccountsInv, AP!RequestInv, AP!CommitLogin, AP!At
  <1>2. q.email \in AP!Emails /\ q.password \in Passwords
    BY DEF AP!RequestState
  <1>3. AP!normalized(q.email)[1] = q.email[1]
    BY <1>2, Constants, AP!NormalizedType
  <1>4. /\ q.user_id \in 1..Len(users) /\ q.user_id \in 1..Len(users')
        /\ users[q.user_id].email[1] = q.email[1]
        /\ users'[q.user_id].email[1] = q.email[1]
    BY <1>1, <1>3 DEF AP!Accepted, AP!Keeps
  <1>5. AP!Verifies(q.password, users'[q.user_id].password_hash)
    BY <1>1, <1>2, <1>4 DEF AP!Accepted, AP!Keeps
  <1>6. AP!Answer(r, "ok")
    BY DEF AP!CommitLogin
  <1>7. PICK s \in AP!RequestState :
          /\ areq' = [areq EXCEPT ![r] = s]
          /\ s.op = "login" /\ s.reply = "ok" /\ s.email = q.email
    BY <1>1, <1>6, Constants, AP!AnswerShape
  <1>8. areq'[r] = s
    BY <1>7 DEF AP!TypeOK
  <1>9. AP!RequestInv(s, known[r])'
    BY <1>8 DEF AP!AccountsInv
  <1>10. PICK n \in 1..Len(created') :
           /\ users'[created'[n]].email[1] = s.email[1]
           /\ AP!Current(users'[created'[n]].password_hash)
    BY <1>7, <1>9 DEF AP!RequestInv, AP!Sound, AP!Current
  <1>11. created'[n] \in 1..Len(users')
    BY DEF AP!TypeOK
  <1>12. created'[n] = q.user_id
    BY <1>4, <1>7, <1>10, <1>11
    DEF AP!AccountsInv, AP!TableInv, AP!OneAccountPerAddress
  <1> QED
    BY <1>1, <1>4, <1>5, <1>10, <1>12

\* A user who logs in has one more token and one more login, the others as many
\* as before.
LEMMA CountStep ==
  ASSUME CountInv, NEW c \in Tokens, NEW u \in 1..MaxAccounts,
         owner \in [Tokens -> 1..MaxAccounts \cup {NoUser}], owner[c] = NoUser,
         NoUser \notin 1..MaxAccounts, created \in Seq(Nat),
         owner' = [owner EXCEPT ![c] = u], created' = Append(created, u)
  PROVE  CountInv'
  <1> SUFFICES ASSUME NEW w \in 1..MaxAccounts
               PROVE  /\ IsFiniteSet(TokensOf(w)')
                      /\ Cardinality(TokensOf(w)') = Cardinality(LoginsOf(w)')
    BY DEF CountInv, TokensOf, LoginsOf
  <1>1. /\ IsFiniteSet(TokensOf(w))
        /\ Cardinality(TokensOf(w)) = Cardinality(LoginsOf(w))
    BY DEF CountInv
  <1>2. PICK k \in Nat : k = Len(created)
    OBVIOUS
  <1>3. /\ Len(created') = k + 1 /\ created'[k + 1] = u
        /\ \A n \in 1..k : created'[n] = created[n]
    BY <1>2
  <1>4. LoginsOf(w)' = IF w = u THEN LoginsOf(w) \cup {k + 1} ELSE LoginsOf(w)
    BY <1>2, <1>3 DEF LoginsOf
  <1>5. TokensOf(w)' = IF w = u THEN TokensOf(w) \cup {c} ELSE TokensOf(w)
    BY DEF TokensOf
  <1>6. c \notin TokensOf(w) /\ k + 1 \notin LoginsOf(w)
    BY <1>2 DEF TokensOf, LoginsOf
  <1>7. IsFiniteSet(LoginsOf(w))
    <2>1. LoginsOf(w) \in SUBSET (1..k)
      BY <1>2 DEF LoginsOf
    <2>2. IsFiniteSet(1..k)
      BY FS_Interval
    <2> QED
      BY <2>1, <2>2, FS_Subset
  <1>8. CASE w = u
    <2>1. /\ IsFiniteSet(TokensOf(w) \cup {c})
          /\ Cardinality(TokensOf(w) \cup {c}) = Cardinality(TokensOf(w)) + 1
      BY <1>1, <1>6, FS_AddElement
    <2>2. Cardinality(LoginsOf(w) \cup {k + 1}) = Cardinality(LoginsOf(w)) + 1
      BY <1>6, <1>7, FS_AddElement
    <2> QED
      BY <1>1, <1>4, <1>5, <1>8, <2>1, <2>2
  <1>9. CASE w # u
    BY <1>1, <1>4, <1>5, <1>9
  <1> QED
    BY <1>8, <1>9

LEMMA CommitBoth ==
  ASSUME AuthInv, PartsInv', AP!Keeps, NEW r \in Requests,
         AP!CommitLogin(r), SP!Insert(r), UNCHANGED credential
  PROVE  BothInv'
  <1>1. PICK c \in Tokens, u \in 1..MaxAccounts : c = sreq[r].cookie /\ u = sreq[r].user
    BY DEF AuthInv, PartsInv, SP!TypeOK, SP!WellFormed, SP!Insert, SP!At
  <1>2. owner[c] = NoUser
    BY <1>1 DEF AuthInv, PartsInv, SP!LifeInv, SP!RequestLife, SP!LoginToken,
                SP!Issued, SP!Insert, SP!At
  <1>3. /\ u = areq[r].user_id
        /\ credential[c] = <<areq[r].email, areq[r].password>>
    BY <1>1 DEF AuthInv, Coupled, AP!CommitLogin, AP!At
  <1>4. owner \in [Tokens -> 1..MaxAccounts \cup {NoUser}] /\ NoUser \notin 1..MaxAccounts
    BY Constants DEF AuthInv, PartsInv, SP!TypeOK, SP!SessionsAssumption
  <1>5. owner' = [owner EXCEPT ![c] = u] /\ created' = Append(created, u)
    BY <1>1, <1>3 DEF SP!Insert, AP!CommitLogin
  <1>6. TokenSound(c)'
    <2>1. credential[c] \in AP!Emails \X Passwords
      <3>1. areq[r] \in AP!RequestState
        BY DEF AuthInv, PartsInv, AP!TypeOK
      <3>2. areq[r].email \in AP!Emails /\ areq[r].password \in Passwords
        BY <3>1 DEF AP!RequestState
      <3> QED
        BY <1>3, <3>2
    <2>2. /\ u \in 1..Len(users')
          /\ users'[u].email[1] = areq[r].email[1]
          /\ AP!Verifies(areq[r].password, users'[u].password_hash)
          /\ AP!Current(users'[u].password_hash)
      BY <1>3, CommitCurrent DEF AuthInv, PartsInv
    <2>3. owner'[c] = u /\ credential'[c] = <<areq[r].email, areq[r].password>>
      BY <1>3, <1>4, <1>5
    <2> QED
      BY <2>1, <2>2, <2>3 DEF TokenSound, AP!Verifies, AP!Current
  <1>7. ASSUME NEW t \in Tokens, owner'[t] # NoUser PROVE TokenSound(t)'
    <2>1. CASE t # c
      BY <1>4, <1>5, <1>7, <2>1, TokenStays DEF AuthInv, PartsInv, BothInv
    <2> QED
      BY <1>6, <2>1
  <1>8. ASSUME NEW i \in DOMAIN sessions'
        PROVE  owner'[sessions'[i].token] = sessions'[i].user
    <2>1. PICK id, row : /\ SP!create(id, row) /\ row.token = c /\ row.user = u
      BY <1>1 DEF SP!Insert
    <2>2. CASE i = id
      BY <1>4, <1>5, <2>1, <2>2 DEF SP!create
    <2>3. CASE i # id
      <3>1. i \in DOMAIN sessions /\ sessions'[i] = sessions[i]
        BY <2>1, <2>3 DEF SP!create
      <3>2. sessions[i].token # c /\ sessions[i].token \in Tokens
        BY <1>2, <3>1 DEF AuthInv, PartsInv, SP!LifeInv, SP!TableLife, SP!Issued,
                          SP!TypeOK, SP!Row
      <3> QED
        BY <1>4, <1>5, <3>1, <3>2 DEF AuthInv, BothInv
    <2> QED
      BY <2>2, <2>3
  <1>9. CountInv'
    <2>1. created \in Seq(Nat)
      BY DEF AuthInv, PartsInv, AP!TypeOK
    <2> QED
      BY <1>2, <1>4, <1>5, <2>1, CountStep DEF AuthInv, BothInv
  <1> QED
    BY <1>7, <1>8, <1>9 DEF BothInv

-----------------------------------------------------------------------------
(* Every step *)

LEMMA PartsStep ==
  ASSUME PartsInv, [SP!Next]_(SP!vars), [AP!Next]_(AP!vars)
  PROVE  PartsInv' /\ AP!Keeps
  <1>1. SP!TypeOK' /\ SP!LifeInv'
    BY Constants, SP!TypeStep, SP!LifeStep DEF PartsInv
  <1>2. AP!Goal
    BY Constants, AP!StepInv DEF PartsInv
  <1> QED
    BY <1>1, <1>2 DEF PartsInv, AP!Goal

\* A step of one request that creates no session keeps the invariant, if it
\* leaves its own request coupled.
LEMMA QuietStep ==
  ASSUME AuthInv, [SP!Next]_(SP!vars), [AP!Next]_(AP!vars), NEW r \in Requests,
         \A q \in Requests \ {r} : sreq'[q] = sreq[q] /\ areq'[q] = areq[q],
         Coupled(r)', QuietRows, UNCHANGED created, Len(users') <= MaxAccounts,
         \A t \in Tokens : owner[t] # NoUser => credential'[t] = credential[t],
         DOMAIN credential' = Tokens,
         \A q \in Requests \ {r} : credential'[sreq[q].cookie] = credential[sreq[q].cookie]
  PROVE  AuthInv'
  <1>1. PartsInv' /\ AP!Keeps
    BY PartsStep DEF AuthInv
  <1>2. BothInv'
    BY <1>1, QuietBoth DEF AuthInv, PartsInv
  <1>3. \A q \in Requests : Coupled(q)'
    BY DEF AuthInv, Coupled
  <1> QED
    BY <1>1, <1>2, <1>3 DEF AuthInv

LEMMA CommitStep ==
  ASSUME AuthInv, NEW r \in Requests, CommitLogin(r)
  PROVE  AuthInv'
  <1>1. AP!CommitLogin(r) /\ SP!Insert(r) /\ UNCHANGED credential
    BY AccountNames, ServeNames DEF CommitLogin
  <1>2. SP!Next /\ AP!Next
    BY <1>1 DEF SP!Next, SP!Serve, AP!Next, AP!Serve
  <1>3. PartsInv' /\ AP!Keeps
    BY <1>2, PartsStep DEF AuthInv
  <1>4. BothInv'
    BY <1>1, <1>3, CommitBoth
  <1>5. Len(users') <= MaxAccounts
    BY <1>1, <1>3, CommitFits DEF AuthInv, PartsInv
  <1>6. /\ \A q \in Requests \ {r} : sreq'[q] = sreq[q]
        /\ sreq'[r].pc # "insert"
    BY <1>1, SessionMoves DEF AuthInv, PartsInv, SP!Serve
  <1>7. /\ \A q \in Requests \ {r} : areq'[q] = areq[q]
        /\ areq'[r].pc # "commit"
    BY <1>1, AccountMoves DEF AuthInv, PartsInv, AP!CommitLogin, AP!SelectUser, AP!At
  <1>8. \A q \in Requests : Coupled(q)'
    BY <1>1, <1>6, <1>7 DEF AuthInv, Coupled
  <1> QED
    BY <1>1, <1>3, <1>4, <1>5, <1>8 DEF AuthInv

\* A login whose password is accepted draws its token in the same step.
LEMMA SelectStep ==
  ASSUME AuthInv, NEW r \in Requests, SelectUser(r)
  PROVE  AuthInv'
  <1>1. AP!SelectUser(r) /\ AP!Next
    BY AccountNames DEF SelectUser, AP!Next, AP!Serve
  <1>2. UNCHANGED <<users, created>> /\ areq[r].pc = "lookup"
    BY <1>1 DEF AP!SelectUser, AP!At
  <1>3. AP!TypeOK' /\ AP!AccountsInv'
    BY <1>1, Constants, AP!StepInv DEF AuthInv, PartsInv, AP!Goal
  <1>4. /\ \A q \in Requests \ {r} : areq'[q] = areq[q]
        /\ areq'[r].pc = "commit" => /\ areq'[r].email = areq[r].email
                                     /\ areq'[r].password = areq[r].password
    BY <1>1, AccountMoves DEF AuthInv, PartsInv
  <1>5. CASE areq'[r].pc # "commit"
    <2>1. UNCHANGED <<svars, credential>>
      BY <1>5 DEF SelectUser
    <2>2. UNCHANGED SP!vars /\ UNCHANGED <<sreq, credential>>
      BY <2>1 DEF svars, SP!vars
    <2>3. QuietRows
      BY <2>1, QuietSessions DEF AuthInv, PartsInv
    <2>4. Coupled(r)'
      BY <1>2, <1>5, <2>2 DEF AuthInv, Coupled
    <2> QED
      BY <1>1, <1>2, <1>4, <2>2, <2>3, <2>4, QuietStep DEF AuthInv
  <1>6. CASE areq'[r].pc = "commit"
    <2>0. PICK t \in Tokens :
            /\ S!AskLogin(r, areq'[r].user_id, t)
            /\ credential' = [credential EXCEPT ![t] = <<areq[r].email, areq[r].password>>]
      BY <1>6 DEF SelectUser
    <2>1. PICK u : u = areq'[r].user_id /\ SP!AskLogin(r, u, t)
      BY <2>0, SessionNames
    <2>2. u \in 1..MaxAccounts
      <3>1. u \in 1..Len(users)
        BY <1>2, <1>3, <1>6, <2>1 DEF AP!AccountsInv, AP!RequestInv, AP!Accepted
      <3>2. Len(users) \in Nat /\ MaxAccounts \in Nat /\ Len(users) <= MaxAccounts
        BY Constants DEF AuthInv, PartsInv, AP!TypeOK, AP!AccountsAssumption
      <3> QED
        BY <3>1, <3>2
    <2>3. SP!Next
      BY <2>1, <2>2 DEF SP!Next, SP!Ask
    <2>4. QuietRows
      BY <2>1, QuietSessions DEF AuthInv, PartsInv
    <2>5. /\ owner[t] = NoUser
          /\ \A q \in Requests : sreq[q].cookie # t
      BY <2>1 DEF SP!AskLogin, SP!Issued
    <2>6. PICK state :
            /\ sreq' = [sreq EXCEPT ![r] = state]
            /\ state.pc = "insert" /\ state.cookie = t /\ state.user = u
      <3>1. PICK state :
              /\ sreq' = [sreq EXCEPT ![r] = state]
              /\ state = [SP!Idle EXCEPT !.pc = "insert", !.op = "login", !.cookie = t,
                                         !.now = clock, !.user = u]
        BY <2>1 DEF SP!AskLogin, SP!Begin
      <3>2. state.pc = "insert" /\ state.cookie = t /\ state.user = u
        BY <3>1 DEF SP!Idle
      <3> QED
        BY <3>1, <3>2
    <2>7. /\ \A q \in Requests \ {r} : sreq'[q] = sreq[q]
          /\ sreq'[r] = state
      BY <2>6 DEF AuthInv, PartsInv, SP!TypeOK
    <2>8. DOMAIN credential = Tokens /\ DOMAIN credential' = Tokens
      BY <2>0 DEF AuthInv
    <2>9. Coupled(r)'
      BY <1>4, <1>6, <2>0, <2>1, <2>6, <2>7, <2>8 DEF Coupled
    <2> QED
      BY <1>1, <1>2, <1>4, <2>0, <2>3, <2>4, <2>5, <2>7, <2>8, <2>9, QuietStep DEF AuthInv
  <1> QED
    BY <1>5, <1>6

LEMMA ActionStep ==
  ASSUME AuthInv, NEW r \in Requests,
         \/ AskAccount(r) \/ Register(r) \/ SelectUser(r) \/ CommitLogin(r)
         \/ AccountError(r) \/ AccountReply(r) \/ SessionStep(r)
  PROVE  AuthInv'
  <1>0. /\ SP!TypeOK /\ AP!TypeOK /\ AP!AccountsInv
        /\ Coupled(r) /\ DOMAIN credential = Tokens
    BY DEF AuthInv, PartsInv
  <1> DEFINE OtherA == \A q \in Requests \ {r} : areq'[q] = areq[q]
             OtherS == \A q \in Requests \ {r} : sreq'[q] = sreq[q]
  <1>1. ASSUME UNCHANGED svars
        PROVE  [SP!Next]_(SP!vars) /\ OtherS /\ QuietRows /\ UNCHANGED sreq
    BY <1>0, <1>1, QuietSessions DEF svars, SP!vars
  <1>2. ASSUME UNCHANGED avars
        PROVE  /\ [AP!Next]_(AP!vars) /\ OtherA /\ UNCHANGED <<areq, created>>
               /\ Len(users') <= MaxAccounts
    BY <1>2 DEF avars, AP!vars, AuthInv
  <1>3. CASE AskAccount(r)
    <2>1. AP!Ask(r) /\ UNCHANGED <<svars, credential>> /\ sreq[r].pc = "idle"
      BY <1>3, AccountNames DEF AskAccount, S!At
    <2>2. AP!Next
      BY <2>1 DEF AP!Next
    <2>3. OtherA /\ areq'[r].pc # "commit"
      BY <1>0, <2>1, AccountMoves DEF AP!Ask, AP!AskRegister, AP!AskLogin, AP!Begin,
                                      AP!SelectUser, AP!At
    <2>4. Coupled(r)'
      BY <1>1, <2>1, <2>3 DEF Coupled
    <2> QED
      BY <1>0, <1>1, <2>1, <2>2, <2>3, <2>4, QuietAccounts, QuietStep DEF AuthInv
  <1>4. CASE Register(r)
    <2>1. AP!InsertUser(r) /\ UNCHANGED <<svars, credential>> /\ areq[r].pc = "insert"
      BY <1>4, AccountNames DEF Register, A!InsertUser, A!At
    <2>2. AP!Next
      BY <2>1 DEF AP!Next, AP!Serve
    <2>3. OtherA /\ areq'[r].pc # "commit"
      BY <1>0, <2>1, AccountMoves DEF AP!SelectUser, AP!At
    <2>4. Coupled(r)'
      BY <1>0, <1>1, <2>1, <2>3 DEF Coupled
    <2> QED
      BY <1>0, <1>1, <2>1, <2>2, <2>3, <2>4, QuietAccounts, QuietStep DEF AuthInv
  <1>5. CASE AccountError(r)
    <2>1. AP!DatabaseError(r) /\ UNCHANGED credential /\ AP!Next
      BY <1>5, AccountNames DEF AccountError, AP!Next
    <2>2. areq'[r].pc # "commit"
      <3>1. AP!Answer(r, "OperationalError")
        BY <2>1 DEF AP!DatabaseError
      <3>2. PICK state \in AP!RequestState :
              areq' = [areq EXCEPT ![r] = state] /\ state.pc = "answer"
        BY <1>0, <3>1, Constants, AP!AnswerShape
      <3> QED
        BY <1>0, <3>2 DEF AP!TypeOK
    <2>3. OtherA
      BY <1>0, <2>1, AccountMoves
    <2>4. [SP!Next]_(SP!vars) /\ OtherS /\ QuietRows /\ sreq'[r].pc # "insert"
      <3>1. CASE areq[r].pc = "commit"
        <4>1. SP!DatabaseError(r) /\ SP!Next
          BY <1>5, <3>1, ServeNames DEF AccountError, SP!Next
        <4> QED
          BY <1>0, <4>1, SessionMoves, QuietSessions
      <3>2. CASE areq[r].pc # "commit"
        BY <1>0, <1>1, <1>5, <3>2 DEF AccountError, Coupled
      <3> QED
        BY <3>1, <3>2
    <2>5. Coupled(r)'
      BY <2>2, <2>4 DEF Coupled
    <2> QED
      BY <1>0, <2>1, <2>3, <2>4, <2>5, QuietAccounts, QuietStep DEF AuthInv
  <1>6. CASE AccountReply(r)
    <2>1. AP!Deliver(r) /\ UNCHANGED credential /\ AP!Next
      BY <1>6, AccountNames DEF AccountReply, AP!Next
    <2>2. OtherA /\ areq'[r].pc # "commit"
      BY <1>0, <2>1, AccountMoves DEF AP!SelectUser, AP!Deliver, AP!At
    <2>3. [SP!Next]_(SP!vars) /\ OtherS /\ QuietRows /\ sreq'[r].pc # "insert"
      <3>1. CASE sreq[r].pc = "idle"
        BY <1>1, <1>6, <3>1 DEF AccountReply, S!At
      <3>2. CASE sreq[r].pc # "idle"
        <4>1. SP!Reply(r) /\ SP!Next
          BY <1>6, <3>2, ServeNames DEF AccountReply, S!At, SP!Next
        <4> QED
          BY <1>0, <4>1, SessionMoves, QuietSessions
      <3> QED
        BY <3>1, <3>2
    <2>4. Coupled(r)'
      BY <2>2, <2>3 DEF Coupled
    <2> QED
      BY <1>0, <2>1, <2>2, <2>3, <2>4, QuietAccounts, QuietStep DEF AuthInv
  <1>7. CASE SessionStep(r)
    <2>1. /\ UNCHANGED <<avars, credential>> /\ areq[r].pc = "idle"
          /\ \/ \E c \in SP!Presentable \cup {NoCookie} :
                  SP!AskLogout(r, c) \/ \E o \in SP!Lookups : SP!AskLookup(r, o, c)
             \/ SP!Serve(r) \/ SP!DatabaseError(r) \/ SP!Reply(r)
      BY <1>7, SessionNames, ServeNames DEF SessionStep, A!At
    <2>2. SP!Next
      BY <2>1 DEF SP!Next, SP!Ask
    <2>3. ~SP!Insert(r)
      BY <1>0, <2>1 DEF Coupled, SP!Insert, SP!At
    <2>4. OtherS /\ sreq'[r].pc # "insert"
      BY <1>0, <2>1, SessionMoves
    <2>5. QuietRows
      BY <1>0, <2>1, <2>3, QuietSessions
    <2>6. Coupled(r)'
      BY <1>2, <2>1, <2>4 DEF Coupled
    <2> QED
      BY <1>0, <1>2, <2>1, <2>2, <2>4, <2>5, <2>6, QuietStep
  <1> QED
    BY <1>3, <1>4, <1>5, <1>6, <1>7, SelectStep, CommitStep

LEMMA CrashStep ==
  ASSUME AuthInv, Crash
  PROVE  AuthInv'
  <1>1. SP!Release(Requests) /\ AP!Release(Requests) /\ UNCHANGED <<held, credential>>
    BY ServeNames, AccountNames DEF Crash
  <1>2. PICK r \in Requests : TRUE
    BY DEF Crash
  <1>3. Requests \in SUBSET Requests
    OBVIOUS
  <1>4. SP!TypeOK'
    BY <1>1, <1>3, Constants, SP!ReleaseType DEF AuthInv, PartsInv, SP!TypeOK
  <1>5. SP!LifeInv'
    BY <1>1, <1>3, <1>4, Constants, SP!LifeRelease
    DEF AuthInv, PartsInv, SP!LifeInv, SP!FreshTokens
  <1>6. AP!Goal
    BY <1>1, <1>3, Constants, AP!ReleaseInv DEF AuthInv, PartsInv
  <1>7. PartsInv' /\ AP!Keeps
    BY <1>4, <1>5, <1>6 DEF PartsInv, AP!Goal
  <1>8. QuietRows /\ UNCHANGED created /\ Len(users') <= MaxAccounts
    BY <1>1, <1>2, QuietSessions, QuietAccounts DEF AuthInv, PartsInv
  <1>9. BothInv'
    BY <1>1, <1>7, <1>8, QuietBoth DEF AuthInv, PartsInv
  <1>10. ASSUME NEW q \in Requests PROVE Coupled(q)'
    <2>1. AP!Idle.pc = "idle" /\ SP!Idle.pc = "idle"
      BY Constants, AP!IdleType DEF SP!Idle
    <2>2. areq'[q].pc = "idle" /\ sreq'[q].pc = "idle"
      BY <1>1, <2>1 DEF AP!Release, SP!Release
    <2> QED
      BY <2>2 DEF Coupled
  <1> QED
    BY <1>1, <1>7, <1>8, <1>9, <1>10 DEF AuthInv

LEMMA StillStep ==
  ASSUME AuthInv, Tick \/ UNCHANGED vars
  PROVE  AuthInv'
  <1>1. /\ UNCHANGED <<avars, credential, sessions, sreq, owner>>
        /\ [SP!Next]_(SP!vars) /\ [AP!Next]_(AP!vars)
    BY DEF Tick, vars, svars, avars, S!Tick, SP!Tick, SP!Next, SP!vars, AP!vars
  <1>2. PartsInv' /\ AP!Keeps
    BY <1>1, PartsStep DEF AuthInv
  <1>3. BothInv'
    BY <1>1, <1>2, QuietBoth DEF AuthInv, PartsInv, QuietRows, avars
  <1> QED
    BY <1>1, <1>2, <1>3 DEF AuthInv, Coupled, avars

LEMMA AuthStep ==
  ASSUME AuthInv, [Next]_vars
  PROVE  AuthInv'
  BY ActionStep, CrashStep, StillStep DEF Next

LEMMA AuthStart ==
  ASSUME Init
  PROVE  AuthInv
  <1>1. SP!Init /\ AP!Init /\ credential = [t \in Tokens |-> <<>>]
    <2>1. PICK r : TRUE
      OBVIOUS
    <2> QED
      BY ServeNames, AccountNames DEF Init
  <1>2. SP!TypeOK /\ SP!LifeInv
    BY <1>1, Constants, SP!TypeStart, SP!LifeStart
  <1>3. AP!TypeOK /\ AP!AccountsInv
    BY <1>1, Constants, AP!InitInv
  <1>4. Len(users) <= MaxAccounts
    BY <1>1, AuthServiceAssumption DEF AP!Init
  <1>5. /\ \A t \in Tokens : owner[t] = NoUser
        /\ DOMAIN sessions = {} /\ created = <<>> /\ NoUser \notin 1..MaxAccounts
    BY <1>1, Constants DEF SP!Init, AP!Init, SP!SessionsAssumption
  <1>6. \A u \in 1..MaxAccounts : TokensOf(u) = {} /\ LoginsOf(u) = {}
    BY <1>5 DEF TokensOf, LoginsOf
  <1>7. CountInv
    BY <1>6, FS_EmptySet DEF CountInv
  <1>8. BothInv
    BY <1>5, <1>7 DEF BothInv
  <1>9. ASSUME NEW r \in Requests PROVE Coupled(r)
    <2>1. AP!Idle.pc = "idle" /\ SP!Idle.pc = "idle"
      BY Constants, AP!IdleType DEF SP!Idle
    <2> QED
      BY <1>1, <2>1 DEF AP!Init, SP!Init, Coupled
  <1> QED
    BY <1>1, <1>2, <1>3, <1>4, <1>8, <1>9 DEF AuthInv, PartsInv

-----------------------------------------------------------------------------
(* Theorems *)

\* The inductive invariant: both parts keep theirs, and what joins them (the
\* logins in flight, the tokens, the counts) stays right.
THEOREM AuthHolds == Spec => []AuthInv
  BY AuthStart, AuthStep, PTL DEF Spec

\* As long as an account has a session its hash is an up-to-date one: the
\* upgrade and the session of a login are stored together, however row keys
\* are given.
THEOREM SessionsUnderCurrentHashHolds == Spec => []SessionsUnderCurrentHash
  <1>1. ASSUME AuthInv PROVE SessionsUnderCurrentHash
    <2> SUFFICES ASSUME NEW i \in DOMAIN sessions
                 PROVE  /\ sessions[i].user \in 1..Len(users)
                        /\ A!Current(users[sessions[i].user].password_hash)
      BY DEF SessionsUnderCurrentHash
    <2>1. sessions[i].token \in Tokens /\ owner[sessions[i].token] # NoUser
      BY <1>1 DEF AuthInv, PartsInv, SP!TypeOK, SP!Row, SP!LifeInv, SP!TableLife, SP!Issued
    <2>2. TokenSound(sessions[i].token) /\ owner[sessions[i].token] = sessions[i].user
      BY <1>1, <2>1 DEF AuthInv, BothInv
    <2> QED
      BY <2>2 DEF TokenSound, AP!Current, A!Current
  <1> QED
    BY <1>1, AuthHolds, PTL

\* An account has been issued as many tokens as it has had logins committed,
\* whatever errors and crashes came between.
THEOREM OneTokenPerLoginHolds == Spec => []OneTokenPerLogin
  <1>1. ASSUME AuthInv PROVE OneTokenPerLogin
    <2>1. Len(users) \in Nat /\ MaxAccounts \in Nat /\ Len(users) <= MaxAccounts
      BY <1>1, Constants DEF AuthInv, PartsInv, AP!TypeOK, AP!AccountsAssumption
    <2>2. \A u \in 1..Len(users) : u \in 1..MaxAccounts
      BY <2>1
    <2> QED
      BY <1>1, <2>2 DEF AuthInv, BothInv, CountInv, TokensOf, LoginsOf, OneTokenPerLogin
  <1> QED
    BY <1>1, AuthHolds, PTL

\* In Sessions, every step but a crash of the whole is a step of Sessions.
LEMMA SessionsNext ==
  ASSUME AuthInv, [Next]_vars
  PROVE  Crash \/ [SP!Next]_(SP!vars)
  <1>1. CASE UNCHANGED svars
    BY <1>1 DEF svars, SP!vars
  <1>2. ASSUME NEW r \in Requests, NEW u, NEW t \in Tokens, S!AskLogin(r, u, t)
        PROVE  SP!Next
    <2>1. SP!AskLogin(r, u, t)
      BY <1>2, SessionNames
    <2>2. PICK state :
            /\ sreq' = [sreq EXCEPT ![r] = state]
            /\ state = [SP!Idle EXCEPT !.pc = "insert", !.op = "login", !.cookie = t,
                                       !.now = clock, !.user = u]
      BY <2>1 DEF SP!AskLogin, SP!Begin
    <2>3. state.op = "login" /\ state.user = u
      BY <2>2 DEF SP!Idle
    <2>4. SP!TypeOK /\ SP!TypeOK'
      BY AuthStep DEF AuthInv, PartsInv
    <2>5. u \in 1..MaxAccounts
      BY <2>2, <2>3, <2>4 DEF SP!TypeOK, SP!WellFormed
    <2> QED
      BY <2>1, <2>5 DEF SP!Next, SP!Ask
  <1>3. ASSUME NEW r \in Requests,
               AccountError(r) \/ AccountReply(r) \/ SessionStep(r) \/ CommitLogin(r)
        PROVE  SP!Next \/ UNCHANGED svars
    <2>1. \/ SP!DatabaseError(r) \/ SP!Reply(r) \/ SP!Serve(r) \/ UNCHANGED svars
          \/ \E c \in SP!Presentable \cup {NoCookie} :
               SP!AskLogout(r, c) \/ \E o \in SP!Lookups : SP!AskLookup(r, o, c)
      BY <1>3, SessionNames, ServeNames
      DEF AccountError, AccountReply, SessionStep, CommitLogin, SP!Serve
    <2> QED
      BY <2>1 DEF SP!Next, SP!Ask
  <1>4. CASE Tick
    BY <1>4 DEF Tick, S!Tick, SP!Tick, SP!Next
  <1> QED
    BY <1>1, <1>2, <1>3, <1>4 DEF Next, vars, AskAccount, Register, SelectUser, svars

\* What Sessions knows of a table whose keys are never reused holds in the
\* whole service too.
LEMMA IdentityInService ==
  ASSUME ~ReuseRowIds
  PROVE  Spec => []SP!IdentityInv
  <1>1. Init => SP!IdentityInv
    <2>1. Init => SP!Init
      <3>1. PICK r : TRUE
        OBVIOUS
      <3> QED
        BY ServeNames DEF Init
    <2> QED
      BY <2>1, Constants, SP!IdentityStart
  <1>2. ASSUME AuthInv, SP!IdentityInv, [Next]_vars PROVE SP!IdentityInv'
    <2>1. SP!TypeOK
      BY <1>2 DEF AuthInv, PartsInv
    <2>2. CASE [SP!Next]_(SP!vars)
      BY <1>2, <2>1, <2>2, Constants, SP!IdentityStep
    <2>3. CASE Crash
      <3>1. SP!Release(Requests) /\ UNCHANGED held /\ Requests \in SUBSET Requests
        <4>1. PICK r : TRUE
          OBVIOUS
        <4> QED
          BY <2>3, ServeNames DEF Crash
      <3> QED
        BY <1>2, <2>1, <3>1, Constants, SP!ReleaseInv DEF SP!IdentityInv, SP!FreshTokens
    <2>4. Crash \/ [SP!Next]_(SP!vars)
      BY <1>2, SessionsNext
    <2> QED
      BY <2>2, <2>3, <2>4
  <1> QED
    BY <1>1, <1>2, AuthHolds, PTL DEF Spec

\* From end to end: whoever a request with a cookie is granted as is the
\* account of the address and the password the cookie was obtained with.
THEOREM GrantedToCredentialHolds ==
  ASSUME ~ReuseRowIds
  PROVE  Spec => []GrantedToCredential
  <1>1. ASSUME AuthInv, SP!IdentityInv PROVE GrantedToCredential
    <2> SUFFICES ASSUME NEW r \in Requests, S!Granted(r)
                 PROVE  /\ users[sreq[r].user].email[1] = credential[sreq[r].cookie][1][1]
                        /\ A!Verifies(credential[sreq[r].cookie][2],
                                      users[sreq[r].user].password_hash)
      BY DEF GrantedToCredential
    <2>1. /\ sreq[r].cookie \in Tokens /\ owner[sreq[r].cookie] # NoUser
          /\ sreq[r].user = owner[sreq[r].cookie]
      BY <1>1 DEF S!Granted, S!Answered, S!Lookups, SP!Lookups, S!At, SP!IdentityInv,
                  SP!RequestInv, SP!ResolvedUser, SP!Issued
    <2>2. TokenSound(sreq[r].cookie)
      BY <1>1, <2>1 DEF AuthInv, BothInv
    <2> QED
      BY <2>1, <2>2
      DEF TokenSound, AP!Verifies, A!Verifies, AP!verify_password, A!verify_password,
          AP!verify_argon2, A!verify_argon2, AP!verify_pbkdf2, A!verify_pbkdf2,
          AP!Outcome, A!Outcome, AP!AcceptedIterations, A!AcceptedIterations
  <1> QED
    BY <1>1, AuthHolds, IdentityInService, PTL
=============================================================================
