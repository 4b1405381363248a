--------------------------- MODULE AccountsProofs ---------------------------
(***************************************************************************)
(* Theorems about Passwords and Accounts, for every set of requests,       *)
(* addresses and passwords, and every table an earlier run may have left.  *)
(***************************************************************************)
EXTENDS Accounts, TLAPS

USE PasswordsAssumption, AccountsAssumption

-----------------------------------------------------------------------------
(* Hashes *)

\* A new hash can be stored, is up to date, and accepts its password.
LEMMA HashPassword ==
  ASSUME NEW p \in Passwords
  PROVE  /\ hash_password(p) \in Hashes
         /\ Current(hash_password(p))
         /\ Verifies(p, hash_password(p))
  <1>1. hash_password(p) \in Argon2Hashes
    BY DEF hash_password, argon2, Argon2Hashes, Argon2Params
  <1>2. hash_password(p) # NoHash
    BY <1>1 DEF Hashes
  <1>3. /\ hash_password(p).scheme = "$argon2"
        /\ hash_password(p).params = "current"
        /\ hash_password(p).key = p
    BY DEF hash_password, argon2
  <1>4. verify_password(p, hash_password(p)) = "match"
    BY <1>3 DEF verify_password, verify_argon2, Outcome
  <1> QED
    BY <1>1, <1>2, <1>3, <1>4 DEF Hashes, Current, Verifies

\* A hash accepts one password at most.
LEMMA OnePassword ==
  ASSUME NEW h \in Hashes, NEW p \in Passwords, NEW q \in Passwords,
         Verifies(p, h), Verifies(q, h)
  PROVE  p = q
  <1>1. CASE h \in Argon2Hashes
    <2>1. h.scheme = "$argon2"
      BY <1>1 DEF Argon2Hashes
    <2>2. h.key = p /\ h.key = q
      BY <2>1 DEF Verifies, verify_password, verify_argon2, Outcome
    <2> QED
      BY <2>2
  <1>2. CASE h \in LegacyHashes
    <2>1. h.scheme = "pbkdf2_sha256$"
      BY <1>2 DEF LegacyHashes
    <2>2. h.key = <<p, h.iterations>> /\ h.key = <<q, h.iterations>>
      BY <2>1 DEF Verifies, verify_password, verify_pbkdf2, Outcome
    <2> QED
      BY <2>2
  <1>3. CASE h = unrecognised
    <2>1. h.scheme = "other"
      BY <1>3 DEF unrecognised
    <2>2. verify_password(p, h) = "ValueError"
      BY <2>1 DEF verify_password
    <2> QED
      BY <2>2 DEF Verifies
  <1> QED
    BY <1>1, <1>2, <1>3 DEF Hashes

\* An accepted hash that needs no upgrade is up to date.
LEMMA NoUpgradeCurrent ==
  ASSUME NEW h \in Hashes, NEW p, Verifies(p, h), ~needs_rehash(h)
  PROVE  Current(h)
  <1>1. h.scheme \in {"$argon2", "pbkdf2_sha256$", "other"}
    BY DEF Hashes, Argon2Hashes, LegacyHashes, unrecognised
  <1>2. h.scheme # "other"
    BY DEF Verifies, verify_password
  <1> QED
    BY <1>1, <1>2 DEF Verifies, needs_rehash, Current

\* Upgrading a hash with a password it accepts changes nothing of what it
\* accepts.
LEMMA UpgradeSame ==
  ASSUME NEW h \in Hashes, NEW p \in Passwords, Verifies(p, h)
  PROVE  \A q \in Passwords : Verifies(q, hash_password(p)) <=> Verifies(q, h)
  BY HashPassword, OnePassword

-----------------------------------------------------------------------------
(* Types *)

\* Requests at rest, and the addresses they are at rest with.
LEMMA IdleType ==
  /\ Idle \in RequestState
  /\ Idle.pc = "idle" /\ Idle.op = "none" /\ Idle.reply = "none"
  <1>1. SomeEmail \in Emails
    <2>1. PICK a \in Addresses : <<a, "canonical">> \in Emails
      BY DEF Emails
    <2> QED
      BY <2>1 DEF SomeEmail
  <1>2. SomePassword \in Passwords
    BY DEF SomePassword
  <1> QED
    BY <1>1, <1>2 DEF Idle, RequestState

\* The stored form of an address is an address, and is its own stored form.
LEMMA NormalizedType ==
  ASSUME NEW email \in Emails
  PROVE  /\ normalized(email) \in Emails
         /\ normalized(email)[1] = email[1]
         /\ normalized(normalized(email)) = normalized(email)
  BY DEF Emails, normalized

\* One request moves to a well-typed state.
LEMMA MoveType ==
  ASSUME TypeOK, NEW r \in Requests, NEW state \in RequestState,
         req' = [req EXCEPT ![r] = state]
  PROVE  req' \in [Requests -> RequestState]
  BY DEF TypeOK

\* The state an answer leaves; a login's answer keeps what it was asked.
Answering(q, reply) ==
  IF q.op = "register"
  THEN [Idle EXCEPT !.pc = "answer", !.op = q.op, !.reply = reply]
  ELSE [[Idle EXCEPT !.pc = "answer", !.op = q.op, !.reply = reply]
           EXCEPT !.email = q.email, !.password = q.password]

\* An answered request: what it was, and what it was told.
LEMMA AnswerShape ==
  ASSUME TypeOK, NEW r \in Requests,
         NEW reply \in {"ok", "invalid_credentials", "PasswordPolicyError",
                        "ValueError", "OperationalError"},
         Answer(r, reply)
  PROVE  \E state \in RequestState :
           /\ req' = [req EXCEPT ![r] = state]
           /\ state.pc = "answer" /\ state.op = req[r].op /\ state.reply = reply
           /\ state.op # "register" => /\ state.email = req[r].email
                                       /\ state.password = req[r].password
  <1>1. PICK state : state = Answering(req[r], reply)
    OBVIOUS
  <1>2. req[r] \in RequestState
    BY DEF TypeOK
  <1>3. state \in RequestState
    BY <1>1, <1>2, IdleType DEF Answering, RequestState
  <1>4. req' = [req EXCEPT ![r] = state]
    BY <1>1 DEF Answer, Answering
  <1>5. /\ state.pc = "answer" /\ state.op = req[r].op /\ state.reply = reply
        /\ state.op # "register" => /\ state.email = req[r].email
                                    /\ state.password = req[r].password
    BY <1>1, IdleType DEF Answering, RequestState
  <1> QED
    BY <1>3, <1>4, <1>5

-----------------------------------------------------------------------------
(* The inductive invariant *)

\* Stored addresses are in their stored form, each in one row.
TableInv ==
  /\ \A i \in 1..Len(users) : users[i].email = normalized(users[i].email)
  /\ OneAccountPerAddress

\* The row a login accepted: it is the one of its address, its hash accepts the
\* password, and it is up to date unless the login is about to upgrade it.
Accepted(q) ==
  /\ q.user_id \in 1..Len(users)
  /\ users[q.user_id].email = normalized(q.email)
  /\ Verifies(q.password, users[q.user_id].password_hash)
  /\ q.upgrade \/ Current(users[q.user_id].password_hash)

\* A login that succeeded left a session of its account, with its hash current.
Sound(q) ==
  \E n \in 1..Len(created) :
    LET u == users[created[n]] IN
    /\ u.email[1] = q.email[1]
    /\ Verifies(q.password, u.password_hash)
    /\ Current(u.password_hash)

\* None of the first k accounts is the one of the login's address and password.
Unknown(q, k) ==
  \A i \in 1..k :
    users[i].email[1] = q.email[1] => ~Verifies(q.password, users[i].password_hash)

RequestInv(q, k) ==
  /\ q.pc # "answer" => q.reply = "none"
  /\ q.pc = "insert" => q.op = "register"
  /\ q.pc \in {"lookup", "commit"} => q.op = "login"
  /\ q.pc = "commit" => Accepted(q)
  /\ q.op = "login" /\ q.reply = "ok" => Sound(q)
  /\ q.reply = "invalid_credentials" => Unknown(q, k)

AccountsInv == TableInv /\ \A r \in Requests : RequestInv(req[r], known[r])

-----------------------------------------------------------------------------
(* What no step of the service does to the accounts and the sessions *)

Keeps ==
  /\ Len(users) \in Nat /\ Len(users') \in Nat /\ Len(users) <= Len(users')
  /\ \A i \in 1..Len(users) :
       /\ users'[i].email = users[i].email
       /\ \A p \in Passwords : Verifies(p, users'[i].password_hash)
                               <=> Verifies(p, users[i].password_hash)
       /\ Current(users[i].password_hash) => Current(users'[i].password_hash)
  /\ Len(created) \in Nat /\ Len(created') \in Nat /\ Len(created) <= Len(created')
  /\ \A n \in 1..Len(created) : created'[n] = created[n]

\* Then every request keeps what it knows.
LEMMA RequestStable ==
  ASSUME TypeOK, Keeps, NEW q \in RequestState, NEW k \in 0..Len(users),
         RequestInv(q, k)
  PROVE  RequestInv(q, k)'
  <1>1. q.password \in Passwords /\ Len(users) \in Nat
    BY DEF RequestState, Keeps
  <1>2. Accepted(q) => Accepted(q)'
    BY <1>1 DEF Accepted, Keeps, Verifies, Current
  <1>3. ASSUME Sound(q) PROVE Sound(q)'
    <2>1. PICK n \in 1..Len(created) :
            /\ users[created[n]].email[1] = q.email[1]
            /\ Verifies(q.password, users[created[n]].password_hash)
            /\ Current(users[created[n]].password_hash)
      BY <1>3 DEF Sound
    <2>2. /\ n \in 1..Len(created') /\ created'[n] = created[n]
          /\ created[n] \in 1..Len(users)
      BY <2>1 DEF Keeps, TypeOK
    <2>3. /\ users'[created'[n]].email[1] = q.email[1]
          /\ Verifies(q.password, users'[created'[n]].password_hash)
          /\ Current(users'[created'[n]].password_hash)
      BY <1>1, <2>1, <2>2 DEF Keeps
    <2> QED
      BY <2>2, <2>3 DEF Sound
  <1>4. Unknown(q, k) => Unknown(q, k)'
    <2>1. \A i \in 1..k : i \in 1..Len(users)
      BY <1>1
    <2> QED
      BY <1>1, <2>1 DEF Unknown, Keeps, Verifies
  <1> QED
    BY <1>2, <1>3, <1>4 DEF RequestInv

\* One request moves on to a state it may be in, the others stay.
LEMMA MoveInv ==
  ASSUME TypeOK, AccountsInv, Keeps, TableInv', NEW r \in Requests,
         NEW state, req' = [req EXCEPT ![r] = state], UNCHANGED known,
         RequestInv(state, known[r])'
  PROVE  AccountsInv'
  <1>1. ASSUME NEW q \in Requests PROVE RequestInv(req[q], known[q])'
    <2>1. CASE q = r
      BY <2>1 DEF TypeOK
    <2>2. CASE q # r
      <3>1. PICK s, k : s = req[q] /\ k = known[q]
        OBVIOUS
      <3>2. s \in RequestState /\ k \in 0..Len(users) /\ RequestInv(s, k)
        BY <3>1 DEF TypeOK, AccountsInv
      <3>3. RequestInv(s, k)'
        BY <3>2, RequestStable
      <3>4. req'[q] = s /\ known'[q] = k
        BY <2>2, <3>1 DEF TypeOK
      <3> QED
        BY <3>3, <3>4
    <2> QED
      BY <2>1, <2>2
  <1> QED
    BY <1>1 DEF AccountsInv

\* A step that leaves both tables alone keeps them.
LEMMA SameTables ==
  ASSUME TypeOK, UNCHANGED <<users, created>>
  PROVE  Keeps
  BY DEF Keeps, TypeOK

-----------------------------------------------------------------------------
(* Steps *)

TablesType == users \in Seq(User) /\ created \in Seq(1..Len(users))

Goal == TypeOK' /\ AccountsInv' /\ Keeps

\* Two rows with the same address are the same, whatever part of it is compared.
LEMMA SameAddress ==
  ASSUME TypeOK, TableInv, NEW i \in 1..Len(users), NEW email \in Emails
  PROVE  users[i].email = normalized(email) <=> users[i].email[1] = email[1]
  <1>1. users[i].email \in Emails /\ users[i].email = normalized(users[i].email)
    <2>1. users[i] \in User
      BY DEF TypeOK
    <2> QED
      BY <2>1 DEF TableInv, User
  <1> QED
    BY <1>1 DEF normalized, Emails

\* A request that answers leaves the invariant, if its answer is sound.
LEMMA AnswerInv ==
  ASSUME TypeOK, AccountsInv, Keeps, TableInv', TablesType', NEW r \in Requests,
         NEW reply \in {"ok", "invalid_credentials", "ValueError", "OperationalError"},
         Answer(r, reply), UNCHANGED known,
         NEW q, q = req[r],
         q.op = "login" /\ reply = "ok" => Sound(q)',
         reply = "invalid_credentials" => q.op = "login" /\ Unknown(q, known[r])'
  PROVE  Goal
  <1>1. PICK state \in RequestState :
           /\ req' = [req EXCEPT ![r] = state]
           /\ state.pc = "answer" /\ state.op = q.op /\ state.reply = reply
           /\ state.op # "register" => state.email = q.email /\ state.password = q.password
    BY AnswerShape
  <1>2. PICK k : k = known[r]
    OBVIOUS
  <1>3. Sound(q)' /\ q.op = "login" => Sound(state)'
    BY <1>1 DEF Sound
  <1>4. Unknown(q, k)' /\ q.op = "login" => Unknown(state, k)'
    BY <1>1 DEF Unknown
  <1>5. RequestInv(state, k)'
    BY <1>1, <1>2, <1>3, <1>4 DEF RequestInv
  <1>6. AccountsInv'
    BY <1>1, <1>2, <1>5, MoveInv
  <1>7. TypeOK'
    BY <1>1, MoveType DEF TypeOK, TablesType, Keeps
  <1> QED
    BY <1>6, <1>7 DEF Goal

\* The policy, or the first round trip: nothing is stored yet.
LEMMA BeginInv ==
  ASSUME TypeOK, AccountsInv, NEW r \in Requests, NEW operation, NEW step, NEW reply,
         NEW email \in Emails, NEW p \in Passwords,
         Begin(r, operation, email, p, step, reply),
         \/ operation = "register" /\ step = "insert" /\ reply = "none"
         \/ operation = "register" /\ step = "answer" /\ reply = "PasswordPolicyError"
         \/ operation = "login" /\ step = "lookup" /\ reply = "none"
  PROVE  Goal
  <1>1. PICK state : state = [Idle EXCEPT !.pc = step, !.op = operation,
                                !.email = email, !.password = p, !.reply = reply]
    OBVIOUS
  <1>2. /\ state \in RequestState /\ state.pc = step /\ state.op = operation
        /\ state.reply = reply
    BY <1>1, IdleType DEF RequestState
  <1>3. /\ req' = [req EXCEPT ![r] = state]
        /\ known' = [known EXCEPT ![r] = Len(users)]
        /\ UNCHANGED <<users, created>> /\ Keeps
    BY <1>1, SameTables DEF Begin
  <1>4. Len(users) \in 0..Len(users)
    BY DEF TypeOK
  <1>5. TypeOK'
    BY <1>2, <1>3, <1>4 DEF TypeOK
  <1>6. ASSUME NEW q \in Requests PROVE RequestInv(req[q], known[q])'
    <2>1. CASE q = r
      <3>1. PICK s, k : s = req'[q] /\ k = known'[q]
        OBVIOUS
      <3>2. s = state
        BY <1>3, <2>1, <3>1 DEF TypeOK
      <3>3. RequestInv(s, k)'
        BY <1>2, <3>2 DEF RequestInv
      <3> QED
        BY <3>1, <3>3
    <2>2. CASE q # r
      <3>1. PICK s, k : s = req[q] /\ k = known[q]
        OBVIOUS
      <3>2. s \in RequestState /\ k \in 0..Len(users) /\ RequestInv(s, k)
        BY <3>1 DEF TypeOK, AccountsInv
      <3>3. RequestInv(s, k)'
        BY <1>3, <3>2, RequestStable
      <3>4. req'[q] = s /\ known'[q] = k
        BY <1>3, <2>2, <3>1 DEF TypeOK
      <3> QED
        BY <3>3, <3>4
    <2> QED
      BY <2>1, <2>2
  <1>7. TableInv'
    BY <1>3 DEF AccountsInv, TableInv, OneAccountPerAddress
  <1> QED
    BY <1>3, <1>5, <1>6, <1>7 DEF Goal, AccountsInv

\* Requests go back to idle.
LEMMA ReleaseInv ==
  ASSUME TypeOK, AccountsInv, NEW R \in SUBSET Requests, Release(R)
  PROVE  Goal
  <1>1. UNCHANGED <<users, created>> /\ Keeps
    BY SameTables DEF Release
  <1>2. 0 \in 0..Len(users)
    BY DEF TypeOK
  <1>3. TypeOK'
    BY <1>1, <1>2, IdleType DEF TypeOK, Release
  <1>4. ASSUME NEW q \in Requests PROVE RequestInv(req[q], known[q])'
    <2>1. PICK s, k : s = req'[q] /\ k = known'[q]
      OBVIOUS
    <2>2. CASE q \in R
      <3>1. s = Idle
        BY <2>1, <2>2 DEF Release
      <3>2. RequestInv(s, k)'
        BY <3>1, IdleType DEF RequestInv
      <3> QED
        BY <2>1, <3>2
    <2>3. CASE q \notin R
      <3>1. s = req[q] /\ k = known[q]
        BY <2>1, <2>3 DEF Release
      <3>2. s \in RequestState /\ k \in 0..Len(users) /\ RequestInv(s, k)
        BY <3>1 DEF TypeOK, AccountsInv
      <3>3. RequestInv(s, k)'
        BY <1>1, <3>2, RequestStable
      <3> QED
        BY <2>1, <3>3
    <2> QED
      BY <2>2, <2>3
  <1>5. TableInv'
    BY <1>1 DEF AccountsInv, TableInv, OneAccountPerAddress
  <1> QED
    BY <1>1, <1>3, <1>4, <1>5 DEF Goal, AccountsInv

\* The INSERT of a registration: a row of a new address, or nothing.
LEMMA InsertUserInv ==
  ASSUME TypeOK, AccountsInv, NEW r \in Requests, InsertUser(r)
  PROVE  Goal
  <1>1. PICK q \in RequestState : q = req[r] /\ q.op = "register"
    BY DEF TypeOK, AccountsInv, RequestInv, InsertUser, At
  <1>2. q.email \in Emails /\ q.password \in Passwords
    BY DEF RequestState
  <1>3. PICK row \in User : /\ row = UserRow(normalized(q.email), hash_password(q.password))
                            /\ row.email = normalized(q.email)
    <2>1. UserRow(normalized(q.email), hash_password(q.password)) \in User
      BY <1>2, HashPassword, NormalizedType DEF UserRow, User
    <2> QED
      BY <2>1 DEF UserRow
  <1>4. CASE get_by_email(row.email) # {}
    <2>1. UNCHANGED <<users, created>>
      BY <1>1, <1>3, <1>4 DEF InsertUser
    <2>2. Keeps /\ TableInv' /\ TablesType'
      BY <2>1, SameTables DEF AccountsInv, TableInv, OneAccountPerAddress, TypeOK, TablesType
    <2> QED
      BY <1>1, <2>2, AnswerInv DEF InsertUser
  <1>5. CASE get_by_email(row.email) = {}
    <2>1. users' = Append(users, row) /\ UNCHANGED created
      BY <1>1, <1>3, <1>5 DEF InsertUser
    <2>2. /\ Len(users) \in Nat /\ Len(users') = Len(users) + 1
          /\ users' \in Seq(User) /\ users'[Len(users) + 1] = row
          /\ \A i \in 1..Len(users) : users'[i] = users[i]
      BY <2>1 DEF TypeOK
    <2>3. Keeps /\ TablesType'
      BY <2>1, <2>2 DEF Keeps, TypeOK, TablesType
    <2>4. \A i \in 1..Len(users) : users[i].email[1] # q.email[1]
      <3>1. \A i \in 1..Len(users) : users[i].email # row.email
        BY <1>5 DEF get_by_email
      <3> QED
        BY <1>2, <1>3, <3>1, SameAddress DEF AccountsInv
    <2>5. row.email[1] = q.email[1] /\ row.email = normalized(row.email)
      <3>1. PICK e \in Emails : e = q.email
        BY <1>2
      <3>2. /\ normalized(e)[1] = e[1]
            /\ normalized(normalized(e)) = normalized(e)
        BY NormalizedType
      <3> QED
        BY <1>3, <3>1, <3>2
    <2>6. TableInv'
      <3>1. \A i \in 1..Len(users') : i \in 1..Len(users) \/ i = Len(users) + 1
        BY <2>2
      <3>2. \A i \in 1..Len(users') : users'[i].email = normalized(users'[i].email)
        BY <2>2, <2>5, <3>1 DEF AccountsInv, TableInv
      <3>3. \A i, j \in 1..Len(users') :
              users'[i].email[1] = users'[j].email[1] => i = j
        BY <2>2, <2>4, <2>5, <3>1 DEF AccountsInv, TableInv, OneAccountPerAddress
      <3> QED
        BY <3>2, <3>3 DEF TableInv, OneAccountPerAddress
    <2> QED
      BY <1>1, <2>3, <2>6, AnswerInv DEF InsertUser
  <1> QED
    BY <1>4, <1>5

\* The SELECT of a login and what it decides on the row.
LEMMA SelectUserInv ==
  ASSUME TypeOK, AccountsInv, NEW r \in Requests, SelectUser(r)
  PROVE  Goal
  <1>1. PICK q \in RequestState, k \in 0..Len(users) :
          q = req[r] /\ q.op = "login" /\ q.reply = "none" /\ k = known[r]
    BY DEF TypeOK, AccountsInv, RequestInv, SelectUser, At
  <1>2. /\ q.email \in Emails /\ q.password \in Passwords /\ Len(users) \in Nat
        /\ UNCHANGED <<users, created, known>>
    BY DEF RequestState, SelectUser, TypeOK
  <1>3. Keeps /\ TableInv /\ TableInv' /\ TablesType'
    BY <1>2, SameTables DEF AccountsInv, TableInv, OneAccountPerAddress, TypeOK, TablesType
  <1>4. \A i \in 1..Len(users) :
          i \in get_by_email(normalized(q.email)) <=> users[i].email[1] = q.email[1]
    BY <1>2, <1>3, SameAddress DEF get_by_email
  <1>5. CASE get_by_email(normalized(q.email)) = {} /\ Answer(r, "invalid_credentials")
    <2>1. Unknown(q, k)
      BY <1>1, <1>2, <1>4, <1>5 DEF Unknown
    <2>2. Unknown(q, k)'
      BY <1>2, <2>1 DEF Unknown
    <2> QED
      BY <1>1, <1>2, <1>3, <1>5, <2>2, AnswerInv
  <1>6. ASSUME NEW i \in get_by_email(normalized(q.email)), Judge(r, i)
        PROVE  Goal
    <2>1. PICK h : h = users[i].password_hash
      OBVIOUS
    <2>2. /\ i \in 1..Len(users) /\ users[i].email = normalized(q.email)
          /\ users[i] \in User /\ h \in Hashes \cup {NoHash}
      <3>1. i \in 1..Len(users) /\ users[i].email = normalized(q.email)
        BY DEF get_by_email
      <3>2. users[i] \in User
        BY <3>1 DEF TypeOK
      <3> QED
        BY <2>1, <3>1, <3>2 DEF User
    <2>3. CASE ~Verifies(q.password, h) /\ Answer(r, "invalid_credentials")
      <3>1. Unknown(q, k)
        BY <1>1, <1>2, <1>3, <1>4, <2>1, <2>2, <2>3 DEF Unknown, TableInv, OneAccountPerAddress
      <3>2. Unknown(q, k)'
        BY <1>2, <3>1 DEF Unknown
      <3> QED
        BY <1>1, <1>2, <1>3, <2>3, <3>2, AnswerInv
    <2>4. CASE Answer(r, "ValueError")
      BY <1>1, <1>2, <1>3, <2>4, AnswerInv
    <2>5. CASE /\ Verifies(q.password, h)
               /\ req' = [req EXCEPT ![r].pc = "commit", ![r].user_id = i,
                                     ![r].upgrade = needs_rehash(h)]
      <3>1. PICK b \in BOOLEAN : b = needs_rehash(h)
        BY DEF needs_rehash
      <3>2. PICK state : state = [q EXCEPT !.pc = "commit", !.user_id = i, !.upgrade = b]
        OBVIOUS
      <3>3. /\ state \in RequestState /\ state.pc = "commit" /\ state.op = "login"
            /\ state.email = q.email /\ state.password = q.password
            /\ state.user_id = i /\ state.reply = "none" /\ state.upgrade = b
        <4>1. i \in Nat
          BY <1>2, <2>2
        <4> QED
          BY <1>1, <3>1, <3>2, <4>1 DEF RequestState
      <3>4. req' = [req EXCEPT ![r] = state]
        BY <1>1, <2>5, <3>1, <3>2 DEF TypeOK
      <3>5. b \/ Current(h)
        BY <2>2, <2>5, <3>1, NoUpgradeCurrent DEF Verifies
      <3>6. Accepted(state)'
        BY <1>2, <2>1, <2>2, <2>5, <3>3, <3>5 DEF Accepted
      <3>7. RequestInv(state, k)'
        BY <3>3, <3>6 DEF RequestInv
      <3>8. AccountsInv'
        BY <1>1, <1>2, <1>3, <3>4, <3>7, MoveInv
      <3>9. TypeOK'
        BY <1>2, <3>3, <3>4, MoveType DEF TypeOK
      <3> QED
        BY <1>3, <3>8, <3>9 DEF Goal
    <2> QED
      BY <1>1, <1>6, <2>1, <2>3, <2>4, <2>5 DEF Judge, Verifies
  <1> QED
    BY <1>1, <1>5, <1>6 DEF SelectUser

\* The COMMIT of a login: the new hash of the row it accepted, and its session.
LEMMA CommitLoginInv ==
  ASSUME TypeOK, AccountsInv, NEW r \in Requests, CommitLogin(r)
  PROVE  Goal
  <1>1. PICK q \in RequestState : /\ q = req[r] /\ q.op = "login" /\ Accepted(q)
                                  /\ q.upgrade \in BOOLEAN
    BY DEF TypeOK, AccountsInv, RequestInv, CommitLogin, At, RequestState
  <1>2. PICK u : u = q.user_id
    OBVIOUS
  <1>3. PICK h : h = users[u].password_hash
    OBVIOUS
  <1>4. q.email \in Emails /\ q.password \in Passwords
    BY DEF RequestState
  <1>5. /\ u \in 1..Len(users) /\ Len(users) \in Nat
        /\ users[u] \in User /\ users[u].email = normalized(q.email)
        /\ Verifies(q.password, h) /\ h \in Hashes
    <2>1. /\ u \in 1..Len(users) /\ users[u].email = normalized(q.email)
          /\ Verifies(q.password, h)
      BY <1>1, <1>2, <1>3 DEF Accepted
    <2>2. users[u] \in User /\ Len(users) \in Nat
      BY <2>1 DEF TypeOK
    <2>3. h \in Hashes \cup {NoHash}
      BY <1>3, <2>2 DEF User
    <2> QED
      BY <2>1, <2>2, <2>3 DEF Verifies
  <1>6. PICK g : /\ g \in Hashes /\ Current(g) /\ Verifies(q.password, g)
                 /\ \A p \in Passwords : Verifies(p, g) <=> Verifies(p, h)
                 /\ users' = [users EXCEPT ![u].password_hash = g]
    <2>1. CASE q.upgrade
      <3>1. users' = [users EXCEPT ![u].password_hash = hash_password(q.password)]
        BY <1>1, <1>2, <2>1 DEF CommitLogin, Upgraded
      <3> QED
        BY <1>4, <1>5, <3>1, HashPassword, UpgradeSame
    <2>2. CASE ~q.upgrade
      <3>1. users' = users
        BY <1>1, <2>2 DEF CommitLogin, Upgraded
      <3>2. users = [users EXCEPT ![u].password_hash = h]
        BY <1>3, <1>5 DEF TypeOK, User
      <3>3. Current(h)
        BY <1>1, <1>2, <1>3, <2>2 DEF Accepted
      <3> QED
        BY <1>5, <3>1, <3>2, <3>3
    <2> QED
      BY <1>1, <2>1, <2>2
  <1>7. PICK row \in User : /\ row = [users[u] EXCEPT !.password_hash = g]
                            /\ row.email = users[u].email /\ row.password_hash = g
    BY <1>5, <1>6 DEF User
  <1>8. /\ users' \in Seq(User) /\ Len(users') = Len(users)
        /\ users'[u] = row
        /\ \A i \in 1..Len(users) : i # u => users'[i] = users[i]
    <2>1. users' = [users EXCEPT ![u] = row]
      BY <1>6, <1>7
    <2> QED
      BY <1>5, <2>1 DEF TypeOK
  <1>9. /\ created' = Append(created, u) /\ created' \in Seq(1..Len(users))
        /\ Len(created) \in Nat /\ Len(created') = Len(created) + 1
        /\ created'[Len(created) + 1] = u
        /\ \A n \in 1..Len(created) : created'[n] = created[n]
    <2>1. created' = Append(created, u)
      BY <1>1, <1>2 DEF CommitLogin
    <2> QED
      BY <1>5, <2>1 DEF TypeOK
  <1>10. \A i \in 1..Len(users) :
           /\ users'[i].email = users[i].email
           /\ \A p \in Passwords : Verifies(p, users'[i].password_hash)
                                   <=> Verifies(p, users[i].password_hash)
           /\ Current(users[i].password_hash) => Current(users'[i].password_hash)
    <2> SUFFICES ASSUME NEW i \in 1..Len(users)
                 PROVE  /\ users'[i].email = users[i].email
                        /\ \A p \in Passwords : Verifies(p, users'[i].password_hash)
                                                <=> Verifies(p, users[i].password_hash)
                        /\ Current(users[i].password_hash)
                             => Current(users'[i].password_hash)
      OBVIOUS
    <2>1. CASE i = u
      BY <1>3, <1>6, <1>7, <1>8, <2>1
    <2>2. CASE i # u
      BY <1>8, <2>2
    <2> QED
      BY <2>1, <2>2
  <1>11. Keeps /\ TablesType'
    BY <1>5, <1>8, <1>9, <1>10 DEF Keeps, TablesType
  <1>12. TableInv'
    BY <1>8, <1>10 DEF AccountsInv, TableInv, OneAccountPerAddress
  <1>13. Sound(q)'
    <2>1. PICK n : n = Len(created) + 1
      OBVIOUS
    <2>2. n \in 1..Len(created') /\ created'[n] = u
      BY <1>9, <2>1
    <2>3. users'[u].email[1] = q.email[1]
      BY <1>4, <1>5, <1>7, <1>8, NormalizedType
    <2>4. users'[u].password_hash = g
      BY <1>7, <1>8
    <2> QED
      BY <1>6, <2>2, <2>3, <2>4 DEF Sound
  <1> QED
    BY <1>1, <1>11, <1>12, <1>13, AnswerInv DEF CommitLogin

\* The database fails: no table has changed.
LEMMA DatabaseErrorInv ==
  ASSUME TypeOK, AccountsInv, NEW r \in Requests, DatabaseError(r)
  PROVE  Goal
  <1>1. UNCHANGED <<users, created, known>> /\ Answer(r, "OperationalError")
    BY DEF DatabaseError
  <1>2. Keeps /\ TableInv' /\ TablesType'
    BY <1>1, SameTables DEF AccountsInv, TableInv, OneAccountPerAddress, TypeOK, TablesType
  <1> QED
    BY <1>1, <1>2, AnswerInv

\* An action of the service, on one request.
LEMMA ActionInv ==
  ASSUME TypeOK, AccountsInv, NEW r \in Requests,
         Ask(r) \/ Serve(r) \/ DatabaseError(r) \/ Deliver(r)
  PROVE  Goal
  <1>1. CASE Ask(r)
    <2>1. PICK email \in Emails, p \in Passwords :
            AskRegister(r, email, p) \/ AskLogin(r, email, p)
      BY <1>1 DEF Ask
    <2>2. CASE AskRegister(r, email, p)
      <3>1. \/ Begin(r, "register", email, p, "insert", "none")
            \/ Begin(r, "register", email, p, "answer", "PasswordPolicyError")
        BY <2>2 DEF AskRegister
      <3> QED
        BY <3>1, BeginInv
    <2>3. CASE AskLogin(r, email, p)
      <3>1. Begin(r, "login", email, p, "lookup", "none")
        BY <2>3 DEF AskLogin
      <3> QED
        BY <3>1, BeginInv
    <2> QED
      BY <2>1, <2>2, <2>3
  <1>2. CASE Serve(r)
    BY <1>2, InsertUserInv, SelectUserInv, CommitLoginInv DEF Serve
  <1>3. CASE DatabaseError(r)
    BY <1>3, DatabaseErrorInv
  <1>4. CASE Deliver(r)
    <2>1. {r} \in SUBSET Requests /\ Release({r})
      BY <1>4 DEF Deliver
    <2> QED
      BY <2>1, ReleaseInv
  <1> QED
    BY <1>1, <1>2, <1>3, <1>4

\* Every step of the specification.
LEMMA StepInv ==
  ASSUME TypeOK, AccountsInv, [Next]_vars
  PROVE  Goal
  <1>1. CASE Next
    <2>1. CASE \E r \in Requests : Ask(r) \/ Serve(r) \/ DatabaseError(r) \/ Deliver(r)
      BY <2>1, ActionInv
    <2>2. CASE Crash
      <3>1. Requests \in SUBSET Requests /\ Release(Requests)
        BY <2>2 DEF Crash
      <3> QED
        BY <3>1, ReleaseInv
    <2> QED
      BY <1>1, <2>1, <2>2 DEF Next
  <1>2. CASE UNCHANGED vars
    <2>1. UNCHANGED <<users, created, req, known>>
      BY <1>2 DEF vars
    <2>2. Keeps /\ TypeOK'
      BY <2>1, SameTables DEF TypeOK
    <2>3. TableInv'
      BY <2>1 DEF AccountsInv, TableInv, OneAccountPerAddress
    <2>4. ASSUME NEW r \in Requests PROVE RequestInv(req[r], known[r])'
      <3>1. PICK s, k : s = req[r] /\ k = known[r]
        OBVIOUS
      <3>2. s \in RequestState /\ k \in 0..Len(users) /\ RequestInv(s, k)
        BY <3>1 DEF TypeOK, AccountsInv
      <3>3. RequestInv(s, k)'
        BY <2>2, <3>2, RequestStable
      <3> QED
        BY <2>1, <3>1, <3>3
    <2> QED
      BY <2>2, <2>3, <2>4 DEF Goal, AccountsInv
  <1> QED
    BY <1>1, <1>2

\* The start, with any table an earlier run may have left.
LEMMA InitInv ==
  ASSUME Init
  PROVE  TypeOK /\ AccountsInv
  <1>1. WellFormedTable(users)
    BY DEF Init
  <1>2. \A i \in 1..Len(users) : users[i] \in User /\ users[i].email = normalized(users[i].email)
    BY <1>1 DEF WellFormedTable
  <1>3. TypeOK
    BY <1>1, IdleType DEF Init, TypeOK, WellFormedTable
  <1>4. OneAccountPerAddress
    <2> SUFFICES ASSUME NEW i \in 1..Len(users), NEW j \in 1..Len(users),
                        users[i].email[1] = users[j].email[1]
                 PROVE  i = j
      BY DEF OneAccountPerAddress
    <2>1. users[i].email = users[j].email
      BY <1>2 DEF normalized
    <2> QED
      BY <1>1, <2>1 DEF WellFormedTable
  <1>5. \A r \in Requests : RequestInv(req[r], known[r])
    BY IdleType DEF Init, RequestInv
  <1> QED
    BY <1>2, <1>3, <1>4, <1>5 DEF AccountsInv, TableInv

-----------------------------------------------------------------------------
(* Theorems *)

\* The inductive invariant: the tables stay well formed, and every request in
\* flight stays right about the account it is about.
THEOREM AccountsHold == Spec => [](TypeOK /\ AccountsInv)
  <1>1. Init => TypeOK /\ AccountsInv
    BY InitInv
  <1>2. TypeOK /\ AccountsInv /\ [Next]_vars => (TypeOK /\ AccountsInv)'
    BY StepInv DEF Goal
  <1> QED
    BY <1>1, <1>2, PTL DEF Spec

\* Every variable keeps its type; in particular a session is of an account
\* that exists.
THEOREM AccountsTypeCorrect == Spec => []TypeOK
  BY AccountsHold, PTL

\* No interleaving of registrations gives an address two accounts.
THEOREM OneAccountPerAddressHolds == Spec => []OneAccountPerAddress
  <1>1. TypeOK /\ AccountsInv => OneAccountPerAddress
    BY DEF AccountsInv, TableInv
  <1> QED
    BY <1>1, AccountsHold, PTL

\* A login that succeeds was one with the password of the account.
THEOREM LoginSoundHolds == Spec => []LoginSound
  <1>1. TypeOK /\ AccountsInv => LoginSound
    <2> SUFFICES ASSUME TypeOK, AccountsInv, NEW r \in Requests,
                        req[r].op = "login", req[r].reply = "ok"
                 PROVE  Sound(req[r])
      BY DEF LoginSound, Sound
    <2> QED
      BY DEF AccountsInv, RequestInv
  <1> QED
    BY <1>1, AccountsHold, PTL

\* A login with the password of an account that existed when it began is never
\* told that its credentials are wrong.
THEOREM LoginCompleteHolds == Spec => []LoginComplete
  <1>1. TypeOK /\ AccountsInv => LoginComplete
    <2> SUFFICES ASSUME TypeOK, AccountsInv, NEW r \in Requests,
                        req[r].reply = "invalid_credentials"
                 PROVE  Unknown(req[r], known[r])
      BY DEF LoginComplete, Unknown
    <2> QED
      BY DEF AccountsInv, RequestInv
  <1> QED
    BY <1>1, AccountsHold, PTL

\* No step changes the address of an account or the password it accepts.
THEOREM AccountsKeepPasswordsHolds == Spec => AccountsKeepPasswords
  <1>1. TypeOK /\ AccountsInv /\ [Next]_vars =>
          [\A i \in 1..Len(users) :
             /\ users'[i].email = users[i].email
             /\ \A p \in Passwords : Verifies(p, users'[i].password_hash)
                                     <=> Verifies(p, users[i].password_hash)]_vars
    BY StepInv DEF Goal, Keeps
  <1> QED
    BY <1>1, AccountsHold, PTL DEF Spec, AccountsKeepPasswords
=============================================================================
