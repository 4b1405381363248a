------------------------------ MODULE Accounts ------------------------------
(***************************************************************************)
(* The users table, registration and login, as they run concurrently on    *)
(* the thread pool.  Hashing and verifying take long and hold no lock; a   *)
(* table access is a SELECT or the flush and COMMIT of a unit of work.     *)
(***************************************************************************)
EXTENDS Passwords, Sequences

CONSTANTS
  Requests,      \* slots for requests in flight; a slot is reused
  Addresses,     \* e-mail addresses, stripped and in lower case
  Spellings,     \* the ways to type one; "canonical" is its stored form
  SeedTables,    \* contents the users table may begin with
  NoHash,        \* NULL: an account without a password
  MaxAccounts,   \* bound on the users table
  MaxSessions    \* bound on the sessions created

VARIABLES
  users,     \* the table: row i has primary key i, no row is ever deleted
  created,   \* the user of every session created, oldest first
  req,       \* the local state of each request
  known      \* history: for each request, Len(users) when it began

vars == <<users, created, req, known>>

-----------------------------------------------------------------------------
(* E-mail addresses as they are typed *)

Emails == Addresses \X Spellings

\* email.strip().lower()
normalized(email) == <<email[1], "canonical">>

-----------------------------------------------------------------------------
(* Types *)

User == [email : Emails, password_hash : Hashes \cup {NoHash}]

\* What a table of an earlier run holds: one row for a stored address.
WellFormedTable(table) ==
  /\ table \in Seq(User)
  /\ \A i \in 1..Len(table) : table[i].email = normalized(table[i].email)
  /\ \A i, j \in 1..Len(table) : table[i].email = table[j].email => i = j

ASSUME AccountsAssumption ==
  /\ "canonical" \in Spellings
  /\ Addresses # {} /\ Passwords # {}
  /\ NoHash \notin Hashes
  /\ MaxAccounts \in Nat /\ MaxSessions \in Nat
  /\ \A table \in SeedTables : WellFormedTable(table)

RequestState ==
  [pc       : {"idle", "insert", "lookup", "commit", "answer"},
   op       : {"none", "register", "login"},
   email    : Emails,
   password : Passwords,
   user_id  : Nat,                  \* 0: no row was found
   upgrade  : {TRUE, FALSE},        \* the loaded row gets a new hash
   reply    : {"none", "ok", "invalid_credentials", "PasswordPolicyError",
               "ValueError", "OperationalError"}]

SomeEmail == CHOOSE e \in Emails : TRUE
SomePassword == CHOOSE p \in Passwords : TRUE

Idle == [pc |-> "idle", op |-> "none", email |-> SomeEmail,
         password |-> SomePassword, user_id |-> 0, upgrade |-> FALSE,
         reply |-> "none"]

TypeOK ==
  /\ users \in Seq(User)
  /\ created \in Seq(1..Len(users))
  /\ req \in [Requests -> RequestState]
  /\ known \in [Requests -> 0..Len(users)]

-----------------------------------------------------------------------------
(* The users repository *)

get_by_email(email) == {i \in 1..Len(users) : users[i].email = email}

UserRow(email, hash) == [email |-> email, password_hash |-> hash]

-----------------------------------------------------------------------------
(* Requests *)

At(r, step) == req[r].pc = step

\* The answer; of a login, the properties also ask for whom it was.
Answer(r, reply) ==
  LET done == [Idle EXCEPT !.pc = "answer", !.op = req[r].op, !.reply = reply]
  IN req' = [req EXCEPT ![r] =
               IF @.op = "register" THEN done
               ELSE [done EXCEPT !.email = req[r].email, !.password = req[r].password]]

Begin(r, operation, email, p, step, reply) ==
  /\ At(r, "idle")
  /\ req' = [req EXCEPT ![r] = [Idle EXCEPT !.pc = step, !.op = operation,
                                  !.email = email, !.password = p,
                                  !.reply = reply]]
  /\ known' = [known EXCEPT ![r] = Len(users)]
  /\ UNCHANGED <<users, created>>

\* register_user: the policy is checked before anything is stored.
AskRegister(r, email, p) ==
  IF check_password(p) = "acceptable"
  THEN Begin(r, "register", email, p, "insert", "none")
  ELSE Begin(r, "register", email, p, "answer", "PasswordPolicyError")

\* Wrong form: a second registration replaces the first.
ReplaceUser(r) ==
  LET row == UserRow(normalized(req[r].email), hash_password(req[r].password))
      same == get_by_email(row.email)
  IN /\ At(r, "insert")
     /\ users' = IF same = {} THEN Append(users, row)
                 ELSE [i \in 1..Len(users) |-> IF i \in same THEN row ELSE users[i]]
     /\ Answer(r, "ok")
     /\ UNCHANGED <<created, known>>

\* Wrong form: instead of the constraint, a look at the table when the request
\* began.
InsertIfNewAtBegin(r) ==
  LET row == UserRow(normalized(req[r].email), hash_password(req[r].password))
      same == get_by_email(row.email) \cap 1..known[r]
  IN /\ At(r, "insert")
     /\ users' = IF same = {} THEN Append(users, row) ELSE users
     /\ Len(users') <= MaxAccounts
     /\ Answer(r, "ok")
     /\ UNCHANGED <<created, known>>

\* INSERT and COMMIT; the UNIQUE constraint turns a duplicate into a rollback
\* and the same answer.
InsertUser(r) ==
  LET row == UserRow(normalized(req[r].email), hash_password(req[r].password))
  IN /\ At(r, "insert")
     /\ users' = IF get_by_email(row.email) = {} THEN Append(users, row) ELSE users
     /\ Len(users') <= MaxAccounts
     /\ Answer(r, "ok")
     /\ UNCHANGED <<created, known>>

AskLogin(r, email, p) == Begin(r, "login", email, p, "lookup", "none")

\* What login decides on the row it loaded (when there is no hash to check, it
\* first spends the time of a verification on a dummy one).
Judge(r, i) ==
  LET h == users[i].password_hash
      outcome == IF h = NoHash THEN "mismatch"
                 ELSE verify_password(req[r].password, h)
  IN CASE outcome = "match" ->
            req' = [req EXCEPT ![r].pc = "commit", ![r].user_id = i,
                               ![r].upgrade = needs_rehash(h)]
       [] outcome = "mismatch" -> Answer(r, "invalid_credentials")
       [] OTHER -> Answer(r, "ValueError")

\* Wrong form: login looks for the address as it was typed.
SelectUserAsTyped(r) ==
  LET found == get_by_email(req[r].email)
  IN /\ At(r, "lookup")
     /\ \/ found = {} /\ Answer(r, "invalid_credentials")
        \/ \E i \in found : Judge(r, i)
     /\ UNCHANGED <<users, created, known>>

\* The SELECT of login.
SelectUser(r) ==
  LET found == get_by_email(normalized(req[r].email))
  IN /\ At(r, "lookup")
     /\ \/ found = {} /\ Answer(r, "invalid_credentials")
        \/ \E i \in found : Judge(r, i)
     /\ UNCHANGED <<users, created, known>>

Upgraded(r) ==
  IF req[r].upgrade
  THEN [users EXCEPT ![req[r].user_id].password_hash = hash_password(req[r].password)]
  ELSE users

\* The new hash and the new session, in the one COMMIT of create_session.
CommitLogin(r) ==
  /\ At(r, "commit")
  /\ users' = Upgraded(r)
  /\ created' = Append(created, req[r].user_id)
  /\ Len(created') <= MaxSessions
  /\ Answer(r, "ok")
  /\ UNCHANGED known

DatabaseError(r) ==
  /\ req[r].pc \in {"insert", "lookup", "commit"}
  /\ Answer(r, "OperationalError")
  /\ UNCHANGED <<users, created, known>>

Release(R) ==
  /\ req' = [r \in Requests |-> IF r \in R THEN Idle ELSE req[r]]
  /\ known' = [r \in Requests |-> IF r \in R THEN 0 ELSE known[r]]
  /\ UNCHANGED <<users, created>>

Deliver(r) == At(r, "answer") /\ Release({r})

\* The server process dies with everything in flight.
Crash == (\E r \in Requests : ~At(r, "idle")) /\ Release(Requests)

-----------------------------------------------------------------------------
(* Specification *)

Init ==
  /\ users \in SeedTables
  /\ created = <<>>
  /\ req = [r \in Requests |-> Idle]
  /\ known = [r \in Requests |-> 0]

Ask(r) == \E email \in Emails, p \in Passwords :
            AskRegister(r, email, p) \/ AskLogin(r, email, p)

Serve(r) == InsertUser(r) \/ SelectUser(r) \/ CommitLogin(r)

Next ==
  \/ \E r \in Requests : Ask(r) \/ Serve(r) \/ DatabaseError(r) \/ Deliver(r)
  \/ Crash

Spec == Init /\ [][Next]_vars

-----------------------------------------------------------------------------
(* Properties *)

Verifies(p, h) == h # NoHash /\ verify_password(p, h) = "match"

Current(h) == h # NoHash /\ h.scheme = "$argon2" /\ h.params = "current"

\* An address has one account, however it is typed and however many requests
\* register it at once.
OneAccountPerAddress ==
  \A i, j \in 1..Len(users) : users[i].email[1] = users[j].email[1] => i = j

\* A login succeeds only with the password of the account of its address, and
\* leaves that account with an up-to-date hash of it and a session.
LoginSound ==
  \A r \in Requests :
    req[r].op = "login" /\ req[r].reply = "ok" =>
      \E n \in 1..Len(created) :
        LET u == users[created[n]] IN
        /\ u.email[1] = req[r].email[1]
        /\ Verifies(req[r].password, u.password_hash)
        /\ Current(u.password_hash)

\* A login with the right password of an account that existed when it began is
\* not refused, whatever upgrade or registration it races with.
LoginComplete ==
  \A r \in Requests :
    req[r].reply = "invalid_credentials" =>
      \A i \in 1..known[r] :
        users[i].email[1] = req[r].email[1] =>
          ~Verifies(req[r].password, users[i].password_hash)

\* Once registered, an account keeps its address and its password: duplicates
\* and upgrades never change what its hash accepts.
AccountsKeepPasswords ==
  [][\A i \in 1..Len(users) :
       /\ users'[i].email = users[i].email
       /\ \A p \in Passwords : Verifies(p, users'[i].password_hash)
                               <=> Verifies(p, users[i].password_hash)]_vars
=============================================================================
