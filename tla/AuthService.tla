---------------------------- MODULE AuthService ----------------------------
(***************************************************************************)
(* The whole service: Accounts and Sessions over the same requests.  The   *)
(* two meet in login, whose COMMIT stores the upgraded hash of one and the *)
(* new row of the other.                                                   *)
(***************************************************************************)
EXTENDS Integers, Sequences, FiniteSets

CONSTANTS
  Requests, Tokens, NoUser, NoCookie, UnknownToken, ReuseRowIds, MaxClock,
  ABSOLUTE_LIFETIME, IDLE_TIMEOUT,
  Passwords, Lengths, Common, MIN_LENGTH, MAX_LENGTH, PBKDF2_ITERATIONS,
  PBKDF2_MAX_ITERATIONS, NotANumber,
  Addresses, Spellings, SeedTables, NoHash, MaxAccounts, MaxSessions

VARIABLES
  clock, sessions, last_id, sreq, held, owner, uses, liveAtAsk,   \* Sessions
  users, created, areq, known,                                    \* Accounts
  credential   \* history: what each token was obtained with

S == INSTANCE Sessions WITH req <- sreq, Users <- 1..MaxAccounts
A == INSTANCE Accounts WITH req <- areq

\* The parts ask what they ask of their constants; and a table of an earlier
\* run is within the bound.
ASSUME AuthServiceAssumption ==
  /\ S!LifetimeAssumption /\ S!SessionsAssumption
  /\ A!PasswordsAssumption /\ A!AccountsAssumption
  /\ \A table \in SeedTables : Len(table) <= MaxAccounts

svars == <<clock, sessions, last_id, sreq, held, owner, uses, liveAtAsk>>
avars == <<users, created, areq, known>>
vars == <<svars, avars, credential>>

-----------------------------------------------------------------------------
(* Steps of registration and login *)

AskAccount(r) ==
  /\ S!At(r, "idle")
  /\ A!Ask(r)
  /\ UNCHANGED <<svars, credential>>

Register(r) ==
  /\ A!InsertUser(r)
  /\ UNCHANGED <<svars, credential>>

\* login reads the user; if it accepts the password, create_session begins.
SelectUser(r) ==
  /\ A!SelectUser(r)
  /\ IF areq'[r].pc = "commit"
     THEN \E t \in Tokens :
            /\ S!AskLogin(r, areq'[r].user_id, t)
            /\ credential' = [credential EXCEPT ![t] =
                                <<areq[r].email, areq[r].password>>]
     ELSE UNCHANGED <<svars, credential>>

\* Wrong form: create_session commits on its own, the upgrade after it.
InsertFirst(r) ==
  /\ A!At(r, "commit")
  /\ IF S!At(r, "insert")
     THEN S!Insert(r) /\ UNCHANGED avars
     ELSE A!CommitLogin(r) /\ UNCHANGED svars
  /\ UNCHANGED credential

\* Wrong form: the login succeeds even if its session could not be stored.
CommitRegardless(r) ==
  /\ A!CommitLogin(r)
  /\ S!Insert(r) \/ S!DatabaseError(r)
  /\ UNCHANGED credential

\* One COMMIT for the upgraded hash and the new session.
CommitLogin(r) ==
  /\ A!CommitLogin(r)
  /\ S!Insert(r)
  /\ UNCHANGED credential

\* What fails in a login fails for both tables.
AccountError(r) ==
  /\ A!DatabaseError(r)
  /\ IF areq[r].pc = "commit" THEN S!DatabaseError(r) ELSE UNCHANGED svars
  /\ UNCHANGED credential

AccountReply(r) ==
  /\ A!Deliver(r)
  /\ IF S!At(r, "idle") THEN UNCHANGED svars ELSE S!Reply(r)
  /\ UNCHANGED credential

-----------------------------------------------------------------------------
(* Steps of the requests that only need a session *)

SessionStep(r) ==
  /\ A!At(r, "idle")
  /\ \/ \E c \in S!Presentable \cup {NoCookie} :
          S!AskLogout(r, c) \/ \E o \in S!Lookups : S!AskLookup(r, o, c)
     \/ S!Serve(r)
     \/ S!DatabaseError(r)
     \/ S!Reply(r)
  /\ UNCHANGED <<avars, credential>>

-----------------------------------------------------------------------------

Crash ==
  /\ \E r \in Requests : ~(S!At(r, "idle") /\ A!At(r, "idle"))
  /\ S!Release(Requests)
  /\ A!Release(Requests)
  /\ UNCHANGED <<held, credential>>

Tick == S!Tick /\ UNCHANGED <<avars, credential>>

Init ==
  /\ S!Init
  /\ A!Init
  /\ credential = [t \in Tokens |-> <<>>]

Next ==
  \/ \E r \in Requests :
       \/ AskAccount(r) \/ Register(r) \/ SelectUser(r) \/ CommitLogin(r)
       \/ AccountError(r) \/ AccountReply(r) \/ SessionStep(r)
  \/ Crash
  \/ Tick

Spec == Init /\ [][Next]_vars

-----------------------------------------------------------------------------
(* Properties *)

\* From end to end: whoever a request with a cookie is granted as is the
\* account of the address and the password the cookie was obtained with.
GrantedToCredential ==
  \A r \in Requests : S!Granted(r) =>
    LET u == users[sreq[r].user]
        c == credential[sreq[r].cookie]
    IN u.email[1] = c[1][1] /\ A!Verifies(c[2], u.password_hash)

\* The upgrade of a hash and the session of its login are stored together:
\* as long as an account has a session, its hash is an up-to-date one.
SessionsUnderCurrentHash ==
  \A i \in DOMAIN sessions :
    /\ sessions[i].user \in 1..Len(users)
    /\ A!Current(users[sessions[i].user].password_hash)

\* An account has been issued as many tokens as it has had logins committed,
\* whatever errors and crashes came between: none without, none twice.
OneTokenPerLogin ==
  \A u \in 1..Len(users) :
    Cardinality({t \in Tokens : owner[t] = u}) =
    Cardinality({n \in 1..Len(created) : created[n] = u})
=============================================================================
