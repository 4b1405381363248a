# auth-anatomy in TLA+

auth-anatomy is a FastAPI application that builds authentication from its parts:
registration and login with a password, server-side sessions behind a cookie,
logout and logout everywhere. This directory models its behaviour in TLA+,
checks small instances with TLC and proves the central facts with TLAPS.

## The system

| Part | State it keeps | Operations | Talks to |
|---|---|---|---|
| `authcore/sessions.py` | none | `absolute_expiry`, `is_expired` | called by the session service |
| `app/services/sessions.py`, `app/repositories/sessions.py` | the `sessions` table | create, validate (reads, purges, slides, re-reads), revoke, revoke all | one ORM session per request on a shared database |
| `app/dependencies.py`, `app/api/v1/auth.py` | the request | `get_current_user`, `/me`, `/login`, `/logout`, `/logout-all`, `/register` | the services; the client's cookie |
| `authcore/passwords.py` | none | hash, verify, `needs_rehash` over stored strings | called by registration and login |
| `authcore/policy.py` | the list of common passwords | `check_password` | called by registration |
| `app/services/registration.py`, `app/services/login.py`, `app/repositories/users.py` | the `users` table | register, login with verify-then-rehash | the session service, in one transaction |
| `app/cookies.py`, `app/web` | the cookie in the browser | set, clear | answers of login and logout |
| `authcore/tokens.py` | none | generate, hash, compare | the session service |
| `app/db.py` | engine, connection pool | one session per request | every handler; handlers are synchronous and run on a thread pool |
| `alembic` | the schema and its version | upgrade, downgrade | the database; SQLite commits each statement |
| `exercises` | none; the caller keeps a hash and a session | scrypt dispatch, identifier policy, verify-then-rehash, remaining lifetime, token shape, rotation | `authcore` |

What is hard about it is concurrency: every handler runs in a thread of its own,
does several round trips to the database, and keeps what it read across commits.
Rows disappear between two steps of a request, the clock moves, a commit may
fail, an answer may be lost, the process may die. PROJECT.json lists each such
hazard at its line.

What makes each part correct:

* sessions: a request acts for the owner of the token it presents; a revoked,
  purged or unknown token is never granted again; logout and logout-all end what
  they are asked to end and nothing else; no two uses of a session are an absolute
  lifetime apart and no pause reaches the idle timeout;
* accounts: an address has one account; an account keeps its password through
  duplicate registrations and upgrades; a login with the right password is not
  refused, one with another is;
* both: an upgraded hash and the session of its login are stored together; a
  cookie speaks for the address and the password it was obtained with;
* the pools: every request ends and gives back its thread and its connection;
* the browser: it keeps the cookie of a session the service would accept, and an
  answer that clears it leaves no live session behind;
* migrations: the schema is the one its recorded revision names, and upgrades that
  start together do not all fail;
* the exercises: they agree with their solutions, `remaining_lifetime` is exact,
  rotation bounds the age of a token, a rehash never changes the password.

## Modules

| Module | Models | Uses |
|---|---|---|
| `SessionRules` | the expiry rules, and the order of the two lifetimes the code asks for | |
| `Sessions` | the `sessions` table and all requests that touch it, one action per round trip | extends `SessionRules` |
| `SessionAuthority` | the abstract service: each request happens at one instant | |
| `SessionsRefinement` | the mapping from `Sessions` to `SessionAuthority` | instantiates it |
| `SessionsProofs` | types, whose sessions requests act on, and the two deadlines | extends `Sessions` |
| `SessionsSafetyProofs` | how sessions end, and the step simulation of `SessionAuthority` | extends `SessionsRefinement`, `SessionsProofs` |
| `Browser` | the cookie of one browser, in front of all requests | extends `Sessions` |
| `BrowserProofs` | theorems about `Browser` | extends it and `SessionsSafetyProofs` |
| `Passwords` | stored hashes, verification, `needs_rehash`, the password policy | |
| `Accounts` | the `users` table, registration and login | extends `Passwords` |
| `AccountsProofs` | theorems about `Passwords` and `Accounts` | extends `Accounts` |
| `AuthService` | the whole service: both tables behind the same requests | instantiates `Sessions` and `Accounts` |
| `AuthServiceProofs` | theorems about the composition | extends `AuthService`, instantiates `SessionsSafetyProofs` and `AccountsProofs` |
| `RequestPool` | worker threads and pooled connections | |
| `RequestPoolProofs` | theorems about `RequestPool` | extends it |
| `Migrations` | both migration scripts and the runs of `alembic` that execute them | |
| `MigrationsProofs` | theorems about `Migrations` | extends it |
| `Exercises` | the worked exercises | extends `Passwords`, `SessionRules` |
| `ExerciseSolutions` | the reference solutions | extends `Exercises` |
| `ExerciseCaller` | the caller both are written for | extends `ExerciseSolutions` |
| `ExerciseProofs` | theorems about `ExerciseCaller` | extends it |
| `MCSessions`, `MCBrowser`, `MCAccounts`, `MCAuthService`, `MCExercises` | instances for TLC | |

Operators marked "Wrong form" are plausible mistakes in the definition that
follows them. No specification uses them; each is what some property is tested
against (PROJECT.json, "mutants").

### Sessions

`sessions` is the table: a function from the primary keys in use to rows. `req[r]`
is what a request keeps on its stack: the step it is at (`pc`), the operation, the
cookie, the `now` it read, the key of the row it loaded (`row_id`), the user it
resolved, and its reply. One action is one statement another connection can see
the effect of: a SELECT, or the flush and COMMIT of a unit of work.

* `validate_session` is `AskLookup` (reads the clock), `SelectRow` (SELECT by token
  and the decision), then `Purge` (DELETE by key) or `Slide` (UPDATE by key), and
  `Reload`: the COMMIT expired the loaded object, so `row.user_id` reads the row
  again by key.
* `revoke_session` is `FindRow`, `DeleteRow`; `revoke_all_sessions` is `DeleteAll`,
  after the lookup of `get_current_user`.
* `create_session` is `AskLogin` (clock and token), `Insert`.
* An UPDATE that matches no row raises `StaleDataError`, a re-read that finds none
  `ObjectDeletedError`; a DELETE that matches none only warns. `DatabaseError` lets
  any round trip fail, `Crash` drops everything in flight, `LoseAnswer` loses a
  login's answer.

`ReuseRowIds` chooses how the database gives keys: SQLite's `INTEGER PRIMARY KEY`
gives the one after the largest in use, so a deleted key comes back; a sequence
(PostgreSQL) never gives one twice. `owner`, `uses` and `liveAtAsk` are history:
only the properties read them.

### Passwords and Accounts

A stored hash is the record of the fields `verify_password` finds in the string:
for PBKDF2 the number of `$`-separated fields, the iteration count (or that it is
no number), whether the base64 decodes, and the key, a tuple of all it was derived
from; for Argon2 its parameters (current, other, malformed) and the password of its key.
Every `raise ValueError` of the code is a value `"ValueError"` here.

In `Accounts` rows are never deleted, so `users` is a sequence and a row's position
is its key. `AskRegister` applies the policy; `InsertUser` is INSERT and COMMIT with
the UNIQUE constraint, a duplicate being answered like a new account. A login is
`SelectUser` (the SELECT and `Judge`, which verifies the loaded hash and decides on
the upgrade) and `CommitLogin`, the one COMMIT of `create_session` for the new hash
and the new row. Hashing takes long and holds no lock: any other request may run
between the two.

### AuthService

The two modules run over the same requests: `areq[r]` is the part of a request that
registers or logs in, `sreq[r]` the part that works on sessions. `SelectUser` starts
`create_session` for the account it accepted, `CommitLogin` is both modules' commit
in one step, and so are an error, a reply and a crash. `credential` is history: the
address and password each token was obtained with.

### RequestPool

`todo[r]` is what is left of a request: waiting for a thread, leaving it, taking a
connection, COMMIT, closing the session. `get_session`, `get_current_user`, the handler
and the validation of the model a JSON handler returns (`ValidateResponse`; the pages of
the web forms and the exceptions have none) are up to four jobs, each in a thread of its
own turn; the session keeps its connection from one job to the next; the exit of
`get_session` needs no worker thread. `/me` holds the connection of its lookup through
two such waits, a logout that finds no row that of its SELECT through one. `Handlers`
lists the ways through each endpoint; a connection that does not come (`PoolTimeout`) or
a unit of work that fails (`DatabaseError`) cuts them short. The thread limiter, the
connection pool and the validation are those of libraries: they are modelled from what
the code asks of them, synchronous handlers with annotated results and an engine with
the default pool and timeout.

### Browser

`Browser` puts one browser in front of `Sessions`: `jar` is the value of its session
cookie and `jar_until` the instant its `max_age` runs out. `Send` asks with the cookie
the browser would send at that moment; `Receive` is the arrival of an answer, where
`SetsCookie` and `ClearsCookie` say which handlers got as far as their Set-Cookie (an
exception makes a new response without it). `Miss` loses any answer. Requests of one
browser overlap (two tabs, a form sent twice), so answers arrive in an order that is
not the one they were asked in.

`ClearedMeansEnded` speaks of answers to requests that presented the cookie that is
cleared. It has to: a logout whose answer is late, even one sent without a cookie,
clears the cookie of a login that came in between, and that session lives on
without its browser. `docs/reference/login.md` calls the cleared cookie
"now-useless", which holds in the order it describes.

### Migrations

A migration script is a sequence of statements followed by the stamp that records its
revision; `Migration(v, w)` is the one `alembic` executes at revision `v` on the way to
`w`. A run reads the recorded revision once, when it begins, and goes from one migration
to the next along its own plan (`Advance`), whatever others record meanwhile.
`committed` is the schema every run sees; `run[r]` is where a run is (`at`, `target`),
what it has still to do of its migration and its uncommitted work. On PostgreSQL a run is one transaction and schema locks make runs wait; on SQLite
every statement commits by itself. `Interrupt` kills a run between two statements,
`Fail` is an exception of a statement that cannot succeed. Upgrades go to the head and
may run at once; a downgrade is taken to be run alone.

What holds on SQLite is weaker than on PostgreSQL, and the model shows by how much: an
upgrade that died after `CREATE TABLE sessions` cannot be completed by running it again
(the CREATE fails), and neither can a downgrade that died after its DROP INDEX. Hence
`SchemaMatchesVersion` and `UpgradeReachesHead` leave out interrupted runs, and
`VersionNotAhead` says what is left of the promise after one.

### Exercises

`Exercises` has the six exercises as they are worked out in the repository, and
`ExerciseSolutions` the solutions beside them, kept apart where the two are written
differently. `ExerciseCaller` is a caller as the docstrings describe one: its account
and session give the functions their inputs, and its rotation and write-back give their
answers an effect. The worked `verify_scrypt` accepts strings the docstring excludes
("exactly 6 fields", "Raise ValueError if `stored` is not a well-formed scrypt hash"):
a string with more than six fields is still split into six and may match, and a key of
another length is a mismatch and not an error. The solution rejects the former and lets
a key that was cut match. `AsSolved` names these as the only differences.

## What the runs check

| Run | Instance | Shows |
|---|---|---|
| `sessions_identity` | 2 requests, 2 users, 2 tokens, clock 0..1, keys never reused | requests never act on one another's sessions; logout-all is complete; the inductive invariant of the proofs; `Sessions` implements `SessionAuthority` |
| `sessions_sqlite` | 2 requests, 2 users, 2 tokens, clock 0..2, keys reused | revocation is immediate and final; logout and the 401 end the session they were given |
| `sessions_time` | 2 requests, 1 token, clock 0..4, lifetimes 3 and 2 | both deadlines hold although a row is read and written in two steps; every request is answered or dies with the process |
| `browser` | 2 requests, 1 user, 2 tokens, clock 0..3, lifetimes 3 and 2, keys reused | the cookie outlives its session, is one that was issued, and is cleared only with its session |
| `accounts` | 2 requests, 2 addresses in 2 spellings, 2 acceptable passwords and a common one, 6 sorts of old hash | one account per address, sound and complete logins, passwords kept, by a legacy account whose password would be refused today too |
| `service` | 2 requests, 2 accounts, 2 tokens, clock 0..1 | a cookie speaks for its credentials; a live session implies an up-to-date hash; one token per committed login |
| `pool` | 3 requests, 2 threads, 1 connection | a connection in hand waits for a thread only on the way to an answer; every request ends and gives everything back, because the pool times out |
| `migrations` | 3 runs, both databases | the schema is that of its revision unless a run died on SQLite; one of several upgrades reaches the head |
| `exercises` | 4 passwords, one too short and one common, 14 sorts of stored hash, 16 sets of identifiers, clock 0..6, lifetimes 5 and 2, rotation every 2 | worked exercises and solutions agree; remaining lifetime, token age and rehash are right |

Why these bounds are enough: each hazard is a race of two requests on one row or one
account (a third actor, such as a login that takes over a key, reuses the slot of a
request that has ended, since slots are reused without limit). Two users and two tokens are what it takes to mix
them up. Clock 0..4 holds a session's creation, a slide, the idle deadline after it
and the absolute deadline of 3 with the instant beyond. In `browser` the second token is
the login that overlaps a logout or another login, and clock 0..3 reaches the end of a
cookie. Three runs of `alembic` are two that race and a third that finds what they left.
In `exercises` the clock reaches beyond the absolute deadline of a first session.
The only cut-offs are
`MaxClock`, `MaxAccounts`, `MaxSessions` and the finite set of tokens; a request that
would exceed one waits, and can still fail or crash, so no deadlock is introduced or
hidden. Symmetry is used over requests, users and tokens where no liveness is checked.
In `service` one password is too short to register with, so in a login it is always
the wrong one; the spellings of an address are left to `accounts`.

Fairness: a thread that can take its next step is not passed over for ever (weak
fairness of a request's steps). In `RequestPool` threads go first come first
served, hence strong fairness of `TakeThread`; a wait for a connection ends with one
or with the timeout. In `Migrations` a run that does not wait for another's lock goes
on. Nothing is assumed about errors, crashes, clients or the clock.

## Where code and documentation disagree

Three runs expect a counterexample.

* `sqlite_wrong_user`: `validate_session` selects by token but updates and re-reads by
  primary key across commits. On SQLite, a logout and another user's login in
  between make it resolve to that other user. `revoke_session` deletes by a key read
  earlier and can in the same way end another user's session (`PROPERTY LogoutSparesOthers` in
  place of the invariant in `sqlite_wrong_user.cfg` shows it).
* `purge_of_used`: a lookup that judged a row expired deletes it although another
  lookup has moved its window forward since.
* `revoked_gets_500`: a session revoked during a lookup is answered with an uncaught
  exception instead of the 401.

Two uses of a session that commit out of order also move `last_used_at` backwards,
although `app/models.py:66` says "Moved forward on every use"; the idle window may then
end early. `NoIdleGap` shows that it opens no idle gap.

The first needs SQLite's reuse of keys: with `ReuseRowIds = FALSE` its properties
hold, and are proved.

## What is proved

Every theorem is for any sets of requests, users, tokens, addresses and passwords, any
lifetimes and any bounds. What is assumed of the constants is named in the modules that
declare them: lifetimes are numbers, the idle timeout is positive and shorter than the
absolute lifetime (`LifetimeAssumption`); the special values differ from users and
tokens (`SessionsAssumption`); lengths and iteration counts are numbers
(`PasswordsAssumption`); there is an address and a password, NULL is no hash, and a
table of an earlier run has one row per stored address (`AccountsAssumption`), within
the bound on accounts (`AuthServiceAssumption`); there is a thread and a connection
(`PoolAssumption`); the caller's stored hashes are of the three schemes
(`CallerAssumption`); the mark of a run without work is no schema
(`MigrationsAssumption`). `~ReuseRowIds`, keys that are never given twice, is an assumption
of single theorems: without it several of them are false, and `sqlite_wrong_user` is the
counterexample of one.

| Theorems about | Either way of giving keys | Only if keys are never reused |
|---|---|---|
| `Sessions` | `TypeCorrect`, `GrantedOnlyIfLiveAtAskHolds`, `LogoutEndsSessionHolds`, `RefusedMeansEndedHolds`, `RowLossMeansEndedHolds`, `NoResurrectionHolds` | `GrantedToOwnerHolds`, `EndedByItsUserHolds`, `LogoutSparesOthersHolds`, `LogoutAllEndsSessionsHolds`, `AbsoluteCapHolds`, `NoIdleGapHolds`, `RowTimesOrderedHolds`, `ImplementsAuthorityHolds` |
| `Accounts` | `AccountsTypeCorrect`, `OneAccountPerAddressHolds`, `LoginSoundHolds`, `LoginCompleteHolds`, `AccountsKeepPasswordsHolds` | |
| `AuthService` | `SessionsUnderCurrentHashHolds`, `OneTokenPerLoginHolds` | `GrantedToCredentialHolds` |
| `RequestPool` | `PoolTypeCorrect`, `IdleHoldsNothingHolds`, `HeldOnlyToAnswerHolds` | |
| `Browser` | `CookieOutlivesSessionHolds`, `JarIsIssuedHolds`, `ClearedMeansEndedHolds` | |
| `Migrations` | `MigrationsTypeOK`, `SchemaMatchesVersionHolds`, `VersionNotAheadHolds` | |
| `ExerciseCaller` | `RemainingIsExactHolds`, `TokenAgeBoundedHolds`, `LoginKeepsPasswordHolds`, `AsSolvedHolds` | |

Hardly any of these properties is inductive as it stands: they speak of replies and
rows, which depend on what a request read some steps before. Each proof has an
invariant that says what a request in flight knows, shown action by action; action
properties and the refinement follow from it by cases on the step.

**Sessions, identity** (`IdentityInv`, in `Sessions`, checked by `sessions_identity`). A
row's user is its token's owner and no two rows have one token (`TableInv`); where a
request stands determines what it asks (`ControlInv`); a key read earlier was given
out, and if it is in use its row is the one of the request's cookie
(`KeyMeansCookie`, the part that needs keys not to come back); the token of a login
in flight is new (`LoginToken`, `FreshTokens`); a user that was resolved owns the
cookie (`ResolvedUser`).

**Sessions, endings** (`LifeInv`). Where keys do come back, `KeyMeansCookie` is false: the
row behind a key may be another session's. What is left is its converse, `FoundRow`: if
the request's cookie has a row, it is under the key the request remembers. That is
enough to see that deleting by that key, or finding it gone, ends the session, which is
why logout and the 401 are right on SQLite too, while the identity of the user is not.
`CookieInv` adds that a cookie with a row had it when the request began, and
what each reply says of its cookie. `NoNewRows`, proved with it of every step, is the
reason nothing comes back. Logout-all needs both invariants: the rows it deletes are
chosen by user, and that every token of the user's is among them is `TableInv`.

**Sessions, deadlines** (`TimeInv`). `RowTime` bounds every use by the row's two ends,
and `RequestTimes` says what a lookup between its SELECT and its UPDATE still has:
its `now` is not before its row's creation, before the row's deadline, and within an
idle timeout of some use. `NoIdleGap` alone is not kept by a step: a use that commits
late may fall between two others. `Covered` strengthens it to every instant between the
first and the last use, and that is preserved wherever a use is added (`CoveredAdd`).

**Refinement** (`ImplementsAuthorityHolds`). A request's ticket of `SessionAuthority` is
a function of its state alone (`TicketOf`), so a step changes one ticket; each action
is then matched with the authority's action or a stutter. A request takes effect at the
round trip that decides its answer: a lookup is granted by its reload, refused by its
DELETE or by a SELECT that finds nothing; a logout is done by its DELETE; a
logout-all is granted by its reload and done by its DELETE. A SELECT that finds a row
and an UPDATE are stutters. `KeyMeansCookie` and `FoundRow` tie the row that is reloaded
or deleted to the cookie of the ticket.

**Accounts** (`AccountsInv`). `Accepted`: a login about to commit has an account of its
address whose hash accepts its password and is up to date unless the login is about to
replace it. It survives other logins because an upgrade accepts what the hash before it
accepted (`UpgradeSame`, from `OnePassword`: a hash has one key), and never makes a
current hash old. `Sound` and `Unknown` say the same of the answers. `Keeps`, what
no step does to the two tables, carries them over every step at once.

**AuthService** (`AuthInv`). A step of the composition is one of each part, or none, or
a crash of both, so the invariants of the parts carry over
(`PartsStep`). What joins them is: a login stands at its COMMIT in both parts or in
none, for the same user, and its token was drawn for the password that was accepted
(`Coupled`); an issued token stands for an account of its address whose hash accepts its
password and is up to date (`TokenSound`); a row's user is the owner of its token; and
each user, even one still to register, has as many tokens as logins (`CountInv`).

**RequestPool** (`PoolInv`). What is left of a request ends with leaving its thread and
closing its session (`EndsClosed`), a thread or connection in hand means these
steps are still to come (`Holds`), and a wait for a thread with a connection in hand,
now or later, is for the handler behind a lookup or for a validation (`LateThreads`).
The last is about all the rest of a program and not its next step, which is what makes
it inductive; that the programs of all endpoints begin so is shown from the back, one
job put in front of what follows it at a time (`Prepend`).

**Browser** (`BrowserInv`). No row lives longer than one created now (`RowDeadlines`, kept
by the clock only moving forward); the cookie lasts as long as any row of its token
(`CookieCoversRow`, kept because the answer is received after the row was stored, and
because no later INSERT uses the token of a cookie); a login in flight has a token of
its own and a `now` that has passed (`LoginInv`, `FreshInserts`). `ClearedMeansEnded`
needs no keys that never come back: every step of `Browser` is one of `Sessions` or none
(`BrowserIsClient`), so how sessions end is known from `LifeInv`. What is left is
logout-all, which deletes by user: while its own token has a row, that row is its user's
(`UserKnown`), so its own session at least is among those it deletes.

**Migrations** (`MigrationsInv`). Each point of a run has a schema it is meant to find
(`Intended`), and each statement leads from one to the next (`UpStage`, `DownStage`,
`MeantToWork`). Where nothing was left half done (`ExactInv`), at most one run is in the
middle of a migration and finds exactly that schema; the others have not begun theirs.
The reason is `ExecuteFinds`: a run that has not begun can only create the first table
of its migration if no other run has passed that point, since otherwise the table is
there and the run fails. Where upgrades did die (`EnoughInv`) a run finds at
least what it is meant to find, since a statement of an upgrade only adds and a stamp
follows what it stands for (`UpgradeStatement`). `ShapeInv` keeps a run's plan and the
recorded revision together.

**Exercises** (`CallerInv`). A session was last used before the next rotation fell due
(`RotatedInTime`), so that an idle timeout later it is gone. The stored hash stays one
of the three schemes, which is what the comparison with the solutions and the rehash are
by cases about.

Every safety and action property of a passing run is the property of a theorem.
Only model-checked, within the bounds above, is liveness (`EveryRequestAnswered`,
`EveryRequestEnds`, `UpgradeReachesHead`): it rests on fairness, which is out of the
prover's reach.

## What is not modelled

* The strength and timing of cryptography: tokens are distinct values, hashing is
  injective, comparison is equality. That a failed login takes as long as a
  successful one is outside a transition system.
* SQLite's file locks appear only as errors of a round trip.
* The contents of the list of common passwords: it is a set.
* Flags of the cookie (HttpOnly, Secure, SameSite), which no step of a browser here
  depends on; browsers that share a cookie, since cookies are per browser.
* The offline mode of `alembic`, which prints SQL, and the creation of its own table.
* Exercise starters, which only raise `NotImplementedError`.
* Which exception `hashlib.scrypt` raises for costs it rejects.
* Templates, field lengths of the JSON bodies, settings, `/healthz` and the GET pages.

## Plan

1. done: sessions, their abstract specification, passwords, accounts, the composed
   service, the pools, the browser, migrations and the exercises.
2. done: theorems about sessions (types, identity, endings, deadlines), their step
   simulation, accounts, the composition, the pools, the browser, migrations and the
   exercises.
