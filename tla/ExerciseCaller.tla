--------------------------- MODULE ExerciseCaller ---------------------------
(***************************************************************************)
(* The caller the exercises are written for, doing what their docstrings   *)
(* leave to it: an account whose stored hash is replaced when authenticate *)
(* hands out a new one, and a session whose token is rotated when          *)
(* evaluate_session says so.  Its life gives the functions their inputs.   *)
(***************************************************************************)
EXTENDS ExerciseSolutions

CONSTANTS
  StoredHashes,   \* hashes the account may have at first
  Words,          \* words the user's address and name may have
  JunkCookies,    \* values that are no token, in the form of b32encode
  NoSession,
  MaxClock        \* bound on the clock

ASSUME CallerAssumption == StoredHashes \subseteq Hashes \cup ScryptHashes

VARIABLES clock, stored, identifiers, session

vars == <<clock, stored, identifiers, session>>

-----------------------------------------------------------------------------

FreshSession ==
  [cookie |-> generate, expires_at |-> absolute_expiry(clock),
   last_used_at |-> clock, last_rotated_at |-> clock]

\* A login.  The caller may write new_hash back or ignore it.
Login(p) ==
  LET result == authenticate(stored, p) IN
  /\ \/ stored' = IF result.new_hash = NoHash THEN stored ELSE result.new_hash
     \/ UNCHANGED stored
  /\ session' = IF result.outcome = "match" THEN FreshSession ELSE session
  /\ UNCHANGED <<clock, identifiers>>

\* The user takes another password; the legacy system takes it as scrypt.
ChangePassword(p) ==
  /\ session # NoSession
  /\ check_password_with_context(p, identifiers) = "acceptable"
  /\ stored' \in {hash_password(p), hash_scrypt(p)}
  /\ UNCHANGED <<clock, identifiers, session>>

\* A request: junk is turned away before the session is looked up; a valid
\* session is used and its token replaced if due, an expired one is dropped.
Use(cookie) ==
  /\ session # NoSession
  /\ looks_like_token(cookie) /\ cookie = session.cookie
  /\ LET decision == evaluate_session(clock, session.expires_at,
                                      session.last_used_at, session.last_rotated_at)
     IN session' =
          IF ~decision.valid THEN NoSession
          ELSE IF decision.should_rotate
          THEN [session EXCEPT !.last_used_at = clock, !.last_rotated_at = clock,
                               !.cookie = generate]
          ELSE [session EXCEPT !.last_used_at = clock]
  /\ UNCHANGED <<clock, stored, identifiers>>

Tick ==
  /\ clock < MaxClock
  /\ clock' = clock + 1
  /\ UNCHANGED <<stored, identifiers, session>>

Init ==
  /\ clock = 0
  /\ stored \in StoredHashes
  /\ identifiers \in SUBSET Words
  /\ session = NoSession

Next ==
  \/ \E p \in Passwords : Login(p) \/ ChangePassword(p)
  \/ \E cookie \in {generate} \cup JunkCookies : Use(cookie)
  \/ Tick

Spec == Init /\ [][Next]_vars

-----------------------------------------------------------------------------
(* Properties *)

PasswordsAsSolved ==
  \A p \in Passwords :
    /\ authenticate(stored, p) = solved_authenticate(stored, p)
    /\ check_password_with_context(p, identifiers) = solved_check_password(p, identifiers)
    /\ \/ verify_any(p, stored) = solved_verify_any(p, stored)
       \/ /\ stored.scheme = "scrypt$"
          /\ stored.fields > 6 \/ stored.bytes # SCRYPT_DKLEN

SessionsAsSolved ==
  session # NoSession =>
    \A now \in 0..MaxClock :
      /\ remaining_lifetime(now, session.expires_at, session.last_used_at)
           = solved_remaining(now, session.expires_at, session.last_used_at)
      /\ evaluate_session(now, session.expires_at, session.last_used_at,
                          session.last_rotated_at)
           = solved_evaluate(now, session.expires_at, session.last_used_at,
                             session.last_rotated_at)

\* The worked exercises answer as the reference solutions do, except on a
\* scrypt string that is not well formed: with more than six fields, or a key
\* of another length.
AsSolved == PasswordsAsSolved /\ SessionsAsSolved

\* remaining_lifetime tells exactly when is_expired will turn true if the
\* session is left alone: at that instant, not one earlier or later.
RemainingIsExact ==
  session # NoSession =>
    \A d \in 0..(2 * MaxClock) :
      is_expired(clock + d, session.expires_at, session.last_used_at)
        <=> d >= remaining_lifetime(clock, session.expires_at, session.last_used_at)

\* A token that leaks is good for less than ROTATE_EVERY + IDLE_TIMEOUT, as
\* long as its session is used often or not at all: no session the rules
\* accept has an older one.
TokenAgeBounded ==
  session # NoSession =>
    \/ is_expired(clock, session.expires_at, session.last_used_at)
    \/ clock < session.last_rotated_at + ROTATE_EVERY + IDLE_TIMEOUT

\* A login never changes which password the account accepts, whatever was
\* typed and whether the caller writes the new hash back or ignores it.
LoginKeepsPassword ==
  [][(\E p \in Passwords : Login(p)) =>
       \A q \in Passwords :
         verify_any(q, stored) = "match" <=> verify_any(q, stored') = "match"]_vars
=============================================================================
