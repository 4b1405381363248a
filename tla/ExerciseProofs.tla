--------------------------- MODULE ExerciseProofs ---------------------------
(***************************************************************************)
(* What the exercises promise, for any passwords and stored hashes, any    *)
(* lifetimes and any rotation interval.                                    *)
(***************************************************************************)
EXTENDS ExerciseCaller, TLAPS

SessionType == [cookie : {generate}, expires_at : Nat, last_used_at : Nat,
                last_rotated_at : Nat]

\* A session in use never keeps a token past the rotation interval; it is
\* what bounds the token's age until the idle timeout ends the session.
RotatedInTime(s) == s.last_used_at < s.last_rotated_at + ROTATE_EVERY

CallerInv ==
  /\ clock \in Nat
  /\ stored \in Hashes \cup ScryptHashes
  /\ session # NoSession => session \in SessionType /\ RotatedInTime(session)

-----------------------------------------------------------------------------

\* The time remaining_lifetime gives is the time until is_expired turns true.
LEMMA RemainingLemma ==
  ASSUME NEW now \in Nat, NEW e \in Nat, NEW l \in Nat, NEW d \in Nat
  PROVE  is_expired(now + d, e, l) <=> d >= remaining_lifetime(now, e, l)
BY LifetimeAssumption
   DEF is_expired, past_absolute, past_idle, remaining_lifetime

\* A session that has just begun is well formed.
LEMMA FreshSessionOK ==
  ASSUME clock \in Nat
  PROVE  FreshSession \in SessionType /\ RotatedInTime(FreshSession)
BY LifetimeAssumption, ExercisesAssumption
   DEF FreshSession, SessionType, RotatedInTime, absolute_expiry

\* A request leaves the session well formed: either its token is rotated, or
\* the interval has not passed yet.
LEMMA UseOK ==
  ASSUME CallerInv, NEW cookie, Use(cookie)
  PROVE  session' # NoSession => session' \in SessionType /\ RotatedInTime(session')
<1> DEFINE decision == evaluate_session(clock, session.expires_at,
                         session.last_used_at, session.last_rotated_at)
<1> DEFINE rotated == [session EXCEPT !.last_used_at = clock,
                                      !.last_rotated_at = clock, !.cookie = generate]
<1>1. /\ clock \in Nat
      /\ session \in SessionType /\ RotatedInTime(session)
  BY DEF CallerInv, Use
<1>2. session' = IF ~decision.valid THEN NoSession
                 ELSE IF decision.should_rotate THEN rotated
                 ELSE [session EXCEPT !.last_used_at = clock]
  BY DEF Use
<1>3. CASE ~decision.valid
  BY <1>2, <1>3
<1>4. CASE decision.valid /\ decision.should_rotate
  <2>1. session' = rotated
    BY <1>2, <1>4
  <2>2. rotated \in SessionType
    BY <1>1 DEF SessionType
  <2>3. rotated.last_used_at = clock /\ rotated.last_rotated_at = clock
    BY <1>1 DEF SessionType
  <2> QED BY <1>1, <2>1, <2>2, <2>3, ExercisesAssumption DEF RotatedInTime
<1>5. CASE decision.valid /\ ~decision.should_rotate
  <2>1. ~(clock - session.last_rotated_at >= ROTATE_EVERY)
    BY <1>5, Zenon DEF evaluate_session, SessionDecision
  <2>2. session' = [session EXCEPT !.last_used_at = clock]
    BY <1>2, <1>5
  <2> QED BY <1>1, <2>1, <2>2, ExercisesAssumption DEF SessionType, RotatedInTime
<1> QED BY <1>3, <1>4, <1>5

\* Either hash of a password is one that may be stored.
LEMMA HashesOK ==
  ASSUME NEW p \in Passwords
  PROVE  hash_password(p) \in Hashes /\ hash_scrypt(p) \in ScryptHashes
BY DEF hash_password, argon2, Hashes, Argon2Hashes, Argon2Params,
       hash_scrypt, scrypt, ScryptHashes, ScryptCosts, SCRYPT_DKLEN

\* A new hash, if authenticate hands one out, is a current one of the password.
LEMMA NewHash ==
  ASSUME NEW hash, NEW p, authenticate(hash, p).new_hash # NoHash
  PROVE  /\ authenticate(hash, p).new_hash = hash_password(p)
         /\ verify_password(p, hash) = "match"
<1>1. authenticate(hash, p).new_hash =
        IF verify_password(p, hash) = "match" /\ needs_rehash(hash)
        THEN hash_password(p) ELSE NoHash
  BY DEF authenticate, AuthResult
<1> QED BY <1>1

LEMMA CallerInvHolds == Spec => []CallerInv
<1>1. Init => CallerInv
  BY CallerAssumption DEF Init, CallerInv
<1>2. CallerInv /\ [Next]_vars => CallerInv'
  <2> SUFFICES ASSUME CallerInv, [Next]_vars PROVE CallerInv'
    OBVIOUS
  <2>1. ASSUME NEW p \in Passwords, Login(p) PROVE CallerInv'
    <3>1. clock' = clock /\ (session' = FreshSession \/ session' = session)
      BY <2>1 DEF Login
    <3>2. stored' = stored \/ stored' = hash_password(p)
      BY <2>1, NewHash DEF Login
    <3> QED BY <3>1, <3>2, FreshSessionOK, HashesOK DEF CallerInv
  <2>2. ASSUME NEW p \in Passwords, ChangePassword(p) PROVE CallerInv'
    BY <2>2, HashesOK DEF ChangePassword, CallerInv
  <2>3. ASSUME NEW cookie, Use(cookie) PROVE CallerInv'
    <3>1. clock' = clock /\ stored' = stored
      BY <2>3 DEF Use
    <3> QED BY <2>3, <3>1, UseOK DEF CallerInv
  <2>4. CASE Tick
    BY <2>4 DEF Tick, CallerInv
  <2>5. CASE UNCHANGED vars
    BY <2>5 DEF vars, CallerInv
  <2> QED BY <2>1, <2>2, <2>3, <2>4, <2>5 DEF Next
<1> QED BY <1>1, <1>2, PTL DEF Spec

-----------------------------------------------------------------------------

\* The banner of the exercise is right to the instant: a session left alone
\* expires exactly when remaining_lifetime says.
THEOREM RemainingIsExactHolds == Spec => []RemainingIsExact
<1>1. CallerInv => RemainingIsExact
  <2> SUFFICES ASSUME CallerInv, session # NoSession, NEW d \in 0..(2 * MaxClock)
               PROVE  is_expired(clock + d, session.expires_at, session.last_used_at)
                        <=> d >= remaining_lifetime(clock, session.expires_at,
                                                    session.last_used_at)
    BY DEF RemainingIsExact
  <2>1. /\ clock \in Nat /\ d \in Nat
        /\ session.expires_at \in Nat /\ session.last_used_at \in Nat
    BY DEF CallerInv, SessionType
  <2> QED BY <2>1, RemainingLemma
<1> QED BY <1>1, CallerInvHolds, PTL

\* A leaked token of a session the rules still accept is younger than the
\* rotation interval and the idle timeout together.
THEOREM TokenAgeBoundedHolds == Spec => []TokenAgeBounded
<1>1. CallerInv => TokenAgeBounded
  BY LifetimeAssumption, ExercisesAssumption
     DEF CallerInv, SessionType, RotatedInTime, TokenAgeBounded,
         is_expired, past_absolute, past_idle
<1> QED BY <1>1, CallerInvHolds, PTL

-----------------------------------------------------------------------------
(* Verify, then rehash *)

\* A password matches the current hash of one password only: its own.
LEMMA CurrentHash ==
  ASSUME NEW p, NEW q
  PROVE  verify_any(q, hash_password(p)) = "match" <=> q = p
BY DEF verify_any, verify_password, verify_argon2, hash_password, argon2, Outcome

\* Two passwords that match one hash of authcore are the same, and what does
\* not match it as authcore's does not match it at all.
LEMMA OneMatch ==
  ASSUME NEW hash, NEW p, NEW q, verify_password(p, hash) = "match"
  PROVE  verify_any(q, hash) = "match" <=> q = p
<1>1. CASE hash.scheme = "$argon2"
  BY <1>1 DEF verify_any, verify_password, verify_argon2, Outcome
<1>2. CASE hash.scheme = "pbkdf2_sha256$"
  <2>1. /\ verify_pbkdf2(p, hash) = "match"
        /\ verify_any(q, hash) = verify_pbkdf2(q, hash)
    BY <1>2 DEF verify_any, verify_password
  <2>2. /\ hash.fields = 4 /\ AcceptedIterations(hash.iterations) /\ hash.base64
        /\ hash.key = <<p, hash.iterations>>
    BY <2>1 DEF verify_pbkdf2, Outcome
  <2> QED BY <2>1, <2>2 DEF verify_pbkdf2, Outcome
<1> QED BY <1>1, <1>2 DEF verify_password

\* Whatever was typed, and whether or not the caller writes the new hash back
\* (e3_verify_then_rehash), the account accepts the password it accepted.
THEOREM LoginKeepsPasswordHolds == Spec => LoginKeepsPassword
<1> DEFINE Keeps == (\E p \in Passwords : Login(p)) =>
                      \A q \in Passwords :
                        verify_any(q, stored) = "match" <=> verify_any(q, stored') = "match"
<1>1. Keeps
  <2> SUFFICES ASSUME NEW p \in Passwords, Login(p), NEW q \in Passwords
               PROVE  verify_any(q, stored) = "match" <=> verify_any(q, stored') = "match"
    OBVIOUS
  <2>1. CASE stored' = stored
    BY <2>1
  <2>2. CASE stored' # stored
    <3>1. stored' = hash_password(p) /\ verify_password(p, stored) = "match"
      BY <2>2, NewHash DEF Login
    <3> QED BY <3>1, CurrentHash, OneMatch
  <2> QED BY <2>1, <2>2
<1>2. [Next]_vars => [Keeps]_vars
  BY <1>1
<1>3. Spec => [][Keeps]_vars
  BY <1>2, PTL DEF Spec
<1> QED BY <1>3 DEF LoginKeepsPassword

-----------------------------------------------------------------------------
(* The worked exercises against the reference solutions *)

\* Exercise 1: the two readings of a scrypt string differ only on strings that
\* are not well formed.
LEMMA ScryptAsSolved ==
  ASSUME NEW p, NEW hash \in Hashes \cup ScryptHashes
  PROVE  \/ verify_any(p, hash) = solved_verify_any(p, hash)
         \/ hash.scheme = "scrypt$" /\ (hash.fields > 6 \/ hash.bytes # SCRYPT_DKLEN)
<1>1. CASE hash.scheme # "scrypt$"
  BY <1>1 DEF verify_any, solved_verify_any
<1>2. CASE hash.scheme = "scrypt$" /\ hash.fields <= 6 /\ hash.bytes = SCRYPT_DKLEN
  <2>1. hash.fields \in Nat
    BY <1>2 DEF Hashes, Argon2Hashes, LegacyHashes, unrecognised, ScryptHashes
  <2>2. (hash.fields >= 6 <=> hash.fields = 6) /\ hash.bytes > 0
    BY <1>2, <2>1 DEF SCRYPT_DKLEN
  <2> QED BY <1>2, <2>2 DEF verify_any, solved_verify_any, verify_scrypt,
                            solved_verify_scrypt
<1>3. hash.scheme = "scrypt$" => hash.fields \in Nat
  BY DEF Hashes, Argon2Hashes, LegacyHashes, unrecognised, ScryptHashes
<1> QED BY <1>1, <1>2, <1>3

\* Exercise 3: the upgrade is decided alike.
LEMMA AuthenticateAsSolved ==
  ASSUME NEW p, NEW hash
  PROVE  authenticate(hash, p) = solved_authenticate(hash, p)
BY DEF authenticate, solved_authenticate

\* Exercise 2: the same password is refused for the same reason.
LEMMA PolicyAsSolved ==
  ASSUME NEW p, NEW words
  PROVE  check_password_with_context(p, words) = solved_check_password(p, words)
BY DEF check_password_with_context, solved_check_password

\* The larger and the smaller of two numbers.
LEMMA MaxMinOfTwo ==
  ASSUME NEW a \in Int, NEW b \in Int
  PROVE  /\ Max({a, b}) = IF a >= b THEN a ELSE b
         /\ Min({a, b}) = IF a <= b THEN a ELSE b
<1>1. \E x \in {a, b} : \A y \in {a, b} : x >= y
  OBVIOUS
<1>2. Max({a, b}) \in {a, b} /\ \A y \in {a, b} : Max({a, b}) >= y
  BY <1>1, Zenon DEF Max
<1>3. \E x \in {a, b} : \A y \in {a, b} : x <= y
  OBVIOUS
<1>4. Min({a, b}) \in {a, b} /\ \A y \in {a, b} : Min({a, b}) <= y
  BY <1>3, Zenon DEF Min
<1> QED BY <1>2, <1>4

\* Session exercises 1 and 3: the same time left, the same decision.
LEMMA SessionAsSolved ==
  ASSUME NEW now \in Int, NEW e \in Nat, NEW l \in Nat, NEW rotated \in Nat
  PROVE  /\ remaining_lifetime(now, e, l) = solved_remaining(now, e, l)
         /\ evaluate_session(now, e, l, rotated) = solved_evaluate(now, e, l, rotated)
<1>1. remaining_lifetime(now, e, l) = solved_remaining(now, e, l)
  <2>1. PICK idle \in Nat : idle = l + IDLE_TIMEOUT
    BY LifetimeAssumption
  <2>2. PICK d \in Nat : d = IF idle <= e THEN idle ELSE e
    OBVIOUS
  <2>3. Min({e, idle}) = d
    BY <2>2, MaxMinOfTwo
  <2>4. d - now \in Int /\ 0 \in Int
    BY <2>2
  <2>5. Max({d - now, 0}) = IF d > now THEN d - now ELSE 0
    BY <2>4, MaxMinOfTwo
  <2> QED BY <2>1, <2>2, <2>3, <2>5 DEF remaining_lifetime, solved_remaining
<1>2. evaluate_session(now, e, l, rotated) = solved_evaluate(now, e, l, rotated)
  <2>1. CASE is_expired(now, e, l)
    BY <2>1, Zenon DEF evaluate_session, solved_evaluate, SessionDecision
  <2>2. CASE ~is_expired(now, e, l)
    <3>1. (now - rotated >= ROTATE_EVERY) \in BOOLEAN
      BY ExercisesAssumption
    <3>2. (TRUE /\ now - rotated >= ROTATE_EVERY) = (now - rotated >= ROTATE_EVERY)
      BY <3>1
    <3> QED BY <2>2, <3>2, Zenon DEF evaluate_session, solved_evaluate, SessionDecision
  <2> QED BY <2>1, <2>2
<1> QED BY <1>1, <1>2

\* The worked exercises answer as the reference solutions in every state of
\* the caller, for any stored hash, except on a scrypt string that is not well
\* formed.
THEOREM AsSolvedHolds == Spec => []AsSolved
<1>1. CallerInv => PasswordsAsSolved
  BY ScryptAsSolved, AuthenticateAsSolved, PolicyAsSolved
     DEF CallerInv, PasswordsAsSolved
<1>2. CallerInv => SessionsAsSolved
  <2> SUFFICES ASSUME CallerInv, session # NoSession, NEW now \in 0..MaxClock
               PROVE  /\ remaining_lifetime(now, session.expires_at, session.last_used_at)
                           = solved_remaining(now, session.expires_at, session.last_used_at)
                      /\ evaluate_session(now, session.expires_at, session.last_used_at,
                                          session.last_rotated_at)
                           = solved_evaluate(now, session.expires_at, session.last_used_at,
                                             session.last_rotated_at)
    BY DEF SessionsAsSolved
  <2>1. /\ now \in Int /\ session.expires_at \in Nat
        /\ session.last_used_at \in Nat /\ session.last_rotated_at \in Nat
    BY DEF CallerInv, SessionType
  <2> QED BY <2>1, SessionAsSolved
<1>3. CallerInv => AsSolved
  BY <1>1, <1>2 DEF AsSolved
<1> QED BY <1>3, CallerInvHolds, PTL
=============================================================================
