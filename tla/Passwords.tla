----------------------------- MODULE Passwords -----------------------------
(***************************************************************************)
(* authcore/passwords.py and authcore/policy.py.  A stored hash is a       *)
(* string the functions take apart; here it is the record of what they     *)
(* find in it.  A derived key is the tuple of what it was derived from,    *)
(* so that two keys are equal only if all their inputs are.                *)
(***************************************************************************)
EXTENDS Integers

CONSTANTS
  Passwords,        \* plain passwords
  Lengths,          \* [Passwords -> Nat], in code points
  Common,           \* the passwords whose casefold is in the denylist
  MIN_LENGTH, MAX_LENGTH,
  PBKDF2_ITERATIONS, PBKDF2_MAX_ITERATIONS,
  NotANumber        \* an iteration field int() does not accept

ASSUME PasswordsAssumption ==
  /\ Lengths \in [Passwords -> Nat]
  /\ Common \subseteq Passwords
  /\ MIN_LENGTH \in Nat /\ MAX_LENGTH \in Nat /\ MIN_LENGTH <= MAX_LENGTH
  /\ PBKDF2_ITERATIONS \in 1..PBKDF2_MAX_ITERATIONS
  /\ PBKDF2_MAX_ITERATIONS \in Nat
  /\ NotANumber \notin Int

-----------------------------------------------------------------------------
(* Stored hashes *)

\* The cost parameters of an Argon2 string: the ones configured now, others
\* (older costs, argon2i, argon2d), or none that can be parsed.
Argon2Params == {"current", "other", "malformed"}

argon2(params, p) == [scheme |-> "$argon2", params |-> params, key |-> p]

\* `fields` counts the parts of split("$", 3), at least two behind the prefix;
\* `base64` tells whether the salt and the key decode.
pbkdf2(fields, iterations, base64, p, derived_with) ==
  [scheme |-> "pbkdf2_sha256$", fields |-> fields, iterations |-> iterations,
   base64 |-> base64, key |-> <<p, derived_with>>]

unrecognised == [scheme |-> "other"]

\* Wrong form: the password itself is stored.
plaintext(p) == [scheme |-> "plain", key |-> p]

\* What may be stored: hashes of either scheme with any parameters, damaged
\* ones, and what neither scheme recognises.
Argon2Hashes == [scheme : {"$argon2"}, params : Argon2Params, key : Passwords]

LegacyHashes ==
  [scheme : {"pbkdf2_sha256$"}, fields : Nat, iterations : Int \cup {NotANumber},
   base64 : BOOLEAN, key : Passwords \X Int]

Hashes == Argon2Hashes \cup LegacyHashes \cup {unrecognised}

hash_password(p) == argon2("current", p)
hash_pbkdf2(p) == pbkdf2(4, PBKDF2_ITERATIONS, TRUE, p, PBKDF2_ITERATIONS)

-----------------------------------------------------------------------------
(* Verification: "match", "mismatch" or the exception "ValueError" *)

Outcome(equal) == IF equal THEN "match" ELSE "mismatch"

verify_argon2(p, stored) ==
  IF stored.params = "malformed" THEN "ValueError" ELSE Outcome(stored.key = p)

AcceptedIterations(n) == n # NotANumber /\ 0 < n /\ n <= PBKDF2_MAX_ITERATIONS

verify_pbkdf2(p, stored) ==
  IF /\ stored.fields = 4
     /\ AcceptedIterations(stored.iterations)
     /\ stored.base64
  THEN Outcome(stored.key = <<p, stored.iterations>>)
  ELSE "ValueError"

verify_password(p, stored) ==
  CASE stored.scheme = "pbkdf2_sha256$" -> verify_pbkdf2(p, stored)
    [] stored.scheme = "$argon2"        -> verify_argon2(p, stored)
    [] OTHER                            -> "ValueError"

\* Wrong form: an Argon2 hash is taken as current whatever its parameters.
only_legacy_needs_rehash(stored) == stored.scheme = "pbkdf2_sha256$"

\* Called after a match only, when it raises nothing.
needs_rehash(stored) ==
  \/ stored.scheme = "pbkdf2_sha256$"
  \/ stored.scheme = "$argon2" /\ stored.params # "current"

-----------------------------------------------------------------------------
(* Policy: the first problem found, or "acceptable" *)

check_password(p) ==
  IF Lengths[p] < MIN_LENGTH THEN "password_too_short"
  ELSE IF Lengths[p] > MAX_LENGTH THEN "password_too_long"
  ELSE IF p \in Common THEN "password_too_common"
  ELSE "acceptable"
=============================================================================
