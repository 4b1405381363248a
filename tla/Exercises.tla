----------------------------- MODULE Exercises -----------------------------
(***************************************************************************)
(* The exercises as they are worked out in the repository: pure functions  *)
(* on top of authcore.  Stored scrypt hashes, like the others in           *)
(* Passwords, are the records of what the functions find in the string; a  *)
(* word of an e-mail address or a display name is its length and the       *)
(* passwords whose casefold contains it.                                   *)
(***************************************************************************)
EXTENDS Passwords, SessionRules

CONSTANTS
  ROTATE_EVERY,   \* how often the token of a session in use is replaced
  NoHash          \* the new_hash of an AuthResult that has none

ASSUME ExercisesAssumption == ROTATE_EVERY \in Nat \ {0}

-----------------------------------------------------------------------------
(* 01-passwords, exercise 1: a third algorithm *)

SCRYPT_DKLEN == 32

\* "rejected" costs are numbers that hashlib.scrypt raises an exception for.
ScryptCosts == {"current", "other", "rejected", "not numbers"}

\* `fields` counts the parts between the "$"; `bytes` is the key's length.
scrypt(fields, costs, base64, p, bytes) ==
  [scheme |-> "scrypt$", fields |-> fields, costs |-> costs,
   base64 |-> base64, key |-> <<p, costs>>, bytes |-> bytes]

\* What the legacy system may have stored, damaged strings included.
ScryptHashes ==
  [scheme : {"scrypt$"}, fields : Nat, costs : ScryptCosts, base64 : BOOLEAN,
   key : Passwords \X ScryptCosts, bytes : Nat]

hash_scrypt(p) == scrypt(6, "current", TRUE, p, SCRYPT_DKLEN)

\* Wrong form: the key is derived with the current costs, not the stored ones.
verify_at_current(p, stored) ==
  IF stored.fields >= 6 /\ stored.costs \in {"current", "other"} /\ stored.base64
  THEN Outcome(stored.key = <<p, "current">> /\ stored.bytes = SCRYPT_DKLEN)
  ELSE "ValueError"

\* split("$", maxsplit=5) leaves what follows a sixth "$" in the last field,
\* where the decoder ignores everything behind the padding of the key.
verify_scrypt(p, stored) ==
  IF stored.fields >= 6 /\ stored.costs \in {"current", "other"} /\ stored.base64
  THEN Outcome(stored.key = <<p, stored.costs>> /\ stored.bytes = SCRYPT_DKLEN)
  ELSE "ValueError"

verify_any(p, stored) ==
  IF stored.scheme = "scrypt$" THEN verify_scrypt(p, stored)
  ELSE verify_password(p, stored)

-----------------------------------------------------------------------------
(* 01-passwords, exercise 2: passwords that contain an identifier *)

MIN_IDENTIFIER_LEN == 3

\* `identifiers`: the part of the address before "@" and the words of the
\* display name, all casefolded.
check_password_with_context(p, identifiers) ==
  LET valid == {word \in identifiers : word.length >= MIN_IDENTIFIER_LEN} IN
  IF check_password(p) # "acceptable" THEN check_password(p)
  ELSE IF \E word \in valid : p \in word.within THEN "password_contains_identifier"
  ELSE "acceptable"

-----------------------------------------------------------------------------
(* 01-passwords, exercise 3: verify, then rehash *)

AuthResult(outcome, new_hash) == [outcome |-> outcome, new_hash |-> new_hash]

\* Wrong form: the upgrade is decided before the password is verified.
RehashFirst(stored, p) ==
  AuthResult(verify_password(p, stored),
             IF needs_rehash(stored) THEN hash_password(p) ELSE NoHash)

authenticate(stored, p) ==
  AuthResult(verify_password(p, stored),
             IF verify_password(p, stored) = "match" /\ needs_rehash(stored)
             THEN hash_password(p) ELSE NoHash)

-----------------------------------------------------------------------------
(* 02-sessions, exercise 1: the time left, which is never negative *)

\* Wrong form: the later deadline counts.
LaterDeadline(now, expires_at, last_used_at) ==
  LET idle == last_used_at + IDLE_TIMEOUT
      deadline == IF idle > expires_at THEN idle ELSE expires_at
  IN IF deadline > now THEN deadline - now ELSE 0

remaining_lifetime(now, expires_at, last_used_at) ==
  LET idle == last_used_at + IDLE_TIMEOUT
      deadline == IF idle <= expires_at THEN idle ELSE expires_at
  IN IF deadline > now THEN deadline - now ELSE 0

-----------------------------------------------------------------------------
(* 02-sessions, exercise 2: the shape of a token *)

TOKEN_LENGTH == 32

\* base32 writes five bits a character and pads to a multiple of eight.
b32encode(bytes) ==
  LET symbols == (8 * bytes + 4) \div 5 IN
  [symbols |-> symbols, padding |-> (8 - (symbols % 8)) % 8, alphabet |-> TRUE]

generate == b32encode(20)

\* "=" is not in the alphabet, nor are lower case letters.
looks_like_token(value) ==
  /\ value.symbols + value.padding = TOKEN_LENGTH
  /\ value.alphabet /\ value.padding = 0

-----------------------------------------------------------------------------
(* 02-sessions, exercise 3: validity and rotation *)

SessionDecision(valid, should_rotate) ==
  [valid |-> valid, should_rotate |-> should_rotate]

\* Wrong form: a session in use is not due, however old its token is.
RotateWhenUnused(now, expires_at, last_used_at, last_rotated_at) ==
  IF ~is_expired(now, expires_at, last_used_at)
  THEN SessionDecision(TRUE, now - last_used_at >= ROTATE_EVERY)
  ELSE SessionDecision(FALSE, FALSE)

evaluate_session(now, expires_at, last_used_at, last_rotated_at) ==
  IF ~is_expired(now, expires_at, last_used_at)
  THEN SessionDecision(TRUE, now - last_rotated_at >= ROTATE_EVERY)
  ELSE SessionDecision(FALSE, FALSE)
=============================================================================
