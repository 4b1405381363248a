------------------------- MODULE ExerciseSolutions -------------------------
(***************************************************************************)
(* The reference solutions of the exercises, written independently of the  *)
(* functions in Exercises and used to check those.                         *)
(***************************************************************************)
EXTENDS Exercises, FiniteSetsExt

\* The key is derived to the length of the stored one, which scrypt makes a
\* prefix of any longer one; hashlib.scrypt raises for a length of zero.
solved_verify_scrypt(p, stored) ==
  IF /\ stored.fields = 6
     /\ stored.costs \in {"current", "other"}
     /\ stored.base64
     /\ stored.bytes > 0
  THEN Outcome(stored.key = <<p, stored.costs>>)
  ELSE "ValueError"

solved_verify_any(p, stored) ==
  CASE stored.scheme = "scrypt$" -> solved_verify_scrypt(p, stored)
    [] OTHER -> verify_password(p, stored)

\* The loop over the identifiers raises at the first one it finds.
solved_check_password(p, identifiers) ==
  LET Contained(word) == word.length >= MIN_IDENTIFIER_LEN /\ p \in word.within
  IN IF check_password(p) = "acceptable" /\ \E word \in identifiers : Contained(word)
     THEN "password_contains_identifier" ELSE check_password(p)

solved_authenticate(stored, p) ==
  IF verify_password(p, stored) # "match" THEN AuthResult(verify_password(p, stored), NoHash)
  ELSE IF needs_rehash(stored) THEN AuthResult("match", hash_password(p))
  ELSE AuthResult("match", NoHash)

solved_remaining(now, expires_at, last_used_at) ==
  Max({Min({expires_at, last_used_at + IDLE_TIMEOUT}) - now, 0})

solved_evaluate(now, expires_at, last_used_at, last_rotated_at) ==
  LET valid == ~is_expired(now, expires_at, last_used_at)
  IN SessionDecision(valid, valid /\ now - last_rotated_at >= ROTATE_EVERY)
=============================================================================
