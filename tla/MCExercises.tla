---------------------------- MODULE MCExercises ----------------------------
(* A small instance of ExerciseCaller for TLC. *)
EXTENDS ExerciseCaller

CONSTANTS p1, p2, short, common

\* Both ends of the accepted range, and a password one short of it.
MCLengths == [p \in Passwords |-> CASE p = short -> MIN_LENGTH - 1
                                     [] p = p2 -> MAX_LENGTH
                                     [] OTHER -> MIN_LENGTH]

\* Every sort of hash of authcore, and scrypt strings with too few and too
\* many fields, any costs, broken base64, and a cut or missing key.
MCStoredHashes ==
  {hash_pbkdf2(p1), argon2("current", p1), argon2("other", p1),
   argon2("malformed", p1), unrecognised}
  \cup {scrypt(fields, "current", TRUE, p1, 32) : fields \in 5..7}
  \cup {scrypt(6, costs, TRUE, p1, 32) : costs \in ScryptCosts}
  \cup {scrypt(6, "current", TRUE, p1, bytes) : bytes \in {0, 16}}
  \cup {scrypt(6, "current", FALSE, p1, 32)}

\* No local part; a name one letter too short; two that are long enough.
MCWords ==
  {[length |-> 0, within |-> Passwords], [length |-> 2, within |-> {p1}],
   [length |-> 3, within |-> {p1}], [length |-> 6, within |-> {p2, short}]}

\* A cut token, a padded one, a lower case one.
MCJunkCookies ==
  {[symbols |-> 31, padding |-> 0, alphabet |-> TRUE], b32encode(16),
   [symbols |-> 32, padding |-> 0, alphabet |-> FALSE]}
=============================================================================
