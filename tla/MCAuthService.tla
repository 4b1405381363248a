--------------------------- MODULE MCAuthService ---------------------------
(* A small instance of AuthService for TLC. *)
EXTENDS AuthService, TLC

CONSTANTS p1, p2, a1, a2

\* p2 is too short to register with: in a login it is always wrong.
MCLengths == [p \in Passwords |-> IF p = p2 THEN MIN_LENGTH - 1 ELSE MIN_LENGTH]

\* One account with a hash of an older version; a second one may register.
MCSeedTables ==
  {<<[email |-> <<a1, "canonical">>,
      password_hash |-> [scheme |-> "pbkdf2_sha256$", fields |-> 4, base64 |-> TRUE,
                         iterations |-> PBKDF2_ITERATIONS,
                         key |-> <<p1, PBKDF2_ITERATIONS>>]]>>}

Symmetry == Permutations(Requests) \cup Permutations(Tokens)
=============================================================================
