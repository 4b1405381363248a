----------------------------- MODULE MCAccounts -----------------------------
(* A small instance of Accounts for TLC. *)
EXTENDS Accounts, TLC

CONSTANTS p1, p2, common, a1, a2

\* Both ends of the accepted range: of the three passwords only the common one
\* is refused.
MCLengths == [p \in Passwords |-> IF p = p2 THEN MAX_LENGTH ELSE MIN_LENGTH]

\* The table may hold an account with a hash of an earlier version, one that
\* is damaged, one of a password that is refused today, or none.
MCSeedHashes ==
  {hash_pbkdf2(p1), argon2("other", p1), argon2("malformed", p1),
   pbkdf2(4, 3, TRUE, p1, 3), hash_pbkdf2(common), NoHash}

MCSeedTables ==
  {<<>>} \cup {<<UserRow(<<a1, "canonical">>, h)>> : h \in MCSeedHashes}

Symmetry == Permutations(Requests)
=============================================================================
