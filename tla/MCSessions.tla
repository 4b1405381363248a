----------------------------- MODULE MCSessions -----------------------------
(* Small instances of Sessions for TLC. *)
EXTENDS SessionsRefinement, TLC

Symmetry == Permutations(Requests) \cup Permutations(Users) \cup Permutations(Tokens)
=============================================================================
