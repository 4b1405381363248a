----------------------------- MODULE MCBrowser -----------------------------
(* A small instance of Browser for TLC. *)
EXTENDS Browser, TLC

Symmetry == Permutations(Requests) \cup Permutations(Users) \cup Permutations(Tokens)
=============================================================================
