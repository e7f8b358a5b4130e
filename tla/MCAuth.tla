------------------------------- MODULE MCAuth -------------------------------
(* Any few calls for one account.  The calls are alike. *)
EXTENDS Auth, TLC

Symmetry == Permutations(Calls) \cup Permutations(Passwords)
=============================================================================
