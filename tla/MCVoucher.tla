----------------------------- MODULE MCVoucher ------------------------------
(***************************************************************************)
(* Two of three customers check out with the voucher, the first one twice, *)
(* in calls that may trade places; the third may only be handed a row.     *)
(***************************************************************************)
EXTENDS Voucher, TLC

CONSTANTS c1, c2, c3

MCUserOf == [c \in Calls |-> IF c = c3 THEN "u2" ELSE "u1"]
Symmetry == Permutations({c1, c2})
=============================================================================
