---------------------------- MODULE CartPromise -----------------------------
(***************************************************************************)
(* What a customer may expect of the cart while the calls for it come one  *)
(* after the other: there is one bag of quantities; an addition of several *)
(* lines adds all of them or none; a removal takes one line away, or all.  *)
(* Once two calls have overlapped nothing is promised.                     *)
(***************************************************************************)
EXTENDS Integers, SequencesExt

CONSTANTS Sizes, Requests

VARIABLES
    bag,        \* the quantity of each size in the cart that is shown
    disturbed   \* two calls have overlapped

vars == <<bag, disturbed>>

With(b, l) == [b EXCEPT ![l.size] = @ + l.quantity]

Init ==
    /\ bag \in [Sizes -> Nat]
    /\ disturbed = FALSE

AddAll ==
    \E lines \in Requests : bag' = FoldLeft(With, bag, lines)

RemoveLine ==
    \E s \in Sizes : bag' = [bag EXCEPT ![s] = 0]

RemoveAll ==
    bag' = [s \in Sizes |-> 0]

Next ==
    \/ ~disturbed /\ UNCHANGED disturbed /\ (AddAll \/ RemoveLine \/ RemoveAll)
    \/ disturbed'

Spec == Init /\ [][Next]_vars
=============================================================================
