-------------------------- MODULE MCDiscountEvents --------------------------
(* Two events over two products, of the whole shop or of a category. *)
EXTENDS DiscountEvents

MCCovers == [t \in Targets |-> IF t = "ALL_SHOP" THEN Products ELSE {"p1"}]
MCNameOf == [e \in Events |-> "sale"]
MCWindows == {[start |-> 1, end |-> 1]}
=============================================================================
