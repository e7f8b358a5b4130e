------------------------------ MODULE MCOrders ------------------------------
(***************************************************************************)
(* Amounts for the runs of Orders.  The first order has two items, any     *)
(* other takes the second of them.  Those with the voucher use points too, *)
(* of which the second order's are below zero.                             *)
(***************************************************************************)
EXTENDS Orders

MCItem(p) == [product |-> p, quantity |-> 1]
MCItems == [o \in Orders |-> IF o = "o1" THEN <<MCItem("p1"), MCItem("p2")>> ELSE <<MCItem("p2")>>]
MCInventory == [p \in Products |-> 1]
MCPoints == [o \in Orders |-> IF o \notin VoucherOrders THEN 0 ELSE IF o = "o1" THEN 2 ELSE -2]
MCTotal == [o \in Orders |-> 2]
=============================================================================
