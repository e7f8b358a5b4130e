---------------------------- MODULE MCInventory -----------------------------
(***************************************************************************)
(* Two checkouts and a restock over two products.  The checkouts contend   *)
(* for the last unit of "s1", take their sizes in opposite orders, and the *)
(* restock returns units of both while they run.                           *)
(***************************************************************************)
EXTENDS Inventory

MCProductOf == [s \in Sizes |-> IF s = "s3" THEN "p2" ELSE "p1"]

MCItems ==
    [j \in Jobs |->
        CASE j = "checkout1" -> <<[size |-> "s1", quantity |-> 1], [size |-> "s3", quantity |-> 1]>>
          [] j = "checkout2" -> <<[size |-> "s2", quantity |-> 2], [size |-> "s1", quantity |-> 1]>>
          [] j = "restock" -> <<[size |-> "s1", quantity |-> 1], [size |-> "s2", quantity |-> 1]>>]

MCMode == [j \in Jobs |-> IF j = "restock" THEN "INCREASE" ELSE "DECREASE"]

MCSizeAtStart ==
    [s \in Sizes |->
        CASE s = "s1" -> [inventory |-> 1, sold |-> 1]
          [] s = "s2" -> [inventory |-> 2, sold |-> 1]
          [] s = "s3" -> [inventory |-> 1, sold |-> 0]]

MCProductAtStart ==
    [p \in Products |-> IF p = "p1" THEN [inventory |-> 3, sold |-> 2]
                                    ELSE [inventory |-> 1, sold |-> 0]]
=============================================================================
