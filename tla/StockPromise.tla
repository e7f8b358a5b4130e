---------------------------- MODULE StockPromise ----------------------------
(***************************************************************************)
(* What the stock rows promise to the rest of the shop, whatever the       *)
(* interleaving of the callers of InventoryHelper.                         *)
(*                                                                         *)
(* While no two stock updates overlap and none is torn by a crash, an item *)
(* is moved between "available" and "sold" in its size row and in its      *)
(* product row by the same quantity, at once.  After a disturbance only    *)
(* the weaker half of the promise is left: every row still adds up to what *)
(* it added up to before, and no row is ever overdrawn.                    *)
(***************************************************************************)
EXTENDS Integers

CONSTANTS Sizes, Products, ProductOf

VARIABLES
    sizeRow,      \* variant-sizes: [inventory, sold] of each size
    productRow,   \* products: [inventory, sold], the product's totals
    disturbed     \* two updates have overlapped, or a crash has torn one

vars == <<sizeRow, productRow, disturbed>>

Row == [inventory : Int, sold : Int]

Stocked(r) == r.inventory + r.sold

\* Units of the row move between available and sold, and it is not overdrawn.
Moves(old, new) ==
    /\ Stocked(new) = Stocked(old)
    /\ new.inventory >= 0

Init ==
    /\ sizeRow \in [Sizes -> Row]
    /\ productRow \in [Products -> Row]
    /\ disturbed = FALSE

\* One item of an order: the size and its product move by the same quantity.
MoveItem(s) ==
    LET p == ProductOf[s] IN
    /\ ~disturbed /\ disturbed' = FALSE
    /\ sizeRow' = [sizeRow EXCEPT ![s] = sizeRow'[s]]
    /\ productRow' = [productRow EXCEPT ![p] = productRow'[p]]
    /\ Moves(sizeRow[s], sizeRow'[s])
    /\ Moves(productRow[p], productRow'[p])
    /\ sizeRow'[s].sold - sizeRow[s].sold = productRow'[p].sold - productRow[p].sold

\* What is left of the promise once updates overlap or are torn.
MoveDisturbed ==
    /\ disturbed' = TRUE
    /\ \A s \in Sizes : sizeRow'[s] # sizeRow[s] => Moves(sizeRow[s], sizeRow'[s])
    /\ \A p \in Products :
          productRow'[p] # productRow[p] => Moves(productRow[p], productRow'[p])

Next == MoveDisturbed \/ \E s \in Sizes : MoveItem(s)

Spec == Init /\ [][Next]_vars
=============================================================================
