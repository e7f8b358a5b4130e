----------------------------- MODULE Inventory ------------------------------
(***************************************************************************)
(* InventoryHelper.updateInventoryQuantities, the only writer of stock on  *)
(* the order path (src/modules/products/inventory.helper.ts).              *)
(*                                                                         *)
(* A job is one call: createOrder calls it with DECREASE, the payment      *)
(* countdown and manualOrderCancellation with INCREASE.  It walks the      *)
(* order's items; for each it reads the size row, reads the product row,   *)
(* checks, saves the size, saves the product.  Every await is a point      *)
(* where another job may run, so each is an action of its own.             *)
(*                                                                         *)
(* TypeORM's save re-reads the row and updates the columns that differ     *)
(* from the entity.  As long as the rows are written by this helper alone, *)
(* a row's two columns add up to a constant (RowLedger), so either both    *)
(* differ or none does, and one step that writes the entity is exact.      *)
(***************************************************************************)
EXTENDS Integers, Sequences, FiniteSetsExt

CONSTANTS
    Jobs,        \* calls of updateInventoryQuantities
    Sizes,       \* rows of variant-sizes
    Products,    \* rows of products
    ProductOf,   \* the product each size belongs to
    Items,       \* each job's orderItems: sequence of [size, quantity]
    Mode,        \* each job's mode
    SizeAtStart, \* the rows as the jobs find them
    ProductAtStart

Row == [inventory : Int, sold : Int]
InventoryMode == {"DECREASE", "INCREASE"}
Item == [size : Sizes, quantity : Nat \ {0}]
NoRow == [inventory |-> 0, sold |-> 0]

Stocked(r) == r.inventory + r.sold

ASSUME InventoryAssumption ==
    /\ ProductOf \in [Sizes -> Products]
    /\ Items \in [Jobs -> Seq(Item)]
    /\ Mode \in [Jobs -> InventoryMode]
    /\ SizeAtStart \in [Sizes -> Row]
    /\ ProductAtStart \in [Products -> Row]
    /\ \A s \in Sizes : SizeAtStart[s].inventory >= 0
    /\ \A p \in Products : ProductAtStart[p].inventory >= 0

VARIABLES
    sizeRow,     \* variant-sizes: inventory and soldQuantity
    productRow,  \* products: totalInventory and totalSoldQuantity
    removed,     \* products soft-deleted by the admin: findOneBy misses them
    job,         \* progress of each call, with the entities it holds
    disturbed    \* history: two calls overlapped, or a crash tore one

vars == <<sizeRow, productRow, removed, job, disturbed>>

Step == {"idle", "readSize", "readProduct", "saveSize", "saveProduct",
         "done", "failed", "aborted"}
Busy == {"readSize", "readProduct", "saveSize", "saveProduct"}

Job == [pc : Step, item : Nat \ {0}, size : Row, product : Row]

Running(j) == job[j].pc \in Busy
Current(j) == Items[j][job[j].item]
CurrentProduct(j) == ProductOf[Current(j).size]

Quiet == \A j \in Jobs : ~Running(j)

Init ==
    /\ sizeRow = SizeAtStart
    /\ productRow = ProductAtStart
    /\ removed = {}
    /\ job = [j \in Jobs |-> [pc |-> "idle", item |-> 1, size |-> NoRow, product |-> NoRow]]
    /\ disturbed = FALSE
-----------------------------------------------------------------------------
\* Mutant: a restock that forgets to take the units back out of "sold".
Change_RestockKeepsSold(j, r) ==
    LET q == Current(j).quantity IN
    IF Mode[j] = "DECREASE"
    THEN [inventory |-> r.inventory - q, sold |-> r.sold + q]
    ELSE [inventory |-> r.inventory + q, sold |-> r.sold]

\* A mode moves a row's units one way or the other; it does not look at it.
Change(j, r) ==
    LET q == Current(j).quantity IN
    IF Mode[j] = "DECREASE"
    THEN [inventory |-> r.inventory - q, sold |-> r.sold + q]
    ELSE [inventory |-> r.inventory + q, sold |-> r.sold - q]

\* Mutant: the loop runs one item too far.
AtItem_OffByOne(j, i) == IF i <= Len(Items[j]) + 1 THEN "readSize" ELSE "done"

\* Where the loop stands before item i: at its first read, or past the end.
AtItem(j, i) == IF i <= Len(Items[j]) THEN "readSize" ELSE "done"

Start(j) ==
    /\ job[j].pc = "idle"
    /\ job' = [job EXCEPT ![j].pc = AtItem(j, 1)]
    /\ disturbed' = (disturbed \/ ~Quiet)
    /\ UNCHANGED <<sizeRow, productRow, removed>>

ReadSize(j) ==
    /\ job[j].pc = "readSize"
    /\ job' = [job EXCEPT ![j].pc = "readProduct",
                          ![j].size = sizeRow[Current(j).size]]
    /\ UNCHANGED <<sizeRow, productRow, removed, disturbed>>

\* Mutant: only the product's total is checked, not the size being sold.
Accepted_TotalOnly(j) ==
    /\ CurrentProduct(j) \notin removed
    /\ Change(j, productRow[CurrentProduct(j)]).inventory >= 0

\* The two checks that throw: a row is missing, or one would be overdrawn.
Accepted(j) ==
    /\ CurrentProduct(j) \notin removed
    /\ Change(j, job[j].size).inventory >= 0
    /\ Change(j, productRow[CurrentProduct(j)]).inventory >= 0

\* Mutant: the totals are not recomputed, the product is saved as it was read.
ReadProduct_TotalsForgotten(j) ==
    /\ job[j].pc = "readProduct"
    /\ \/ /\ Accepted(j)
          /\ job' = [job EXCEPT
                ![j].pc = "saveSize",
                ![j].size = Change(j, job[j].size),
                ![j].product = productRow[CurrentProduct(j)]]
       \/ /\ ~Accepted(j)
          /\ job' = [job EXCEPT ![j].pc = "failed"]
    /\ UNCHANGED <<sizeRow, productRow, removed, disturbed>>

\* Mutant: the size is saved before the product is looked up, so a call that
\* throws leaves its size row moved.
ReadProduct_SizeSavedFirst(j) ==
    /\ job[j].pc = "readProduct"
    /\ sizeRow' = [sizeRow EXCEPT ![Current(j).size] = Change(j, job[j].size)]
    /\ job' = [job EXCEPT
          ![j].pc = IF Accepted(j) THEN "saveProduct" ELSE "failed",
          ![j].product = Change(j, productRow[CurrentProduct(j)])]
    /\ UNCHANGED <<productRow, removed, disturbed>>

\* The product is read; the arithmetic and the checks follow without an await.
ReadProduct(j) ==
    /\ job[j].pc = "readProduct"
    /\ \/ /\ Accepted(j)
          /\ job' = [job EXCEPT
                ![j].pc = "saveSize",
                ![j].size = Change(j, job[j].size),
                ![j].product = Change(j, productRow[CurrentProduct(j)])]
       \/ /\ ~Accepted(j)
          /\ job' = [job EXCEPT ![j].pc = "failed"]
    /\ UNCHANGED <<sizeRow, productRow, removed, disturbed>>

SaveSize(j) ==
    /\ job[j].pc = "saveSize"
    /\ sizeRow' = [sizeRow EXCEPT ![Current(j).size] = job[j].size]
    /\ job' = [job EXCEPT ![j].pc = "saveProduct"]
    /\ UNCHANGED <<productRow, removed, disturbed>>

\* save() finds a soft-deleted row too, and the entity's deletedAt is still
\* null: a product removed since it was read comes back.
SaveProduct(j) ==
    /\ job[j].pc = "saveProduct"
    /\ productRow' = [productRow EXCEPT ![CurrentProduct(j)] = job[j].product]
    /\ job' = [job EXCEPT ![j].pc = AtItem(j, job[j].item + 1),
                          ![j].item = job[j].item + 1]
    /\ removed' = removed \ {CurrentProduct(j)}
    /\ UNCHANGED <<sizeRow, disturbed>>

\* ProductsService.delete: a soft delete at any moment.
RemoveProduct(p) ==
    /\ p \notin removed
    /\ removed' = removed \cup {p}
    /\ UNCHANGED <<sizeRow, productRow, job, disturbed>>

\* The Node process dies: calls in flight are gone, saved rows stay.
Crash ==
    /\ ~Quiet
    /\ job' = [j \in Jobs |-> IF Running(j) THEN [job[j] EXCEPT !.pc = "aborted"] ELSE job[j]]
    /\ disturbed' = (disturbed \/ \E j \in Jobs : job[j].pc = "saveProduct")
    /\ UNCHANGED <<sizeRow, productRow, removed>>

JobStep(j) ==
    Start(j) \/ ReadSize(j) \/ ReadProduct(j) \/ SaveSize(j) \/ SaveProduct(j)

Next ==
    \/ \E j \in Jobs : JobStep(j)
    \/ \E p \in Products : RemoveProduct(p)
    \/ Crash

Spec == Init /\ [][Next]_vars
-----------------------------------------------------------------------------
TypeOK ==
    /\ sizeRow \in [Sizes -> Row]
    /\ productRow \in [Products -> Row]
    /\ removed \subseteq Products
    /\ job \in [Jobs -> Job]
    /\ disturbed \in BOOLEAN
    /\ \A j \in Jobs : Running(j) => job[j].item \in DOMAIN Items[j]

(* No interleaving of checkouts, restocks and crashes overdraws a size or a *)
(* product's total: the check (inventory.helper.ts:52) is made on the very  *)
(* values that are saved, however stale they are.                           *)
NonNegative ==
    /\ \A s \in Sizes : sizeRow[s].inventory >= 0
    /\ \A p \in Products : productRow[p].inventory >= 0

(* Each row keeps its inventory + soldQuantity: a lost update loses a whole *)
(* move, never half of one, so no unit appears or vanishes within a row.    *)
RowLedger ==
    /\ \A s \in Sizes : Stocked(sizeRow[s]) = Stocked(SizeAtStart[s])
    /\ \A p \in Products : Stocked(productRow[p]) = Stocked(ProductAtStart[p])

TotalOf(p, row) ==
    MapThenSumSet(LAMBDA s : row[s].inventory, {s \in Sizes : ProductOf[s] = p})

(* As long as calls do not overlap and no crash falls between the two saves *)
(* of an item, a product's totalInventory is the sum of its sizes' between  *)
(* calls, also after calls that threw at a later item.                      *)
TotalsAgree ==
    Quiet /\ ~disturbed =>
        \A p \in Products : productRow[p].inventory = TotalOf(p, sizeRow)
-----------------------------------------------------------------------------
(* The abstract state: an undisturbed item counts as moved in both rows as  *)
(* soon as its size is saved.                                               *)
Moving(p) == {j \in Jobs : job[j].pc = "saveProduct" /\ CurrentProduct(j) = p}

PromisedProductRow ==
    [p \in Products |->
        IF ~disturbed /\ Moving(p) # {}
        THEN job[CHOOSE j \in Moving(p) : TRUE].product
        ELSE productRow[p]]

Promise == INSTANCE StockPromise WITH productRow <- PromisedProductRow

(* The await-by-await helper implements StockPromise: item-by-item atomic   *)
(* reservation while undisturbed, and always the row ledger.                *)
KeepsPromise == Promise!Spec
=============================================================================
