------------------------------- MODULE Orders -------------------------------
(***************************************************************************)
(* The life of a customer's orders: OrdersService.createOrder, its payment *)
(* countdown, manualOrderCancellation, manunalOrderUpdate and the bank     *)
(* webhook that ends in handlePaymentOrder.                                *)
(*                                                                         *)
(* Nothing here runs in a database transaction.  Every await is a point    *)
(* where the other handlers run, so a handler is a sequence of actions,    *)
(* each one query; what it has read it keeps and uses later.               *)
(*                                                                         *)
(* save(entity) on an order row is two queries: TypeORM selects the row,   *)
(* works out which columns differ from the entity ("dirty"), then updates  *)
(* exactly those, with the entity's possibly stale values.  A row of which *)
(* one column is written (a size's stock, the user's points, the voucher's *)
(* isUsed) needs only the second: an unchanged column is not written, and  *)
(* that is the same as writing it when it was compared.                    *)
(*                                                                         *)
(* The helper is the loop over the order's items, each of which it reads,  *)
(* checks and saves before it comes to the next; that a save is one of a   *)
(* size and one of its product is left to Inventory.                       *)
(*                                                                         *)
(* Abstractions: one customer, with one voucher; a product has one size;   *)
(* an order's items and amounts are those of the constants, whatever the   *)
(* cart held.  Points are whole numbers, of either sign, as nothing checks *)
(* the text dto.point; a text that is no number, or 0, is left out.        *)
(***************************************************************************)
EXTENDS Integers, Sequences, FiniteSets

CONSTANTS
    Orders,         \* checkouts the customer may submit, and the order each may save
    Requests,       \* later calls: cancellations, admin updates, bank webhooks
    NoOrder,        \* the order of a request that is not in flight
    BankingOrders,  \* paymentMethod = BANKING; the others are COD
    VoucherOrders,  \* dto.voucherId is given
    PointsOf,       \* dto.point of each order, 0 when not given
    Products,
    ItemsOf,        \* the items of each order: a product and how many of it
    TotalOf,        \* the order's total, refunded in points
    AdminStatuses,  \* statuses the admin's update sets, CANCELLED apart
    Removable,      \* what the admin may soft-delete meanwhile: "voucher", products
    StartInventory, StartPoints,
    StartVouchers,  \* whether the voucher was handed out: "unused", or "none" for all
    MaxCalls,       \* bound: checkouts and later calls together,
    MaxOverlapping, \* the same for a call that finds its order at work, or disturbed
    MaxCrashes      \* bound: restarts up to which the process may be killed

Status == {"none", "PENDING", "CONFIRMED", "PROCESSING", "SHIPPING", "DELIVERED", "CANCELLED"}
PaymentStatus == {"UNPAID", "PAID", "REFUNDED"}
Column == {"status", "paymentStatus"}
Entity == [status : Status, paymentStatus : PaymentStatus]
Holding == {"points", "voucher"}
Item == [product : Products, quantity : Nat \ {0}]
VoucherUser == {"none", "unused", "used"}

ASSUME OrdersAssumption ==
    /\ NoOrder \notin Orders
    /\ BankingOrders \subseteq Orders /\ VoucherOrders \subseteq Orders
    /\ PointsOf \in [Orders -> Int]
    /\ ItemsOf \in [Orders -> Seq(Item)] /\ \A o \in Orders : ItemsOf[o] # <<>>
    /\ TotalOf \in [Orders -> Int]
    /\ AdminStatuses \subseteq Status \ {"none", "CANCELLED"}
    /\ "voucher" \notin Products /\ Removable \subseteq {"voucher"} \cup Products
    /\ StartInventory \in [Products -> Nat] /\ StartPoints \in Nat
    /\ StartVouchers \subseteq {"none", "unused"}
    /\ MaxCalls \in Nat /\ MaxOverlapping \in Nat /\ MaxCrashes \in Nat

VARIABLES
    \* the database
    row,        \* orders: status and paymentStatus; status "none" before the insert
    itemRows,   \* orders whose order-items are saved
    inventory,  \* the stock of each product
    points,     \* users.point
    voucher,    \* the customer's voucher-users row: none, unused or used
    removed,    \* soft-deleted: findOne misses it
    cartFull,   \* the cart has items
    transfers,  \* transactions: number of rows for each order
    \* the process
    checkout,   \* createOrder calls
    timer,      \* payment countdowns
    request,    \* calls of the other handlers
    crashes,    \* times it was restarted
    \* history
    held,       \* whether each order has taken points and voucher and not given them back
    taken,      \* the same of its items: their positions
    returned,   \* times each item of each order was given back
    broken,     \* those among them by a cancellation that broke off at a later item
    refunds,    \* cancellations that credited the order's total
    revived,    \* saves that moved an order out of CANCELLED
    debits,     \* the sum of the negative amounts that were added to the points
    disturbed   \* orders with overlapping handlers, or one cut off by a crash

dbVars == <<row, itemRows, inventory, points, voucher, removed, cartFull, transfers>>
history == <<held, taken, returned, broken, refunds, revived, debits, disturbed>>
stock == <<inventory, taken, returned, broken>>
purse == <<points, debits>>
vars == <<dbVars, checkout, timer, request, crashes, history>>

CheckoutStep == {"idle", "readCart", "checkVoucher", "readPoints", "writePoints", "makeQR",
    "saveOrder", "findVoucher", "useVoucher", "insertVoucher", "saveItems", "findCart", "emptyCart",
    "readStock", "writeStock", "done", "rejected", "aborted"}
CheckoutEnd == {"idle", "done", "rejected", "aborted"}
TimerStep == {"off", "armed", "compare", "update", "readStock", "writeStock",
    "findVoucher", "refundVoucher", "readPoints", "writePoints"}
RequestStep == {"ready", "findOrder", "readStock", "writeStock", "compareCancelled", "updateCancelled",
    "readPoints", "writePoints", "compareEntity", "updateEntity", "done"}

\* item: at which the helper's loop is.
Checkout == [pc : CheckoutStep, item : Nat, seen : Int]
Timer == [pc : TimerStep, item : Nat, seen : Int, dirty : SUBSET Column]
Request == [pc : RequestStep, order : Orders \cup {NoOrder}, entity : Entity,
            bare : BOOLEAN, dirty : SUBSET Column, item : Nat, seen : Int]

Blank == [status |-> "none", paymentStatus |-> "UNPAID"]
At(pc) == [pc |-> pc, item |-> 1, seen |-> 0]
NoTimer == [pc |-> "off", item |-> 1, seen |-> 0, dirty |-> {}]
Idle(pc) == [pc |-> pc, order |-> NoOrder, entity |-> Blank, bare |-> FALSE,
             dirty |-> {}, item |-> 1, seen |-> 0]

Lines(o) == 1..Len(ItemsOf[o])
Product(o, i) == ItemsOf[o][i].product
Quantity(o, i) == ItemsOf[o][i].quantity
LastLine(o, i) == i = Len(ItemsOf[o])

Saved(o) == row[o].status # "none"

\* Who is at work on order o.
CheckingOut(o) == checkout[o].pc \notin CheckoutEnd
Handlers(o) == {r \in Requests : request[r].order = o}
Counting(o) == timer[o].pc \notin {"off", "armed"}
Untouched(o) == ~CheckingOut(o) /\ Handlers(o) = {} /\ ~Counting(o)

Calls == Cardinality({o \in Orders : checkout[o].pc # "idle"})
         + Cardinality({r \in Requests : request[r].pc # "ready"})

Init ==
    /\ row = [o \in Orders |-> Blank]
    /\ itemRows = {}
    /\ inventory = StartInventory
    /\ points = StartPoints
    /\ voucher \in StartVouchers
    /\ removed = {}
    /\ cartFull = TRUE
    /\ transfers = [o \in Orders |-> 0]
    /\ checkout = [o \in Orders |-> At("idle")]
    /\ timer = [o \in Orders |-> NoTimer]
    /\ request = [r \in Requests |-> Idle("ready")]
    /\ crashes = 0
    /\ held = [o \in Orders |-> {}]
    /\ taken = [o \in Orders |-> {}]
    /\ returned = [o \in Orders |-> [i \in Lines(o) |-> 0]]
    /\ broken = [o \in Orders |-> [i \in Lines(o) |-> 0]]
    /\ refunds = [o \in Orders |-> 0]
    /\ revived = [o \in Orders |-> 0]
    /\ debits = 0
    /\ disturbed = {}
-----------------------------------------------------------------------------
(* createOrder *)

BeforeSave(o) == IF o \in BankingOrders THEN "makeQR" ELSE "saveOrder"
BeforePoints(o) == IF PointsOf[o] # 0 THEN "readPoints" ELSE BeforeSave(o)
AfterCart(o) == IF o \in VoucherOrders THEN "checkVoucher" ELSE BeforePoints(o)
AfterSave(o) == IF o \in VoucherOrders THEN "findVoucher" ELSE "saveItems"

\* Checkout o goes from one await to the next; ok = FALSE: an exception.
Advance(o, from, to, ok) ==
    /\ checkout[o].pc = from
    /\ checkout' = [checkout EXCEPT ![o] = At(IF ok THEN to ELSE "rejected")]
    /\ UNCHANGED <<stock, removed, transfers, request, crashes, refunds, revived, debits, disturbed>>

Take(o, what) == held' = [held EXCEPT ![o] = @ \cup {what}]

SubmitOrder(o) ==
    /\ Calls < MaxCalls
    /\ Advance(o, "idle", "readCart", TRUE)
    /\ UNCHANGED <<row, itemRows, points, voucher, cartFull, timer, held>>

ReadCart(o) ==
    /\ Advance(o, "readCart", AfterCart(o), cartFull)
    /\ UNCHANGED <<row, itemRows, points, voucher, cartFull, timer, held>>

\* applyVoucher only looks.
CheckVoucher(o) ==
    /\ Advance(o, "checkVoucher", BeforePoints(o), "voucher" \notin removed /\ voucher # "used")
    /\ UNCHANGED <<row, itemRows, points, voucher, cartFull, timer, held>>

\* Reads a number on which the next await's write is based.
CheckoutReads(o, from, to, value, needed, ok) ==
    /\ checkout[o].pc = from
    /\ checkout' = IF ok /\ value >= needed
                   THEN [checkout EXCEPT ![o] = [@ EXCEPT !.pc = to, !.seen = value]]
                   ELSE [checkout EXCEPT ![o] = At("rejected")]
    /\ UNCHANGED <<dbVars, timer, request, crashes, history>>

\* Mutant: the balance is not checked.
ReadPoints_Unchecked(o) == CheckoutReads(o, "readPoints", "writePoints", points, 0, TRUE)

\* updatePoint(SUBTRACT): "Không đủ điểm" when the balance is short, which it
\* never is of a negative number.
ReadPoints(o) == CheckoutReads(o, "readPoints", "writePoints", points, PointsOf[o], TRUE)

WritePoints(o) ==
    /\ Advance(o, "writePoints", BeforeSave(o), TRUE)
    /\ points' = checkout[o].seen - PointsOf[o]
    /\ Take(o, "points")
    /\ UNCHANGED <<row, itemRows, voucher, cartFull, timer>>

\* There may be no active bank, or VietQR may fail: the points stay spent.
MakeQR(o) ==
    /\ \E ok \in BOOLEAN : Advance(o, "makeQR", "saveOrder", ok)
    /\ UNCHANGED <<row, itemRows, points, voucher, cartFull, timer, held>>

SaveOrder(o) ==
    /\ Advance(o, "saveOrder", AfterSave(o), TRUE)
    /\ row' = [row EXCEPT ![o] =
          [status |-> IF o \in BankingOrders THEN "PENDING" ELSE "PROCESSING",
           paymentStatus |-> "UNPAID"]]
    /\ UNCHANGED <<itemRows, points, voucher, cartFull, timer, held>>

\* useVoucher looks for the customer's row, to mark it or to insert one.
FindVoucher(o) ==
    /\ Advance(o, "findVoucher", IF voucher = "none" THEN "insertVoucher" ELSE "useVoucher",
               "voucher" \notin removed /\ voucher # "used")
    /\ UNCHANGED <<row, itemRows, points, voucher, cartFull, timer, held>>

UseVoucher(o) ==
    /\ Advance(o, "useVoucher", "saveItems", TRUE)
    /\ voucher' = "used"
    /\ Take(o, "voucher")
    /\ UNCHANGED <<row, itemRows, points, cartFull, timer>>

\* The unique (user, voucher) index refuses a second insert.
InsertVoucher(o) ==
    /\ Advance(o, "insertVoucher", "saveItems", voucher = "none")
    /\ IF voucher = "none" THEN voucher' = "used" /\ Take(o, "voucher")
                           ELSE UNCHANGED <<voucher, held>>
    /\ UNCHANGED <<row, itemRows, points, cartFull, timer>>

\* Mutant: the countdown of a banking order is armed before its stock is taken.
SaveItems_ArmedEarly(o) ==
    /\ Advance(o, "saveItems", "findCart", TRUE)
    /\ itemRows' = itemRows \cup {o}
    /\ timer' = IF o \in BankingOrders THEN [timer EXCEPT ![o].pc = "armed"] ELSE timer
    /\ UNCHANGED <<row, points, voucher, cartFull, held>>

SaveItems(o) ==
    /\ Advance(o, "saveItems", "findCart", TRUE)
    /\ itemRows' = itemRows \cup {o}
    /\ UNCHANGED <<row, points, voucher, cartFull, timer, held>>

\* deleteAllCartItem throws when another checkout has emptied the cart.
FindCart(o) ==
    /\ Advance(o, "findCart", "emptyCart", cartFull)
    /\ UNCHANGED <<row, itemRows, points, voucher, cartFull, timer, held>>

\* An item added since findCart stays: AddToCart may follow at once.
EmptyCart(o) ==
    /\ Advance(o, "emptyCart", "readStock", TRUE)
    /\ cartFull' = FALSE
    /\ UNCHANGED <<row, itemRows, points, voucher, timer, held>>

\* updateInventoryQuantities(DECREASE), the next item.  What is thrown here
\* leaves the items before it taken.
ReadStock(o) ==
    LET product == Product(o, checkout[o].item) IN
    CheckoutReads(o, "readStock", "writeStock", inventory[product],
                  Quantity(o, checkout[o].item), product \notin removed)

\* The product was read with deletedAt null: saving it undoes a removal since.
SaveStock(product, amount) ==
    /\ inventory' = [inventory EXCEPT ![product] = amount]
    /\ removed' = removed \ {product}

\* After the last item a banking order arms its countdown and is answered.
WriteStock(o) ==
    LET i == checkout[o].item IN
    /\ checkout[o].pc = "writeStock"
    /\ checkout' = [checkout EXCEPT ![o] = IF LastLine(o, i) THEN At("done")
                                           ELSE [At("readStock") EXCEPT !.item = i + 1]]
    /\ SaveStock(Product(o, i), checkout[o].seen - Quantity(o, i))
    /\ taken' = [taken EXCEPT ![o] = @ \cup {i}]
    /\ timer' = IF LastLine(o, i) /\ o \in BankingOrders THEN [timer EXCEPT ![o].pc = "armed"] ELSE timer
    /\ UNCHANGED <<row, itemRows, points, voucher, cartFull, transfers, request, crashes, held,
                   returned, broken, refunds, revived, debits, disturbed>>

CheckoutStepOf(o) ==
    \/ ReadCart(o) \/ CheckVoucher(o) \/ ReadPoints(o) \/ WritePoints(o) \/ MakeQR(o)
    \/ SaveOrder(o) \/ FindVoucher(o) \/ UseVoucher(o) \/ InsertVoucher(o) \/ SaveItems(o)
    \/ FindCart(o) \/ EmptyCart(o) \/ ReadStock(o) \/ WriteStock(o)
-----------------------------------------------------------------------------
(* save(entity) of an order row: compare, then update what differed. *)

Differing(o, entity) == {c \in Column : row[o][c] # entity[c]}

Written(o, entity, dirty) ==
    [status |-> IF "status" \in dirty THEN entity.status ELSE row[o].status,
     paymentStatus |-> IF "paymentStatus" \in dirty THEN entity.paymentStatus
                                                    ELSE row[o].paymentStatus]

UpdateRow(o, entity, dirty) ==
    /\ row' = [row EXCEPT ![o] = Written(o, entity, dirty)]
    /\ revived' = IF row[o].status = "CANCELLED" /\ Written(o, entity, dirty).status # "CANCELLED"
                  THEN [revived EXCEPT ![o] = @ + 1]
                  ELSE revived

GiveBack(o, what) == held' = [held EXCEPT ![o] = @ \ {what}]

\* updateInventoryQuantities(INCREASE), the save of item i.
Restock(o, i, seen) ==
    /\ SaveStock(Product(o, i), seen + Quantity(o, i))
    /\ taken' = [taken EXCEPT ![o] = @ \ {i}]
    /\ returned' = [returned EXCEPT ![o][i] = @ + 1]

\* updatePoint(ADD) checks nothing.
Credit(seen, amount) ==
    /\ points' = seen + amount
    /\ debits' = IF amount < 0 THEN debits - amount ELSE debits

\* The process starts again: rows stay, everything in memory is gone.
Restart ==
    /\ crashes' = crashes + 1
    /\ checkout' = [o \in Orders |-> IF CheckingOut(o) THEN At("aborted") ELSE checkout[o]]
    /\ timer' = [o \in Orders |-> NoTimer]
    /\ request' = [r \in Requests |-> IF request[r].pc = "ready" THEN Idle("ready") ELSE Idle("done")]
    /\ disturbed' = disturbed \cup {o \in Orders : ~Untouched(o)}
    /\ UNCHANGED <<dbVars, held, taken, returned, broken, refunds, revived, debits>>
-----------------------------------------------------------------------------
(* startPaymentCountdown *)

\* Mutants: the status is not set; it is set to none of the enum's values.
Expired_StillPending == [status |-> "PENDING", paymentStatus |-> "UNPAID"]
Expired_NoSuchStatus == [status |-> "EXPIRED", paymentStatus |-> "UNPAID"]

Expired == [status |-> "CANCELLED", paymentStatus |-> "UNPAID"]
AfterRefund(o) == IF PointsOf[o] # 0 THEN "readPoints" ELSE "off"
AfterRestock(o) == IF o \in VoucherOrders THEN "findVoucher" ELSE AfterRefund(o)

TimerGoes(o, from, to) ==
    /\ timer[o].pc = from
    /\ timer' = [timer EXCEPT ![o] = [NoTimer EXCEPT !.pc = to]]
    /\ UNCHANGED <<stock, itemRows, removed, cartFull, transfers, checkout, request, crashes, refunds>>

TimerReads(o, from, to, value) ==
    /\ timer[o].pc = from
    /\ timer' = [timer EXCEPT ![o] = [@ EXCEPT !.pc = to, !.seen = value]]
    /\ UNCHANGED <<dbVars, checkout, request, crashes, history>>

\* The time is up: an order still pending and unpaid is cancelled.
Fire(o) ==
    LET pending == row[o] = [status |-> "PENDING", paymentStatus |-> "UNPAID"] IN
    /\ TimerGoes(o, "armed", IF pending THEN "compare" ELSE "off")
    /\ disturbed' = IF pending /\ ~Untouched(o) THEN disturbed \cup {o} ELSE disturbed
    /\ UNCHANGED <<row, purse, voucher, held, revived>>

CompareExpired(o) ==
    /\ timer[o].pc = "compare"
    /\ timer' = [timer EXCEPT ![o] = [NoTimer EXCEPT !.pc = "update", !.dirty = Differing(o, Expired)]]
    /\ UNCHANGED <<dbVars, checkout, request, crashes, history>>

UpdateExpired(o) ==
    /\ TimerGoes(o, "update", "readStock")
    /\ UpdateRow(o, Expired, timer[o].dirty)
    /\ UNCHANGED <<purse, voucher, held, disturbed>>

TimerReadStock(o) ==
    LET product == Product(o, timer[o].item) IN
    /\ product \notin removed
    /\ TimerReads(o, "readStock", "writeStock", inventory[product])

TimerToNextItem(o) ==
    LET i == timer[o].item IN
    /\ timer[o].pc = "writeStock"
    /\ timer' = [timer EXCEPT ![o] = IF LastLine(o, i) THEN [NoTimer EXCEPT !.pc = AfterRestock(o)]
                                     ELSE [NoTimer EXCEPT !.pc = "readStock", !.item = i + 1]]
    /\ UNCHANGED <<row, itemRows, purse, voucher, cartFull, transfers, checkout, request, crashes,
                   held, broken, refunds, revived, disturbed>>

\* Mutant: the countdown gives the voucher and the points back, not the stock.
TimerWriteStock_Kept(o) ==
    /\ TimerToNextItem(o)
    /\ UNCHANGED <<inventory, removed, taken, returned>>

TimerWriteStock(o) ==
    /\ TimerToNextItem(o)
    /\ Restock(o, timer[o].item, timer[o].seen)

TimerFindVoucher(o) ==
    /\ "voucher" \notin removed
    /\ TimerGoes(o, "findVoucher", "refundVoucher")
    /\ UNCHANGED <<row, purse, voucher, held, revived, disturbed>>

\* Mutant: the order is marked as refunded and the customer's row is not touched.
TimerRefundVoucher_NotWritten(o) ==
    /\ TimerGoes(o, "refundVoucher", AfterRefund(o))
    /\ GiveBack(o, "voucher")
    /\ UNCHANGED <<row, purse, voucher, revived, disturbed>>

\* One UPDATE ... WHERE isUsed.
TimerRefundVoucher(o) ==
    /\ TimerGoes(o, "refundVoucher", AfterRefund(o))
    /\ voucher' = IF voucher = "used" THEN "unused" ELSE voucher
    /\ GiveBack(o, "voucher")
    /\ UNCHANGED <<row, purse, revived, disturbed>>

TimerReadPoints(o) == TimerReads(o, "readPoints", "writePoints", points)

TimerWritePoints(o) ==
    /\ TimerGoes(o, "writePoints", "off")
    /\ Credit(timer[o].seen, PointsOf[o])
    /\ GiveBack(o, "points")
    /\ UNCHANGED <<row, voucher, revived, disturbed>>

\* A soft-deleted product or voucher makes the callback throw, outside of any
\* request: an unhandled rejection, which ends the process.
TimerThrows(o) ==
    /\ \/ timer[o].pc = "readStock" /\ Product(o, timer[o].item) \in removed
       \/ timer[o].pc = "findVoucher" /\ "voucher" \in removed
    /\ Restart

TimerStepOf(o) ==
    \/ Fire(o) \/ CompareExpired(o) \/ UpdateExpired(o) \/ TimerReadStock(o) \/ TimerWriteStock(o)
    \/ TimerFindVoucher(o) \/ TimerRefundVoucher(o) \/ TimerReadPoints(o) \/ TimerWritePoints(o)
    \/ TimerThrows(o)
-----------------------------------------------------------------------------
(* The other handlers.  A call that is refused at its first query changes   *)
(* nothing and is not modelled.                                             *)

Cancellable == {"PROCESSING", "PENDING", "CONFIRMED"}

\* Mutant: whether the order was paid does not matter.
Paid_AnyBanking(r) == request[r].order \in BankingOrders

Paid(r) == request[r].entity.paymentStatus = "PAID" /\ request[r].order \in BankingOrders

\* Nothing tells the requests apart: the next one may be any that is ready.
NextRequest == CHOOSE r \in Requests : request[r].pc = "ready"

\* Request r, not yet in flight, takes up order o.
Begin(r, o, call) ==
    /\ request[r].pc = "ready" /\ r = NextRequest
    /\ Calls < (IF Untouched(o) /\ o \notin disturbed THEN MaxCalls ELSE MaxOverlapping)
    /\ Saved(o)
    /\ request' = [request EXCEPT ![r] = call]
    /\ disturbed' = IF Untouched(o) THEN disturbed ELSE disturbed \cup {o}
    /\ UNCHANGED <<row, itemRows, stock, purse, voucher, removed, cartFull, checkout, timer,
                   crashes, held, refunds, revived>>

Continue(r, from, call) ==
    /\ request[r].pc = from
    /\ request' = [request EXCEPT ![r] = call]
    /\ UNCHANGED <<itemRows, voucher, removed, cartFull, transfers, checkout, timer, crashes, disturbed>>

To(r, pc) == [request[r] EXCEPT !.pc = pc, !.dirty = {}, !.item = 1, !.seen = 0]

\* Mutant: any order can be cancelled, also one that already is.
CancelOrder_AnyStatus(r, o) ==
    /\ Begin(r, o, [Idle(IF o \in itemRows THEN "readStock" ELSE "compareCancelled")
                    EXCEPT !.order = o, !.bare = o \notin itemRows,
                           !.entity = [row[o] EXCEPT !.status = "CANCELLED"]])
    /\ UNCHANGED transfers

\* manualOrderCancellation: the order with its items, "bare" when none is saved
\* yet.  The entity becomes CANCELLED in memory after the stock is returned.
CancelOrder(r, o) ==
    /\ row[o].status \in Cancellable
    /\ Begin(r, o, [Idle(IF o \in itemRows THEN "readStock" ELSE "compareCancelled")
                    EXCEPT !.order = o, !.bare = o \notin itemRows,
                           !.entity = [row[o] EXCEPT !.status = "CANCELLED"]])
    /\ UNCHANGED transfers

\* A product that is missing makes the cancellation fail here: the items before
\* it are back in stock, and the order is not cancelled.
CancelReadsStock(r) ==
    LET o == request[r].order
        i == request[r].item
    IN
    /\ request[r].pc = "readStock"
    /\ IF Product(o, i) \in removed
       THEN /\ Continue(r, "readStock", Idle("done"))
            /\ broken' = [broken EXCEPT ![o] =
                             [j \in Lines(o) |-> IF j < i THEN broken[o][j] + 1 ELSE broken[o][j]]]
       ELSE /\ Continue(r, "readStock",
                        [request[r] EXCEPT !.pc = "writeStock", !.seen = inventory[Product(o, i)]])
            /\ UNCHANGED broken
    /\ UNCHANGED <<row, inventory, taken, returned, purse, held, refunds, revived>>

CancelWritesStock(r) ==
    LET o == request[r].order
        i == request[r].item
    IN
    /\ request[r].pc = "writeStock"
    /\ request' = [request EXCEPT ![r] = IF LastLine(o, i) THEN To(r, "compareCancelled")
                                         ELSE [To(r, "readStock") EXCEPT !.item = i + 1]]
    /\ Restock(o, i, request[r].seen)
    /\ UNCHANGED <<row, itemRows, purse, voucher, cartFull, transfers, checkout, timer, crashes,
                   held, broken, refunds, revived, disturbed>>

\* save with items = [] on an order that has items by now: it would detach them,
\* orderId is NOT NULL, so the save is rolled back and throws.
Compare(r, from, to) ==
    LET o == request[r].order IN
    /\ Continue(r, from,
          IF request[r].bare /\ o \in itemRows THEN Idle("done")
          ELSE [request[r] EXCEPT !.pc = to, !.dirty = Differing(o, request[r].entity)])
    /\ UNCHANGED <<row, stock, purse, held, refunds, revived>>

CompareCancelled(r) == Compare(r, "compareCancelled", "updateCancelled")

UpdateCancelled(r) ==
    /\ Continue(r, "updateCancelled", To(r, "readPoints"))
    /\ UpdateRow(request[r].order, request[r].entity, request[r].dirty)
    /\ UNCHANGED <<stock, purse, held, refunds>>

CancelReadsPoints(r) ==
    /\ Continue(r, "readPoints", [request[r] EXCEPT !.pc = "writePoints", !.seen = points])
    /\ UNCHANGED <<row, stock, purse, held, refunds, revived>>

\* Mutant: the total is credited, the order stays PAID.
CancelWritesPoints_StaysPaid(r) ==
    LET o == request[r].order IN
    /\ Continue(r, "writePoints", To(r, "compareEntity"))
    /\ Credit(request[r].seen, IF Paid(r) THEN TotalOf[o] ELSE PointsOf[o])
    /\ refunds' = IF Paid(r) THEN [refunds EXCEPT ![o] = @ + 1] ELSE refunds
    /\ IF Paid(r) THEN UNCHANGED held ELSE GiveBack(o, "points")
    /\ UNCHANGED <<row, stock, revived>>

\* A paid banking order is refunded in points, its total and not the points it
\* used; any other gets those.
CancelWritesPoints(r) ==
    LET o == request[r].order IN
    /\ request[r].pc = "writePoints"
    /\ IF Paid(r)
       THEN /\ Continue(r, "writePoints", [To(r, "compareEntity") EXCEPT !.entity.paymentStatus = "REFUNDED"])
            /\ Credit(request[r].seen, TotalOf[o])
            /\ refunds' = [refunds EXCEPT ![o] = @ + 1]
            /\ UNCHANGED held
       ELSE /\ Continue(r, "writePoints", To(r, "compareEntity"))
            /\ Credit(request[r].seen, PointsOf[o])
            /\ GiveBack(o, "points")
            /\ UNCHANGED refunds
    /\ UNCHANGED <<row, stock, revived>>

\* Mutant: a delivered order counts as paid, whatever its payment method.
AdminUpdate_AnyDelivered(r, o, status) ==
    /\ Begin(r, o, [Idle("compareEntity") EXCEPT !.order = o,
          !.entity = [status |-> status,
                      paymentStatus |-> IF status = "DELIVERED" THEN "PAID" ELSE row[o].paymentStatus]])
    /\ UNCHANGED transfers

\* manunalOrderUpdate: any status but CANCELLED, from any status.
AdminUpdate(r, o, status) ==
    /\ Begin(r, o, [Idle("compareEntity") EXCEPT !.order = o,
          !.entity = [status |-> status,
                      paymentStatus |-> IF status = "DELIVERED" /\ o \notin BankingOrders
                                        THEN "PAID" ELSE row[o].paymentStatus]])
    /\ UNCHANGED transfers

\* The bank's webhook keeps the transaction, then looks for the order.
RecordTransfer(r, o) ==
    /\ o \in BankingOrders
    /\ Begin(r, o, [Idle("findOrder") EXCEPT !.order = o])
    /\ transfers' = [transfers EXCEPT ![o] = @ + 1]

\* handlePaymentOrder, whatever the order's state.
FindOrder(r) ==
    /\ Continue(r, "findOrder", [request[r] EXCEPT !.pc = "compareEntity",
          !.entity = [status |-> "PROCESSING", paymentStatus |-> "PAID"]])
    /\ UNCHANGED <<row, stock, purse, held, refunds, revived>>

CompareEntity(r) == Compare(r, "compareEntity", "updateEntity")

UpdateEntity(r) ==
    /\ Continue(r, "updateEntity", Idle("done"))
    /\ UpdateRow(request[r].order, request[r].entity, request[r].dirty)
    /\ UNCHANGED <<stock, purse, held, refunds>>

RequestStepOf(r) ==
    \/ CancelReadsStock(r) \/ CancelWritesStock(r) \/ CompareCancelled(r) \/ UpdateCancelled(r)
    \/ CancelReadsPoints(r) \/ CancelWritesPoints(r)
    \/ FindOrder(r) \/ CompareEntity(r) \/ UpdateEntity(r)
-----------------------------------------------------------------------------
(* The customer, the admin and the process itself *)

\* Bound: nothing more is added once no checkout is left that looks at the cart.
LooksAtCart(o) == checkout[o].pc \in {"idle", "findCart"} \/ (CheckingOut(o) /\ o \notin itemRows)

AddToCart ==
    /\ ~cartFull
    /\ \E o \in Orders : LooksAtCart(o)
    /\ cartFull' = TRUE
    /\ UNCHANGED <<row, itemRows, inventory, points, voucher, removed, transfers,
                   checkout, timer, request, crashes, history>>

Remove(what) ==
    /\ what \in Removable \ removed
    /\ removed' = removed \cup {what}
    /\ UNCHANGED <<row, itemRows, inventory, points, voucher, cartFull, transfers,
                   checkout, timer, request, crashes, history>>

Crash ==
    /\ crashes < MaxCrashes
    /\ Restart

Next ==
    \/ \E o \in Orders : SubmitOrder(o) \/ CheckoutStepOf(o) \/ TimerStepOf(o)
    \/ \E r \in Requests : RequestStepOf(r)
    \/ \E r \in Requests, o \in Orders : CancelOrder(r, o) \/ RecordTransfer(r, o)
    \/ \E r \in Requests, o \in Orders, status \in AdminStatuses : AdminUpdate(r, o, status)
    \/ AddToCart
    \/ \E what \in Removable : Remove(what)
    \/ Crash

Spec == Init /\ [][Next]_vars

\* Node does not idle while a started call or a timer that is due can go on.
\* Nobody has to call, to remove or to crash anything.
ProcessStep ==
    \/ \E o \in Orders : CheckoutStepOf(o) \/ TimerStepOf(o)
    \/ \E r \in Requests : RequestStepOf(r)

FairSpec == Spec /\ WF_vars(ProcessStep)
-----------------------------------------------------------------------------
TypeOK ==
    /\ row \in [Orders -> Entity]
    /\ itemRows \subseteq Orders
    /\ inventory \in [Products -> Int] /\ points \in Int
    /\ voucher \in VoucherUser
    /\ removed \subseteq Removable
    /\ cartFull \in BOOLEAN
    /\ transfers \in [Orders -> Nat]
    /\ checkout \in [Orders -> Checkout]
    /\ timer \in [Orders -> Timer]
    /\ request \in [Requests -> Request]
    /\ \A o \in Orders : checkout[o].item \in Lines(o) /\ timer[o].item \in Lines(o)
    /\ \A r \in Requests :
          IF request[r].pc \in {"ready", "done"} THEN request[r].order = NoOrder
          ELSE request[r].order \in Orders /\ request[r].item \in Lines(request[r].order)
    /\ crashes \in Nat
    /\ held \in [Orders -> SUBSET Holding]
    /\ DOMAIN taken = Orders /\ DOMAIN returned = Orders /\ DOMAIN broken = Orders
    /\ \A o \in Orders : /\ taken[o] \subseteq Lines(o)
                         /\ returned[o] \in [Lines(o) -> Nat]
                         /\ broken[o] \in [Lines(o) -> Nat]
    /\ refunds \in [Orders -> Nat]
    /\ revived \in [Orders -> Nat]
    /\ debits \in Nat
    /\ disturbed \subseteq Orders

(* Stale reads and lost updates included, no stock goes below zero, as what *)
(* is checked is what is written; and the points only as far as negative    *)
(* amounts were added to them, which nothing checks: no spending overdraws. *)
NeverOverdrawn ==
    /\ \A product \in Products : inventory[product] >= 0
    /\ points >= -debits

(* A banking order that is paid or refunded has a bank transaction behind  *)
(* it: no stale save, admin update or cancellation makes money appear.     *)
MoneyBacked ==
    \A o \in BankingOrders : row[o].paymentStatus # "UNPAID" => transfers[o] > 0

(* What a countdown will give back is what its order holds.  Whenever it   *)
(* may fire (pending, unpaid, never cancelled before), the voucher and the *)
(* points are taken and not given back, and so is each item but those that *)
(* a cancellation gave back before it broke off.                           *)
Due(o) ==
    (IF o \in VoucherOrders THEN {"voucher"} ELSE {}) \cup (IF PointsOf[o] # 0 THEN {"points"} ELSE {})

CountdownBacked ==
    \A o \in Orders :
        /\ timer[o].pc = "armed"
        /\ row[o] = [status |-> "PENDING", paymentStatus |-> "UNPAID"]
        /\ Untouched(o) /\ o \notin disturbed /\ revived[o] = 0
        => /\ Due(o) \subseteq held[o]
           /\ \A i \in Lines(o) : i \in taken[o] \/ broken[o][i] > 0

(* With handlers that do not overlap, each item of an order goes back      *)
(* exactly once for each time the order is cancelled, not twice by the     *)
(* countdown and a cancellation, not for an order paid in time, and never  *)
(* forgotten; and once more for each cancellation that broke off at a      *)
(* later item, which leaves the order to be cancelled again.               *)
StockReturnedOnce ==
    \A o \in Orders :
        Untouched(o) /\ checkout[o].pc = "done" /\ o \notin disturbed =>
            \A i \in Lines(o) :
                returned[o][i] = revived[o] + broken[o][i]
                                 + (IF row[o].status = "CANCELLED" THEN 1 ELSE 0)

(* With handlers that do not overlap, no payment is refunded twice, also   *)
(* when the order is revived and cancelled again, and an order that says   *)
(* REFUNDED was.                                                           *)
RefundsMatchPayments ==
    \A o \in Orders \ disturbed :
        /\ refunds[o] <= transfers[o]
        /\ row[o].paymentStatus = "REFUNDED" => refunds[o] > 0

(* The customer's voucher is not lost: while it counts as used, some order *)
(* took it and has not given it back.                                      *)
VoucherHeld == voucher = "used" => \E o \in Orders : "voucher" \in held[o]
-----------------------------------------------------------------------------
(* The handlers as steps of an order's life.  A cancellation is past the    *)
(* point where it may still fail once it has returned the last item: until  *)
(* then nothing of it counts.  A payment countdown is past it once it has   *)
(* written the row; what is left to do is counted as done.                  *)
Returning(r) == request[r].pc \in {"readStock", "writeStock"}
Cancelling(o) == {r \in Handlers(o) : request[r].entity.status = "CANCELLED" /\ ~Returning(r)}
Restocking(o) == timer[o].pc \in {"readStock", "writeStock"}

\* How often item i was given back, for good.
Returns(o, i) ==
    returned[o][i] + (IF Restocking(o) /\ timer[o].item <= i THEN 1 ELSE 0)
                   - (IF \E r \in Handlers(o) : Returning(r) /\ i < request[r].item THEN 1 ELSE 0)

Life(o) ==
    IF checkout[o].pc # "done"
    THEN [status |-> "none", paymentStatus |-> "UNPAID",
          returned |-> [i \in Lines(o) |-> 0], refunded |-> 0]
    ELSE LET refunding == \E r \in Cancelling(o) : Paid(r) IN
         [status |-> IF Cancelling(o) # {} THEN "CANCELLED" ELSE row[o].status,
          paymentStatus |-> IF refunding \/ \E r \in Cancelling(o) : request[r].entity.paymentStatus = "REFUNDED"
                            THEN "REFUNDED" ELSE row[o].paymentStatus,
          returned |-> [i \in Lines(o) |-> Returns(o, i)],
          refunded |-> refunds[o] + (IF refunding THEN 1 ELSE 0)]

Promise == INSTANCE OrderPromise WITH order <- [o \in Orders |-> Life(o)],
                                      ItemCount <- [o \in Orders |-> Len(ItemsOf[o])]

(* While an order's handlers do not overlap, the queries of each of them,   *)
(* in whatever order the handlers come, are one step of OrderPromise: among *)
(* others, a cancelled banking order is not left CANCELLED and PAID.        *)
KeepsOrderPromise == Promise!Spec
-----------------------------------------------------------------------------
(* Liveness, as long as the process is not restarted.                      *)

(* An armed countdown ends its order's wait for the money: it is paid, or  *)
(* moved on, or cancelled.  (What was paid and is set to PENDING by the    *)
(* admin may stay so: the countdown leaves it alone.)                      *)
ArmedWaitEnds ==
    \A o \in BankingOrders :
        timer[o].pc = "armed" ~>
            row[o] # [status |-> "PENDING", paymentStatus |-> "UNPAID"] \/ crashes > 0

(* A countdown that cancels also gives everything back.                    *)
ExpiryGivesBack ==
    \A o \in BankingOrders :
        timer[o].pc = "update" ~>
            (timer[o].pc = "off" /\ held[o] = {} /\ taken[o] = {}) \/ crashes > 0
-----------------------------------------------------------------------------
(* What the comments of orders.service.ts say and the code does not do.    *)

(* "Hủy đơn hàng khi hết thời gian thanh toán" (line 229): an order the    *)
(* customer was told to pay does not stay pending when its time is over.   *)
PendingExpires ==
    \A o \in BankingOrders :
        checkout[o].pc = "done" /\ row[o].status = "PENDING" ~> row[o].status # "PENDING"

(* "trừ trước (rollback nếu fail sau này)" (line 97): points taken first   *)
(* are given back when the checkout fails later.                           *)
PointsRolledBack ==
    \A o \in Orders : checkout[o].pc = "rejected" => "points" \notin held[o]
=============================================================================
