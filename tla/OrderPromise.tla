---------------------------- MODULE OrderPromise ----------------------------
(***************************************************************************)
(* What the handlers of one order promise together, while they come one    *)
(* after the other and none is cut off: each is one step of the order's    *)
(* life.  An order is placed once.  A step into CANCELLED gives its items  *)
(* back, and a cancelled payment is refunded, in that same step.  No other *)
(* step refunds anything, and only one other gives items back: a           *)
(* cancellation that breaks off at an item, and is as if it had not been   *)
(* but for the items before it.  Nothing is promised of an order whose     *)
(* handlers have overlapped.                                               *)
(***************************************************************************)
EXTENDS Integers

CONSTANTS
    Orders, BankingOrders, AdminStatuses, Cancellable,
    ItemCount       \* how many items each order has

VARIABLES
    order,      \* status, paymentStatus; how often each item was given back and
                \* a payment refunded
    disturbed

vars == <<order, disturbed>>

NoOrderYet(o) == [status |-> "none", paymentStatus |-> "UNPAID",
                  returned |-> [i \in 1..ItemCount[o] |-> 0], refunded |-> 0]

\* The first n items are given back.
GivenBack(o, n) ==
    [i \in 1..ItemCount[o] |-> IF i <= n THEN order[o].returned[i] + 1 ELSE order[o].returned[i]]

\* Placed, cancelled, updated and paid: what becomes of an order.
Placed(o) == [NoOrderYet(o) EXCEPT !.status = IF o \in BankingOrders THEN "PENDING" ELSE "PROCESSING"]

Cancelled(o) ==
    LET given == [order[o] EXCEPT !.status = "CANCELLED",
                                     !.returned = GivenBack(o, ItemCount[o])]
    IN IF o \in BankingOrders /\ order[o].paymentStatus = "PAID"
       THEN [given EXCEPT !.paymentStatus = "REFUNDED", !.refunded = @ + 1]
       ELSE given

Updated(o, status) ==
    [order[o] EXCEPT !.status = status,
        !.paymentStatus = IF status = "DELIVERED" /\ o \notin BankingOrders THEN "PAID" ELSE @]

PaidFor(o) == [order[o] EXCEPT !.status = "PROCESSING", !.paymentStatus = "PAID"]

Init ==
    /\ order = [o \in Orders |-> NoOrderYet(o)]
    /\ disturbed = {}

Place(o) == order[o] = NoOrderYet(o) /\ order'[o] = Placed(o)

\* By the customer, the admin or the payment countdown.
Cancel(o) == order[o].status \in Cancellable /\ order'[o] = Cancelled(o)

\* A later item's product is missing.
BreakOff(o) ==
    /\ order[o].status \in Cancellable
    /\ \E n \in 1..(ItemCount[o] - 1) : order'[o] = [order[o] EXCEPT !.returned = GivenBack(o, n)]

Update(o) ==
    /\ order[o].status # "none"
    /\ \E status \in AdminStatuses : order'[o] = Updated(o, status)

\* The webhook takes every order on, also one that is cancelled.
Pay(o) == o \in BankingOrders /\ order[o].status # "none" /\ order'[o] = PaidFor(o)

Next ==
    /\ disturbed \subseteq disturbed'
    /\ \A o \in Orders \ disturbed' :
          order'[o] = order[o] \/ Place(o) \/ Cancel(o) \/ BreakOff(o) \/ Update(o) \/ Pay(o)

Spec == Init /\ [][Next]_vars
=============================================================================
