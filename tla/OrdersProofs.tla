---------------------------- MODULE OrdersProofs ----------------------------
(***************************************************************************)
(* Three safety invariants of Orders for any number of orders, items and   *)
(* calls, in every interleaving: no stock goes below zero and the points   *)
(* only as far as negative amounts were added to them, no banking order is *)
(* paid without a bank transaction, and a used voucher is held by an order. *)
(* The first two are not inductive: a handler acts on what it has read, so *)
(* SeenInv also speaks of the numbers the handlers hold and MoneyInv of    *)
(* the entities they are about to save.  What is promised of orders whose  *)
(* handlers do not overlap is in OrderLifeProofs.                          *)
(***************************************************************************)
EXTENDS Orders, TLAPS

(* TypeOK.  First the items of an order.                                   *)

LEMMA LineFacts ==
    ASSUME NEW o \in Orders
    PROVE  /\ Len(ItemsOf[o]) \in Nat /\ 1 \in Lines(o)
           /\ \A i \in Lines(o) : /\ i \in Nat /\ Product(o, i) \in Products
                                  /\ Quantity(o, i) \in Nat /\ Quantity(o, i) > 0
                                  /\ ~LastLine(o, i) => i + 1 \in Lines(o)
<1>1. ItemsOf[o] \in Seq(Item) /\ ItemsOf[o] # <<>>
  BY OrdersAssumption
<1>2. Len(ItemsOf[o]) \in Nat /\ Len(ItemsOf[o]) > 0
  BY <1>1
<1>3. ASSUME NEW i \in Lines(o)
      PROVE  /\ i \in Nat /\ Product(o, i) \in Products
             /\ Quantity(o, i) \in Nat /\ Quantity(o, i) > 0
             /\ ~LastLine(o, i) => i + 1 \in Lines(o)
  <2>1. i \in 1..Len(ItemsOf[o])
    BY DEF Lines
  <2>2. ItemsOf[o][i] \in Item
    BY <1>1, <2>1
  <2>3. QED
    BY <1>2, <2>1, <2>2 DEF Item, Product, Quantity, LastLine, Lines
<1>4. QED
  BY <1>2, <1>3 DEF Lines

\* The parts of TypeOK that belong together.
StockOK ==
    /\ inventory \in [Products -> Int] /\ removed \subseteq Removable
    /\ DOMAIN taken = Orders /\ DOMAIN returned = Orders /\ DOMAIN broken = Orders
    /\ \A o \in Orders : /\ taken[o] \subseteq Lines(o)
                         /\ returned[o] \in [Lines(o) -> Nat]
                         /\ broken[o] \in [Lines(o) -> Nat]

CheckoutOK == checkout \in [Orders -> Checkout] /\ \A o \in Orders : checkout[o].item \in Lines(o)
TimerOK == timer \in [Orders -> Timer] /\ \A o \in Orders : timer[o].item \in Lines(o)

\* A request at work has an order and is at one of its items, any other has none.
CallOK(call) ==
    IF call.pc \in {"ready", "done"} THEN call.order = NoOrder
    ELSE call.order \in Orders /\ call.item \in Lines(call.order)

RequestOK == request \in [Requests -> Request] /\ \A r \in Requests : CallOK(request[r])

RestOK ==
    /\ row \in [Orders -> Entity] /\ itemRows \subseteq Orders
    /\ points \in Int /\ debits \in Nat
    /\ voucher \in VoucherUser /\ cartFull \in BOOLEAN
    /\ transfers \in [Orders -> Nat] /\ crashes \in Nat
    /\ held \in [Orders -> SUBSET Holding]
    /\ refunds \in [Orders -> Nat] /\ revived \in [Orders -> Nat]
    /\ disturbed \subseteq Orders

LEMMA TypeParts == TypeOK <=> StockOK /\ CheckoutOK /\ TimerOK /\ RequestOK /\ RestOK
BY DEF TypeOK, StockOK, CheckoutOK, TimerOK, RequestOK, CallOK, RestOK

LEMMA TypePartsPrime == StockOK' /\ CheckoutOK' /\ TimerOK' /\ RequestOK' /\ RestOK' => TypeOK'
BY DEF TypeOK, StockOK, CheckoutOK, TimerOK, RequestOK, CallOK, RestOK

\* Those who do not step keep their types.
LEMMA StockStays ==
    ASSUME StockOK, UNCHANGED <<stock, removed>>
    PROVE  StockOK'
BY DEF StockOK, stock

LEMMA CheckoutStaysOK ==
    ASSUME CheckoutOK, UNCHANGED checkout
    PROVE  CheckoutOK'
BY DEF CheckoutOK

LEMMA TimerStaysOK ==
    ASSUME TimerOK, UNCHANGED timer
    PROVE  TimerOK'
BY DEF TimerOK

LEMMA RequestStaysOK ==
    ASSUME RequestOK, UNCHANGED request
    PROVE  RequestOK'
BY DEF RequestOK, CallOK

\* What the program counters and records can become.
LEMMA CheckoutEnds ==
    ASSUME NEW o \in Orders, NEW to \in CheckoutStep
    PROVE  At(to) \in Checkout /\ At(to).item \in Lines(o) /\ At(to).pc = to /\ At(to).seen = 0
BY LineFacts DEF At, Checkout

LEMMA CheckoutMoves ==
    ASSUME CheckoutOK, NEW o \in Orders, NEW call \in Checkout, call.item \in Lines(o),
           checkout' = [checkout EXCEPT ![o] = call]
    PROVE  CheckoutOK'
BY DEF CheckoutOK

LEMMA TimerEnds ==
    ASSUME NEW o \in Orders, NEW to \in TimerStep
    PROVE  /\ NoTimer \in Timer /\ NoTimer.item \in Lines(o)
           /\ \A dirty \in SUBSET Column :
                 LET next == [NoTimer EXCEPT !.pc = to, !.dirty = dirty]
                 IN  next \in Timer /\ next.item \in Lines(o)
           /\ [NoTimer EXCEPT !.pc = to] \in Timer /\ [NoTimer EXCEPT !.pc = to].item \in Lines(o)
           /\ \A i \in Lines(o) : LET next == [NoTimer EXCEPT !.pc = to, !.item = i]
                                  IN  next \in Timer /\ next.item \in Lines(o)
<1>1. NoTimer \in Timer /\ NoTimer.item \in Lines(o) /\ NoTimer.item = 1
  BY LineFacts DEF NoTimer, Timer, TimerStep
<1>2. [NoTimer EXCEPT !.pc = to] \in Timer /\ [NoTimer EXCEPT !.pc = to].item \in Lines(o)
  BY <1>1 DEF Timer
<1>3. ASSUME NEW dirty \in SUBSET Column
      PROVE  LET next == [NoTimer EXCEPT !.pc = to, !.dirty = dirty]
             IN  next \in Timer /\ next.item \in Lines(o)
  BY <1>1 DEF Timer
<1>4. ASSUME NEW i \in Lines(o)
      PROVE  LET next == [NoTimer EXCEPT !.pc = to, !.item = i]
             IN  next \in Timer /\ next.item \in Lines(o)
  <2>1. i \in Nat
    BY LineFacts
  <2>2. QED
    BY <1>1, <2>1 DEF Timer
<1>5. QED
  BY <1>1, <1>2, <1>3, <1>4

LEMMA TimerMoves ==
    ASSUME TimerOK, NEW o \in Orders, NEW next \in Timer, next.item \in Lines(o),
           timer' = [timer EXCEPT ![o] = next]
    PROVE  TimerOK'
BY DEF TimerOK

\* The next await at the same item.
LEMMA TimerReadsOK ==
    ASSUME TimerOK, NEW o \in Orders, NEW to \in TimerStep, NEW seen \in Int,
           timer' = [timer EXCEPT ![o] = [@ EXCEPT !.pc = to, !.seen = seen]]
    PROVE  TimerOK'
<1> DEFINE next == [timer[o] EXCEPT !.pc = to, !.seen = seen]
<1>1. timer[o] \in Timer /\ timer[o].item \in Lines(o)
  BY DEF TimerOK
<1>2. next \in Timer /\ next.item = timer[o].item
  BY <1>1 DEF Timer
<1>3. timer' = [timer EXCEPT ![o] = next]
  BY DEF TimerOK
<1> HIDE DEF next
<1>4. QED
  BY <1>1, <1>2, <1>3, TimerMoves

LEMMA EntityEnds == Blank \in Entity /\ Expired \in Entity
BY DEF Blank, Expired, Entity, Status, PaymentStatus

LEMMA IdleEnds ==
    ASSUME NEW to \in RequestStep
    PROVE  /\ Idle(to) \in Request /\ Idle(to).pc = to /\ Idle(to).order = NoOrder
           /\ Idle(to).item = 1 /\ Idle(to).entity = Blank
BY EntityEnds DEF Idle, Request

LEMMA RequestMoves ==
    ASSUME RequestOK, NEW r \in Requests, NEW call \in Request, CallOK(call),
           request' = [request EXCEPT ![r] = call]
    PROVE  RequestOK'
<1>1. request' \in [Requests -> Request]
  BY DEF RequestOK
<1>2. ASSUME NEW q \in Requests PROVE request'[q] = IF q = r THEN call ELSE request[q]
  BY DEF RequestOK
<1>3. \A q \in Requests : CallOK(request[q])'
  BY <1>2 DEF RequestOK, CallOK
<1>4. QED
  BY <1>1, <1>3 DEF RequestOK

\* The saves of one item, when it goes and when it comes back.
LEMMA SaveStockType ==
    ASSUME StockOK, NEW product \in Products, NEW amount \in Int, SaveStock(product, amount)
    PROVE  inventory' \in [Products -> Int] /\ removed' \subseteq Removable
BY DEF StockOK, SaveStock

LEMMA RestockType ==
    ASSUME StockOK, NEW o \in Orders, NEW i \in Lines(o), NEW seen \in Int,
           Restock(o, i, seen), UNCHANGED broken
    PROVE  StockOK'
<1>1. seen + Quantity(o, i) \in Int /\ Product(o, i) \in Products
  BY LineFacts
<1>2. inventory' \in [Products -> Int] /\ removed' \subseteq Removable
  BY <1>1, SaveStockType DEF Restock
<1>3. DOMAIN taken' = Orders /\ \A p \in Orders : taken'[p] \subseteq Lines(p)
  BY DEF Restock, StockOK
<1>4. DOMAIN returned' = Orders /\ \A p \in Orders : returned'[p] \in [Lines(p) -> Nat]
  BY DEF Restock, StockOK
<1>5. QED
  BY <1>2, <1>3, <1>4 DEF StockOK

THEOREM InitType == Init => TypeOK
<1> SUFFICES ASSUME Init PROVE TypeOK
  OBVIOUS
<1>1. CheckoutOK
  BY CheckoutEnds DEF Init, CheckoutStep, CheckoutOK
<1>2. TimerOK
  <2>1. "off" \in TimerStep
    BY DEF TimerStep
  <2>2. \A o \in Orders : NoTimer \in Timer /\ NoTimer.item \in Lines(o)
    BY <2>1, TimerEnds
  <2>3. QED
    BY <2>2 DEF Init, TimerOK
<1>3. RequestOK
  BY IdleEnds DEF Init, RequestStep, RequestOK, CallOK
<1>4. RestOK
  BY EntityEnds, OrdersAssumption DEF Init, VoucherUser, RestOK
<1>5. StockOK
  BY OrdersAssumption DEF Init, StockOK
<1>6. QED
  BY <1>1, <1>2, <1>3, <1>4, <1>5, TypeParts

LEMMA CheckoutType ==
    ASSUME TypeOK, NEW o \in Orders, CheckoutStepOf(o)
    PROVE  TypeOK'
<1>a. StockOK /\ CheckoutOK /\ TimerOK /\ RequestOK /\ RestOK
  BY TypeParts
<1>b. /\ checkout[o] \in Checkout /\ checkout[o].seen \in Int /\ checkout[o].item \in Lines(o)
      /\ PointsOf[o] \in Int /\ points \in Int
  BY <1>a, OrdersAssumption DEF CheckoutOK, RestOK, Checkout
<1>1. ASSUME NEW from, NEW to \in CheckoutStep, NEW ok \in BOOLEAN, Advance(o, from, to, ok)
      PROVE  StockOK' /\ CheckoutOK' /\ RequestOK'
  <2>1. PICK end \in CheckoutStep : checkout' = [checkout EXCEPT ![o] = At(end)]
    BY <1>1 DEF Advance, CheckoutStep
  <2>2. CheckoutOK'
    BY <1>a, <2>1, CheckoutEnds, CheckoutMoves
  <2>3. QED
    BY <1>a, <1>1, <2>2, StockStays, RequestStaysOK DEF Advance
<1>2. ASSUME NEW from, NEW to \in CheckoutStep, NEW value \in Int, NEW needed, NEW ok \in BOOLEAN,
             CheckoutReads(o, from, to, value, needed, ok)
      PROVE  TypeOK'
  <2> DEFINE call == [checkout[o] EXCEPT !.pc = to, !.seen = value]
  <2>1. call \in Checkout /\ call.item \in Lines(o)
    BY <1>b DEF Checkout
  <2>2. \/ checkout' = [checkout EXCEPT ![o] = call]
        \/ checkout' = [checkout EXCEPT ![o] = At("rejected")]
    BY <1>2 DEF CheckoutReads
  <2> HIDE DEF call
  <2>3. CheckoutOK'
    BY <1>a, <2>1, <2>2, CheckoutEnds, CheckoutMoves DEF CheckoutStep
  <2>4. StockOK' /\ TimerOK' /\ RequestOK'
    BY <1>a, <1>2, StockStays, TimerStaysOK, RequestStaysOK DEF CheckoutReads, dbVars, history, stock
  <2>5. RestOK'
    BY <1>a, <1>2 DEF CheckoutReads, dbVars, history, RestOK
  <2>6. QED
    BY <2>3, <2>4, <2>5, TypePartsPrime
<1>3. /\ BeforeSave(o) \in CheckoutStep /\ BeforePoints(o) \in CheckoutStep
      /\ AfterCart(o) \in CheckoutStep /\ AfterSave(o) \in CheckoutStep
  BY DEF BeforeSave, BeforePoints, AfterCart, AfterSave, CheckoutStep
<1>4. CASE ReadCart(o)
  <2>1. StockOK' /\ CheckoutOK' /\ RequestOK'
    BY <1>1, <1>3, <1>4, <1>a DEF ReadCart, RestOK
  <2>2. TimerOK' /\ RestOK'
    BY <1>a, <1>4, TimerStaysOK DEF ReadCart, Advance, RestOK
  <2>3. QED
    BY <2>1, <2>2, TypePartsPrime
<1>5. CASE CheckVoucher(o)
  <2>1. StockOK' /\ CheckoutOK' /\ RequestOK'
    BY <1>1, <1>3, <1>5 DEF CheckVoucher
  <2>2. TimerOK' /\ RestOK'
    BY <1>a, <1>5, TimerStaysOK DEF CheckVoucher, Advance, RestOK
  <2>3. QED
    BY <2>1, <2>2, TypePartsPrime
<1>6. CASE ReadPoints(o)
  BY <1>2, <1>6, <1>b DEF ReadPoints, CheckoutStep
<1>7. CASE WritePoints(o)
  <2>1. StockOK' /\ CheckoutOK' /\ RequestOK'
    BY <1>1, <1>3, <1>7 DEF WritePoints
  <2>2. points' \in Int
    BY <1>7, <1>b DEF WritePoints
  <2>3. held' \in [Orders -> SUBSET Holding]
    BY <1>7, <1>a DEF WritePoints, Take, Holding, RestOK
  <2>4. TimerOK' /\ RestOK'
    BY <1>a, <1>7, <2>2, <2>3, TimerStaysOK DEF WritePoints, Advance, RestOK
  <2>5. QED
    BY <2>1, <2>4, TypePartsPrime
<1>8. CASE MakeQR(o)
  <2>1. PICK ok \in BOOLEAN : Advance(o, "makeQR", "saveOrder", ok)
    BY <1>8 DEF MakeQR
  <2>2. StockOK' /\ CheckoutOK' /\ RequestOK'
    BY <1>1, <2>1 DEF CheckoutStep
  <2>3. TimerOK' /\ RestOK'
    BY <1>a, <1>8, <2>1, TimerStaysOK DEF MakeQR, Advance, RestOK
  <2>4. QED
    BY <2>2, <2>3, TypePartsPrime
<1>9. CASE SaveOrder(o)
  <2>1. StockOK' /\ CheckoutOK' /\ RequestOK'
    BY <1>1, <1>3, <1>9 DEF SaveOrder
  <2>2. row' \in [Orders -> Entity]
    BY <1>a, <1>9 DEF SaveOrder, Entity, Status, PaymentStatus, RestOK
  <2>3. TimerOK' /\ RestOK'
    BY <1>a, <1>9, <2>2, TimerStaysOK DEF SaveOrder, Advance, RestOK
  <2>4. QED
    BY <2>1, <2>3, TypePartsPrime
<1>10. CASE FindVoucher(o)
  <2>1. StockOK' /\ CheckoutOK' /\ RequestOK'
    BY <1>1, <1>10 DEF FindVoucher, CheckoutStep
  <2>2. TimerOK' /\ RestOK'
    BY <1>a, <1>10, TimerStaysOK DEF FindVoucher, Advance, RestOK
  <2>3. QED
    BY <2>1, <2>2, TypePartsPrime
<1>11. CASE UseVoucher(o)
  <2>1. StockOK' /\ CheckoutOK' /\ RequestOK'
    BY <1>1, <1>11 DEF UseVoucher, CheckoutStep
  <2>2. held' \in [Orders -> SUBSET Holding] /\ voucher' \in VoucherUser
    BY <1>a, <1>11 DEF UseVoucher, Take, Holding, RestOK, VoucherUser
  <2>3. TimerOK' /\ RestOK'
    BY <1>a, <1>11, <2>2, TimerStaysOK DEF UseVoucher, Advance, RestOK
  <2>4. QED
    BY <2>1, <2>3, TypePartsPrime
<1>12. CASE InsertVoucher(o)
  <2>1. StockOK' /\ CheckoutOK' /\ RequestOK'
    BY <1>1, <1>12 DEF InsertVoucher, CheckoutStep
  <2>2. held' \in [Orders -> SUBSET Holding] /\ voucher' \in VoucherUser
    BY <1>a, <1>12 DEF InsertVoucher, Take, Holding, RestOK, VoucherUser
  <2>3. TimerOK' /\ RestOK'
    BY <1>a, <1>12, <2>2, TimerStaysOK DEF InsertVoucher, Advance, RestOK
  <2>4. QED
    BY <2>1, <2>3, TypePartsPrime
<1>13. CASE SaveItems(o)
  <2>1. StockOK' /\ CheckoutOK' /\ RequestOK'
    BY <1>1, <1>13 DEF SaveItems, CheckoutStep
  <2>2. TimerOK' /\ RestOK'
    BY <1>a, <1>13, TimerStaysOK DEF SaveItems, Advance, RestOK
  <2>3. QED
    BY <2>1, <2>2, TypePartsPrime
<1>14. CASE FindCart(o)
  <2>1. StockOK' /\ CheckoutOK' /\ RequestOK'
    BY <1>1, <1>14, <1>a DEF FindCart, CheckoutStep, RestOK
  <2>2. TimerOK' /\ RestOK'
    BY <1>a, <1>14, TimerStaysOK DEF FindCart, Advance, RestOK
  <2>3. QED
    BY <2>1, <2>2, TypePartsPrime
<1>15. CASE EmptyCart(o)
  <2>1. StockOK' /\ CheckoutOK' /\ RequestOK'
    BY <1>1, <1>15 DEF EmptyCart, CheckoutStep
  <2>2. TimerOK' /\ RestOK'
    BY <1>a, <1>15, TimerStaysOK DEF EmptyCart, Advance, RestOK
  <2>3. QED
    BY <2>1, <2>2, TypePartsPrime
<1>16. CASE ReadStock(o)
  <2> DEFINE product == Product(o, checkout[o].item)
  <2>1. inventory[product] \in Int
    BY <1>a, <1>b, LineFacts DEF StockOK
  <2>2. QED
    BY <1>2, <1>16, <2>1 DEF ReadStock, CheckoutStep
<1>17. CASE WriteStock(o)
  <2> DEFINE i == checkout[o].item
             next == [At("readStock") EXCEPT !.item = i + 1]
  <2>1. CheckoutOK'
    <3>1. At("done") \in Checkout /\ At("done").item \in Lines(o)
      BY CheckoutEnds DEF CheckoutStep
    <3>2. ASSUME ~LastLine(o, i) PROVE next \in Checkout /\ next.item \in Lines(o)
      BY <1>b, <3>2, LineFacts DEF At, Checkout, CheckoutStep
    <3>3. checkout' = [checkout EXCEPT ![o] = IF LastLine(o, i) THEN At("done") ELSE next]
      BY <1>17 DEF WriteStock
    <3> HIDE DEF next, i
    <3>4. QED
      BY <1>a, <3>1, <3>2, <3>3, CheckoutMoves
  <2>2. inventory' \in [Products -> Int] /\ removed' \subseteq Removable
    <3>1. Product(o, i) \in Products /\ checkout[o].seen - Quantity(o, i) \in Int
      BY <1>b, LineFacts
    <3>2. QED
      BY <1>a, <1>17, <3>1, SaveStockType DEF WriteStock
  <2>3. DOMAIN taken' = Orders /\ \A p \in Orders : taken'[p] \subseteq Lines(p)
    BY <1>a, <1>b, <1>17 DEF WriteStock, StockOK
  <2>4. StockOK'
    BY <1>a, <1>17, <2>2, <2>3 DEF WriteStock, StockOK
  <2>5. TimerOK'
    BY <1>a, <1>17 DEF WriteStock, TimerOK, Timer, TimerStep
  <2>6. RequestOK' /\ RestOK'
    BY <1>a, <1>17, RequestStaysOK DEF WriteStock, RestOK
  <2>7. QED
    BY <2>1, <2>4, <2>5, <2>6, TypePartsPrime
<1>18. QED
  BY <1>4, <1>5, <1>6, <1>7, <1>8, <1>9, <1>10, <1>11, <1>12, <1>13, <1>14, <1>15, <1>16, <1>17
  DEF CheckoutStepOf

LEMMA UpdateRowType ==
    ASSUME TypeOK, NEW o \in Orders, NEW entity \in Entity, NEW dirty \in SUBSET Column,
           UpdateRow(o, entity, dirty)
    PROVE  row' \in [Orders -> Entity] /\ revived' \in [Orders -> Nat]
<1>1. row \in [Orders -> Entity] /\ revived \in [Orders -> Nat]
  BY DEF TypeOK
<1>2. Written(o, entity, dirty) \in Entity
  BY <1>1 DEF Written, Entity
<1>3. row' \in [Orders -> Entity]
  BY <1>1, <1>2 DEF UpdateRow
<1>4. revived' \in [Orders -> Nat]
  BY <1>1 DEF UpdateRow
<1>5. QED
  BY <1>3, <1>4

\* An amount of either sign is added to the points.
LEMMA CreditType ==
    ASSUME NEW seen \in Int, NEW amount \in Int, debits \in Nat, Credit(seen, amount)
    PROVE  points' \in Int /\ debits' \in Nat
BY DEF Credit

LEMMA RestartType == TypeOK /\ Restart => TypeOK'
<1> SUFFICES ASSUME TypeOK, Restart PROVE TypeOK'
  OBVIOUS
<1>a. StockOK /\ CheckoutOK /\ TimerOK /\ RequestOK /\ RestOK
  BY TypeParts
<1>1. CheckoutOK'
  BY <1>a, CheckoutEnds DEF Restart, CheckoutOK, CheckoutStep
<1>2. TimerOK'
  <2>1. \A o \in Orders : NoTimer \in Timer /\ NoTimer.item \in Lines(o)
    BY TimerEnds DEF TimerStep
  <2>2. QED
    BY <2>1 DEF Restart, TimerOK
<1>3. RequestOK'
  BY IdleEnds DEF Restart, RequestStep, RequestOK, CallOK
<1>4. StockOK'
  BY <1>a, StockStays DEF Restart, dbVars, stock
<1>5. RestOK'
  BY <1>a DEF Restart, dbVars, RestOK
<1>6. QED
  BY <1>1, <1>2, <1>3, <1>4, <1>5, TypePartsPrime

LEMMA TimerType ==
    ASSUME TypeOK, NEW o \in Orders, TimerStepOf(o)
    PROVE  TypeOK'
<1>a. StockOK /\ CheckoutOK /\ TimerOK /\ RequestOK /\ RestOK
  BY TypeParts
<1>b. /\ timer[o] \in Timer /\ timer[o].seen \in Int /\ timer[o].item \in Lines(o)
      /\ timer[o].dirty \in SUBSET Column
      /\ PointsOf[o] \in Int /\ points \in Int /\ debits \in Nat
  BY <1>a, OrdersAssumption DEF TimerOK, RestOK, Timer
<1>1. ASSUME NEW from, NEW to \in TimerStep, TimerGoes(o, from, to)
      PROVE  StockOK' /\ CheckoutOK' /\ TimerOK' /\ RequestOK'
  <2>1. TimerOK'
    BY <1>a, <1>1, TimerEnds, TimerMoves DEF TimerGoes
  <2>2. QED
    BY <1>a, <1>1, <2>1, StockStays, CheckoutStaysOK, RequestStaysOK DEF TimerGoes
<1>2. ASSUME NEW from, NEW to \in TimerStep, NEW value \in Int, TimerReads(o, from, to, value)
      PROVE  TypeOK'
  <2>1. TimerOK'
    BY <1>a, <1>2, TimerReadsOK DEF TimerReads
  <2>2. StockOK' /\ CheckoutOK' /\ RequestOK'
    BY <1>a, <1>2, StockStays, CheckoutStaysOK, RequestStaysOK DEF TimerReads, dbVars, history, stock
  <2>3. RestOK'
    BY <1>a, <1>2 DEF TimerReads, dbVars, history, RestOK
  <2>4. QED
    BY <2>1, <2>2, <2>3, TypePartsPrime
<1>3. AfterRefund(o) \in TimerStep /\ AfterRestock(o) \in TimerStep
  BY DEF AfterRefund, AfterRestock, TimerStep
<1>4. CASE Fire(o)
  <2>1. StockOK' /\ CheckoutOK' /\ TimerOK' /\ RequestOK'
    BY <1>1, <1>4 DEF Fire, TimerStep
  <2>2. disturbed' \subseteq Orders
    BY <1>a, <1>4 DEF Fire, RestOK
  <2>3. RestOK'
    BY <1>a, <1>4, <2>2 DEF Fire, TimerGoes, purse, RestOK
  <2>4. QED
    BY <2>1, <2>3, TypePartsPrime
<1>5. CASE CompareExpired(o)
  <2>1. Differing(o, Expired) \in SUBSET Column
    BY DEF Differing
  <2>2. TimerOK'
    BY <1>a, <1>5, <2>1, TimerEnds, TimerMoves DEF CompareExpired, TimerStep
  <2>3. StockOK' /\ CheckoutOK' /\ RequestOK'
    BY <1>a, <1>5, StockStays, CheckoutStaysOK, RequestStaysOK DEF CompareExpired, dbVars, history, stock
  <2>4. RestOK'
    BY <1>a, <1>5 DEF CompareExpired, dbVars, history, RestOK
  <2>5. QED
    BY <2>2, <2>3, <2>4, TypePartsPrime
<1>6. CASE UpdateExpired(o)
  <2>1. StockOK' /\ CheckoutOK' /\ TimerOK' /\ RequestOK'
    BY <1>1, <1>6 DEF UpdateExpired, TimerStep
  <2>2. row' \in [Orders -> Entity] /\ revived' \in [Orders -> Nat]
    BY <1>6, <1>b, EntityEnds, UpdateRowType DEF UpdateExpired
  <2>3. RestOK'
    BY <1>a, <1>6, <2>2 DEF UpdateExpired, TimerGoes, purse, RestOK
  <2>4. QED
    BY <2>1, <2>3, TypePartsPrime
<1>7. CASE TimerReadStock(o)
  <2> DEFINE product == Product(o, timer[o].item)
  <2>1. inventory[product] \in Int
    BY <1>a, <1>b, LineFacts DEF StockOK
  <2>2. QED
    BY <1>2, <1>7, <2>1 DEF TimerReadStock, TimerStep
<1>8. CASE TimerWriteStock(o)
  <2> DEFINE i == timer[o].item
             last == [NoTimer EXCEPT !.pc = AfterRestock(o)]
             next == [NoTimer EXCEPT !.pc = "readStock", !.item = i + 1]
  <2>1. TimerOK'
    <3>1. last \in Timer /\ last.item \in Lines(o)
      BY <1>3, TimerEnds
    <3>2. ASSUME ~LastLine(o, i) PROVE next \in Timer /\ next.item \in Lines(o)
      <4>1. "readStock" \in TimerStep /\ i + 1 \in Lines(o)
        BY <1>b, <3>2, LineFacts DEF TimerStep
      <4>2. QED
        BY <4>1, TimerEnds
    <3>3. timer' = [timer EXCEPT ![o] = IF LastLine(o, i) THEN last ELSE next]
      BY <1>8 DEF TimerWriteStock, TimerToNextItem
    <3> HIDE DEF last, next, i
    <3>4. QED
      BY <1>a, <3>1, <3>2, <3>3, TimerMoves
  <2>2. StockOK'
    BY <1>a, <1>b, <1>8, RestockType DEF TimerWriteStock, TimerToNextItem
  <2>3. CheckoutOK' /\ RequestOK' /\ RestOK'
    BY <1>a, <1>8, CheckoutStaysOK, RequestStaysOK DEF TimerWriteStock, TimerToNextItem, purse, RestOK
  <2>4. QED
    BY <2>1, <2>2, <2>3, TypePartsPrime
<1>9. CASE TimerFindVoucher(o)
  <2>1. StockOK' /\ CheckoutOK' /\ TimerOK' /\ RequestOK'
    BY <1>1, <1>9 DEF TimerFindVoucher, TimerStep
  <2>2. RestOK'
    BY <1>a, <1>9 DEF TimerFindVoucher, TimerGoes, purse, RestOK
  <2>3. QED
    BY <2>1, <2>2, TypePartsPrime
<1>10. CASE TimerRefundVoucher(o)
  <2>1. StockOK' /\ CheckoutOK' /\ TimerOK' /\ RequestOK'
    BY <1>1, <1>3, <1>10 DEF TimerRefundVoucher
  <2>2. held' \in [Orders -> SUBSET Holding] /\ voucher' \in VoucherUser
    BY <1>a, <1>10 DEF TimerRefundVoucher, GiveBack, VoucherUser, RestOK
  <2>3. RestOK'
    BY <1>a, <1>10, <2>2 DEF TimerRefundVoucher, TimerGoes, purse, RestOK
  <2>4. QED
    BY <2>1, <2>3, TypePartsPrime
<1>11. CASE TimerReadPoints(o)
  BY <1>2, <1>11, <1>b DEF TimerReadPoints, TimerStep
<1>12. CASE TimerWritePoints(o)
  <2>1. StockOK' /\ CheckoutOK' /\ TimerOK' /\ RequestOK'
    BY <1>1, <1>12 DEF TimerWritePoints, TimerStep
  <2>2. points' \in Int /\ debits' \in Nat
    BY <1>12, <1>b, CreditType DEF TimerWritePoints
  <2>3. held' \in [Orders -> SUBSET Holding]
    BY <1>a, <1>12 DEF TimerWritePoints, GiveBack, RestOK
  <2>4. RestOK'
    BY <1>a, <1>12, <2>2, <2>3 DEF TimerWritePoints, TimerGoes, RestOK
  <2>5. QED
    BY <2>1, <2>4, TypePartsPrime
<1>13. CASE TimerThrows(o)
  BY <1>13, RestartType DEF TimerThrows
<1>14. QED
  BY <1>4, <1>5, <1>6, <1>7, <1>8, <1>9, <1>10, <1>11, <1>12, <1>13 DEF TimerStepOf

\* A request in flight knows its order.
LEMMA RequestOrder ==
    ASSUME TypeOK, NEW r \in Requests, request[r].pc \notin {"ready", "done"}
    PROVE  request[r].order \in Orders /\ request[r].item \in Lines(request[r].order)
BY DEF TypeOK

\* The calls a request in flight can turn into.
LEMMA CallType ==
    ASSUME NEW old \in Request, NEW pc \in RequestStep
    PROVE  /\ \A seen \in Int : [old EXCEPT !.pc = pc, !.seen = seen] \in Request
           /\ \A dirty \in SUBSET Column : [old EXCEPT !.pc = pc, !.dirty = dirty] \in Request
           /\ \A entity \in Entity : [old EXCEPT !.pc = pc, !.entity = entity] \in Request
           /\ \A dirty \in SUBSET Column, item \in Nat, seen \in Int :
                 [old EXCEPT !.pc = pc, !.dirty = dirty, !.item = item, !.seen = seen] \in Request
           /\ \A item \in Nat : [old EXCEPT !.item = item] \in Request
<1>1. ASSUME NEW seen \in Int PROVE [old EXCEPT !.pc = pc, !.seen = seen] \in Request
  BY DEF Request
<1>2. ASSUME NEW dirty \in SUBSET Column PROVE [old EXCEPT !.pc = pc, !.dirty = dirty] \in Request
  BY DEF Request
<1>3. ASSUME NEW entity \in Entity PROVE [old EXCEPT !.pc = pc, !.entity = entity] \in Request
  BY DEF Request
<1>4. ASSUME NEW dirty \in SUBSET Column, NEW item \in Nat, NEW seen \in Int
      PROVE  [old EXCEPT !.pc = pc, !.dirty = dirty, !.item = item, !.seen = seen] \in Request
  BY DEF Request
<1>5. ASSUME NEW item \in Nat PROVE [old EXCEPT !.item = item] \in Request
  BY DEF Request
<1>6. QED
  BY <1>1, <1>2, <1>3, <1>4, <1>5

LEMMA ToType ==
    ASSUME NEW r \in Requests, request[r] \in Request, NEW pc \in RequestStep
    PROVE  /\ To(r, pc) \in Request
           /\ To(r, pc).pc = pc /\ To(r, pc).order = request[r].order
           /\ To(r, pc).entity = request[r].entity /\ To(r, pc).item = 1
<1>1. {} \in SUBSET Column /\ 0 \in Int /\ 1 \in Nat
  OBVIOUS
<1>2. [request[r] EXCEPT !.pc = pc, !.dirty = {}, !.item = 1, !.seen = 0] \in Request
  BY <1>1, CallType, Zenon
<1>3. To(r, pc) \in Request
  BY <1>2 DEF To
<1>4. /\ To(r, pc).pc = pc /\ To(r, pc).order = request[r].order
      /\ To(r, pc).entity = request[r].entity /\ To(r, pc).item = 1
  BY DEF To, Request
<1>5. QED
  BY <1>3, <1>4

\* A cancellation after the save of an item: at the next one, or past them.
NextCancelCall(r) ==
    IF LastLine(request[r].order, request[r].item) THEN To(r, "compareCancelled")
    ELSE [To(r, "readStock") EXCEPT !.item = request[r].item + 1]

LEMMA NextCancelCallType ==
    ASSUME TypeOK, NEW r \in Requests, request[r].pc = "writeStock"
    PROVE  /\ NextCancelCall(r) \in Request /\ NextCancelCall(r).order = request[r].order
           /\ NextCancelCall(r).entity = request[r].entity
           /\ NextCancelCall(r).item \in Lines(request[r].order)
           /\ LastLine(request[r].order, request[r].item) => NextCancelCall(r).pc = "compareCancelled"
           /\ ~LastLine(request[r].order, request[r].item) =>
                 NextCancelCall(r).pc = "readStock" /\ NextCancelCall(r).item = request[r].item + 1
<1> DEFINE o == request[r].order
           i == request[r].item
           next == [To(r, "readStock") EXCEPT !.item = i + 1]
<1>1. request[r] \in Request /\ o \in Orders /\ i \in Lines(o)
  BY RequestOrder DEF TypeOK
<1>2. /\ To(r, "compareCancelled") \in Request /\ To(r, "compareCancelled").pc = "compareCancelled"
      /\ To(r, "compareCancelled").order = o /\ To(r, "compareCancelled").entity = request[r].entity
      /\ To(r, "compareCancelled").item = 1
  BY <1>1, ToType DEF RequestStep
<1>3. /\ To(r, "readStock") \in Request /\ To(r, "readStock").pc = "readStock"
      /\ To(r, "readStock").order = o /\ To(r, "readStock").entity = request[r].entity
  BY <1>1, ToType DEF RequestStep
<1>4. ASSUME ~LastLine(o, i)
      PROVE  /\ next \in Request /\ next.order = o /\ next.entity = request[r].entity
             /\ next.pc = "readStock" /\ next.item = i + 1 /\ i + 1 \in Lines(o)
  <2>1. i + 1 \in Lines(o) /\ i + 1 \in Nat
    BY <1>1, <1>4, LineFacts
  <2>2. "readStock" \in RequestStep
    BY DEF RequestStep
  <2>3. next \in Request
    BY <1>3, <2>1, <2>2, CallType, Zenon
  <2>4. /\ next.order = o /\ next.entity = request[r].entity
        /\ next.pc = "readStock" /\ next.item = i + 1
    BY <1>3 DEF Request
  <2>5. QED
    BY <2>1, <2>3, <2>4
<1>5. CASE LastLine(o, i)
  <2>1. NextCancelCall(r) = To(r, "compareCancelled")
    BY <1>5 DEF NextCancelCall
  <2>2. QED
    BY <1>1, <1>2, <1>5, <2>1, LineFacts
<1>6. CASE ~LastLine(o, i)
  <2>1. NextCancelCall(r) = next
    BY <1>6 DEF NextCancelCall
  <2> HIDE DEF next
  <2>2. QED
    BY <1>4, <1>6, <2>1
<1>7. QED
  BY <1>5, <1>6

\* What the steps of a request do to it.
LEMMA Continued ==
    ASSUME RequestOK, NEW r \in Requests, request[r].pc \notin {"ready", "done"},
           NEW call \in Request, call.order = request[r].order, call.pc \notin {"ready", "done"},
           call.item \in Lines(call.order), request' = [request EXCEPT ![r] = call]
    PROVE  RequestOK'
<1>1. CallOK(call)
  BY DEF RequestOK, CallOK
<1>2. QED
  BY <1>1, RequestMoves

LEMMA Ended ==
    ASSUME RequestOK, NEW r \in Requests, request' = [request EXCEPT ![r] = Idle("done")]
    PROVE  RequestOK'
<1>1. Idle("done") \in Request /\ CallOK(Idle("done"))
  BY IdleEnds DEF RequestStep, CallOK
<1>2. QED
  BY <1>1, RequestMoves

LEMMA RequestType ==
    ASSUME TypeOK, NEW r \in Requests, RequestStepOf(r)
    PROVE  TypeOK'
<1> DEFINE o == request[r].order
           i == request[r].item
<1>0. StockOK /\ CheckoutOK /\ TimerOK /\ RequestOK /\ RestOK
  BY TypeParts
<1>a. request[r] \in Request /\ request[r].seen \in Int /\ request[r].entity \in Entity
      /\ request[r].dirty \in SUBSET Column
  BY <1>0 DEF RequestOK, Request
<1>b. ASSUME NEW pc \in RequestStep \ {"ready", "done"}, o \in Orders
      PROVE  /\ To(r, pc) \in Request /\ To(r, pc).pc = pc /\ To(r, pc).order = o
             /\ To(r, pc).entity = request[r].entity /\ To(r, pc).item \in Lines(o)
  BY <1>a, <1>b, ToType, LineFacts
<1>c. ASSUME request[r].pc \notin {"ready", "done"}
      PROVE  /\ o \in Orders /\ i \in Lines(o) /\ i \in Nat /\ Product(o, i) \in Products
             /\ inventory[Product(o, i)] \in Int
             /\ PointsOf[o] \in Int /\ TotalOf[o] \in Int
  <2>1. o \in Orders /\ i \in Lines(o)
    BY <1>c, RequestOrder
  <2>2. QED
    BY <1>0, <2>1, LineFacts, OrdersAssumption DEF StockOK
\* Only the request moves, and the rest keeps its type.
<1>d. ASSUME NEW from, NEW call, Continue(r, from, call), UNCHANGED stock
      PROVE  StockOK' /\ CheckoutOK' /\ TimerOK'
  BY <1>0, <1>d, StockStays, CheckoutStaysOK, TimerStaysOK DEF Continue
<1>1. CASE CancelReadsStock(r)
  <2> DEFINE call == [request[r] EXCEPT !.pc = "writeStock", !.seen = inventory[Product(o, i)]]
  <2>0. request[r].pc = "readStock"
    BY <1>1 DEF CancelReadsStock
  <2>1. call \in Request /\ call.pc = "writeStock" /\ call.order = o /\ call.item = i
    <3>1. inventory[Product(o, i)] \in Int /\ "writeStock" \in RequestStep
      BY <1>c, <2>0 DEF RequestStep
    <3>2. call \in Request
      BY <1>a, <3>1, CallType, Zenon
    <3>3. call.pc = "writeStock" /\ call.order = o /\ call.item = i
      BY <1>a DEF Request
    <3>4. QED
      BY <3>2, <3>3
  <2>a. request' = [request EXCEPT ![r] = Idle("done")] \/ request' = [request EXCEPT ![r] = call]
    BY <1>1 DEF CancelReadsStock, Continue
  <2>2. RequestOK'
    <3> HIDE DEF call
    <3>1. i \in Lines(o)
      BY <1>c, <2>0
    <3>2. QED
      BY <1>0, <2>0, <2>1, <2>a, <3>1, Continued, Ended
  <2>3. DOMAIN broken' = Orders /\ \A p \in Orders : broken'[p] \in [Lines(p) -> Nat]
    BY <1>0, <1>1 DEF CancelReadsStock, StockOK
  <2>4. StockOK'
    BY <1>0, <1>1, <2>3 DEF CancelReadsStock, Continue, StockOK
  <2>5. CheckoutOK' /\ TimerOK' /\ RestOK'
    BY <1>0, <1>1, CheckoutStaysOK, TimerStaysOK DEF CancelReadsStock, Continue, purse, RestOK
  <2>6. QED
    BY <2>2, <2>4, <2>5, TypePartsPrime
<1>2. CASE CancelWritesStock(r)
  <2>0. request[r].pc = "writeStock" /\ request' = [request EXCEPT ![r] = NextCancelCall(r)]
    BY <1>2 DEF CancelWritesStock, NextCancelCall
  <2>1. RequestOK'
    <3>1. /\ NextCancelCall(r) \in Request /\ NextCancelCall(r).order = o
          /\ NextCancelCall(r).item \in Lines(o) /\ NextCancelCall(r).pc \notin {"ready", "done"}
      BY <2>0, NextCancelCallType
    <3>2. QED
      BY <1>0, <2>0, <3>1, Continued
  <2>2. StockOK'
    BY <1>0, <1>2, <1>a, <1>c, <2>0, RestockType DEF CancelWritesStock
  <2>3. CheckoutOK' /\ TimerOK' /\ RestOK'
    BY <1>0, <1>2, CheckoutStaysOK, TimerStaysOK DEF CancelWritesStock, purse, RestOK
  <2>4. QED
    BY <2>1, <2>2, <2>3, TypePartsPrime
<1>3. ASSUME NEW from \in RequestStep \ {"ready", "done"}, NEW to \in RequestStep \ {"ready", "done"},
             Compare(r, from, to)
      PROVE  TypeOK'
  <2> DEFINE dirty == Differing(o, request[r].entity)
             call == [request[r] EXCEPT !.pc = to, !.dirty = dirty]
  <2>0. request[r].pc = from /\ i \in Lines(o)
    BY <1>3, <1>c DEF Compare, Continue
  <2>1. dirty \in SUBSET Column
    BY DEF Differing
  <2>2. call \in Request /\ call.pc = to /\ call.order = o /\ call.item = i
    BY <1>a, <2>1, CallType DEF Request
  <2>3. request' = [request EXCEPT ![r] = Idle("done")] \/ request' = [request EXCEPT ![r] = call]
    BY <1>3 DEF Compare, Continue
  <2> HIDE DEF call
  <2>4. RequestOK'
    BY <1>0, <2>0, <2>2, <2>3, Continued, Ended
  <2>5. StockOK' /\ CheckoutOK' /\ TimerOK'
    BY <1>3, <1>d DEF Compare
  <2>6. RestOK'
    BY <1>0, <1>3 DEF Compare, Continue, purse, RestOK
  <2>7. QED
    BY <2>4, <2>5, <2>6, TypePartsPrime
<1>4. CASE CompareCancelled(r)
  BY <1>3, <1>4 DEF CompareCancelled, RequestStep
<1>5. CASE UpdateCancelled(r)
  <2>0. request[r].pc = "updateCancelled" /\ request' = [request EXCEPT ![r] = To(r, "readPoints")]
    BY <1>5 DEF UpdateCancelled, Continue
  <2>1. RequestOK'
    <3>1. o \in Orders
      BY <1>c, <2>0
    <3>2. /\ To(r, "readPoints") \in Request /\ To(r, "readPoints").pc = "readPoints"
          /\ To(r, "readPoints").order = o /\ To(r, "readPoints").item \in Lines(o)
      BY <1>b, <3>1 DEF RequestStep
    <3>3. QED
      BY <1>0, <2>0, <3>2, Continued
  <2>2. row' \in [Orders -> Entity] /\ revived' \in [Orders -> Nat]
    BY <1>5, <1>a, <1>c, <2>0, UpdateRowType DEF UpdateCancelled
  <2>3. StockOK' /\ CheckoutOK' /\ TimerOK'
    BY <1>5, <1>d DEF UpdateCancelled
  <2>4. RestOK'
    BY <1>0, <1>5, <2>2 DEF UpdateCancelled, Continue, purse, RestOK
  <2>5. QED
    BY <2>1, <2>3, <2>4, TypePartsPrime
<1>6. CASE CancelReadsPoints(r)
  <2> DEFINE call == [request[r] EXCEPT !.pc = "writePoints", !.seen = points]
  <2>0. request[r].pc = "readPoints" /\ i \in Lines(o)
    BY <1>6, <1>c DEF CancelReadsPoints, Continue
  <2>1. call \in Request /\ call.pc = "writePoints" /\ call.order = o /\ call.item = i
    <3>1. points \in Int /\ "writePoints" \in RequestStep
      BY <1>0 DEF RestOK, RequestStep
    <3>2. call \in Request
      BY <1>a, <3>1, CallType, Zenon
    <3>3. call.pc = "writePoints" /\ call.order = o /\ call.item = i
      BY <1>a DEF Request
    <3>4. QED
      BY <3>2, <3>3
  <2>2. request' = [request EXCEPT ![r] = call]
    BY <1>6 DEF CancelReadsPoints, Continue
  <2> HIDE DEF call
  <2>3. RequestOK'
    BY <1>0, <2>0, <2>1, <2>2, Continued
  <2>4. StockOK' /\ CheckoutOK' /\ TimerOK'
    BY <1>6, <1>d DEF CancelReadsPoints
  <2>5. RestOK'
    BY <1>0, <1>6 DEF CancelReadsPoints, Continue, purse, RestOK
  <2>6. QED
    BY <2>3, <2>4, <2>5, TypePartsPrime
<1>7. CASE CancelWritesPoints(r)
  <2> DEFINE call == [To(r, "compareEntity") EXCEPT !.entity.paymentStatus = "REFUNDED"]
  <2>0. request[r].pc = "writePoints" /\ o \in Orders
    BY <1>7, <1>c DEF CancelWritesPoints
  <2>a. /\ To(r, "compareEntity") \in Request /\ To(r, "compareEntity").pc = "compareEntity"
        /\ To(r, "compareEntity").order = o /\ To(r, "compareEntity").item \in Lines(o)
    BY <1>b, <2>0 DEF RequestStep
  <2>1. call \in Request /\ call.pc = "compareEntity" /\ call.order = o /\ call.item \in Lines(o)
    BY <2>a DEF Request, Entity, PaymentStatus
  <2>b. \/ request' = [request EXCEPT ![r] = call]
        \/ request' = [request EXCEPT ![r] = To(r, "compareEntity")]
    BY <1>7 DEF CancelWritesPoints, Continue
  <2>2. RequestOK'
    <3> HIDE DEF call
    <3>1. QED
      BY <1>0, <2>0, <2>1, <2>a, <2>b, Continued
  <2>3. points' \in Int /\ debits' \in Nat
    <3>1. PointsOf[o] \in Int /\ TotalOf[o] \in Int /\ debits \in Nat
      BY <1>0, <1>c, <2>0 DEF RestOK
    <3>2. Credit(request[r].seen, TotalOf[o]) \/ Credit(request[r].seen, PointsOf[o])
      BY <1>7 DEF CancelWritesPoints
    <3>3. QED
      BY <1>a, <3>1, <3>2, CreditType
  <2>4. held' \in [Orders -> SUBSET Holding] /\ refunds' \in [Orders -> Nat]
    BY <1>0, <1>7, <2>0 DEF CancelWritesPoints, GiveBack, RestOK
  <2>5. StockOK' /\ CheckoutOK' /\ TimerOK'
    BY <1>7, <1>d DEF CancelWritesPoints
  <2>6. RestOK'
    BY <1>0, <1>7, <2>3, <2>4 DEF CancelWritesPoints, Continue, RestOK
  <2>7. QED
    BY <2>2, <2>5, <2>6, TypePartsPrime
<1>8. CASE FindOrder(r)
  <2> DEFINE call == [request[r] EXCEPT !.pc = "compareEntity",
                        !.entity = [status |-> "PROCESSING", paymentStatus |-> "PAID"]]
  <2>a. request[r].pc = "findOrder" /\ i \in Lines(o)
    BY <1>8, <1>c DEF FindOrder, Continue
  <2>0. [status |-> "PROCESSING", paymentStatus |-> "PAID"] \in Entity
    BY DEF Entity, Status, PaymentStatus
  <2>1. call \in Request /\ call.pc = "compareEntity" /\ call.order = o /\ call.item = i
    <3>1. "compareEntity" \in RequestStep
      BY DEF RequestStep
    <3>2. call \in Request
      BY <1>a, <2>0, <3>1, CallType, Zenon
    <3>3. call.pc = "compareEntity" /\ call.order = o /\ call.item = i
      BY <1>a DEF Request
    <3>4. QED
      BY <3>2, <3>3
  <2>2. request' = [request EXCEPT ![r] = call]
    BY <1>8 DEF FindOrder, Continue
  <2> HIDE DEF call
  <2>3. RequestOK'
    BY <1>0, <2>a, <2>1, <2>2, Continued
  <2>4. StockOK' /\ CheckoutOK' /\ TimerOK'
    BY <1>8, <1>d DEF FindOrder
  <2>5. RestOK'
    BY <1>0, <1>8 DEF FindOrder, Continue, purse, RestOK
  <2>6. QED
    BY <2>3, <2>4, <2>5, TypePartsPrime
<1>9. CASE CompareEntity(r)
  BY <1>3, <1>9 DEF CompareEntity, RequestStep
<1>10. CASE UpdateEntity(r)
  <2>0. request[r].pc = "updateEntity"
    BY <1>10 DEF UpdateEntity, Continue
  <2>1. RequestOK'
    BY <1>0, <1>10, Ended DEF UpdateEntity, Continue
  <2>2. row' \in [Orders -> Entity] /\ revived' \in [Orders -> Nat]
    BY <1>10, <1>a, <1>c, <2>0, UpdateRowType DEF UpdateEntity
  <2>3. StockOK' /\ CheckoutOK' /\ TimerOK'
    BY <1>10, <1>d DEF UpdateEntity
  <2>4. RestOK'
    BY <1>0, <1>10, <2>2 DEF UpdateEntity, Continue, purse, RestOK
  <2>5. QED
    BY <2>1, <2>3, <2>4, TypePartsPrime
<1>11. QED
  BY <1>1, <1>2, <1>4, <1>5, <1>6, <1>7, <1>8, <1>9, <1>10 DEF RequestStepOf

\* The calls the three handlers start with.
LEMMA FirstCall ==
    ASSUME NEW o \in Orders, NEW old \in Request
    PROVE  /\ \A entity \in Entity, bare \in BOOLEAN :
                 [old EXCEPT !.order = o, !.bare = bare, !.entity = entity] \in Request
           /\ \A entity \in Entity : [old EXCEPT !.order = o, !.entity = entity] \in Request
           /\ [old EXCEPT !.order = o] \in Request
<1>1. ASSUME NEW entity \in Entity, NEW bare \in BOOLEAN
      PROVE  [old EXCEPT !.order = o, !.bare = bare, !.entity = entity] \in Request
  BY DEF Request
<1>2. ASSUME NEW entity \in Entity
      PROVE  [old EXCEPT !.order = o, !.entity = entity] \in Request
  BY DEF Request
<1>3. [old EXCEPT !.order = o] \in Request
  BY DEF Request
<1>4. QED
  BY <1>1, <1>2, <1>3

LEMMA BeginType ==
    ASSUME TypeOK, NEW r \in Requests, NEW o \in Orders, NEW call \in Request,
           call.order = o, call.item = 1, call.pc \notin {"ready", "done"}, Begin(r, o, call),
           transfers' \in [Orders -> Nat]
    PROVE  TypeOK'
<1>0. StockOK /\ CheckoutOK /\ TimerOK /\ RequestOK /\ RestOK
  BY TypeParts
<1>1. RequestOK'
  <2>1. CallOK(call)
    BY LineFacts DEF CallOK
  <2>2. QED
    BY <1>0, <2>1, RequestMoves DEF Begin
<1>2. disturbed' \subseteq Orders
  BY <1>0 DEF Begin, RestOK
<1>3. StockOK' /\ CheckoutOK' /\ TimerOK'
  BY <1>0, StockStays, CheckoutStaysOK, TimerStaysOK DEF Begin
<1>4. RestOK'
  BY <1>0, <1>2 DEF Begin, purse, RestOK
<1>5. QED
  BY <1>1, <1>3, <1>4, TypePartsPrime

\* What a cancellation and an admin's update start with.
CancelCall(o) ==
    [Idle(IF o \in itemRows THEN "readStock" ELSE "compareCancelled")
        EXCEPT !.order = o, !.bare = o \notin itemRows, !.entity = [row[o] EXCEPT !.status = "CANCELLED"]]

AdminCall(o, status) ==
    [Idle("compareEntity") EXCEPT !.order = o,
        !.entity = [status |-> status,
                    paymentStatus |-> IF status = "DELIVERED" /\ o \notin BankingOrders
                                      THEN "PAID" ELSE row[o].paymentStatus]]

LEMMA CancelCallType ==
    ASSUME TypeOK, NEW o \in Orders
    PROVE  /\ CancelCall(o) \in Request /\ CancelCall(o).order = o /\ CancelCall(o).item = 1
           /\ CancelCall(o).pc = (IF o \in itemRows THEN "readStock" ELSE "compareCancelled")
           /\ CancelCall(o).entity = [row[o] EXCEPT !.status = "CANCELLED"]
<1> DEFINE pc == IF o \in itemRows THEN "readStock" ELSE "compareCancelled"
           entity == [row[o] EXCEPT !.status = "CANCELLED"]
           bare == o \notin itemRows
<1>1. row[o] \in Entity
  BY DEF TypeOK
<1>2. entity \in Entity
  BY <1>1 DEF Entity, Status
<1>3. pc \in RequestStep /\ bare \in BOOLEAN /\ pc \in {"readStock", "compareCancelled"}
  BY DEF RequestStep
<1>4. CancelCall(o) = [Idle(pc) EXCEPT !.order = o, !.bare = bare, !.entity = entity]
  BY DEF CancelCall
<1> HIDE DEF pc, entity, bare
<1>5. CancelCall(o) \in Request
  <2>1. \A e \in Entity, b \in BOOLEAN :
           [Idle(pc) EXCEPT !.order = o, !.bare = b, !.entity = e] \in Request
    BY <1>3, IdleEnds, FirstCall, Zenon
  <2>2. [Idle(pc) EXCEPT !.order = o, !.bare = bare, !.entity = entity] \in Request
    BY <1>2, <1>3, <2>1, Zenon
  <2>3. QED
    BY <1>4, <2>2, Zenon
<1>6. /\ CancelCall(o).order = o /\ CancelCall(o).pc = pc /\ CancelCall(o).entity = entity
      /\ CancelCall(o).item = 1
  BY <1>3, <1>4, IdleEnds DEF Request
<1>7. QED
  BY <1>3, <1>5, <1>6 DEF entity, pc

LEMMA AdminCallType ==
    ASSUME TypeOK, NEW o \in Orders, NEW status \in AdminStatuses
    PROVE  /\ AdminCall(o, status) \in Request /\ AdminCall(o, status).order = o
           /\ AdminCall(o, status).pc = "compareEntity" /\ AdminCall(o, status).item = 1
           /\ AdminCall(o, status).entity.paymentStatus =
                 IF status = "DELIVERED" /\ o \notin BankingOrders THEN "PAID" ELSE row[o].paymentStatus
<1> DEFINE paymentStatus == IF status = "DELIVERED" /\ o \notin BankingOrders
                            THEN "PAID" ELSE row[o].paymentStatus
           entity == [status |-> status, paymentStatus |-> paymentStatus]
<1>1. row[o] \in Entity
  BY DEF TypeOK
<1>2. entity \in Entity /\ entity.paymentStatus = paymentStatus
  BY <1>1, OrdersAssumption DEF Entity, PaymentStatus
<1>3. "compareEntity" \in RequestStep
  BY DEF RequestStep
<1>4. AdminCall(o, status) = [Idle("compareEntity") EXCEPT !.order = o, !.entity = entity]
  BY DEF AdminCall
<1> HIDE DEF entity
<1>5. AdminCall(o, status) \in Request
  <2>1. \A e \in Entity : [Idle("compareEntity") EXCEPT !.order = o, !.entity = e] \in Request
    BY <1>3, IdleEnds, FirstCall, Zenon
  <2>2. [Idle("compareEntity") EXCEPT !.order = o, !.entity = entity] \in Request
    BY <1>2, <2>1, Zenon
  <2>3. QED
    BY <1>4, <2>2, Zenon
<1>6. /\ AdminCall(o, status).order = o /\ AdminCall(o, status).pc = "compareEntity"
      /\ AdminCall(o, status).entity = entity /\ AdminCall(o, status).item = 1
  BY <1>3, <1>4, IdleEnds DEF Request
<1>7. QED
  BY <1>2, <1>5, <1>6

THEOREM StepType == TypeOK /\ [Next]_vars => TypeOK'
<1> SUFFICES ASSUME TypeOK, [Next]_vars PROVE TypeOK'
  OBVIOUS
<1>0. StockOK /\ CheckoutOK /\ TimerOK /\ RequestOK /\ RestOK
  BY TypeParts
<1>1. ASSUME NEW o \in Orders, SubmitOrder(o) PROVE TypeOK'
  <2>1. checkout' = [checkout EXCEPT ![o] = At("readCart")] /\ "readCart" \in CheckoutStep
    BY <1>1 DEF SubmitOrder, Advance, CheckoutStep
  <2>2. CheckoutOK'
    BY <1>0, <2>1, CheckoutEnds, CheckoutMoves
  <2>3. StockOK' /\ TimerOK' /\ RequestOK'
    BY <1>0, <1>1, StockStays, TimerStaysOK, RequestStaysOK DEF SubmitOrder, Advance
  <2>4. RestOK'
    BY <1>0, <1>1 DEF SubmitOrder, Advance, RestOK
  <2>5. QED
    BY <2>2, <2>3, <2>4, TypePartsPrime
<1>2. ASSUME NEW r \in Requests, NEW o \in Orders, CancelOrder(r, o) PROVE TypeOK'
  <2>1. Begin(r, o, CancelCall(o)) /\ transfers' = transfers
    BY <1>2 DEF CancelOrder, CancelCall
  <2>2. QED
    BY <2>1, CancelCallType, BeginType DEF TypeOK
<1>3. ASSUME NEW r \in Requests, NEW o \in Orders, RecordTransfer(r, o) PROVE TypeOK'
  <2> DEFINE call == [Idle("findOrder") EXCEPT !.order = o]
  <2>0. "findOrder" \in RequestStep
    BY DEF RequestStep
  <2>1. call \in Request /\ call.pc = "findOrder" /\ call.order = o /\ call.item = 1
    <3>1. call \in Request
      BY <2>0, IdleEnds, FirstCall, Zenon
    <3>2. call.pc = "findOrder" /\ call.order = o /\ call.item = 1
      BY <2>0, IdleEnds DEF Request
    <3>3. QED
      BY <3>1, <3>2
  <2>2. Begin(r, o, call) /\ transfers' \in [Orders -> Nat]
    BY <1>3 DEF RecordTransfer, TypeOK
  <2> HIDE DEF call
  <2>3. QED
    BY <2>1, <2>2, BeginType
<1>4. ASSUME NEW r \in Requests, NEW o \in Orders, NEW status \in AdminStatuses, AdminUpdate(r, o, status)
      PROVE TypeOK'
  <2>1. Begin(r, o, AdminCall(o, status)) /\ transfers' = transfers
    BY <1>4 DEF AdminUpdate, AdminCall
  <2>2. transfers' \in [Orders -> Nat]
    BY <2>1 DEF TypeOK
  <2>3. QED
    BY <2>1, <2>2, AdminCallType, BeginType
\* What neither a checkout nor a countdown nor a request does.
<1>5. ASSUME UNCHANGED <<checkout, timer, request, crashes, inventory, taken, returned, broken,
                         row, itemRows, points, debits, voucher, transfers, held, refunds, revived, disturbed>>,
             removed' \subseteq Removable, cartFull' \in BOOLEAN
      PROVE  TypeOK'
  <2>1. StockOK'
    BY <1>0, <1>5 DEF StockOK
  <2>2. CheckoutOK' /\ TimerOK' /\ RequestOK'
    BY <1>0, <1>5, CheckoutStaysOK, TimerStaysOK, RequestStaysOK
  <2>3. RestOK'
    BY <1>0, <1>5 DEF RestOK
  <2>4. QED
    BY <2>1, <2>2, <2>3, TypePartsPrime
<1>6. CASE AddToCart
  BY <1>0, <1>5, <1>6 DEF AddToCart, history, StockOK
<1>7. ASSUME NEW what \in Removable, Remove(what) PROVE TypeOK'
  BY <1>0, <1>5, <1>7 DEF Remove, history, StockOK, RestOK
<1>8. CASE Crash
  BY <1>8, RestartType DEF Crash
<1>9. CASE UNCHANGED vars
  BY <1>0, <1>5, <1>9 DEF vars, dbVars, history, StockOK, RestOK
<1>10. QED
  BY <1>1, <1>2, <1>3, <1>4, <1>6, <1>7, <1>8, <1>9, CheckoutType, TimerType, RequestType DEF Next

(* The checkout, its countdown and the other handlers keep the types, for  *)
(* any number of orders, items and calls.                                  *)
THEOREM OrdersTypeCorrect == Spec => []TypeOK
<1>1. QED
  BY InitType, StepType, PTL DEF Spec
-----------------------------------------------------------------------------
(* NeverOverdrawn.  What a handler writes it computes from what it has read, *)
(* not from the row as it is by then: the invariant speaks of both.          *)

CheckoutSeen(o) ==
    /\ checkout[o].pc = "writePoints" => checkout[o].seen >= PointsOf[o] /\ checkout[o].seen >= -debits
    /\ checkout[o].pc = "writeStock" => checkout[o].seen >= Quantity(o, checkout[o].item)

TimerSeen(o) ==
    /\ timer[o].pc = "writeStock" => timer[o].seen >= 0
    /\ timer[o].pc = "writePoints" => timer[o].seen >= -debits

RequestSeen(r) ==
    /\ request[r].pc = "writeStock" => request[r].seen >= 0
    /\ request[r].pc = "writePoints" => request[r].seen >= -debits

SeenInv ==
    /\ NeverOverdrawn
    /\ \A o \in Orders : CheckoutSeen(o) /\ TimerSeen(o)
    /\ \A r \in Requests : RequestSeen(r)

THEOREM InitSeen == Init => SeenInv
BY OrdersAssumption
DEF Init, SeenInv, NeverOverdrawn, CheckoutSeen, TimerSeen, RequestSeen, At, NoTimer, Idle

\* Those who do not step keep what they have seen, also when the debits grow.
LEMMA CheckoutStays ==
    ASSUME TypeOK, SeenInv, checkout' = checkout, debits' \in Int, debits' >= debits
    PROVE  \A o \in Orders : CheckoutSeen(o)'
<1>1. \A o \in Orders : checkout[o].seen \in Int /\ debits \in Int
  BY DEF TypeOK, Checkout
<1>2. QED
  BY <1>1 DEF SeenInv, CheckoutSeen

LEMMA TimerStays ==
    ASSUME TypeOK, SeenInv, timer' = timer, debits' \in Int, debits' >= debits
    PROVE  \A o \in Orders : TimerSeen(o)'
<1>1. \A o \in Orders : timer[o].seen \in Int /\ debits \in Int
  BY DEF TypeOK, Timer
<1>2. QED
  BY <1>1 DEF SeenInv, TimerSeen

LEMMA RequestStays ==
    ASSUME TypeOK, SeenInv, request' = request, debits' \in Int, debits' >= debits
    PROVE  \A r \in Requests : RequestSeen(r)'
<1>1. \A r \in Requests : request[r].seen \in Int /\ debits \in Int
  BY DEF TypeOK, Request
<1>2. QED
  BY <1>1 DEF SeenInv, RequestSeen

\* Adding an amount of either sign: the debits grow by what goes.
LEMMA CreditSees ==
    ASSUME NEW seen \in Int, NEW amount \in Int, debits \in Nat, seen >= -debits, Credit(seen, amount)
    PROVE  points' >= -debits' /\ debits' \in Int /\ debits' >= debits
BY DEF Credit

\* A save of one size, of an amount that is not negative.
LEMMA SaveStockSees ==
    ASSUME TypeOK, NeverOverdrawn, NEW product \in Products, NEW amount \in Int, amount >= 0,
           SaveStock(product, amount)
    PROVE  \A p \in Products : inventory'[p] >= 0
BY DEF TypeOK, NeverOverdrawn, SaveStock

LEMMA CheckoutSees ==
    ASSUME TypeOK, SeenInv, NEW o \in Orders, CheckoutStepOf(o)
    PROVE  SeenInv'
<1> USE DEF SeenInv
<1>a. /\ checkout \in [Orders -> Checkout] /\ debits \in Nat /\ points \in Int
      /\ checkout[o].item \in Lines(o) /\ checkout[o].seen \in Int /\ PointsOf[o] \in Int
  BY OrdersAssumption DEF TypeOK, Checkout
<1>1. ASSUME NEW to, to \notin {"writePoints", "writeStock"}, UNCHANGED <<inventory, points, debits, timer, request>>,
             \/ checkout' = [checkout EXCEPT ![o] = At(to)]
             \/ checkout' = [checkout EXCEPT ![o] = At("rejected")]
      PROVE  SeenInv'
  <2>1. \A i \in Orders : CheckoutSeen(i)'
    BY <1>1, <1>a DEF At, CheckoutSeen
  <2>2. QED
    BY <1>1, <1>a, <2>1, TimerStays, RequestStays DEF NeverOverdrawn
<1>2. ASSUME NEW to, NEW value \in Int, UNCHANGED <<inventory, points, debits, timer, request>>,
             to = "writePoints" => value >= PointsOf[o] /\ value >= -debits,
             to = "writeStock" => value >= Quantity(o, checkout[o].item),
             checkout' = [checkout EXCEPT ![o] = [@ EXCEPT !.pc = to, !.seen = value]]
      PROVE  SeenInv'
  <2>1. PICK call : call = [checkout[o] EXCEPT !.pc = to, !.seen = value]
    OBVIOUS
  <2>2. call.pc = to /\ call.seen = value /\ call.item = checkout[o].item
    BY <1>a, <2>1 DEF Checkout
  <2>3. checkout' = [checkout EXCEPT ![o] = call]
    BY <1>2, <1>a, <2>1
  <2>4. \A i \in Orders : CheckoutSeen(i)'
    BY <1>2, <1>a, <2>2, <2>3 DEF CheckoutSeen
  <2>5. QED
    BY <1>2, <1>a, <2>4, TimerStays, RequestStays DEF NeverOverdrawn
<1>3. /\ BeforeSave(o) \notin {"writePoints", "writeStock"}
      /\ BeforePoints(o) \notin {"writePoints", "writeStock"}
      /\ AfterCart(o) \notin {"writePoints", "writeStock"}
      /\ AfterSave(o) \notin {"writePoints", "writeStock"}
  BY DEF BeforeSave, BeforePoints, AfterCart, AfterSave
<1>4. CASE ReadCart(o)
  <2>1. /\ UNCHANGED <<inventory, points, debits, timer, request>>
        /\ \/ checkout' = [checkout EXCEPT ![o] = At(AfterCart(o))]
           \/ checkout' = [checkout EXCEPT ![o] = At("rejected")]
    BY <1>4 DEF ReadCart, Advance, stock
  <2>2. QED
    BY <1>1, <1>3, <2>1
<1>5. CASE CheckVoucher(o)
  <2>1. /\ UNCHANGED <<inventory, points, debits, timer, request>>
        /\ \/ checkout' = [checkout EXCEPT ![o] = At(BeforePoints(o))]
           \/ checkout' = [checkout EXCEPT ![o] = At("rejected")]
    BY <1>5 DEF CheckVoucher, Advance, stock
  <2>2. QED
    BY <1>1, <1>3, <2>1
<1>6. CASE ReadPoints(o)
  <2>1. UNCHANGED <<inventory, points, debits, timer, request>>
    BY <1>6 DEF ReadPoints, CheckoutReads, dbVars, history
  <2>2. CASE points >= PointsOf[o]
    <3>1. checkout' = [checkout EXCEPT ![o] = [@ EXCEPT !.pc = "writePoints", !.seen = points]]
      BY <1>6, <2>2 DEF ReadPoints, CheckoutReads
    <3>2. points >= PointsOf[o] /\ points >= -debits /\ points \in Int /\ "writePoints" # "writeStock"
      BY <1>a, <2>2 DEF NeverOverdrawn
    <3>3. QED
      BY <1>2, <2>1, <3>1, <3>2, Zenon
  <2>3. CASE ~(points >= PointsOf[o])
    <3>1. checkout' = [checkout EXCEPT ![o] = At("rejected")]
      BY <1>6, <2>3 DEF ReadPoints, CheckoutReads
    <3>2. QED
      BY <1>1, <2>1, <3>1
  <2>4. QED
    BY <2>2, <2>3
<1>7. CASE WritePoints(o)
  <2>1. points' >= -debits
    BY <1>7, <1>a DEF WritePoints, Advance, CheckoutSeen
  <2>2. \A i \in Orders : CheckoutSeen(i)'
    BY <1>3, <1>7, <1>a DEF WritePoints, Advance, At, CheckoutSeen
  <2>3. UNCHANGED <<inventory, debits, timer, request>>
    BY <1>7 DEF WritePoints, Advance, stock
  <2>4. QED
    BY <1>a, <2>1, <2>2, <2>3, TimerStays, RequestStays DEF NeverOverdrawn
<1>8. CASE MakeQR(o)
  <2>1. /\ UNCHANGED <<inventory, points, debits, timer, request>>
        /\ \/ checkout' = [checkout EXCEPT ![o] = At("saveOrder")]
           \/ checkout' = [checkout EXCEPT ![o] = At("rejected")]
    BY <1>8 DEF MakeQR, Advance, stock
  <2>2. QED
    BY <1>1, <1>3, <2>1
<1>9. CASE SaveOrder(o)
  <2>1. /\ UNCHANGED <<inventory, points, debits, timer, request>>
        /\ \/ checkout' = [checkout EXCEPT ![o] = At(AfterSave(o))]
           \/ checkout' = [checkout EXCEPT ![o] = At("rejected")]
    BY <1>9 DEF SaveOrder, Advance, stock
  <2>2. QED
    BY <1>1, <1>3, <2>1
<1>10. CASE FindVoucher(o)
  <2>1. /\ UNCHANGED <<inventory, points, debits, timer, request>>
        /\ \/ checkout' = [checkout EXCEPT ![o] = At((IF voucher = "none" THEN "insertVoucher" ELSE "useVoucher"))]
           \/ checkout' = [checkout EXCEPT ![o] = At("rejected")]
    BY <1>10 DEF FindVoucher, Advance, stock
  <2>2. QED
    BY <1>1, <1>3, <2>1
<1>11. CASE UseVoucher(o)
  <2>1. /\ UNCHANGED <<inventory, points, debits, timer, request>>
        /\ \/ checkout' = [checkout EXCEPT ![o] = At("saveItems")]
           \/ checkout' = [checkout EXCEPT ![o] = At("rejected")]
    BY <1>11 DEF UseVoucher, Advance, stock
  <2>2. QED
    BY <1>1, <1>3, <2>1
<1>12. CASE InsertVoucher(o)
  <2>1. /\ UNCHANGED <<inventory, points, debits, timer, request>>
        /\ \/ checkout' = [checkout EXCEPT ![o] = At("saveItems")]
           \/ checkout' = [checkout EXCEPT ![o] = At("rejected")]
    BY <1>12 DEF InsertVoucher, Advance, stock
  <2>2. QED
    BY <1>1, <1>3, <2>1
<1>13. CASE SaveItems(o)
  <2>1. /\ UNCHANGED <<inventory, points, debits, timer, request>>
        /\ \/ checkout' = [checkout EXCEPT ![o] = At("findCart")]
           \/ checkout' = [checkout EXCEPT ![o] = At("rejected")]
    BY <1>13 DEF SaveItems, Advance, stock
  <2>2. QED
    BY <1>1, <1>3, <2>1
<1>14. CASE FindCart(o)
  <2>1. /\ UNCHANGED <<inventory, points, debits, timer, request>>
        /\ \/ checkout' = [checkout EXCEPT ![o] = At("emptyCart")]
           \/ checkout' = [checkout EXCEPT ![o] = At("rejected")]
    BY <1>14 DEF FindCart, Advance, stock
  <2>2. QED
    BY <1>1, <1>3, <2>1
<1>15. CASE EmptyCart(o)
  <2>1. /\ UNCHANGED <<inventory, points, debits, timer, request>>
        /\ \/ checkout' = [checkout EXCEPT ![o] = At("readStock")]
           \/ checkout' = [checkout EXCEPT ![o] = At("rejected")]
    BY <1>15 DEF EmptyCart, Advance, stock
  <2>2. QED
    BY <1>1, <1>3, <2>1
<1>16. CASE ReadStock(o)
  <2> DEFINE product == Product(o, checkout[o].item)
             needed == Quantity(o, checkout[o].item)
  <2>1. UNCHANGED <<inventory, points, debits, timer, request>>
    BY <1>16 DEF ReadStock, CheckoutReads, dbVars, history
  <2>2. inventory[product] \in Int
    BY <1>a, LineFacts DEF TypeOK
  <2>3. CASE product \notin removed /\ inventory[product] >= needed
    <3>1. checkout' = [checkout EXCEPT ![o] = [@ EXCEPT !.pc = "writeStock", !.seen = inventory[product]]]
      BY <1>16, <2>3 DEF ReadStock, CheckoutReads
    <3>2. inventory[product] >= needed /\ "writePoints" # "writeStock"
      BY <2>3
    <3>3. QED
      BY <1>2, <2>1, <2>2, <3>1, <3>2, Zenon
  <2>4. CASE ~(product \notin removed /\ inventory[product] >= needed)
    <3>1. checkout' = [checkout EXCEPT ![o] = At("rejected")]
      BY <1>16, <2>4 DEF ReadStock, CheckoutReads
    <3>2. QED
      BY <1>1, <2>1, <3>1
  <2>5. QED
    BY <2>3, <2>4
<1>17. CASE WriteStock(o)
  <2> DEFINE i == checkout[o].item
  <2>1. Product(o, i) \in Products /\ checkout[o].seen - Quantity(o, i) \in Int
    BY <1>a, LineFacts
  <2>2. checkout[o].seen - Quantity(o, i) >= 0
    BY <1>17, <1>a, LineFacts DEF WriteStock, CheckoutSeen
  <2>3. SaveStock(Product(o, i), checkout[o].seen - Quantity(o, i))
    BY <1>17 DEF WriteStock
  <2>4. \A p \in Products : inventory'[p] >= 0
    BY <2>1, <2>2, <2>3, SaveStockSees
  <2>5. \A p \in Orders : CheckoutSeen(p)'
    BY <1>17, <1>a DEF WriteStock, At, CheckoutSeen
  <2>6. \A p \in Orders : TimerSeen(p)'
    BY <1>17 DEF WriteStock, TimerSeen, TypeOK, Timer
  <2>7. points' = points /\ debits' = debits /\ request' = request
    BY <1>17 DEF WriteStock
  <2>8. QED
    BY <1>a, <2>4, <2>5, <2>6, <2>7, RequestStays DEF NeverOverdrawn
<1>18. QED
  BY <1>4, <1>5, <1>6, <1>7, <1>8, <1>9, <1>10, <1>11, <1>12, <1>13, <1>14, <1>15, <1>16, <1>17
  DEF CheckoutStepOf

LEMMA RestartSees == TypeOK /\ SeenInv /\ Restart => SeenInv'
<1> SUFFICES ASSUME TypeOK, SeenInv, Restart PROVE SeenInv'
  OBVIOUS
<1>1. \A o \in Orders : CheckoutSeen(o)'
  BY DEF Restart, SeenInv, CheckoutSeen, At
<1>2. \A o \in Orders : TimerSeen(o)'
  BY DEF Restart, TimerSeen, NoTimer
<1>3. \A r \in Requests : RequestSeen(r)'
  BY DEF Restart, RequestSeen, Idle
<1>4. QED
  BY <1>1, <1>2, <1>3 DEF Restart, SeenInv, NeverOverdrawn, dbVars

LEMMA TimerSees ==
    ASSUME TypeOK, SeenInv, NEW o \in Orders, TimerStepOf(o)
    PROVE  SeenInv'
<1> USE DEF SeenInv
<1>a. /\ timer \in [Orders -> Timer] /\ debits \in Nat /\ points \in Int
      /\ timer[o].item \in Lines(o) /\ timer[o].seen \in Int /\ PointsOf[o] \in Int
  BY OrdersAssumption DEF TypeOK, Timer
<1>1. ASSUME NEW from, NEW to, TimerGoes(o, from, to), to \notin {"writeStock", "writePoints"},
             debits' \in Int, debits' >= debits
      PROVE  /\ \A i \in Orders : TimerSeen(i)' /\ CheckoutSeen(i)'
             /\ \A r \in Requests : RequestSeen(r)'
             /\ inventory' = inventory
  <2>1. timer[o].pc = from /\ timer' = [timer EXCEPT ![o] = [NoTimer EXCEPT !.pc = to]]
    BY <1>1 DEF TimerGoes
  <2>2. [NoTimer EXCEPT !.pc = to].pc = to
    BY DEF NoTimer
  <2>3. ASSUME NEW i \in Orders PROVE TimerSeen(i)'
    <3>1. timer[i].seen \in Int
      BY <1>a DEF Timer
    <3>2. QED
      BY <1>1, <1>a, <2>1, <2>2, <3>1 DEF TimerSeen
  <2>4. QED
    BY <1>1, <2>3, CheckoutStays, RequestStays DEF TimerGoes, stock
<1>2. ASSUME NEW from, NEW to, NEW value, TimerReads(o, from, to, value),
             to = "writeStock" => value >= 0, to = "writePoints" => value >= -debits
      PROVE  SeenInv'
  <2>1. PICK next : next = [timer[o] EXCEPT !.pc = to, !.seen = value]
    OBVIOUS
  <2>2. next.pc = to /\ next.seen = value
    BY <1>a, <2>1 DEF Timer
  <2>3. timer' = [timer EXCEPT ![o] = next]
    BY <1>2, <1>a, <2>1 DEF TimerReads
  <2>4. UNCHANGED <<inventory, points, debits, checkout, request>>
    BY <1>2 DEF TimerReads, dbVars, history
  <2>5. \A i \in Orders : TimerSeen(i)'
    BY <1>2, <1>a, <2>2, <2>3, <2>4 DEF TimerSeen
  <2>6. QED
    BY <1>a, <2>4, <2>5, CheckoutStays, RequestStays DEF NeverOverdrawn
<1>3. /\ AfterRefund(o) \notin {"writeStock", "writePoints"}
      /\ AfterRestock(o) \notin {"writeStock", "writePoints"}
  BY DEF AfterRefund, AfterRestock
<1>4. CASE Fire(o)
  BY <1>1, <1>4, <1>a DEF Fire, NeverOverdrawn, purse
<1>5. CASE CompareExpired(o)
  <2>1. UNCHANGED <<inventory, points, debits, checkout, request>>
    BY <1>5 DEF CompareExpired, dbVars, history
  <2>2. \A i \in Orders : TimerSeen(i)'
    BY <1>5, <1>a, <2>1 DEF CompareExpired, TimerSeen, NoTimer
  <2>3. QED
    BY <1>a, <2>1, <2>2, CheckoutStays, RequestStays DEF NeverOverdrawn
<1>6. CASE UpdateExpired(o)
  BY <1>1, <1>6, <1>a DEF UpdateExpired, NeverOverdrawn, purse
<1>7. CASE TimerReadStock(o)
  <2>1. inventory[Product(o, timer[o].item)] >= 0
    BY <1>a, LineFacts DEF NeverOverdrawn
  <2>2. QED
    BY <1>2, <1>7, <2>1 DEF TimerReadStock
<1>8. CASE TimerWriteStock(o)
  <2> DEFINE i == timer[o].item
  <2>1. Product(o, i) \in Products /\ timer[o].seen + Quantity(o, i) \in Int
    BY <1>a, LineFacts
  <2>2. timer[o].seen + Quantity(o, i) >= 0
    BY <1>8, <1>a, LineFacts DEF TimerWriteStock, TimerToNextItem, TimerSeen
  <2>3. SaveStock(Product(o, i), timer[o].seen + Quantity(o, i))
    BY <1>8 DEF TimerWriteStock, Restock
  <2>4. \A p \in Products : inventory'[p] >= 0
    BY <2>1, <2>2, <2>3, SaveStockSees
  <2>5. UNCHANGED <<points, debits, checkout, request>>
    BY <1>8 DEF TimerWriteStock, TimerToNextItem, purse
  <2>6. timer'[o].pc \notin {"writeStock", "writePoints"} /\ \A p \in Orders : p # o => timer'[p] = timer[p]
    BY <1>3, <1>8, <1>a DEF TimerWriteStock, TimerToNextItem, NoTimer
  <2>7. \A p \in Orders : TimerSeen(p)'
    BY <2>5, <2>6 DEF TimerSeen
  <2>8. QED
    BY <1>a, <2>4, <2>5, <2>7, CheckoutStays, RequestStays DEF NeverOverdrawn
<1>9. CASE TimerFindVoucher(o)
  BY <1>1, <1>9, <1>a DEF TimerFindVoucher, NeverOverdrawn, purse
<1>10. CASE TimerRefundVoucher(o)
  BY <1>1, <1>3, <1>10, <1>a DEF TimerRefundVoucher, NeverOverdrawn, purse
<1>11. CASE TimerReadPoints(o)
  BY <1>2, <1>11 DEF TimerReadPoints, NeverOverdrawn
<1>12. CASE TimerWritePoints(o)
  <2>1. points' >= -debits' /\ debits' \in Int /\ debits' >= debits
    <3>1. timer[o].seen >= -debits
      BY <1>12 DEF TimerWritePoints, TimerGoes, TimerSeen
    <3>2. QED
      BY <1>12, <1>a, <3>1, CreditSees DEF TimerWritePoints
  <2>2. TimerGoes(o, "writePoints", "off")
    BY <1>12 DEF TimerWritePoints
  <2>3. QED
    BY <1>1, <2>1, <2>2 DEF NeverOverdrawn
<1>13. CASE TimerThrows(o)
  BY <1>13, RestartSees DEF TimerThrows
<1>14. QED
  BY <1>4, <1>5, <1>6, <1>7, <1>8, <1>9, <1>10, <1>11, <1>12, <1>13 DEF TimerStepOf

LEMMA RequestSees ==
    ASSUME TypeOK, SeenInv, NEW r \in Requests, RequestStepOf(r)
    PROVE  SeenInv'
<1> DEFINE o == request[r].order
<1> USE DEF SeenInv
<1>a. /\ request \in [Requests -> Request] /\ debits \in Nat /\ points \in Int
      /\ \A q \in Requests : request[q].seen \in Int
  BY DEF TypeOK, Request
<1>1. ASSUME NEW call, request' = [request EXCEPT ![r] = call], debits' \in Int, debits' >= debits,
             call.pc = "writeStock" => call.seen >= 0,
             call.pc = "writePoints" => call.seen >= -debits'
      PROVE  \A q \in Requests : RequestSeen(q)'
  BY <1>1, <1>a DEF RequestSeen
<1>b. ASSUME NEW call, request' = [request EXCEPT ![r] = call], debits' = debits,
             call.pc = "writeStock" => call.seen >= 0,
             call.pc = "writePoints" => call.seen >= -debits
      PROVE  \A q \in Requests : RequestSeen(q)'
  BY <1>a, <1>b DEF RequestSeen
<1>2. ASSUME UNCHANGED <<checkout, timer, inventory, points, debits>>, \A q \in Requests : RequestSeen(q)'
      PROVE  SeenInv'
  BY <1>2, <1>a, CheckoutStays, TimerStays DEF NeverOverdrawn
<1>0. ASSUME request[r].pc \notin {"ready", "done"}
      PROVE  o \in Orders /\ request[r].item \in Lines(o)
  BY <1>0, RequestOrder
<1>3. \A pc \in RequestStep : To(r, pc).pc = pc
  BY <1>a, ToType
<1>4. Idle("done").pc = "done"
  BY DEF Idle
<1>5. CASE CancelReadsStock(r)
  <2> DEFINE stored == inventory[Product(o, request[r].item)]
             call == [request[r] EXCEPT !.pc = "writeStock", !.seen = stored]
  <2>1. stored >= 0
    BY <1>0, <1>5, LineFacts DEF CancelReadsStock, NeverOverdrawn
  <2>2. request' = [request EXCEPT ![r] = Idle("done")] \/ request' = [request EXCEPT ![r] = call]
    BY <1>5 DEF CancelReadsStock, Continue
  <2>a. UNCHANGED <<checkout, timer, inventory, points, debits>>
    BY <1>5 DEF CancelReadsStock, Continue, purse
  <2> HIDE DEF stored
  <2>b. call.pc = "writeStock" /\ call.seen = stored
    BY <1>a DEF Request
  <2> HIDE DEF call
  <2>3. \A q \in Requests : RequestSeen(q)'
    BY <1>1, <1>4, <1>a, <2>1, <2>2, <2>a, <2>b
  <2>4. QED
    BY <1>2, <2>3, <2>a
<1>6. CASE CancelWritesStock(r)
  <2> DEFINE i == request[r].item
  <2>1. /\ request' = [request EXCEPT ![r] = NextCancelCall(r)]
        /\ NextCancelCall(r).pc \notin {"writeStock", "writePoints"}
        /\ request[r].pc = "writeStock" /\ UNCHANGED <<points, debits, checkout, timer>>
    BY <1>6, NextCancelCallType DEF CancelWritesStock, NextCancelCall, purse
  <2>2. \A q \in Requests : RequestSeen(q)'
    BY <1>b, <2>1, Zenon
  <2>3. Product(o, i) \in Products /\ request[r].seen + Quantity(o, i) \in Int
    BY <1>0, <1>a, <2>1, LineFacts
  <2>4. request[r].seen + Quantity(o, i) >= 0
    BY <1>0, <1>a, <2>1, LineFacts DEF RequestSeen
  <2>5. SaveStock(Product(o, i), request[r].seen + Quantity(o, i))
    BY <1>6 DEF CancelWritesStock, Restock
  <2>6. \A p \in Products : inventory'[p] >= 0
    BY <2>3, <2>4, <2>5, SaveStockSees
  <2>7. QED
    BY <1>a, <2>1, <2>2, <2>6, CheckoutStays, TimerStays DEF NeverOverdrawn
<1>7. ASSUME NEW from, NEW to, to \notin {"writeStock", "writePoints"}, Compare(r, from, to)
      PROVE  SeenInv'
  <2> DEFINE call == [request[r] EXCEPT !.pc = to, !.dirty = Differing(o, request[r].entity)]
  <2>1. call.pc = to
    BY <1>a DEF Request
  <2>2. /\ request' = [request EXCEPT ![r] = Idle("done")] \/ request' = [request EXCEPT ![r] = call]
        /\ UNCHANGED <<checkout, timer, inventory, points, debits>>
    BY <1>7 DEF Compare, Continue, stock, purse
  <2> HIDE DEF call
  <2>3. \A q \in Requests : RequestSeen(q)'
    BY <1>1, <1>4, <1>7, <1>a, <2>1, <2>2
  <2>4. QED
    BY <1>2, <2>2, <2>3
<1>8. CASE CompareCancelled(r)
  BY <1>7, <1>8 DEF CompareCancelled
<1>9. CASE UpdateCancelled(r)
  <2>1. /\ request' = [request EXCEPT ![r] = To(r, "readPoints")] /\ To(r, "readPoints").pc = "readPoints"
        /\ UNCHANGED <<checkout, timer, inventory, points, debits>>
    BY <1>3, <1>9 DEF UpdateCancelled, Continue, RequestStep, stock, purse
  <2>2. \A q \in Requests : RequestSeen(q)'
    BY <1>b, <2>1, Zenon
  <2>3. QED
    BY <1>2, <2>1, <2>2
<1>10. CASE CancelReadsPoints(r)
  <2> DEFINE call == [request[r] EXCEPT !.pc = "writePoints", !.seen = points]
  <2>1. call.seen >= -debits /\ call.pc = "writePoints"
    BY <1>a DEF Request, NeverOverdrawn
  <2>2. /\ request' = [request EXCEPT ![r] = call]
        /\ UNCHANGED <<checkout, timer, inventory, points, debits>>
    BY <1>10 DEF CancelReadsPoints, Continue, stock, purse
  <2> HIDE DEF call
  <2>3. \A q \in Requests : RequestSeen(q)'
    BY <1>b, <2>1, <2>2, Zenon
  <2>4. QED
    BY <1>2, <2>2, <2>3
<1>11. CASE CancelWritesPoints(r)
  <2> DEFINE call == [To(r, "compareEntity") EXCEPT !.entity.paymentStatus = "REFUNDED"]
  <2>1. To(r, "compareEntity") \in Request /\ To(r, "compareEntity").pc = "compareEntity"
    BY <1>a, ToType DEF RequestStep
  <2>2. call.pc = "compareEntity"
    BY <2>1 DEF Request
  <2>3. /\ \/ request' = [request EXCEPT ![r] = call]
           \/ request' = [request EXCEPT ![r] = To(r, "compareEntity")]
        /\ Credit(request[r].seen, TotalOf[o]) \/ Credit(request[r].seen, PointsOf[o])
        /\ request[r].pc = "writePoints" /\ UNCHANGED <<checkout, timer, inventory>>
    BY <1>11 DEF CancelWritesPoints, Continue, stock
  <2> HIDE DEF call
  <2>4. PointsOf[o] \in Int /\ TotalOf[o] \in Int /\ request[r].seen >= -debits
    BY <1>0, <2>3, OrdersAssumption DEF RequestSeen
  <2>5. points' >= -debits' /\ debits' \in Int /\ debits' >= debits
    BY <1>a, <2>3, <2>4, CreditSees
  <2>6. \A q \in Requests : RequestSeen(q)'
    BY <1>1, <2>1, <2>2, <2>3, <2>5
  <2>7. QED
    BY <2>3, <2>5, <2>6, CheckoutStays, TimerStays DEF NeverOverdrawn
<1>12. CASE FindOrder(r)
  <2> DEFINE call == [request[r] EXCEPT !.pc = "compareEntity",
                        !.entity = [status |-> "PROCESSING", paymentStatus |-> "PAID"]]
  <2>1. call.pc = "compareEntity"
    BY <1>a DEF Request
  <2>2. /\ request' = [request EXCEPT ![r] = call]
        /\ UNCHANGED <<checkout, timer, inventory, points, debits>>
    BY <1>12 DEF FindOrder, Continue, stock, purse
  <2> HIDE DEF call
  <2>3. \A q \in Requests : RequestSeen(q)'
    BY <1>b, <2>1, <2>2, Zenon
  <2>4. QED
    BY <1>2, <2>2, <2>3
<1>13. CASE CompareEntity(r)
  BY <1>7, <1>13 DEF CompareEntity
<1>14. CASE UpdateEntity(r)
  <2>1. /\ request' = [request EXCEPT ![r] = Idle("done")]
        /\ UNCHANGED <<checkout, timer, inventory, points, debits>>
    BY <1>14 DEF UpdateEntity, Continue, stock, purse
  <2>2. \A q \in Requests : RequestSeen(q)'
    BY <1>b, <1>4, <2>1, Zenon
  <2>3. QED
    BY <1>2, <2>1, <2>2
<1>15. QED
  BY <1>5, <1>6, <1>8, <1>9, <1>10, <1>11, <1>12, <1>13, <1>14 DEF RequestStepOf

THEOREM StepSeen == TypeOK /\ SeenInv /\ [Next]_vars => SeenInv'
<1> SUFFICES ASSUME TypeOK, SeenInv, [Next]_vars PROVE SeenInv'
  OBVIOUS
<1>0. debits \in Nat
  BY DEF TypeOK
<1>1. ASSUME NEW o \in Orders, SubmitOrder(o) PROVE SeenInv'
  <2>1. /\ checkout' = [checkout EXCEPT ![o] = At("readCart")]
        /\ UNCHANGED <<inventory, points, debits, timer, request>>
    BY <1>1 DEF SubmitOrder, Advance, stock
  <2>2. \A i \in Orders : CheckoutSeen(i)'
    BY <2>1 DEF SeenInv, CheckoutSeen, At, TypeOK
  <2>3. QED
    BY <1>0, <2>1, <2>2, TimerStays, RequestStays DEF SeenInv, NeverOverdrawn
<1>2. ASSUME NEW r \in Requests, NEW o \in Orders, NEW call, Begin(r, o, call),
             call.pc \notin {"writeStock", "writePoints"}
      PROVE  SeenInv'
  <2>1. UNCHANGED <<inventory, points, debits, checkout, timer>>
    BY <1>2 DEF Begin, stock, purse
  <2>2. \A q \in Requests : RequestSeen(q)'
    BY <1>2, <2>1 DEF Begin, SeenInv, RequestSeen, TypeOK
  <2>3. QED
    BY <1>0, <2>1, <2>2, CheckoutStays, TimerStays DEF SeenInv, NeverOverdrawn
<1>3. ASSUME NEW r \in Requests, NEW o \in Orders, CancelOrder(r, o) PROVE SeenInv'
  <2>1. Begin(r, o, CancelCall(o))
    BY <1>3 DEF CancelOrder, CancelCall
  <2>2. QED
    BY <1>2, <2>1, CancelCallType
<1>4. ASSUME NEW r \in Requests, NEW o \in Orders, RecordTransfer(r, o) PROVE SeenInv'
  <2> DEFINE call == [Idle("findOrder") EXCEPT !.order = o]
  <2>1. call.pc = "findOrder" /\ Begin(r, o, call)
    BY <1>4 DEF RecordTransfer, Idle
  <2> HIDE DEF call
  <2>2. QED
    BY <1>2, <2>1
<1>5. ASSUME NEW r \in Requests, NEW o \in Orders, NEW status \in AdminStatuses, AdminUpdate(r, o, status)
      PROVE  SeenInv'
  <2>1. Begin(r, o, AdminCall(o, status))
    BY <1>5 DEF AdminUpdate, AdminCall
  <2>2. QED
    BY <1>2, <2>1, AdminCallType
<1>6. ASSUME UNCHANGED <<inventory, points, debits, checkout, timer, request>> PROVE SeenInv'
  BY <1>0, <1>6, CheckoutStays, TimerStays, RequestStays DEF SeenInv, NeverOverdrawn
<1>7. CASE AddToCart
  BY <1>6, <1>7 DEF AddToCart, history
<1>8. ASSUME NEW what \in Removable, Remove(what) PROVE SeenInv'
  BY <1>6, <1>8 DEF Remove, history
<1>9. CASE Crash
  BY <1>9, RestartSees DEF Crash
<1>10. CASE UNCHANGED vars
  BY <1>6, <1>10 DEF vars, dbVars, history
<1>11. QED
  BY <1>1, <1>3, <1>4, <1>5, <1>7, <1>8, <1>9, <1>10, CheckoutSees, TimerSees, RequestSees DEF Next

(* However checkouts, countdowns and other handlers interleave, crash and  *)
(* overwrite each other, no stock goes below zero, and the points no       *)
(* further than the negative amounts that were added to them.              *)
THEOREM OrdersNeverOverdrawn == Spec => []NeverOverdrawn
<1>1. SeenInv => NeverOverdrawn
  BY DEF SeenInv
<1>2. QED
  BY <1>1, InitType, StepType, InitSeen, StepSeen, PTL DEF Spec
-----------------------------------------------------------------------------
(* MoneyBacked.  A save writes what its entity says, so that has to be       *)
(* backed too, and an order the webhook is looking for has its transaction.  *)

CallBacked(r) ==
    /\ request[r].order \in BankingOrders
    /\ request[r].entity.paymentStatus # "UNPAID" \/ request[r].pc = "findOrder"
    => transfers[request[r].order] > 0

MoneyInv == MoneyBacked /\ \A r \in Requests : CallBacked(r)

THEOREM InitMoney == Init => MoneyInv
BY OrdersAssumption DEF Init, MoneyInv, MoneyBacked, CallBacked, Blank, Idle

\* Rows and entities change to what is backed; transactions are never deleted.
LEMMA MoneyKept ==
    ASSUME TypeOK, MoneyInv,
           \A o \in Orders : transfers[o] > 0 => transfers'[o] > 0,
           \A o \in BankingOrders :
              \/ row'[o].paymentStatus \in {row[o].paymentStatus, "UNPAID"}
              \/ transfers[o] > 0,
           \A r \in Requests : request'[r] = request[r] \/ CallBacked(r)'
    PROVE  MoneyInv'
<1>1. BankingOrders \subseteq Orders
  BY OrdersAssumption
<1>2. MoneyBacked'
  BY <1>1 DEF MoneyInv, MoneyBacked
<1>3. \A r \in Requests : CallBacked(r)'
  BY <1>1 DEF MoneyInv, CallBacked
<1>4. QED
  BY <1>2, <1>3 DEF MoneyInv

\* What a save leaves is the entity's or the row's payment status.
LEMMA SavedMoney ==
    ASSUME TypeOK, NEW o \in Orders, NEW entity, NEW dirty, UpdateRow(o, entity, dirty)
    PROVE  /\ row'[o].paymentStatus \in {row[o].paymentStatus, entity.paymentStatus}
           /\ \A i \in Orders : i # o => row'[i] = row[i]
BY DEF UpdateRow, Written, TypeOK

\* Steps that write no order row and no entity.
LEMMA MoneyStays ==
    ASSUME TypeOK, MoneyInv, UNCHANGED <<row, transfers, request>>
    PROVE  MoneyInv'
BY MoneyKept

LEMMA RestartMoney ==
    ASSUME TypeOK, MoneyInv, Restart
    PROVE  MoneyInv'
<1>1. \A r \in Requests : CallBacked(r)'
  BY OrdersAssumption DEF Restart, CallBacked, Idle
<1>2. QED
  BY <1>1 DEF Restart, dbVars, MoneyInv, MoneyBacked

LEMMA CheckoutMoney ==
    ASSUME TypeOK, MoneyInv, NEW o \in Orders, CheckoutStepOf(o)
    PROVE  MoneyInv'
<1>1. CASE SaveOrder(o)
  <2>1. /\ row'[o].paymentStatus = "UNPAID" /\ \A i \in Orders : i # o => row'[i] = row[i]
        /\ UNCHANGED <<transfers, request>>
    BY <1>1 DEF SaveOrder, Advance, TypeOK
  <2>2. QED
    BY <2>1, OrdersAssumption, MoneyKept
<1>2. CASE ~SaveOrder(o)
  <2>1. UNCHANGED <<row, transfers, request>>
    BY <1>2
    DEF CheckoutStepOf, ReadCart, CheckVoucher, ReadPoints, WritePoints, MakeQR, FindVoucher, UseVoucher,
        InsertVoucher, SaveItems, FindCart, EmptyCart, ReadStock, WriteStock, Advance, CheckoutReads, dbVars
  <2>2. QED
    BY <2>1, MoneyStays
<1>3. QED
  BY <1>1, <1>2

LEMMA TimerMoney ==
    ASSUME TypeOK, MoneyInv, NEW o \in Orders, TimerStepOf(o)
    PROVE  MoneyInv'
<1>1. CASE UpdateExpired(o)
  <2>1. /\ row'[o].paymentStatus \in {row[o].paymentStatus, "UNPAID"}
        /\ \A i \in Orders : i # o => row'[i] = row[i]
    BY <1>1, SavedMoney DEF UpdateExpired, Expired
  <2>2. UNCHANGED <<transfers, request>>
    BY <1>1 DEF UpdateExpired, TimerGoes
  <2>3. QED
    BY <2>1, <2>2, OrdersAssumption, MoneyKept
<1>2. CASE TimerThrows(o)
  BY <1>2, RestartMoney DEF TimerThrows
<1>3. CASE ~UpdateExpired(o) /\ ~TimerThrows(o)
  <2>1. UNCHANGED <<row, transfers, request>>
    BY <1>3
    DEF TimerStepOf, Fire, CompareExpired, TimerReadStock, TimerWriteStock, TimerFindVoucher,
        TimerRefundVoucher, TimerReadPoints, TimerWritePoints, TimerGoes, TimerReads, TimerToNextItem, dbVars
  <2>2. QED
    BY <2>1, MoneyStays
<1>4. QED
  BY <1>1, <1>2, <1>3

LEMMA RequestMoney ==
    ASSUME TypeOK, MoneyInv, NEW r \in Requests, RequestStepOf(r)
    PROVE  MoneyInv'
<1> DEFINE o == request[r].order
<1>a. request \in [Requests -> Request] /\ request[r] \in Request
  BY DEF TypeOK
<1>b. CallBacked(r)
  BY DEF MoneyInv
\* The entity stays as it was, or what it says was backed before.
<1>1. ASSUME NEW call, request' = [request EXCEPT ![r] = call], UNCHANGED <<row, transfers>>,
             call.order = o, call.pc # "findOrder",
             \/ call.entity.paymentStatus = request[r].entity.paymentStatus
             \/ o \in BankingOrders => transfers[o] > 0
      PROVE  MoneyInv'
  <2>1. CallBacked(r)'
    BY <1>1, <1>a, <1>b DEF CallBacked
  <2>2. \A q \in Requests : q # r => request'[q] = request[q]
    BY <1>1, <1>a
  <2>3. QED
    BY <1>1, <2>1, <2>2, MoneyKept
<1>2. ASSUME request' = [request EXCEPT ![r] = Idle("done")], UNCHANGED <<row, transfers>>
      PROVE  MoneyInv'
  <2>1. CallBacked(r)'
    BY <1>2, <1>a, OrdersAssumption DEF CallBacked, Idle
  <2>2. \A q \in Requests : q # r => request'[q] = request[q]
    BY <1>2, <1>a
  <2>3. QED
    BY <1>2, <2>1, <2>2, MoneyKept
<1>c. \A pc \in RequestStep : /\ To(r, pc).pc = pc /\ To(r, pc).order = o
                              /\ To(r, pc).entity = request[r].entity /\ To(r, pc) \in Request
  BY <1>a, ToType
<1>3. CASE CancelReadsStock(r)
  <2> DEFINE call == [request[r] EXCEPT !.pc = "writeStock",
                        !.seen = inventory[Product(o, request[r].item)]]
  <2>1. call.pc = "writeStock" /\ call.order = o /\ call.entity = request[r].entity
    BY <1>a DEF Request
  <2>2. /\ request' = [request EXCEPT ![r] = Idle("done")] \/ request' = [request EXCEPT ![r] = call]
        /\ UNCHANGED <<row, transfers>>
    BY <1>3 DEF CancelReadsStock, Continue
  <2> HIDE DEF call
  <2>3. QED
    BY <1>1, <1>2, <2>1, <2>2
<1>4. CASE CancelWritesStock(r)
  <2>1. /\ request' = [request EXCEPT ![r] = NextCancelCall(r)] /\ UNCHANGED <<row, transfers>>
        /\ request[r].pc = "writeStock"
    BY <1>4 DEF CancelWritesStock, NextCancelCall
  <2>2. /\ NextCancelCall(r).order = o /\ NextCancelCall(r).entity = request[r].entity
        /\ NextCancelCall(r).pc # "findOrder"
    BY <2>1, NextCancelCallType
  <2>3. QED
    BY <1>1, <2>1, <2>2
<1>5. ASSUME NEW from, NEW to, to # "findOrder", Compare(r, from, to)
      PROVE  MoneyInv'
  <2> DEFINE call == [request[r] EXCEPT !.pc = to, !.dirty = Differing(o, request[r].entity)]
  <2>1. call.pc = to /\ call.order = o /\ call.entity = request[r].entity
    BY <1>a DEF Request
  <2>2. /\ request' = [request EXCEPT ![r] = Idle("done")] \/ request' = [request EXCEPT ![r] = call]
        /\ UNCHANGED <<row, transfers>>
    BY <1>5 DEF Compare, Continue
  <2> HIDE DEF call
  <2>3. QED
    BY <1>1, <1>2, <1>5, <2>1, <2>2
<1>6. CASE CompareCancelled(r)
  BY <1>5, <1>6 DEF CompareCancelled
\* An update of the row: with the entity's payment status, which is backed.
<1>7. ASSUME NEW call, request' = [request EXCEPT ![r] = call], transfers' = transfers, o \in Orders,
             \/ call = Idle("done")
             \/ call.order = o /\ call.pc # "findOrder" /\ call.entity = request[r].entity,
             UpdateRow(o, request[r].entity, request[r].dirty)
      PROVE  MoneyInv'
  <2>1. CallBacked(r)'
    BY <1>7, <1>a, <1>b, OrdersAssumption DEF CallBacked, Idle
  <2>2. \A q \in Requests : q # r => request'[q] = request[q]
    BY <1>7, <1>a
  <2>3. /\ row'[o].paymentStatus \in {row[o].paymentStatus, request[r].entity.paymentStatus}
        /\ \A i \in Orders : i # o => row'[i] = row[i]
    BY <1>7, SavedMoney
  <2>4. \A i \in BankingOrders : \/ row'[i].paymentStatus \in {row[i].paymentStatus, "UNPAID"}
                                 \/ transfers[i] > 0
    BY <1>b, <2>3, OrdersAssumption DEF CallBacked
  <2>5. QED
    BY <1>7, <2>1, <2>2, <2>4, MoneyKept
<1>8. CASE UpdateCancelled(r)
  <2>1. /\ request' = [request EXCEPT ![r] = To(r, "readPoints")] /\ transfers' = transfers
        /\ UpdateRow(o, request[r].entity, request[r].dirty) /\ "readPoints" \in RequestStep
        /\ o \in Orders
    BY <1>8, RequestOrder DEF UpdateCancelled, Continue, RequestStep
  <2>2. QED
    BY <1>7, <1>c, <2>1
<1>9. CASE CancelReadsPoints(r)
  <2> DEFINE call == [request[r] EXCEPT !.pc = "writePoints", !.seen = points]
  <2>1. call.pc = "writePoints" /\ call.order = o /\ call.entity = request[r].entity
    BY <1>a DEF Request
  <2>2. request' = [request EXCEPT ![r] = call] /\ UNCHANGED <<row, transfers>>
    BY <1>9 DEF CancelReadsPoints, Continue
  <2> HIDE DEF call
  <2>3. QED
    BY <1>1, <2>1, <2>2
<1>10. CASE CancelWritesPoints(r)
  <2> DEFINE call == [To(r, "compareEntity") EXCEPT !.entity.paymentStatus = "REFUNDED"]
  <2>0. "compareEntity" \in RequestStep
    BY DEF RequestStep
  <2>1. call.pc = "compareEntity" /\ call.order = o
    BY <1>c, <2>0 DEF Request
  <2>2. UNCHANGED <<row, transfers>>
    BY <1>10 DEF CancelWritesPoints, Continue
  <2>3. CASE Paid(r)
    <3>1. transfers[o] > 0
      BY <1>b, <2>3 DEF Paid, CallBacked
    <3>2. request' = [request EXCEPT ![r] = call]
      BY <1>10, <2>3 DEF CancelWritesPoints, Continue
    <3> HIDE DEF call
    <3>3. QED
      BY <1>1, <2>1, <2>2, <3>1, <3>2
  <2>4. CASE ~Paid(r)
    <3>1. request' = [request EXCEPT ![r] = To(r, "compareEntity")]
      BY <1>10, <2>4 DEF CancelWritesPoints, Continue
    <3>2. QED
      BY <1>1, <1>c, <2>0, <2>2, <3>1
  <2>5. QED
    BY <2>3, <2>4
<1>11. CASE FindOrder(r)
  <2> DEFINE call == [request[r] EXCEPT !.pc = "compareEntity",
                        !.entity = [status |-> "PROCESSING", paymentStatus |-> "PAID"]]
  <2>1. call.pc = "compareEntity" /\ call.order = o
    BY <1>a DEF Request
  <2>2. request' = [request EXCEPT ![r] = call] /\ UNCHANGED <<row, transfers>>
    BY <1>11 DEF FindOrder, Continue
  <2>3. o \in BankingOrders => transfers[o] > 0
    BY <1>11, <1>b DEF FindOrder, Continue, CallBacked
  <2> HIDE DEF call
  <2>4. QED
    BY <1>1, <2>1, <2>2, <2>3
<1>12. CASE CompareEntity(r)
  BY <1>5, <1>12 DEF CompareEntity
<1>13. CASE UpdateEntity(r)
  <2>1. /\ request' = [request EXCEPT ![r] = Idle("done")] /\ transfers' = transfers
        /\ UpdateRow(o, request[r].entity, request[r].dirty) /\ o \in Orders
    BY <1>13, RequestOrder DEF UpdateEntity, Continue
  <2>2. QED
    BY <1>7, <2>1
<1>14. QED
  BY <1>3, <1>4, <1>6, <1>8, <1>9, <1>10, <1>11, <1>12, <1>13 DEF RequestStepOf

THEOREM StepMoney == TypeOK /\ MoneyInv /\ [Next]_vars => MoneyInv'
<1> SUFFICES ASSUME TypeOK, MoneyInv, [Next]_vars PROVE MoneyInv'
  OBVIOUS
<1>1. ASSUME NEW r \in Requests, NEW o \in Orders, NEW call, Begin(r, o, call),
             call.order = o, \A i \in Orders : transfers[i] > 0 => transfers'[i] > 0,
             \/ o \notin BankingOrders \/ transfers'[o] > 0
             \/ call.entity.paymentStatus = "UNPAID" /\ call.pc # "findOrder"
      PROVE  MoneyInv'
  <2>1. CallBacked(r)'
    BY <1>1 DEF Begin, CallBacked, TypeOK
  <2>2. (\A q \in Requests : q # r => request'[q] = request[q]) /\ row' = row
    BY <1>1 DEF Begin, TypeOK
  <2>3. QED
    BY <1>1, <2>1, <2>2, MoneyKept
<1>2. ASSUME NEW r \in Requests, NEW o \in Orders, CancelOrder(r, o) PROVE MoneyInv'
  <2>1. Begin(r, o, CancelCall(o)) /\ transfers' = transfers
    BY <1>2 DEF CancelOrder, CancelCall
  <2>2. CancelCall(o).entity.paymentStatus = row[o].paymentStatus
    <3>1. row[o] \in Entity /\ CancelCall(o).entity = [row[o] EXCEPT !.status = "CANCELLED"]
      BY CancelCallType DEF TypeOK
    <3>2. QED
      BY <3>1 DEF Entity
  <2>3. o \in BankingOrders => row[o].paymentStatus = "UNPAID" \/ transfers[o] > 0
    BY DEF MoneyInv, MoneyBacked
  <2>4. CancelCall(o).order = o /\ CancelCall(o).pc # "findOrder"
    BY CancelCallType
  <2>5. QED
    BY <1>1, <2>1, <2>2, <2>3, <2>4
<1>3. ASSUME NEW r \in Requests, NEW o \in Orders, RecordTransfer(r, o) PROVE MoneyInv'
  <2> DEFINE call == [Idle("findOrder") EXCEPT !.order = o]
  <2>1. Begin(r, o, call) /\ transfers' = [transfers EXCEPT ![o] = @ + 1]
    BY <1>3 DEF RecordTransfer
  <2>2. call.order = o
    BY DEF Idle
  <2>3. transfers'[o] > 0 /\ \A i \in Orders : transfers[i] > 0 => transfers'[i] > 0
    BY <2>1 DEF TypeOK
  <2> HIDE DEF call
  <2>4. QED
    BY <1>1, <2>1, <2>2, <2>3
<1>4. ASSUME NEW r \in Requests, NEW o \in Orders, NEW status \in AdminStatuses, AdminUpdate(r, o, status)
      PROVE  MoneyInv'
  <2>1. Begin(r, o, AdminCall(o, status)) /\ transfers' = transfers
    BY <1>4 DEF AdminUpdate, AdminCall
  <2>2. o \in BankingOrders => \/ AdminCall(o, status).entity.paymentStatus = "UNPAID"
                               \/ transfers[o] > 0
    BY AdminCallType DEF MoneyInv, MoneyBacked
  <2>3. AdminCall(o, status).order = o /\ AdminCall(o, status).pc # "findOrder"
    BY AdminCallType
  <2>4. QED
    BY <1>1, <2>1, <2>2, <2>3
<1>5. ASSUME NEW o \in Orders, SubmitOrder(o) PROVE MoneyInv'
  BY <1>5, MoneyStays DEF SubmitOrder, Advance
<1>6. CASE AddToCart
  BY <1>6, MoneyStays DEF AddToCart
<1>7. ASSUME NEW what \in Removable, Remove(what) PROVE MoneyInv'
  BY <1>7, MoneyStays DEF Remove
<1>8. CASE Crash
  BY <1>8, RestartMoney DEF Crash
<1>9. CASE UNCHANGED vars
  BY <1>9, MoneyStays DEF vars, dbVars
<1>10. QED
  BY <1>2, <1>3, <1>4, <1>5, <1>6, <1>7, <1>8, <1>9, CheckoutMoney, TimerMoney, RequestMoney DEF Next

(* No interleaving of checkouts, countdowns, cancellations, admin updates, *)
(* webhooks and restarts makes a banking order paid or refunded without a  *)
(* bank transaction.                                                       *)
THEOREM OrdersMoneyBacked == Spec => []MoneyBacked
<1>1. MoneyInv => MoneyBacked
  BY DEF MoneyInv
<1>2. QED
  BY <1>1, InitType, StepType, InitMoney, StepMoney, PTL DEF Spec
-----------------------------------------------------------------------------
(* VoucherHeld is inductive as it stands: who marks the voucher used takes   *)
(* it in the same query, and who gives it back marks it unused.              *)

LEMMA VoucherStays ==
    ASSUME VoucherHeld, voucher' = voucher,
           \A o \in Orders : "voucher" \in held[o] => "voucher" \in held'[o]
    PROVE  VoucherHeld'
BY DEF VoucherHeld

LEMMA CheckoutHolds ==
    ASSUME TypeOK, VoucherHeld, NEW o \in Orders, CheckoutStepOf(o)
    PROVE  VoucherHeld'
<1>1. ASSUME NEW what, Take(o, what)
      PROVE  /\ what \in held'[o]
             /\ \A i \in Orders : "voucher" \in held[i] => "voucher" \in held'[i]
  BY <1>1 DEF Take, TypeOK
<1>2. CASE UseVoucher(o)
  BY <1>1, <1>2 DEF UseVoucher, VoucherHeld
<1>3. CASE InsertVoucher(o)
  BY <1>1, <1>3 DEF InsertVoucher, VoucherHeld
<1>4. CASE WritePoints(o)
  <2>1. voucher' = voucher /\ Take(o, "points")
    BY <1>4 DEF WritePoints
  <2>2. QED
    BY <1>1, <2>1, VoucherStays
<1>5. CASE ~UseVoucher(o) /\ ~InsertVoucher(o) /\ ~WritePoints(o)
  <2>1. UNCHANGED <<voucher, held>>
    BY <1>5
    DEF CheckoutStepOf, ReadCart, CheckVoucher, ReadPoints, MakeQR, SaveOrder, FindVoucher, SaveItems,
        FindCart, EmptyCart, ReadStock, WriteStock, CheckoutReads, dbVars, history
  <2>2. QED
    BY <2>1, VoucherStays
<1>6. QED
  BY <1>2, <1>3, <1>4, <1>5

\* Giving the points back leaves the voucher where it is.
LEMMA OtherGivenBack ==
    ASSUME TypeOK, NEW o \in Orders, GiveBack(o, "points")
    PROVE  \A i \in Orders : "voucher" \in held[i] => "voucher" \in held'[i]
BY DEF GiveBack, TypeOK

LEMMA TimerHolds ==
    ASSUME TypeOK, VoucherHeld, NEW o \in Orders, TimerStepOf(o)
    PROVE  VoucherHeld'
<1>1. CASE TimerRefundVoucher(o)
  BY <1>1 DEF TimerRefundVoucher, VoucherHeld
<1>2. CASE TimerWritePoints(o)
  BY <1>2, OtherGivenBack, VoucherStays DEF TimerWritePoints
<1>3. CASE ~TimerRefundVoucher(o) /\ ~TimerWritePoints(o)
  <2>1. UNCHANGED <<voucher, held>>
    BY <1>3
    DEF TimerStepOf, Fire, CompareExpired, UpdateExpired, TimerReadStock, TimerWriteStock, TimerFindVoucher,
        TimerReadPoints, TimerThrows, Restart, TimerReads, TimerToNextItem, dbVars, history
  <2>2. QED
    BY <2>1, VoucherStays
<1>4. QED
  BY <1>1, <1>2, <1>3

LEMMA RequestHolds ==
    ASSUME TypeOK, VoucherHeld, NEW r \in Requests, RequestStepOf(r)
    PROVE  VoucherHeld'
<1> DEFINE o == request[r].order
<1>1. CASE CancelWritesPoints(r)
  <2>1. o \in Orders /\ voucher' = voucher
    BY <1>1, RequestOrder DEF CancelWritesPoints, Continue
  <2>2. held' = held \/ GiveBack(o, "points")
    BY <1>1 DEF CancelWritesPoints
  <2>3. QED
    BY <2>1, <2>2, OtherGivenBack, VoucherStays
<1>2. CASE ~CancelWritesPoints(r)
  <2>1. UNCHANGED <<voucher, held>>
    BY <1>2
    DEF RequestStepOf, CancelReadsStock, CancelWritesStock, CompareCancelled, UpdateCancelled,
        CancelReadsPoints, FindOrder, CompareEntity, UpdateEntity, Compare, Continue
  <2>2. QED
    BY <2>1, VoucherStays
<1>3. QED
  BY <1>1, <1>2

THEOREM StepVoucher == TypeOK /\ VoucherHeld /\ [Next]_vars => VoucherHeld'
<1> SUFFICES ASSUME TypeOK, VoucherHeld, [Next]_vars PROVE VoucherHeld'
  OBVIOUS
<1>1. ASSUME NEW r \in Requests, NEW o \in Orders, NEW call, Begin(r, o, call)
      PROVE  VoucherHeld'
  BY <1>1, VoucherStays DEF Begin
<1>2. ASSUME NEW r \in Requests, NEW o \in Orders, CancelOrder(r, o) \/ RecordTransfer(r, o)
      PROVE  VoucherHeld'
  BY <1>1, <1>2 DEF CancelOrder, RecordTransfer
<1>3. ASSUME NEW r \in Requests, NEW o \in Orders, NEW status \in AdminStatuses, AdminUpdate(r, o, status)
      PROVE  VoucherHeld'
  BY <1>1, <1>3 DEF AdminUpdate
<1>4. ASSUME NEW o \in Orders, SubmitOrder(o) PROVE VoucherHeld'
  BY <1>4, VoucherStays DEF SubmitOrder
<1>5. CASE AddToCart
  BY <1>5, VoucherStays DEF AddToCart, history
<1>6. ASSUME NEW what \in Removable, Remove(what) PROVE VoucherHeld'
  BY <1>6, VoucherStays DEF Remove, history
<1>7. CASE Crash
  BY <1>7, VoucherStays DEF Crash, Restart, dbVars
<1>8. CASE UNCHANGED vars
  BY <1>8, VoucherStays DEF vars, dbVars, history
<1>9. QED
  BY <1>2, <1>3, <1>4, <1>5, <1>6, <1>7, <1>8, CheckoutHolds, TimerHolds, RequestHolds DEF Next

(* However the checkouts, countdowns and cancellations of any number of    *)
(* orders interleave, and wherever a restart cuts them off, a voucher that *)
(* counts as used is held by some order.                                   *)
THEOREM OrdersVoucherHeld == Spec => []VoucherHeld
<1>1. Init => VoucherHeld
  BY OrdersAssumption DEF Init, VoucherHeld
<1>2. QED
  BY <1>1, InitType, StepType, StepVoucher, PTL DEF Spec
=============================================================================
