-------------------------- MODULE OrderLifeProofs --------------------------
(***************************************************************************)
(* What holds of an order as long as its handlers do not overlap, for any  *)
(* number of orders and calls: CountdownBacked, StockReturnedOnce,         *)
(* RefundsMatchPayments, and that Orders implements OrderPromise.  Other   *)
(* orders' handlers may interleave with its own in any way, and the        *)
(* process may restart.                                                    *)
(*                                                                         *)
(* The inductive invariant SerialInv says where the order's one handler    *)
(* can be and how what it holds (the entity, the dirty columns) relates to *)
(* the row.  It has to: a save in progress is right only because the row   *)
(* is still the one that was read.                                         *)
(***************************************************************************)
EXTENDS OrdersProofs

BeforeSaving == {"idle", "readCart", "checkVoucher", "readPoints", "writePoints", "makeQR", "saveOrder"}
AfterSaving == {"findVoucher", "useVoucher", "insertVoucher", "saveItems", "findCart", "emptyCart",
                "readStock", "writeStock"}
AfterItems == {"findCart", "emptyCart", "readStock", "writeStock", "done"}

Pending == [status |-> "PENDING", paymentStatus |-> "UNPAID"]
FreshRow(o) == [status |-> IF o \in BankingOrders THEN "PENDING" ELSE "PROCESSING",
                paymentStatus |-> "UNPAID"]
Unused(o) ==
    /\ revived[o] = 0 /\ refunds[o] = 0 /\ transfers[o] = 0
    /\ \A i \in Lines(o) : returned[o][i] = 0 /\ broken[o][i] = 0

\* Nobody but the checkout has seen an order that is being checked out.
CheckoutLife(o) ==
    /\ checkout[o].pc \in BeforeSaving => row[o] = Blank
    /\ checkout[o].pc \in AfterSaving => row[o] = FreshRow(o)
    /\ checkout[o].pc \in BeforeSaving \cup AfterSaving =>
          Handlers(o) = {} /\ timer[o].pc = "off" /\ Unused(o)
    /\ checkout[o].pc \in AfterItems => o \in itemRows
    /\ checkout[o].pc = "done" => row[o].status # "none"

\* A countdown that cancels is alone with its order, from reading the row on.
TimerLife(o) ==
    /\ timer[o].pc # "off" => checkout[o].pc = "done"
    /\ Counting(o) => Handlers(o) = {}
    /\ timer[o].pc \in {"compare", "update"} => row[o] = Pending
    /\ timer[o].pc = "update" => timer[o].dirty = Differing(o, Expired)
    /\ Counting(o) /\ timer[o].pc \notin {"compare", "update"} => row[o] = Expired

\* What the last save of a cancellation, an admin's update or a payment writes.
CancelGoal(o, entity) ==
    /\ entity.status = "CANCELLED" /\ row[o].status = "CANCELLED"
    /\ \/ row[o].paymentStatus = entity.paymentStatus
       \/ row[o].paymentStatus = "PAID" /\ entity.paymentStatus = "REFUNDED"
    /\ o \in BankingOrders => entity.paymentStatus # "PAID"

UpdateGoal(o, entity) ==
    /\ entity.status \in AdminStatuses
    /\ entity.paymentStatus = IF entity.status = "DELIVERED" /\ o \notin BankingOrders
                              THEN "PAID" ELSE row[o].paymentStatus

PayGoal(o, entity) ==
    o \in BankingOrders /\ entity = [status |-> "PROCESSING", paymentStatus |-> "PAID"]

Goal(o, entity) == CancelGoal(o, entity) \/ UpdateGoal(o, entity) \/ PayGoal(o, entity)

\* What call, at work on order o, holds.
Job(o, call) ==
    /\ call.bare => o \notin itemRows
    /\ call.pc \in {"readStock", "writeStock"} => o \in itemRows
    /\ call.pc \in {"readStock", "writeStock", "compareCancelled", "updateCancelled"} =>
          row[o].status \in Cancellable /\ call.entity = [row[o] EXCEPT !.status = "CANCELLED"]
    /\ call.pc \in {"readPoints", "writePoints"} =>
          row[o].status = "CANCELLED" /\ call.entity = row[o]
    /\ call.pc = "findOrder" => o \in BankingOrders /\ call.entity = Blank
    /\ call.pc \in {"compareEntity", "updateEntity"} => Goal(o, call.entity)
    /\ call.pc \in {"updateCancelled", "updateEntity"} => call.dirty = Differing(o, call.entity)

HandlerLife(o) ==
    \A r \in Handlers(o) : ~CheckingOut(o) /\ Handlers(o) = {r} /\ Job(o, request[r])

OrderLife(o) == CheckoutLife(o) /\ TimerLife(o) /\ HandlerLife(o)
SerialInv == \A o \in Orders \ disturbed : OrderLife(o)

THEOREM InitSerial == Init => SerialInv
<1> SUFFICES ASSUME Init, NEW o \in Orders PROVE OrderLife(o)
  BY DEF SerialInv
<1>1. Handlers(o) = {}
  BY OrdersAssumption DEF Init, Handlers, Idle
<1>2. checkout[o].pc = "idle" /\ timer[o].pc = "off"
  BY DEF Init, At, NoTimer
<1>3. row[o] = Blank /\ Unused(o)
  BY DEF Init, Unused
<1>4. QED
  BY <1>1, <1>2, <1>3
  DEF OrderLife, CheckoutLife, TimerLife, HandlerLife, BeforeSaving, AfterSaving, AfterItems, Counting
-----------------------------------------------------------------------------
(* Steps at other orders leave order o alone.                                *)

\* Nothing of order o changes but what its checkout, countdown and calls do to it.
SameOrder(o) ==
    /\ row'[o] = row[o] /\ transfers'[o] = transfers[o] /\ (o \in itemRows' <=> o \in itemRows)
    /\ held'[o] = held[o] /\ taken'[o] = taken[o] /\ returned'[o] = returned[o] /\ broken'[o] = broken[o]
    /\ refunds'[o] = refunds[o] /\ revived'[o] = revived[o]

SameCalls(o) ==
    Handlers(o)' = Handlers(o) /\ \A r \in Handlers(o) : request'[r] = request[r]

Apart(o) ==
    SameOrder(o) /\ SameCalls(o) /\ checkout'[o] = checkout[o] /\ timer'[o] = timer[o]

LEMMA ApartLife ==
    ASSUME NEW o \in Orders, OrderLife(o), Apart(o)
    PROVE  OrderLife(o)'
<1> USE DEF Apart, SameOrder, OrderLife
<1>1. CheckoutLife(o)'
  BY DEF CheckoutLife, SameCalls, Unused, FreshRow
<1>2. TimerLife(o)'
  BY DEF TimerLife, SameCalls, Counting, Differing
<1>3. HandlerLife(o)'
  <2>1. ASSUME NEW r \in Handlers(o) PROVE Job(o, request[r])'
    <3>1. Job(o, request[r]) /\ request'[r] = request[r]
      BY <2>1 DEF HandlerLife, SameCalls
    <3>2. Goal(o, request[r].entity) => Goal(o, request[r].entity)'
      BY <3>1 DEF Goal, CancelGoal, UpdateGoal, PayGoal
    <3>3. Differing(o, request[r].entity)' = Differing(o, request[r].entity)
      BY <3>1 DEF Differing
    <3>4. QED
      BY <3>1, <3>2, <3>3 DEF Job
  <2>2. QED
    BY <2>1 DEF HandlerLife, SameCalls, CheckingOut
<1>4. QED
  BY <1>1, <1>2, <1>3

LEMMA CallsStay == request' = request => \A o \in Orders : SameCalls(o)
BY DEF SameCalls, Handlers

LEMMA CallElsewhere ==
    ASSUME NEW o \in Orders, NEW r \in Requests, request[r].order # o, request'[r].order # o,
           \A q \in Requests : q # r => request'[q] = request[q]
    PROVE  SameCalls(o)
BY DEF SameCalls, Handlers

LEMMA CheckoutApart ==
    ASSUME TypeOK, NEW o \in Orders, NEW i \in Orders, i # o, SubmitOrder(i) \/ CheckoutStepOf(i)
    PROVE  Apart(o)
<1>1. request' = request /\ UNCHANGED <<transfers, returned, broken, refunds, revived>>
  BY DEF SubmitOrder, CheckoutStepOf, ReadCart, CheckVoucher, ReadPoints, WritePoints, MakeQR, SaveOrder,
     FindVoucher, UseVoucher, InsertVoucher, SaveItems, FindCart, EmptyCart, ReadStock, WriteStock,
     Advance, CheckoutReads, stock, dbVars, history
<1>2. checkout'[o] = checkout[o] /\ timer'[o] = timer[o]
  BY DEF SubmitOrder, CheckoutStepOf, ReadCart, CheckVoucher, ReadPoints, WritePoints, MakeQR, SaveOrder,
     FindVoucher, UseVoucher, InsertVoucher, SaveItems, FindCart, EmptyCart, ReadStock, WriteStock,
     Advance, CheckoutReads, TypeOK
<1>3. row'[o] = row[o] /\ (o \in itemRows' <=> o \in itemRows)
  BY DEF SubmitOrder, CheckoutStepOf, ReadCart, CheckVoucher, ReadPoints, WritePoints, MakeQR, SaveOrder,
     FindVoucher, UseVoucher, InsertVoucher, SaveItems, FindCart, EmptyCart, ReadStock, WriteStock,
     CheckoutReads, dbVars, TypeOK
<1>4. held'[o] = held[o] /\ taken'[o] = taken[o]
  BY DEF SubmitOrder, CheckoutStepOf, ReadCart, CheckVoucher, ReadPoints, WritePoints, MakeQR, SaveOrder,
     FindVoucher, UseVoucher, InsertVoucher, SaveItems, FindCart, EmptyCart, ReadStock, WriteStock,
     Advance, CheckoutReads, Take, stock, history, TypeOK
<1>5. QED
  BY <1>1, <1>2, <1>3, <1>4, CallsStay DEF Apart, SameOrder

LEMMA SavedElsewhere ==
    ASSUME TypeOK, NEW o \in Orders, NEW i \in Orders, i # o, NEW entity, NEW dirty,
           UpdateRow(i, entity, dirty)
    PROVE  row'[o] = row[o] /\ revived'[o] = revived[o]
BY DEF UpdateRow, TypeOK

LEMMA TimerApart ==
    ASSUME TypeOK, NEW o \in Orders, NEW i \in Orders, i # o, TimerStepOf(i), ~TimerThrows(i)
    PROVE  Apart(o)
<1>1. request' = request /\ UNCHANGED <<transfers, itemRows, refunds, checkout>>
  BY DEF TimerStepOf, Fire, CompareExpired, UpdateExpired, TimerReadStock, TimerWriteStock, TimerFindVoucher,
     TimerToNextItem, TimerRefundVoucher, TimerReadPoints, TimerWritePoints, TimerGoes, TimerReads, dbVars, history
<1>2. timer'[o] = timer[o]
  BY DEF TimerStepOf, Fire, CompareExpired, UpdateExpired, TimerReadStock, TimerWriteStock, TimerFindVoucher,
     TimerToNextItem, TimerRefundVoucher, TimerReadPoints, TimerWritePoints, TimerGoes, TimerReads, TypeOK
<1>3. row'[o] = row[o] /\ revived'[o] = revived[o]
  <2>1. CASE UpdateExpired(i)
    BY <2>1, SavedElsewhere DEF UpdateExpired
  <2>2. CASE ~UpdateExpired(i)
    BY <2>2 DEF TimerStepOf, Fire, CompareExpired, TimerReadStock, TimerWriteStock, TimerFindVoucher,
       TimerToNextItem, TimerRefundVoucher, TimerReadPoints, TimerWritePoints, TimerReads, dbVars, history
  <2>3. QED
    BY <2>1, <2>2
<1>4. /\ held'[o] = held[o] /\ taken'[o] = taken[o]
      /\ returned'[o] = returned[o] /\ broken'[o] = broken[o]
  <2>1. CASE TimerWriteStock(i)
    BY <2>1 DEF TimerWriteStock, TimerToNextItem, Restock, TypeOK
  <2>2. CASE ~TimerWriteStock(i)
    BY <2>2 DEF TimerStepOf, Fire, CompareExpired, UpdateExpired, TimerReadStock, TimerFindVoucher,
       TimerRefundVoucher, TimerReadPoints, TimerWritePoints, TimerGoes, TimerReads, GiveBack, stock, history,
       TypeOK
  <2>3. QED
    BY <2>1, <2>2
<1>5. QED
  BY <1>1, <1>2, <1>3, <1>4, CallsStay DEF Apart, SameOrder

LEMMA RequestApart ==
    ASSUME TypeOK, NEW o \in Orders, NEW r \in Requests, request[r].order # o, RequestStepOf(r)
    PROVE  Apart(o)
<1> DEFINE i == request[r].order
<1>0. request[r] \in Request /\ i \in Orders
  <2>1. request[r].pc \notin {"ready", "done"}
    BY DEF RequestStepOf, CancelReadsStock, CancelWritesStock, CompareCancelled, UpdateCancelled,
       CancelReadsPoints, CancelWritesPoints, FindOrder, CompareEntity, UpdateEntity, Compare, Continue
  <2>2. QED
    BY <2>1, RequestOrder DEF TypeOK
<1>1. UNCHANGED <<transfers, itemRows, checkout, timer>>
  BY DEF RequestStepOf, CancelReadsStock, CancelWritesStock, CompareCancelled, UpdateCancelled,
     CancelReadsPoints, CancelWritesPoints, FindOrder, CompareEntity, UpdateEntity, Compare, Continue
<1>2. row'[o] = row[o] /\ revived'[o] = revived[o]
  <2>1. CASE UpdateCancelled(r) \/ UpdateEntity(r)
    BY <1>0, <2>1, SavedElsewhere DEF UpdateCancelled, UpdateEntity
  <2>2. CASE ~UpdateCancelled(r) /\ ~UpdateEntity(r)
    BY <2>2 DEF RequestStepOf, CancelReadsStock, CancelWritesStock, CompareCancelled,
       CancelReadsPoints, CancelWritesPoints, FindOrder, CompareEntity, Compare
  <2>3. QED
    BY <2>1, <2>2
<1>3. /\ held'[o] = held[o] /\ taken'[o] = taken[o] /\ refunds'[o] = refunds[o]
      /\ returned'[o] = returned[o] /\ broken'[o] = broken[o]
  BY DEF RequestStepOf, CancelReadsStock, CancelWritesStock, CompareCancelled, UpdateCancelled,
     CancelReadsPoints, CancelWritesPoints, FindOrder, CompareEntity, UpdateEntity, Compare, Restock,
     GiveBack, stock, TypeOK
<1>4. \A q \in Requests : q # r => request'[q] = request[q]
  BY DEF RequestStepOf, CancelReadsStock, CancelWritesStock, CompareCancelled, UpdateCancelled,
     CancelReadsPoints, CancelWritesPoints, FindOrder, CompareEntity, UpdateEntity, Compare, Continue, TypeOK
<1>5. request'[r].order \in {i, NoOrder}
  <2>1. Idle("done").order = NoOrder /\ request \in [Requests -> Request]
    BY DEF Idle, TypeOK
  <2>2. /\ \A pc \in RequestStep : To(r, pc) \in Request /\ To(r, pc).order = i
        /\ {"compareCancelled", "readPoints", "compareEntity"} \subseteq RequestStep
    BY <1>0, ToType DEF RequestStep
  <2>3. CASE CancelReadsStock(r)
    <3>1. \A seen : [request[r] EXCEPT !.pc = "writeStock", !.seen = seen].order = i
      BY <1>0 DEF Request
    <3>2. QED
      BY <2>1, <2>3, <3>1 DEF CancelReadsStock, Continue
  <2>8. CASE CancelReadsPoints(r)
    BY <1>0, <2>1, <2>8 DEF CancelReadsPoints, Continue, Request
  <2>9. CASE FindOrder(r)
    BY <1>0, <2>1, <2>9 DEF FindOrder, Continue, Request
  <2>4. CASE CancelWritesStock(r) \/ UpdateCancelled(r)
    <3>1. \/ request' = [request EXCEPT ![r] = NextCancelCall(r)] /\ request[r].pc = "writeStock"
          \/ request' = [request EXCEPT ![r] = To(r, "readPoints")]
      BY <2>4 DEF CancelWritesStock, UpdateCancelled, Continue, NextCancelCall
    <3>2. QED
      BY <2>1, <2>2, <3>1, NextCancelCallType
  <2>5. ASSUME NEW from, NEW to, Compare(r, from, to)
        PROVE  request'[r].order \in {i, NoOrder}
    BY <1>0, <2>1, <2>5 DEF Compare, Continue, Request
  <2>6. CASE CancelWritesPoints(r)
    <3>1. [To(r, "compareEntity") EXCEPT !.entity.paymentStatus = "REFUNDED"].order = i
      BY <2>2 DEF Request
    <3>2. QED
      BY <2>1, <2>2, <2>6, <3>1 DEF CancelWritesPoints, Continue
  <2>7. CASE UpdateEntity(r)
    BY <2>1, <2>7 DEF UpdateEntity, Continue
  <2>10. QED
    BY <2>3, <2>4, <2>5, <2>6, <2>7, <2>8, <2>9 DEF RequestStepOf, CompareCancelled, CompareEntity
<1>6. SameCalls(o)
  BY <1>4, <1>5, CallElsewhere, OrdersAssumption
<1>7. QED
  BY <1>1, <1>2, <1>3, <1>6 DEF Apart, SameOrder

LEMMA BeginApart ==
    ASSUME TypeOK, NEW o \in Orders, NEW i \in Orders, i # o, NEW r \in Requests, NEW call,
           call.order = i, Begin(r, i, call), transfers'[o] = transfers[o]
    PROVE  Apart(o)
<1>1. request[r].order # o
  BY OrdersAssumption DEF Begin, TypeOK
<1>2. SameCalls(o)
  BY <1>1, CallElsewhere DEF Begin, TypeOK
<1>3. QED
  BY <1>2 DEF Apart, SameOrder, Begin, stock

LEMMA NobodyApart ==
    ASSUME TypeOK, NEW o \in Orders,
           AddToCart \/ (\E what \in Removable : Remove(what)) \/ UNCHANGED vars
    PROVE  Apart(o)
BY CallsStay DEF AddToCart, Remove, vars, dbVars, history, Apart, SameOrder
-----------------------------------------------------------------------------
(* Steps at order o itself.                                                  *)

LEMMA CheckoutLives ==
    ASSUME TypeOK, NEW o \in Orders, OrderLife(o), SubmitOrder(o) \/ CheckoutStepOf(o)
    PROVE  OrderLife(o)'
<1> USE DEF OrderLife
<1>a. checkout \in [Orders -> Checkout] /\ timer \in [Orders -> Timer]
  BY DEF TypeOK
\* It is enough to know the row and the items when the checkout has moved on.
<1>b. ASSUME checkout[o].pc \in BeforeSaving \cup AfterSaving,
             UNCHANGED <<request, returned, broken, revived, refunds, transfers>>,
             \/ timer'[o] = timer[o]
             \/ timer'[o].pc = "armed" /\ checkout'[o].pc = "done",
             checkout'[o].pc \in BeforeSaving => row'[o] = Blank,
             checkout'[o].pc \in AfterSaving \cup {"done"} => row'[o] = FreshRow(o),
             checkout'[o].pc \in AfterItems => o \in itemRows'
      PROVE  OrderLife(o)'
  <2>1. Handlers(o)' = {} /\ Unused(o)' /\ timer[o].pc = "off"
    BY <1>b DEF CheckoutLife, Handlers, Unused
  <2>2. CheckoutLife(o)'
    <3>1. FreshRow(o)' = FreshRow(o) /\ FreshRow(o).status # "none"
      BY DEF FreshRow
    <3>2. checkout'[o].pc \in BeforeSaving \cup AfterSaving => timer'[o].pc = "off"
      BY <1>b, <2>1 DEF BeforeSaving, AfterSaving
    <3>3. QED
      BY <1>b, <2>1, <3>1, <3>2 DEF CheckoutLife
  <2>3. TimerLife(o)'
    BY <1>b, <2>1 DEF TimerLife, Counting
  <2>4. HandlerLife(o)'
    BY <2>1 DEF HandlerLife
  <2>5. QED
    BY <2>2, <2>3, <2>4
<1>c. ASSUME NEW from, NEW to, NEW ok, Advance(o, from, to, ok)
      PROVE  /\ checkout[o].pc = from /\ checkout'[o].pc \in {to, "rejected"}
             /\ UNCHANGED <<request, returned, broken, revived, refunds, transfers>>
  BY <1>c, <1>a DEF Advance, At, stock
<1>d. ASSUME NEW from, NEW to, NEW value, NEW needed, NEW ok, CheckoutReads(o, from, to, value, needed, ok)
      PROVE  /\ checkout[o].pc = from /\ checkout'[o].pc \in {to, "rejected"}
             /\ UNCHANGED <<request, returned, broken, revived, refunds, transfers, timer, row, itemRows>>
  BY <1>d, <1>a DEF CheckoutReads, At, dbVars, history
<1>e. /\ BeforeSave(o) \in BeforeSaving /\ BeforePoints(o) \in BeforeSaving
      /\ AfterCart(o) \in BeforeSaving /\ AfterSave(o) \in AfterSaving \ AfterItems
  BY DEF BeforeSave, BeforePoints, AfterCart, AfterSave, BeforeSaving, AfterSaving, AfterItems
<1>f. "rejected" \notin BeforeSaving \cup AfterSaving \cup AfterItems
  BY DEF BeforeSaving, AfterSaving, AfterItems
\* Until the row is inserted, and after.
<1>1. ASSUME NEW from \in BeforeSaving, NEW to \in BeforeSaving,
             checkout[o].pc = from, checkout'[o].pc \in {to, "rejected"},
             UNCHANGED <<request, returned, broken, revived, refunds, transfers, timer, row, itemRows>>
      PROVE  OrderLife(o)'
  <2>1. row[o] = Blank
    BY <1>1 DEF CheckoutLife
  <2>2. checkout'[o].pc \notin AfterSaving \cup {"done"} \cup AfterItems
    BY <1>1, <1>f DEF BeforeSaving, AfterSaving, AfterItems
  <2>3. QED
    BY <1>1, <1>b, <2>1, <2>2
<1>2. ASSUME NEW from \in AfterSaving, NEW to \in AfterSaving,
             checkout[o].pc = from, checkout'[o].pc \in {to, "rejected"},
             UNCHANGED <<request, returned, broken, revived, refunds, transfers, timer, row>>,
             from \in AfterItems => itemRows' = itemRows,
             from \notin AfterItems /\ to \in AfterItems => o \in itemRows'
      PROVE  OrderLife(o)'
  <2>1. row[o] = FreshRow(o) /\ (from \in AfterItems => o \in itemRows)
    BY <1>2 DEF CheckoutLife
  <2>2. checkout'[o].pc \notin BeforeSaving
    BY <1>2, <1>f DEF BeforeSaving, AfterSaving
  <2>3. checkout'[o].pc \in AfterItems => o \in itemRows'
    BY <1>2, <1>f, <2>1
  <2>4. QED
    BY <1>2, <1>b, <2>1, <2>2, <2>3
<1>h. ASSUME NEW from \in BeforeSaving, NEW to \in BeforeSaving, NEW ok, Advance(o, from, to, ok),
             UNCHANGED <<timer, row, itemRows>>
      PROVE  OrderLife(o)'
  BY <1>1, <1>c, <1>h
<1>3. CASE SubmitOrder(o) \/ ReadCart(o) \/ CheckVoucher(o) \/ WritePoints(o) \/ MakeQR(o)
  <2>1. /\ {"idle", "readCart", "checkVoucher", "writePoints", "makeQR", "saveOrder"} \subseteq BeforeSaving
        /\ UNCHANGED <<timer, row, itemRows>>
    BY <1>3 DEF SubmitOrder, ReadCart, CheckVoucher, WritePoints, MakeQR, BeforeSaving
  <2>2. CASE SubmitOrder(o)
    <3>1. Advance(o, "idle", "readCart", TRUE)
      BY <2>2 DEF SubmitOrder
    <3>2. QED
      BY <1>h, <2>1, <3>1
  <2>3. CASE ReadCart(o)
    <3>1. Advance(o, "readCart", AfterCart(o), cartFull)
      BY <2>3 DEF ReadCart
    <3>2. QED
      BY <1>h, <1>e, <2>1, <3>1
  <2>4. CASE CheckVoucher(o)
    <3>1. \E ok : Advance(o, "checkVoucher", BeforePoints(o), ok)
      BY <2>4 DEF CheckVoucher
    <3>2. QED
      BY <1>h, <1>e, <2>1, <3>1
  <2>5. CASE WritePoints(o)
    <3>1. Advance(o, "writePoints", BeforeSave(o), TRUE)
      BY <2>5 DEF WritePoints
    <3>2. QED
      BY <1>h, <1>e, <2>1, <3>1
  <2>6. CASE MakeQR(o)
    <3>1. \E ok : Advance(o, "makeQR", "saveOrder", ok)
      BY <2>6 DEF MakeQR
    <3>2. QED
      BY <1>h, <2>1, <3>1
  <2>7. QED
    BY <1>3, <2>2, <2>3, <2>4, <2>5, <2>6
<1>4. CASE ReadPoints(o)
  BY <1>1, <1>4, <1>d DEF ReadPoints, BeforeSaving
<1>5. CASE SaveOrder(o)
  <2>1. /\ checkout[o].pc = "saveOrder" /\ checkout'[o].pc \in {AfterSave(o), "rejected"}
        /\ UNCHANGED <<request, returned, broken, revived, refunds, transfers, timer>>
    BY <1>5, <1>c DEF SaveOrder
  <2>2. row'[o] = FreshRow(o)
    BY <1>5 DEF SaveOrder, FreshRow, TypeOK
  <2>3. checkout'[o].pc \notin BeforeSaving \cup AfterItems
    BY <2>1, <1>e, <1>f DEF BeforeSaving, AfterSaving
  <2>4. QED
    BY <1>b, <2>1, <2>2, <2>3 DEF BeforeSaving
<1>6. CASE FindVoucher(o) \/ UseVoucher(o) \/ InsertVoucher(o)
  <2>1. \E from, to \in AfterSaving \ AfterItems : \E ok \in BOOLEAN : Advance(o, from, to, ok)
    BY <1>6 DEF FindVoucher, UseVoucher, InsertVoucher, AfterSaving, AfterItems, VoucherUser
  <2>2. UNCHANGED <<timer, row>>
    BY <1>6 DEF FindVoucher, UseVoucher, InsertVoucher
  <2>3. QED
    BY <1>2, <1>c, <2>1, <2>2
<1>7. CASE SaveItems(o)
  BY <1>2, <1>7, <1>c DEF SaveItems, AfterSaving, AfterItems
<1>8. CASE FindCart(o) \/ EmptyCart(o)
  <2>0. cartFull \in BOOLEAN
    BY DEF TypeOK
  <2>1. \E from, to \in AfterSaving \cap AfterItems : \E ok \in BOOLEAN : Advance(o, from, to, ok)
    BY <1>8, <2>0 DEF FindCart, EmptyCart, AfterSaving, AfterItems
  <2>2. UNCHANGED <<timer, row, itemRows>>
    BY <1>8 DEF FindCart, EmptyCart
  <2>3. QED
    BY <1>2, <1>c, <2>1, <2>2
<1>9. CASE ReadStock(o)
  BY <1>2, <1>9, <1>d DEF ReadStock, AfterSaving, AfterItems
<1>10. CASE WriteStock(o)
  <2>1. /\ checkout[o].pc = "writeStock" /\ checkout'[o].pc \in {"readStock", "done"}
        /\ UNCHANGED <<request, returned, broken, revived, refunds, transfers, row, itemRows>>
    BY <1>10, <1>a DEF WriteStock, At
  <2>2. \/ timer'[o] = timer[o]
        \/ timer'[o].pc = "armed" /\ checkout'[o].pc = "done"
    BY <1>10, <1>a DEF WriteStock, Timer, At
  <2>3. row[o] = FreshRow(o) /\ o \in itemRows
    BY <2>1 DEF CheckoutLife, AfterSaving, AfterItems
  <2>4. QED
    BY <1>b, <2>1, <2>2, <2>3 DEF BeforeSaving, AfterSaving
<1>11. QED
  BY <1>3, <1>4, <1>5, <1>6, <1>7, <1>8, <1>9, <1>10 DEF CheckoutStepOf

\* A save that compared the row as it still is makes the row what the entity is.
LEMMA SaveWrites ==
    ASSUME TypeOK, NEW o \in Orders, NEW entity \in Entity
    PROVE  Written(o, entity, Differing(o, entity)) = entity
BY DEF TypeOK, Written, Differing, Column, Entity

LEMMA RowSaved ==
    ASSUME TypeOK, NEW o \in Orders, NEW entity \in Entity,
           UpdateRow(o, entity, Differing(o, entity))
    PROVE  /\ row'[o] = entity
           /\ revived'[o] = IF row[o].status = "CANCELLED" /\ entity.status # "CANCELLED"
                            THEN revived[o] + 1 ELSE revived[o]
BY SaveWrites DEF UpdateRow, TypeOK

\* Calls keep their job while row and items stay.
LEMMA HandlersStay ==
    ASSUME NEW o \in Orders, HandlerLife(o), UNCHANGED <<request, itemRows>>, row'[o] = row[o],
           CheckingOut(o)' = CheckingOut(o)
    PROVE  HandlerLife(o)'
<1>1. ASSUME NEW r \in Handlers(o) PROVE Job(o, request[r])'
  <2>1. Job(o, request[r])
    BY <1>1 DEF HandlerLife
  <2>2. Goal(o, request[r].entity) => Goal(o, request[r].entity)'
    BY DEF Goal, CancelGoal, UpdateGoal, PayGoal
  <2>3. Differing(o, request[r].entity)' = Differing(o, request[r].entity)
    BY DEF Differing
  <2>4. QED
    BY <2>1, <2>2, <2>3 DEF Job
<1>2. Handlers(o)' = Handlers(o)
  BY DEF Handlers
<1>3. QED
  BY <1>1, <1>2 DEF HandlerLife

LEMMA TimerLives ==
    ASSUME TypeOK, NEW o \in Orders, OrderLife(o), TimerStepOf(o), ~TimerThrows(o), o \notin disturbed'
    PROVE  OrderLife(o)'
<1>0. CheckoutLife(o) /\ TimerLife(o) /\ HandlerLife(o)
  BY DEF OrderLife
<1>a. timer \in [Orders -> Timer] /\ timer[o] \in Timer
  BY DEF TypeOK
<1>b. UNCHANGED <<request, checkout, itemRows, transfers, refunds>>
  BY DEF TimerStepOf, Fire, CompareExpired, UpdateExpired, TimerReadStock, TimerWriteStock, TimerToNextItem,
     TimerFindVoucher, TimerRefundVoucher, TimerReadPoints, TimerWritePoints, TimerGoes, TimerReads, dbVars, history
<1>c. timer[o].pc # "off" /\ checkout[o].pc = "done"
  BY <1>0 DEF TimerLife, TimerStepOf, Fire, CompareExpired, UpdateExpired, TimerReadStock, TimerWriteStock,
     TimerToNextItem, TimerFindVoucher, TimerRefundVoucher, TimerReadPoints, TimerWritePoints, TimerGoes, TimerReads
\* It is enough to look at where the countdown stands and at the row.
<1>d. ASSUME row'[o] = row[o] \/ (Handlers(o) = {} /\ row'[o] = Expired)
      PROVE  TimerLife(o)' => OrderLife(o)'
  <2>1. CheckoutLife(o)'
    BY <1>0, <1>b, <1>c, <1>d DEF CheckoutLife, BeforeSaving, AfterSaving, Expired
  <2>2. HandlerLife(o)'
    <3>1. CASE row'[o] = row[o]
      BY <1>0, <1>b, <3>1, HandlersStay DEF CheckingOut
    <3>2. CASE Handlers(o) = {}
      BY <1>0, <1>b, <3>2 DEF HandlerLife, Handlers
    <3>3. QED
      BY <1>d, <3>1, <3>2
  <2>3. QED
    BY <2>1, <2>2 DEF OrderLife
<1>e. Handlers(o)' = Handlers(o)
  BY <1>b DEF Handlers
<1>1. CASE Fire(o)
  <2>1. timer'[o].pc \in {"compare", "off"} /\ row'[o] = row[o]
    BY <1>1, <1>a DEF Fire, TimerGoes, NoTimer
  <2>2. timer'[o].pc = "compare" => row[o] = Pending /\ Handlers(o) = {}
    BY <1>1, <1>a DEF Fire, TimerGoes, Pending, Untouched, NoTimer
  <2>3. TimerLife(o)'
    BY <1>0, <1>b, <1>c, <1>e, <2>1, <2>2 DEF TimerLife, Counting, Pending
  <2>4. QED
    BY <1>d, <2>1, <2>3
\* From then on the order has no other handler.
<1>f. ASSUME ~Fire(o) PROVE timer[o].pc \notin {"off", "armed"} /\ Handlers(o) = {}
  <2>1. timer[o].pc \notin {"off", "armed"}
    BY <1>f DEF TimerStepOf, CompareExpired, UpdateExpired, TimerReadStock, TimerWriteStock,
       TimerToNextItem, TimerFindVoucher, TimerRefundVoucher, TimerReadPoints, TimerWritePoints, TimerGoes, TimerReads
  <2>2. QED
    BY <1>0, <2>1 DEF TimerLife, Counting
<1>2. CASE CompareExpired(o)
  <2>1. /\ timer'[o].pc = "update" /\ timer'[o].dirty = Differing(o, Expired) /\ row'[o] = row[o]
        /\ timer[o].pc = "compare"
    BY <1>2, <1>a DEF CompareExpired, NoTimer, dbVars
  <2>2. Differing(o, Expired)' = Differing(o, Expired) /\ Pending' = Pending
    BY <2>1 DEF Differing, Expired, Pending
  <2>3. row[o] = Pending /\ Handlers(o) = {}
    BY <1>0, <2>1 DEF TimerLife, Counting
  <2>4. TimerLife(o)'
    BY <1>0, <1>b, <1>c, <1>e, <2>1, <2>2, <2>3 DEF TimerLife, Counting
  <2>5. QED
    BY <1>d, <2>1, <2>4
<1>3. CASE UpdateExpired(o)
  <2>1. timer'[o].pc = "readStock" /\ timer[o].pc = "update" /\ UpdateRow(o, Expired, timer[o].dirty)
    BY <1>3, <1>a DEF UpdateExpired, TimerGoes, NoTimer
  <2>2. timer[o].dirty = Differing(o, Expired) /\ Handlers(o) = {}
    BY <1>0, <2>1 DEF TimerLife, Counting
  <2>3. row'[o] = Expired
    BY <2>1, <2>2, RowSaved, EntityEnds
  <2>4. TimerLife(o)'
    BY <1>0, <1>b, <1>c, <1>e, <2>1, <2>2, <2>3 DEF TimerLife, Counting, Expired
  <2>5. QED
    BY <1>d, <2>2, <2>3, <2>4
<1>4. CASE ~Fire(o) /\ ~CompareExpired(o) /\ ~UpdateExpired(o)
  <2>1. timer'[o].pc \notin {"armed", "compare", "update"} /\ row'[o] = row[o]
    <3>1. CASE TimerWriteStock(o)
      <4>1. timer'[o] = IF LastLine(o, timer[o].item) THEN [NoTimer EXCEPT !.pc = AfterRestock(o)]
                        ELSE [NoTimer EXCEPT !.pc = "readStock", !.item = timer[o].item + 1]
        BY <1>a, <3>1 DEF TimerWriteStock, TimerToNextItem
      <4>2. timer'[o].pc \in {AfterRestock(o), "readStock"}
        BY <4>1 DEF NoTimer
      <4>3. row' = row
        BY <3>1 DEF TimerWriteStock, TimerToNextItem
      <4>4. QED
        BY <4>2, <4>3 DEF AfterRestock, AfterRefund
    <3>2. CASE ~TimerWriteStock(o)
      <4>1. CASE TimerReadStock(o) \/ TimerReadPoints(o)
        BY <1>a, <4>1 DEF TimerReadStock, TimerReadPoints, TimerReads, Timer, dbVars
      <4>2. CASE TimerFindVoucher(o) \/ TimerRefundVoucher(o) \/ TimerWritePoints(o)
        BY <1>a, <4>2
        DEF TimerFindVoucher, TimerRefundVoucher, TimerWritePoints, TimerGoes, AfterRefund, NoTimer
      <4>3. QED
        BY <1>4, <3>2, <4>1, <4>2 DEF TimerStepOf
    <3>3. QED
      BY <3>1, <3>2
  <2>2. timer[o].pc \notin {"compare", "update"}
    BY <1>4
    DEF TimerStepOf, TimerReadStock, TimerWriteStock, TimerToNextItem, TimerFindVoucher, TimerRefundVoucher,
        TimerReadPoints, TimerWritePoints, TimerGoes, TimerReads
  <2>3. row[o] = Expired
    BY <1>0, <1>4, <1>f, <2>2 DEF TimerLife, Counting
  <2>4. TimerLife(o)'
    BY <1>0, <1>4, <1>b, <1>c, <1>e, <1>f, <2>1, <2>3 DEF TimerLife, Counting, Expired
  <2>5. QED
    BY <1>d, <2>1, <2>4
<1>5. QED
  BY <1>1, <1>2, <1>3, <1>4

\* What the steps of a call r do to it: its order, program counter, entity, what
\* it knows of the items and what it is going to write.
CallIs(r, o, pc, entity, bare, dirty) ==
    /\ request'[r].order = o /\ request'[r].pc = pc /\ request'[r].entity = entity
    /\ request'[r].bare = bare /\ request'[r].dirty = dirty

Over(r) == request'[r] = Idle("done")

LEMMA ToCall ==
    ASSUME TypeOK, NEW r \in Requests, NEW pc, request' = [request EXCEPT ![r] = To(r, pc)]
    PROVE  CallIs(r, request[r].order, pc, request[r].entity, request[r].bare, {})
<1>1. request'[r] = To(r, pc) /\ request[r] \in Request
  BY DEF TypeOK
<1>2. /\ To(r, pc).order = request[r].order /\ To(r, pc).pc = pc /\ To(r, pc).entity = request[r].entity
      /\ To(r, pc).bare = request[r].bare /\ To(r, pc).dirty = {}
  BY <1>1 DEF To, Request
<1>3. QED
  BY <1>1, <1>2 DEF CallIs

LEMMA CompareCall ==
    ASSUME TypeOK, NEW r \in Requests, NEW from, NEW to, Compare(r, from, to)
    PROVE  /\ request[r].pc = from /\ UNCHANGED <<row, stock, refunds, revived>>
           /\ \/ Over(r) /\ request[r].bare /\ request[r].order \in itemRows
              \/ CallIs(r, request[r].order, to, request[r].entity, request[r].bare,
                        Differing(request[r].order, request[r].entity))
<1> DEFINE o == request[r].order
           call == [request[r] EXCEPT !.pc = to, !.dirty = Differing(o, request[r].entity)]
<1>1. request \in [Requests -> Request] /\ request[r] \in Request
  BY DEF TypeOK
<1>2. request[r].pc = from /\ UNCHANGED <<row, stock, refunds, revived>>
  BY DEF Compare, Continue
<1>3. request'[r] = IF request[r].bare /\ o \in itemRows THEN Idle("done") ELSE call
  BY <1>1 DEF Compare, Continue
<1>4. /\ call.order = o /\ call.pc = to /\ call.entity = request[r].entity
      /\ call.bare = request[r].bare /\ call.dirty = Differing(o, request[r].entity)
  BY <1>1 DEF Request
<1> HIDE DEF call
<1>5. QED
  BY <1>2, <1>3, <1>4 DEF CallIs, Over

LEMMA RequestCalls ==
    ASSUME TypeOK, NEW r \in Requests
    PROVE  /\ CancelReadsStock(r) =>
                 \/ Over(r)
                 \/ /\ CallIs(r, request[r].order, "writeStock", request[r].entity, request[r].bare, request[r].dirty)
                    /\ request'[r].item = request[r].item /\ broken' = broken
           /\ CancelReadsPoints(r) =>
                 CallIs(r, request[r].order, "writePoints", request[r].entity, request[r].bare, request[r].dirty)
           /\ FindOrder(r) =>
                 CallIs(r, request[r].order, "compareEntity", [status |-> "PROCESSING", paymentStatus |-> "PAID"],
                        request[r].bare, request[r].dirty)
           /\ CancelWritesPoints(r) /\ Paid(r) =>
                 CallIs(r, request[r].order, "compareEntity", [request[r].entity EXCEPT !.paymentStatus = "REFUNDED"],
                        request[r].bare, {})
<1>a. request \in [Requests -> Request] /\ request[r] \in Request
  BY DEF TypeOK
<1>1. ASSUME CancelReadsStock(r)
      PROVE  \/ Over(r)
             \/ /\ CallIs(r, request[r].order, "writeStock", request[r].entity, request[r].bare, request[r].dirty)
                /\ request'[r].item = request[r].item /\ broken' = broken
  <2> DEFINE call == [request[r] EXCEPT !.pc = "writeStock",
                                        !.seen = inventory[Product(request[r].order, request[r].item)]]
  <2>1. /\ call.order = request[r].order /\ call.pc = "writeStock" /\ call.entity = request[r].entity
        /\ call.bare = request[r].bare /\ call.dirty = request[r].dirty /\ call.item = request[r].item
    BY <1>a DEF Request
  <2>2. request'[r] = Idle("done") \/ (request'[r] = call /\ broken' = broken)
    BY <1>1, <1>a DEF CancelReadsStock, Continue
  <2> HIDE DEF call
  <2>3. QED
    BY <2>1, <2>2 DEF CallIs, Over
<1>2. ASSUME CancelReadsPoints(r)
      PROVE  CallIs(r, request[r].order, "writePoints", request[r].entity, request[r].bare, request[r].dirty)
  BY <1>2, <1>a DEF CancelReadsPoints, Continue, CallIs, Request
<1>3. ASSUME FindOrder(r)
      PROVE  CallIs(r, request[r].order, "compareEntity", [status |-> "PROCESSING", paymentStatus |-> "PAID"],
                    request[r].bare, request[r].dirty)
  BY <1>3, <1>a DEF FindOrder, Continue, CallIs, Request
<1>4. ASSUME CancelWritesPoints(r), Paid(r)
      PROVE  CallIs(r, request[r].order, "compareEntity", [request[r].entity EXCEPT !.paymentStatus = "REFUNDED"],
                    request[r].bare, {})
  <2> DEFINE call == [To(r, "compareEntity") EXCEPT !.entity.paymentStatus = "REFUNDED"]
  <2>1. request'[r] = call
    BY <1>4, <1>a DEF CancelWritesPoints, Continue
  <2>2. /\ call.order = request[r].order /\ call.pc = "compareEntity"
        /\ call.entity = [request[r].entity EXCEPT !.paymentStatus = "REFUNDED"]
        /\ call.bare = request[r].bare /\ call.dirty = {}
    BY <1>a DEF To, Request
  <2> HIDE DEF call
  <2>3. QED
    BY <2>1, <2>2 DEF CallIs
<1>5. QED
  BY <1>1, <1>2, <1>3, <1>4

\* The save of an item takes a cancellation to the next one, or past them.
LEMMA NextItemCall ==
    ASSUME TypeOK, NEW r \in Requests, CancelWritesStock(r)
    PROVE  /\ request[r].pc = "writeStock"
           /\ LastLine(request[r].order, request[r].item) =>
                 CallIs(r, request[r].order, "compareCancelled", request[r].entity, request[r].bare, {})
           /\ ~LastLine(request[r].order, request[r].item) =>
                 /\ CallIs(r, request[r].order, "readStock", request[r].entity, request[r].bare, {})
                 /\ request'[r].item = request[r].item + 1
<1> DEFINE o == request[r].order
           i == request[r].item
           next == [To(r, "readStock") EXCEPT !.item = i + 1]
<1>1. request \in [Requests -> Request] /\ request[r] \in Request
  BY DEF TypeOK
<1>2. request[r].pc = "writeStock" /\ request' = [request EXCEPT ![r] = NextCancelCall(r)]
  BY DEF CancelWritesStock, NextCancelCall
<1>3. CASE LastLine(o, i)
  <2>1. request' = [request EXCEPT ![r] = To(r, "compareCancelled")]
    BY <1>2, <1>3 DEF NextCancelCall
  <2>2. QED
    BY <1>2, <1>3, <2>1, ToCall
<1>4. CASE ~LastLine(o, i)
  <2>1. request'[r] = next
    BY <1>1, <1>2, <1>4 DEF NextCancelCall
  <2>2. /\ next.order = o /\ next.pc = "readStock" /\ next.entity = request[r].entity
        /\ next.bare = request[r].bare /\ next.dirty = {} /\ next.item = i + 1
    BY <1>1 DEF To, Request
  <2> HIDE DEF next
  <2>3. QED
    BY <1>2, <1>4, <2>1, <2>2 DEF CallIs
<1>5. QED
  BY <1>3, <1>4

LEMMA RequestLives ==
    ASSUME TypeOK, NEW o \in Orders, OrderLife(o), NEW r \in Requests, request[r].order = o, RequestStepOf(r)
    PROVE  OrderLife(o)'
<1>0. CheckoutLife(o) /\ TimerLife(o) /\ HandlerLife(o)
  BY DEF OrderLife
<1>a. /\ request \in [Requests -> Request] /\ request[r] \in Request /\ request[r].entity \in Entity
      /\ row[o] \in Entity
  BY DEF TypeOK, Request
\* Call r is all there is at work on the order.
<1>b. Handlers(o) = {r} /\ ~CheckingOut(o) /\ Job(o, request[r]) /\ ~Counting(o)
  <2>1. r \in Handlers(o)
    BY DEF Handlers
  <2>2. QED
    BY <1>0, <2>1 DEF HandlerLife, TimerLife
<1>c. checkout[o].pc \notin BeforeSaving \cup AfterSaving
  BY <1>0, <1>b DEF CheckoutLife
<1>d. /\ UNCHANGED <<checkout, timer, itemRows>>
      /\ \A q \in Requests : q # r => request'[q] = request[q]
  BY DEF RequestStepOf, CancelReadsStock, CancelWritesStock, CompareCancelled, UpdateCancelled,
     CancelReadsPoints, CancelWritesPoints, FindOrder, CompareEntity, UpdateEntity, Compare, Continue, TypeOK
\* So it is enough to look at its job and at the row.
<1>e. ASSUME row'[o].status # "none" \/ row'[o] = row[o],
             Over(r) \/ (request'[r].order = o /\ Job(o, request[r])')
      PROVE  OrderLife(o)'
  <2>1. CheckoutLife(o)'
    BY <1>0, <1>c, <1>d, <1>e DEF CheckoutLife
  <2>2. TimerLife(o)'
    BY <1>0, <1>b, <1>d DEF TimerLife, Counting
  <2>3. HandlerLife(o)'
    <3>1. CASE Over(r)
      <4>1. request'[r].order # o
        BY <3>1, OrdersAssumption DEF Over, Idle
      <4>2. Handlers(o)' = {}
        BY <1>b, <1>d, <4>1 DEF Handlers
      <4>3. QED
        BY <4>2 DEF HandlerLife
    <3>2. CASE request'[r].order = o /\ Job(o, request[r])'
      <4>1. Handlers(o)' = {r}
        BY <1>b, <1>d, <3>2 DEF Handlers
      <4>2. ~CheckingOut(o)'
        BY <1>b, <1>d DEF CheckingOut
      <4>3. QED
        BY <3>2, <4>1, <4>2 DEF HandlerLife
    <3>3. QED
      BY <1>e, <3>1, <3>2
  <2>4. QED
    BY <2>1, <2>2, <2>3 DEF OrderLife
<1>1. CASE CancelReadsStock(r)
  <2>1. row' = row /\ request[r].pc = "readStock"
    BY <1>1 DEF CancelReadsStock, Continue
  <2>2. \/ Over(r)
        \/ CallIs(r, o, "writeStock", request[r].entity, request[r].bare, request[r].dirty)
    BY <1>1, RequestCalls
  <2>3. QED
    BY <1>b, <1>d, <1>e, <2>1, <2>2 DEF CallIs, Job
<1>2. CASE CancelWritesStock(r)
  <2>1. row' = row /\ request[r].pc = "writeStock"
    BY <1>2 DEF CancelWritesStock
  <2>2. \E pc \in {"readStock", "compareCancelled"} :
           CallIs(r, o, pc, request[r].entity, request[r].bare, {})
    BY <1>2, NextItemCall
  <2>3. QED
    BY <1>b, <1>d, <1>e, <2>1, <2>2 DEF CallIs, Job
<1>3. ASSUME NEW from, NEW to, Compare(r, from, to),
             \/ from = "compareCancelled" /\ to = "updateCancelled"
             \/ from = "compareEntity" /\ to = "updateEntity"
      PROVE  OrderLife(o)'
  <2>1. /\ request[r].pc = from /\ row' = row
        /\ \/ Over(r)
           \/ CallIs(r, o, to, request[r].entity, request[r].bare, Differing(o, request[r].entity))
    BY <1>3, CompareCall
  <2>2. CASE Over(r)
    BY <1>e, <2>1, <2>2
  <2>3. CASE CallIs(r, o, to, request[r].entity, request[r].bare, Differing(o, request[r].entity))
    <3>1. Differing(o, request[r].entity)' = Differing(o, request[r].entity)
      BY <2>1, <2>3 DEF CallIs, Differing
    <3>2. Goal(o, request[r].entity) => Goal(o, request[r].entity)'
      BY <2>1, <2>3 DEF CallIs, Goal, CancelGoal, UpdateGoal, PayGoal
    <3>3. Job(o, request[r])'
      BY <1>3, <1>b, <1>d, <2>1, <2>3, <3>1, <3>2 DEF CallIs, Job
    <3>4. QED
      BY <1>e, <2>1, <2>3, <3>3 DEF CallIs
  <2>4. QED
    BY <2>1, <2>2, <2>3
<1>4. CASE CompareCancelled(r) \/ CompareEntity(r)
  BY <1>3, <1>4 DEF CompareCancelled, CompareEntity
<1>5. CASE UpdateCancelled(r)
  <2>1. /\ request[r].pc = "updateCancelled" /\ UpdateRow(o, request[r].entity, request[r].dirty)
        /\ request' = [request EXCEPT ![r] = To(r, "readPoints")]
    BY <1>5 DEF UpdateCancelled, Continue
  <2>2. /\ request[r].dirty = Differing(o, request[r].entity)
        /\ request[r].entity = [row[o] EXCEPT !.status = "CANCELLED"]
    BY <1>b, <2>1 DEF Job
  <2>3. row'[o] = request[r].entity /\ request[r].entity.status = "CANCELLED"
    BY <1>a, <2>1, <2>2, RowSaved DEF Entity
  <2>4. CallIs(r, o, "readPoints", request[r].entity, request[r].bare, {})
    BY <2>1, ToCall
  <2>5. Job(o, request[r])'
    BY <1>b, <1>d, <2>3, <2>4 DEF CallIs, Job
  <2>6. QED
    BY <1>e, <2>3, <2>4, <2>5 DEF CallIs
<1>6. CASE CancelReadsPoints(r)
  <2>1. row' = row /\ request[r].pc = "readPoints"
    BY <1>6 DEF CancelReadsPoints, Continue
  <2>2. CallIs(r, o, "writePoints", request[r].entity, request[r].bare, request[r].dirty)
    BY <1>6, RequestCalls
  <2>3. QED
    BY <1>b, <1>d, <1>e, <2>1, <2>2 DEF CallIs, Job
<1>7. CASE CancelWritesPoints(r)
  <2>1. row' = row /\ request[r].pc = "writePoints"
    BY <1>7 DEF CancelWritesPoints
  <2>2. row[o].status = "CANCELLED" /\ request[r].entity = row[o]
    BY <1>b, <2>1 DEF Job
  <2>3. CASE Paid(r)
    <3>1. CallIs(r, o, "compareEntity", [request[r].entity EXCEPT !.paymentStatus = "REFUNDED"],
                 request[r].bare, {})
      BY <1>7, <2>3, RequestCalls
    <3>2. CancelGoal(o, request[r].entity)'
      BY <1>a, <2>1, <2>2, <2>3, <3>1 DEF CallIs, CancelGoal, Paid, Entity
    <3>3. Job(o, request[r])'
      BY <1>b, <1>d, <3>1, <3>2 DEF CallIs, Job, Goal
    <3>4. QED
      BY <1>e, <2>1, <3>1, <3>3 DEF CallIs
  <2>4. CASE ~Paid(r)
    <3>1. request' = [request EXCEPT ![r] = To(r, "compareEntity")]
      BY <1>7, <2>4 DEF CancelWritesPoints, Continue
    <3>2. CallIs(r, o, "compareEntity", request[r].entity, request[r].bare, {})
      BY <3>1, ToCall
    <3>3. CancelGoal(o, request[r].entity)'
      BY <2>1, <2>2, <2>4, <3>2 DEF CallIs, CancelGoal, Paid
    <3>4. Job(o, request[r])'
      BY <1>b, <1>d, <3>2, <3>3 DEF CallIs, Job, Goal
    <3>5. QED
      BY <1>e, <2>1, <3>2, <3>4 DEF CallIs
  <2>5. QED
    BY <2>3, <2>4
<1>8. CASE FindOrder(r)
  <2>1. row' = row /\ request[r].pc = "findOrder"
    BY <1>8 DEF FindOrder, Continue
  <2>2. CallIs(r, o, "compareEntity", [status |-> "PROCESSING", paymentStatus |-> "PAID"],
               request[r].bare, request[r].dirty)
    BY <1>8, RequestCalls
  <2>3. PayGoal(o, request[r].entity)'
    BY <1>b, <2>1, <2>2 DEF CallIs, Job, PayGoal
  <2>4. Job(o, request[r])'
    BY <1>b, <1>d, <2>2, <2>3 DEF CallIs, Job, Goal
  <2>5. QED
    BY <1>e, <2>1, <2>2, <2>4 DEF CallIs
<1>9. CASE UpdateEntity(r)
  <2>1. /\ request[r].pc = "updateEntity" /\ UpdateRow(o, request[r].entity, request[r].dirty)
        /\ Over(r)
    BY <1>9, <1>a DEF UpdateEntity, Continue, Over
  <2>2. request[r].dirty = Differing(o, request[r].entity) /\ Goal(o, request[r].entity)
    BY <1>b, <2>1 DEF Job
  <2>3. row'[o] = request[r].entity /\ request[r].entity.status # "none"
    <3>1. request[r].entity.status # "none"
      BY <2>2, OrdersAssumption DEF Goal, CancelGoal, UpdateGoal, PayGoal
    <3>2. QED
      BY <1>a, <2>1, <2>2, <3>1, RowSaved
  <2>4. QED
    BY <1>e, <2>1, <2>3
<1>10. QED
  BY <1>1, <1>2, <1>4, <1>5, <1>6, <1>7, <1>8, <1>9 DEF RequestStepOf

\* What the three handlers start with.
TransferCall(o) == [Idle("findOrder") EXCEPT !.order = o]

LEMMA CallsBegin ==
    ASSUME TypeOK, NEW o \in Orders, NEW r \in Requests
    PROVE  /\ CancelOrder(r, o) =>
                 /\ Begin(r, o, CancelCall(o)) /\ CancelCall(o).order = o /\ transfers' = transfers
                 /\ Job(o, CancelCall(o))
           /\ \A status \in AdminStatuses : AdminUpdate(r, o, status) =>
                 /\ Begin(r, o, AdminCall(o, status)) /\ AdminCall(o, status).order = o
                 /\ transfers' = transfers /\ Job(o, AdminCall(o, status))
           /\ RecordTransfer(r, o) =>
                 /\ Begin(r, o, TransferCall(o)) /\ TransferCall(o).order = o
                 /\ transfers' = [transfers EXCEPT ![o] = @ + 1] /\ Job(o, TransferCall(o))
<1>1. ASSUME CancelOrder(r, o)
      PROVE  /\ Begin(r, o, CancelCall(o)) /\ CancelCall(o).order = o /\ transfers' = transfers
             /\ Job(o, CancelCall(o))
  <2>1. Begin(r, o, CancelCall(o)) /\ transfers' = transfers /\ row[o].status \in Cancellable
    BY <1>1 DEF CancelOrder, CancelCall
  <2>2. /\ CancelCall(o).order = o /\ CancelCall(o).entity = [row[o] EXCEPT !.status = "CANCELLED"]
        /\ CancelCall(o).pc = (IF o \in itemRows THEN "readStock" ELSE "compareCancelled")
        /\ CancelCall(o).bare = (o \notin itemRows)
    BY DEF CancelCall, Idle
  <2>3. Job(o, CancelCall(o))
    BY <2>1, <2>2 DEF Job
  <2>4. QED
    BY <2>1, <2>2, <2>3
<1>2. ASSUME NEW status \in AdminStatuses, AdminUpdate(r, o, status)
      PROVE  /\ Begin(r, o, AdminCall(o, status)) /\ AdminCall(o, status).order = o
             /\ transfers' = transfers /\ Job(o, AdminCall(o, status))
  <2>1. Begin(r, o, AdminCall(o, status)) /\ transfers' = transfers
    BY <1>2 DEF AdminUpdate, AdminCall
  <2>2. /\ AdminCall(o, status).order = o /\ AdminCall(o, status).pc = "compareEntity"
        /\ AdminCall(o, status).bare = FALSE
        /\ AdminCall(o, status).entity.status = status
        /\ AdminCall(o, status).entity.paymentStatus =
              (IF status = "DELIVERED" /\ o \notin BankingOrders THEN "PAID" ELSE row[o].paymentStatus)
    BY DEF AdminCall, Idle
  <2>3. UpdateGoal(o, AdminCall(o, status).entity)
    BY <2>2 DEF UpdateGoal
  <2>4. Job(o, AdminCall(o, status))
    BY <2>2, <2>3 DEF Job, Goal
  <2>5. QED
    BY <2>1, <2>2, <2>4
<1>3. ASSUME RecordTransfer(r, o)
      PROVE  /\ Begin(r, o, TransferCall(o)) /\ TransferCall(o).order = o
             /\ transfers' = [transfers EXCEPT ![o] = @ + 1] /\ Job(o, TransferCall(o))
  <2>1. /\ Begin(r, o, TransferCall(o)) /\ transfers' = [transfers EXCEPT ![o] = @ + 1]
        /\ o \in BankingOrders
    BY <1>3 DEF RecordTransfer, TransferCall
  <2>2. /\ TransferCall(o).order = o /\ TransferCall(o).pc = "findOrder"
        /\ TransferCall(o).entity = Blank /\ TransferCall(o).bare = FALSE
    BY DEF TransferCall, Idle
  <2>3. Job(o, TransferCall(o))
    BY <2>1, <2>2 DEF Job
  <2>4. QED
    BY <2>1, <2>2, <2>3
<1>4. QED
  BY <1>1, <1>2, <1>3

\* A call that does not disturb its order finds it left alone, its checkout over.
LEMMA BeginsAlone ==
    ASSUME TypeOK, NEW o \in Orders, OrderLife(o), NEW r \in Requests, NEW call,
           call.order = o, Begin(r, o, call), o \notin disturbed'
    PROVE  /\ Untouched(o) /\ checkout[o].pc \notin BeforeSaving \cup AfterSaving
           /\ request'[r] = call /\ Handlers(o)' = {r}
           /\ UNCHANGED <<row, itemRows, checkout, timer, held, stock, refunds, revived>>
<1>1. Untouched(o) /\ row[o].status # "none"
  BY DEF Begin, Saved
<1>2. checkout[o].pc \notin BeforeSaving \cup AfterSaving
  <2>1. checkout[o].pc # "idle"
    BY <1>1 DEF OrderLife, CheckoutLife, BeforeSaving, Blank
  <2>2. QED
    BY <1>1, <2>1 DEF Untouched, CheckingOut, CheckoutEnd, BeforeSaving, AfterSaving
<1>3. request'[r] = call /\ \A q \in Requests : q # r => request'[q] = request[q]
  BY DEF Begin, TypeOK
<1>4. Handlers(o)' = {r}
  BY <1>1, <1>3 DEF Handlers, Untouched
<1>5. QED
  BY <1>1, <1>2, <1>3, <1>4 DEF Begin

LEMMA BeginLives ==
    ASSUME TypeOK, NEW o \in Orders, OrderLife(o), NEW r \in Requests, NEW call,
           call.order = o, Job(o, call), Begin(r, o, call), o \notin disturbed'
    PROVE  OrderLife(o)'
<1>1. /\ Untouched(o) /\ checkout[o].pc \notin BeforeSaving \cup AfterSaving
      /\ request'[r] = call /\ Handlers(o)' = {r}
      /\ UNCHANGED <<row, itemRows, checkout, timer, held, stock, refunds, revived>>
  BY BeginsAlone
<1>2. Job(o, request[r])'
  <2>1. Goal(o, call.entity) => Goal(o, request[r].entity)'
    BY <1>1 DEF Goal, CancelGoal, UpdateGoal, PayGoal
  <2>2. Differing(o, request[r].entity)' = Differing(o, call.entity)
    BY <1>1 DEF Differing
  <2>3. QED
    BY <1>1, <2>1, <2>2 DEF Job
<1>3. CheckoutLife(o)' /\ TimerLife(o)'
  BY <1>1 DEF OrderLife, CheckoutLife, TimerLife, Untouched, Counting
<1>4. HandlerLife(o)'
  BY <1>1, <1>2 DEF HandlerLife, Untouched, CheckingOut
<1>5. QED
  BY <1>3, <1>4 DEF OrderLife

\* A restart disturbs the orders that somebody is at work on.
LEMMA RestartAlone ==
    ASSUME NEW o \in Orders, Restart, o \notin disturbed'
    PROVE  /\ Untouched(o) /\ SameOrder(o) /\ checkout'[o] = checkout[o]
           /\ Handlers(o)' = {} /\ timer'[o] = NoTimer
<1>1. Untouched(o)
  BY DEF Restart
<1>2. Handlers(o)' = {}
  BY OrdersAssumption DEF Restart, Handlers, Idle
<1>3. SameOrder(o) /\ checkout'[o] = checkout[o] /\ timer'[o] = NoTimer
  BY <1>1 DEF Restart, Untouched, SameOrder, dbVars
<1>4. QED
  BY <1>1, <1>2, <1>3

LEMMA RestartLives ==
    ASSUME NEW o \in Orders, OrderLife(o), Restart, o \notin disturbed'
    PROVE  OrderLife(o)'
<1>1. /\ Untouched(o) /\ SameOrder(o) /\ checkout'[o] = checkout[o]
      /\ Handlers(o)' = {} /\ timer'[o].pc = "off"
  BY RestartAlone DEF NoTimer
<1>2. FreshRow(o)' = FreshRow(o)
  BY DEF FreshRow
<1>3. QED
  BY <1>1, <1>2 DEF OrderLife, CheckoutLife, TimerLife, HandlerLife, SameOrder, Unused, Counting

\* What can happen to an order that stays undisturbed.
LEMMA OrderSteps ==
    ASSUME TypeOK, [Next]_vars, NEW o \in Orders, o \notin disturbed'
    PROVE  \/ Apart(o)
           \/ SubmitOrder(o) \/ CheckoutStepOf(o)
           \/ TimerStepOf(o) /\ ~TimerThrows(o)
           \/ \E r \in Requests : request[r].order = o /\ RequestStepOf(r)
           \/ \E r \in Requests : CancelOrder(r, o) \/ RecordTransfer(r, o)
           \/ \E r \in Requests, status \in AdminStatuses : AdminUpdate(r, o, status)
           \/ Restart
<1> DEFINE Steps ==
           \/ Apart(o)
           \/ SubmitOrder(o) \/ CheckoutStepOf(o)
           \/ TimerStepOf(o) /\ ~TimerThrows(o)
           \/ \E r \in Requests : request[r].order = o /\ RequestStepOf(r)
           \/ \E r \in Requests : CancelOrder(r, o) \/ RecordTransfer(r, o)
           \/ \E r \in Requests, status \in AdminStatuses : AdminUpdate(r, o, status)
           \/ Restart
<1>1. ASSUME NEW i \in Orders, SubmitOrder(i) \/ CheckoutStepOf(i) \/ TimerStepOf(i)
      PROVE  Steps
  BY <1>1, CheckoutApart, TimerApart DEF TimerThrows
<1>2. ASSUME NEW r \in Requests, RequestStepOf(r) PROVE Steps
  BY <1>2, RequestApart
<1>3. ASSUME NEW r \in Requests, NEW i \in Orders, CancelOrder(r, i) \/ RecordTransfer(r, i)
      PROVE  Steps
  <2>1. CASE i = o
    BY <1>3, <2>1
  <2>2. CASE i # o
    <3>1. CASE CancelOrder(r, i)
      BY <2>2, <3>1, CallsBegin, BeginApart
    <3>2. CASE RecordTransfer(r, i)
      <4>1. Begin(r, i, TransferCall(i)) /\ TransferCall(i).order = i /\ transfers'[o] = transfers[o]
        BY <2>2, <3>2, CallsBegin DEF TypeOK
      <4>2. QED
        BY <2>2, <4>1, BeginApart
    <3>3. QED
      BY <1>3, <3>1, <3>2
  <2>3. QED
    BY <2>1, <2>2
<1>4. ASSUME NEW r \in Requests, NEW i \in Orders, NEW status \in AdminStatuses, AdminUpdate(r, i, status)
      PROVE  Steps
  BY <1>4, CallsBegin, BeginApart
<1>5. CASE AddToCart \/ (\E what \in Removable : Remove(what)) \/ UNCHANGED vars
  BY <1>5, NobodyApart
<1>6. CASE Crash
  BY <1>6 DEF Crash
<1>7. QED
  BY <1>1, <1>2, <1>3, <1>4, <1>5, <1>6 DEF Next

LEMMA DisturbedGrows == TypeOK /\ [Next]_vars => disturbed \subseteq disturbed'
<1> SUFFICES ASSUME TypeOK, [Next]_vars PROVE disturbed \subseteq disturbed'
  OBVIOUS
<1>1. ASSUME NEW o \in Orders, SubmitOrder(o) \/ CheckoutStepOf(o) PROVE disturbed' = disturbed
  BY <1>1
  DEF SubmitOrder, CheckoutStepOf, ReadCart, CheckVoucher, ReadPoints, WritePoints, MakeQR, SaveOrder,
      FindVoucher, UseVoucher, InsertVoucher, SaveItems, FindCart, EmptyCart, ReadStock, WriteStock,
      Advance, CheckoutReads, history
<1>2. ASSUME NEW o \in Orders, TimerStepOf(o) PROVE disturbed \subseteq disturbed'
  BY <1>2
  DEF TimerStepOf, Fire, CompareExpired, UpdateExpired, TimerReadStock, TimerWriteStock, TimerToNextItem,
      TimerFindVoucher, TimerRefundVoucher, TimerReadPoints, TimerWritePoints, TimerThrows, Restart, TimerReads,
      history
<1>3. ASSUME NEW r \in Requests, RequestStepOf(r) PROVE disturbed' = disturbed
  BY <1>3
  DEF RequestStepOf, CancelReadsStock, CancelWritesStock, CompareCancelled, UpdateCancelled,
      CancelReadsPoints, CancelWritesPoints, FindOrder, CompareEntity, UpdateEntity, Compare, Continue
<1>4. ASSUME NEW r \in Requests, NEW o \in Orders,
             \/ CancelOrder(r, o) \/ RecordTransfer(r, o)
             \/ \E status \in AdminStatuses : AdminUpdate(r, o, status)
      PROVE  disturbed \subseteq disturbed'
  BY <1>4 DEF CancelOrder, RecordTransfer, AdminUpdate, Begin
<1>5. CASE AddToCart \/ (\E what \in Removable : Remove(what)) \/ Crash \/ UNCHANGED vars
  BY <1>5 DEF AddToCart, Remove, Crash, Restart, vars, history
<1>6. QED
  BY <1>1, <1>2, <1>3, <1>4, <1>5 DEF Next

LEMMA StepLives ==
    ASSUME TypeOK, [Next]_vars, NEW o \in Orders, OrderLife(o), o \notin disturbed'
    PROVE  OrderLife(o)'
<1>1. ASSUME NEW r \in Requests, CancelOrder(r, o) \/ RecordTransfer(r, o) PROVE OrderLife(o)'
  BY <1>1, CallsBegin, BeginLives
<1>2. ASSUME NEW r \in Requests, NEW status \in AdminStatuses, AdminUpdate(r, o, status)
      PROVE  OrderLife(o)'
  BY <1>2, CallsBegin, BeginLives
<1>3. QED
  BY <1>1, <1>2, OrderSteps, ApartLife, CheckoutLives, TimerLives, RequestLives, RestartLives

THEOREM StepSerial == TypeOK /\ SerialInv /\ [Next]_vars => SerialInv'
BY DisturbedGrows, StepLives DEF SerialInv

(* As long as an order's handlers do not overlap, at most one is at work on *)
(* it, and what that one is about to save is the row as it is, changed as   *)
(* the handler means to change it.                                          *)
THEOREM OrdersSerial == Spec => []SerialInv
<1>1. QED
  BY InitType, StepType, InitSerial, StepSerial, PTL DEF Spec
-----------------------------------------------------------------------------
(* Orders implements OrderPromise.  What an order's life looks like: its row *)
(* and counters, and ahead of them what a handler has yet to do that can no  *)
(* longer fail.                                                              *)

Given(o) == [i \in Lines(o) |-> Returns(o, i)]

RowLife(o) ==
    [status |-> row[o].status, paymentStatus |-> row[o].paymentStatus,
     returned |-> Given(o), refunded |-> refunds[o]]

\* Call r has returned the stock and is going to make the order CANCELLED.
Committed(r) == request[r].entity.status = "CANCELLED" /\ ~Returning(r)

CancelledLife(o, r) ==
    [status |-> "CANCELLED",
     paymentStatus |-> IF Paid(r) \/ request[r].entity.paymentStatus = "REFUNDED"
                       THEN "REFUNDED" ELSE row[o].paymentStatus,
     returned |-> Given(o),
     refunded |-> refunds[o] + (IF Paid(r) THEN 1 ELSE 0)]

LEMMA LifeNone == \A o \in Orders : checkout[o].pc # "done" => Life(o) = Promise!NoOrderYet(o)
BY DEF Life, Promise!NoOrderYet, Lines

LEMMA LifeAlone ==
    \A o \in Orders : TypeOK /\ checkout[o].pc = "done" /\ Handlers(o) = {} => Life(o) = RowLife(o)
<1> SUFFICES ASSUME NEW o \in Orders, TypeOK, checkout[o].pc = "done", Handlers(o) = {}
             PROVE  Life(o) = RowLife(o)
  OBVIOUS
<1>1. Cancelling(o) = {} /\ refunds[o] \in Nat
  BY DEF Cancelling, TypeOK
<1>2. QED
  BY <1>1 DEF Life, RowLife, Given

LEMMA LifeBusy ==
    \A o \in Orders, r \in Requests :
        TypeOK /\ checkout[o].pc = "done" /\ Handlers(o) = {r} =>
            Life(o) = IF Committed(r) THEN CancelledLife(o, r) ELSE RowLife(o)
<1> SUFFICES ASSUME NEW o \in Orders, NEW r \in Requests, TypeOK, checkout[o].pc = "done", Handlers(o) = {r}
             PROVE  Life(o) = IF Committed(r) THEN CancelledLife(o, r) ELSE RowLife(o)
  OBVIOUS
<1>0. refunds[o] \in Nat
  BY DEF TypeOK
<1>1. CASE Committed(r)
  <2>1. Cancelling(o) = {r}
    BY <1>1 DEF Cancelling, Committed
  <2>2. QED
    BY <1>0, <1>1, <2>1 DEF Life, CancelledLife, Given
<1>2. CASE ~Committed(r)
  <2>1. Cancelling(o) = {}
    BY <1>2 DEF Cancelling, Committed
  <2>2. QED
    BY <1>0, <1>2, <2>1 DEF Life, RowLife, Given
<1>3. QED
  BY <1>1, <1>2

\* What counts as given back, with no call at work on the order and with one.
LEMMA ReturnsAlone ==
    \A o \in Orders : Handlers(o) = {} /\ TypeOK => \A i \in Lines(o) :
        Returns(o, i) = returned[o][i] + (IF Restocking(o) /\ timer[o].item <= i THEN 1 ELSE 0)
<1> SUFFICES ASSUME NEW o \in Orders, Handlers(o) = {}, TypeOK, NEW i \in Lines(o)
             PROVE  Returns(o, i) = returned[o][i] + (IF Restocking(o) /\ timer[o].item <= i THEN 1 ELSE 0)
  OBVIOUS
<1>1. returned[o][i] \in Int
  BY DEF TypeOK
<1>2. QED
  BY <1>1 DEF Returns

LEMMA ReturnsBusy ==
    \A o \in Orders, r \in Requests :
        Handlers(o) = {r} /\ ~Restocking(o) /\ TypeOK => \A i \in Lines(o) :
            Returns(o, i) = returned[o][i] - (IF Returning(r) /\ i < request[r].item THEN 1 ELSE 0)
<1> SUFFICES ASSUME NEW o \in Orders, NEW r \in Requests, Handlers(o) = {r}, ~Restocking(o), TypeOK,
                    NEW i \in Lines(o)
             PROVE  Returns(o, i) = returned[o][i] - (IF Returning(r) /\ i < request[r].item THEN 1 ELSE 0)
  OBVIOUS
<1>1. returned[o][i] \in Int
  BY DEF TypeOK
<1>2. QED
  BY <1>1 DEF Returns

\* The same of the next state.
LEMMA NextLifeNone ==
    (\A o \in Orders : checkout[o].pc # "done" => Life(o) = Promise!NoOrderYet(o))'
BY LifeNone, PTL

LEMMA NextLifeAlone ==
    (\A o \in Orders : TypeOK /\ checkout[o].pc = "done" /\ Handlers(o) = {} => Life(o) = RowLife(o))'
BY LifeAlone, PTL

LEMMA NextLifeBusy ==
    (\A o \in Orders, r \in Requests :
        TypeOK /\ checkout[o].pc = "done" /\ Handlers(o) = {r} =>
            Life(o) = IF Committed(r) THEN CancelledLife(o, r) ELSE RowLife(o))'
BY LifeBusy, PTL

LEMMA NextReturnsAlone ==
    (\A o \in Orders : Handlers(o) = {} /\ TypeOK => \A i \in Lines(o) :
        Returns(o, i) = returned[o][i] + (IF Restocking(o) /\ timer[o].item <= i THEN 1 ELSE 0))'
BY ReturnsAlone, PTL

LEMMA NextReturnsBusy ==
    (\A o \in Orders, r \in Requests :
        Handlers(o) = {r} /\ ~Restocking(o) /\ TypeOK => \A i \in Lines(o) :
            Returns(o, i) = returned[o][i] - (IF Returning(r) /\ i < request[r].item THEN 1 ELSE 0))'
BY ReturnsBusy, PTL

LEMMA GivenSame ==
    ASSUME NEW o \in Orders, \A i \in Lines(o) : Returns(o, i)' = Returns(o, i)
    PROVE  Given(o)' = Given(o)
BY DEF Given, Lines

LEMMA ApartStutters ==
    ASSUME NEW o \in Orders, Apart(o)
    PROVE  Life(o)' = Life(o)
<1>1. Cancelling(o)' = Cancelling(o)
  BY DEF Apart, SameCalls, Cancelling, Returning
<1>2. \A r \in Cancelling(o) : request'[r] = request[r]
  BY DEF Apart, SameCalls, Cancelling
<1>3. /\ (\E r \in Cancelling(o) : Paid(r))' = (\E r \in Cancelling(o) : Paid(r))
      /\ (\E r \in Cancelling(o) : request[r].entity.paymentStatus = "REFUNDED")'
            = (\E r \in Cancelling(o) : request[r].entity.paymentStatus = "REFUNDED")
  BY <1>1, <1>2 DEF Paid
<1>4. ASSUME NEW i \in Lines(o) PROVE Returns(o, i)' = Returns(o, i)
  <2>1. (\E r \in Handlers(o) : Returning(r) /\ i < request[r].item)'
           = (\E r \in Handlers(o) : Returning(r) /\ i < request[r].item)
    BY DEF Apart, SameCalls, Returning
  <2>2. Restocking(o)' = Restocking(o) /\ timer'[o] = timer[o] /\ returned'[o] = returned[o]
    BY DEF Apart, SameOrder, Restocking
  <2>3. QED
    BY <2>1, <2>2 DEF Returns
<1>5. Given(o)' = Given(o)
  BY <1>4, GivenSame
<1>6. QED
  BY <1>1, <1>3, <1>5 DEF Life, Apart, SameOrder, Given

\* Lives are equal when their fields are.
LifeRecord(o) ==
    [status : Status, paymentStatus : PaymentStatus, returned : [Lines(o) -> Int], refunded : Nat]

LEMMA LifeFields ==
    ASSUME NEW o, NEW life \in LifeRecord(o)
    PROVE  life = [status |-> life.status, paymentStatus |-> life.paymentStatus,
                   returned |-> life.returned, refunded |-> life.refunded]
BY DEF LifeRecord

LEMMA SameFields ==
    ASSUME NEW o, NEW life \in LifeRecord(o), NEW other \in LifeRecord(o),
           life.status = other.status, life.paymentStatus = other.paymentStatus,
           life.returned = other.returned, life.refunded = other.refunded
    PROVE  life = other
<1>1. life = [status |-> life.status, paymentStatus |-> life.paymentStatus,
              returned |-> life.returned, refunded |-> life.refunded]
  BY LifeFields
<1>2. other = [status |-> other.status, paymentStatus |-> other.paymentStatus,
               returned |-> other.returned, refunded |-> other.refunded]
  BY LifeFields
<1>3. QED
  BY <1>1, <1>2

LEMMA GivenType ==
    \A o \in Orders : TypeOK => /\ Given(o) \in [Lines(o) -> Int]
                                /\ \A i \in Lines(o) : Given(o)[i] = Returns(o, i)
<1> SUFFICES ASSUME NEW o \in Orders, TypeOK
             PROVE  /\ Given(o) \in [Lines(o) -> Int]
                    /\ \A i \in Lines(o) : Given(o)[i] = Returns(o, i)
  OBVIOUS
<1>1. ASSUME NEW i \in Lines(o) PROVE Returns(o, i) \in Int
  <2>1. returned[o][i] \in Int
    BY DEF TypeOK
  <2>2. QED
    BY <2>1 DEF Returns
<1>2. QED
  BY <1>1 DEF Given

LEMMA NextGivenType ==
    (\A o \in Orders : TypeOK => /\ Given(o) \in [Lines(o) -> Int]
                                 /\ \A i \in Lines(o) : Given(o)[i] = Returns(o, i))'
BY GivenType, PTL

LEMMA LifeType == \A o \in Orders : TypeOK => Life(o) \in LifeRecord(o)
<1> SUFFICES ASSUME NEW o \in Orders, TypeOK PROVE Life(o) \in LifeRecord(o)
  OBVIOUS
<1>1. row[o].status \in Status /\ row[o].paymentStatus \in PaymentStatus
  BY DEF TypeOK, Entity
<1>2. refunds[o] \in Nat
  BY DEF TypeOK
<1>3. Given(o) \in [Lines(o) -> Int] /\ [i \in Lines(o) |-> 0] \in [Lines(o) -> Int]
  BY GivenType
<1>4. QED
  BY <1>1, <1>2, <1>3 DEF Life, Given, LifeRecord, Status, PaymentStatus

LEMMA NextLifeType == (\A o \in Orders : TypeOK => Life(o) \in LifeRecord(o))'
BY LifeType, PTL

\* The first n items of an order, when they are given back.
LEMMA GivesBack ==
    ASSUME NEW o \in Orders, Life(o) \in LifeRecord(o), NEW n \in Nat
    PROVE  /\ Promise!GivenBack(o, n) \in [Lines(o) -> Int]
           /\ \A i \in Lines(o) : Promise!GivenBack(o, n)[i] = Life(o).returned[i] + (IF i <= n THEN 1 ELSE 0)
<1>1. Life(o).returned \in [Lines(o) -> Int]
  BY DEF LifeRecord
<1>2. Promise!GivenBack(o, n) =
         [i \in Lines(o) |-> IF i <= n THEN Life(o).returned[i] + 1 ELSE Life(o).returned[i]]
  BY DEF Promise!GivenBack, Lines
<1>3. \A i \in Lines(o) : Life(o).returned[i] \in Int
  BY <1>1
<1>4. QED
  BY <1>2, <1>3

LEMMA PromiseCancels ==
    ASSUME NEW o \in Orders, Life(o) \in LifeRecord(o), Life(o)' \in LifeRecord(o),
           Life(o).status \in Cancellable, Life(o)'.status = "CANCELLED",
           \A i \in Lines(o) : Life(o)'.returned[i] = Life(o).returned[i] + 1,
           IF o \in BankingOrders /\ Life(o).paymentStatus = "PAID"
           THEN Life(o)'.paymentStatus = "REFUNDED" /\ Life(o)'.refunded = Life(o).refunded + 1
           ELSE Life(o)'.paymentStatus = Life(o).paymentStatus /\ Life(o)'.refunded = Life(o).refunded
    PROVE  Promise!Cancel(o)
<1> DEFINE n == Len(ItemsOf[o])
           back == Promise!GivenBack(o, n)
<1>1. n \in Nat /\ Lines(o) = 1..n
  BY LineFacts DEF Lines
<1>2. /\ back \in [Lines(o) -> Int]
      /\ \A i \in Lines(o) : back[i] = Life(o).returned[i] + (IF i <= n THEN 1 ELSE 0)
  BY <1>1, GivesBack
<1>3. Life(o)'.returned = back
  <2>1. Life(o)'.returned \in [Lines(o) -> Int]
    BY DEF LifeRecord
  <2>2. ASSUME NEW i \in Lines(o) PROVE Life(o)'.returned[i] = back[i]
    <3>1. i <= n
      BY <1>1
    <3>2. QED
      BY <1>2, <3>1
  <2> HIDE DEF back
  <2>3. QED
    BY <1>2, <2>1, <2>2
<1>4. PICK life \in LifeRecord(o), cancelled \in Status, paymentStatus \in PaymentStatus, m \in Nat :
         /\ life = Life(o) /\ cancelled = "CANCELLED" /\ paymentStatus = "REFUNDED"
         /\ m = Life(o).refunded + 1
  BY DEF Status, PaymentStatus, LifeRecord
<1> DEFINE given == [life EXCEPT !.status = cancelled, !.returned = back]
           refunded == [given EXCEPT !.paymentStatus = paymentStatus, !.refunded = m]
<1>5. Promise!Cancelled(o) = IF o \in BankingOrders /\ Life(o).paymentStatus = "PAID" THEN refunded ELSE given
  <2>1. given = [Life(o) EXCEPT !.status = "CANCELLED", !.returned = back]
    BY <1>4
  <2>2. refunded = [given EXCEPT !.paymentStatus = "REFUNDED", !.refunded = @ + 1]
    <3>1. given.refunded = Life(o).refunded
      BY <1>4 DEF LifeRecord
    <3> HIDE DEF given
    <3>2. QED
      BY <1>4, <3>1
  <2> HIDE DEF given, refunded
  <2>3. QED
    BY <2>1, <2>2 DEF Promise!Cancelled
<1> HIDE DEF back
<1>6. /\ given \in LifeRecord(o) /\ given.status = "CANCELLED" /\ given.returned = back
      /\ given.paymentStatus = Life(o).paymentStatus /\ given.refunded = Life(o).refunded
  BY <1>2, <1>4 DEF LifeRecord
<1> HIDE DEF given
<1>7. /\ refunded \in LifeRecord(o) /\ refunded.status = "CANCELLED" /\ refunded.returned = back
      /\ refunded.paymentStatus = "REFUNDED" /\ refunded.refunded = Life(o).refunded + 1
  BY <1>4, <1>6 DEF LifeRecord
<1> HIDE DEF refunded
<1>8. Life(o)' = IF o \in BankingOrders /\ Life(o).paymentStatus = "PAID" THEN refunded ELSE given
  BY <1>3, <1>6, <1>7, SameFields
<1>9. QED
  BY <1>5, <1>8 DEF Promise!Cancel

LEMMA PromiseBreaksOff ==
    ASSUME NEW o \in Orders, Life(o) \in LifeRecord(o), Life(o)' \in LifeRecord(o),
           Life(o).status \in Cancellable, NEW n \in 1..(Len(ItemsOf[o]) - 1),
           Life(o)'.status = Life(o).status, Life(o)'.paymentStatus = Life(o).paymentStatus,
           Life(o)'.refunded = Life(o).refunded,
           \A i \in Lines(o) : Life(o)'.returned[i] = Life(o).returned[i] + (IF i <= n THEN 1 ELSE 0)
    PROVE  Promise!BreakOff(o)
<1> DEFINE back == Promise!GivenBack(o, n)
           new == [Life(o) EXCEPT !.returned = back]
<1>a. n \in Nat
  BY LineFacts
<1>b. /\ back \in [Lines(o) -> Int]
      /\ \A i \in Lines(o) : back[i] = Life(o).returned[i] + (IF i <= n THEN 1 ELSE 0)
  BY <1>a, GivesBack
<1> HIDE DEF back
<1>c. Life(o)'.returned = back
  <2>1. Life(o)'.returned \in [Lines(o) -> Int]
    BY DEF LifeRecord
  <2>2. QED
    BY <1>b, <2>1
<1>1. /\ new \in LifeRecord(o) /\ new.status = Life(o).status /\ new.returned = back
      /\ new.paymentStatus = Life(o).paymentStatus /\ new.refunded = Life(o).refunded
  <2>1. PICK life \in LifeRecord(o) : life = Life(o)
    OBVIOUS
  <2>2. QED
    BY <1>b, <2>1 DEF LifeRecord
<1>2. new = [Life(o) EXCEPT !.returned = Promise!GivenBack(o, n)]
  BY DEF back
<1> HIDE DEF new
<1>3. Life(o)' = new
  BY <1>1, <1>c, SameFields
<1>4. QED
  BY <1>2, <1>3 DEF Promise!BreakOff

LEMMA PromiseUpdates ==
    ASSUME NEW o \in Orders, Life(o) \in LifeRecord(o), Life(o)' \in LifeRecord(o), Life(o).status # "none",
           Life(o)'.status \in AdminStatuses,
           Life(o)'.paymentStatus = IF Life(o)'.status = "DELIVERED" /\ o \notin BankingOrders
                                    THEN "PAID" ELSE Life(o).paymentStatus,
           Life(o)'.returned = Life(o).returned, Life(o)'.refunded = Life(o).refunded
    PROVE  Promise!Update(o)
<1>1. PICK status \in Status, paymentStatus \in PaymentStatus :
         /\ status = Life(o)'.status
         /\ paymentStatus = IF status = "DELIVERED" /\ o \notin BankingOrders
                            THEN "PAID" ELSE Life(o).paymentStatus
  BY DEF LifeRecord, PaymentStatus
<1> DEFINE new == [Life(o) EXCEPT !.status = status, !.paymentStatus = paymentStatus]
<1>2. Promise!Updated(o, status) = new
  BY <1>1 DEF Promise!Updated
<1>3. /\ new \in LifeRecord(o) /\ new.status = status /\ new.paymentStatus = paymentStatus
      /\ new.returned = Life(o).returned /\ new.refunded = Life(o).refunded
  <2>1. PICK life \in LifeRecord(o) : life = Life(o)
    OBVIOUS
  <2>2. QED
    BY <2>1 DEF LifeRecord
<1> HIDE DEF new
<1>4. Life(o)' = new
  BY <1>1, <1>3, SameFields
<1>5. QED
  BY <1>1, <1>2, <1>4 DEF Promise!Update

LEMMA PromisePays ==
    ASSUME NEW o \in BankingOrders, Life(o) \in LifeRecord(o), Life(o)' \in LifeRecord(o),
           Life(o).status # "none", Life(o)'.status = "PROCESSING", Life(o)'.paymentStatus = "PAID",
           Life(o)'.returned = Life(o).returned, Life(o)'.refunded = Life(o).refunded
    PROVE  Promise!Pay(o)
<1>1. PICK life \in LifeRecord(o), status \in Status, paymentStatus \in PaymentStatus :
         life = Life(o) /\ status = "PROCESSING" /\ paymentStatus = "PAID"
  BY DEF Status, PaymentStatus
<1> DEFINE new == [life EXCEPT !.status = status, !.paymentStatus = paymentStatus]
<1>2. o \in Orders
  BY OrdersAssumption
<1>3. Promise!PaidFor(o) = new
  BY <1>1, <1>2 DEF Promise!PaidFor
<1>4. /\ new \in LifeRecord(o) /\ new.status = status /\ new.paymentStatus = paymentStatus
      /\ new.returned = Life(o).returned /\ new.refunded = Life(o).refunded
  BY <1>1 DEF LifeRecord
<1> HIDE DEF new
<1>5. Life(o)' = new
  BY <1>1, <1>2, <1>4, SameFields
<1>6. QED
  BY <1>2, <1>3, <1>5 DEF Promise!Pay

LEMMA PromisePlace ==
    ASSUME NEW o \in Orders, Life(o) = Promise!NoOrderYet(o),
           Life(o)' = [status |-> IF o \in BankingOrders THEN "PENDING" ELSE "PROCESSING",
                       paymentStatus |-> "UNPAID", returned |-> [i \in Lines(o) |-> 0], refunded |-> 0]
    PROVE  Promise!Place(o)
BY DEF Promise!Place, Promise!Placed, Promise!NoOrderYet, Lines

LifeMoves(o) ==
    \/ Life(o)' = Life(o)
    \/ Promise!Place(o) \/ Promise!Cancel(o) \/ Promise!BreakOff(o) \/ Promise!Update(o) \/ Promise!Pay(o)

\* How often an order was cancelled, brought back and cancelled in vain: the
\* life leaves CANCELLED when the row does, and gives an item back when it gets
\* there or, as is counted, when a cancellation breaks off.
Tally(o) ==
    /\ revived'[o] = revived[o] + (IF Life(o).status = "CANCELLED" /\ Life(o)'.status # "CANCELLED"
                                   THEN 1 ELSE 0)
    /\ \A i \in Lines(o) :
          Life(o)'.returned[i] - broken'[o][i] =
              Life(o).returned[i] - broken[o][i]
              + (IF Life(o).status # "CANCELLED" /\ Life(o)'.status = "CANCELLED" THEN 1 ELSE 0)

LEMMA Untallied ==
    ASSUME TypeOK, NEW o \in Orders, Life(o)' = Life(o), revived'[o] = revived[o], broken'[o] = broken[o]
    PROVE  Tally(o)
<1>1. Life(o).returned \in [Lines(o) -> Int]
  BY LifeType DEF LifeRecord
<1>2. revived[o] \in Nat /\ \A i \in Lines(o) : broken[o][i] \in Nat
  BY DEF TypeOK
<1>3. QED
  BY <1>1, <1>2 DEF Tally

\* A checkout is over with the save of its last item.
LEMMA CheckoutEndsThere ==
    ASSUME TypeOK, NEW o \in Orders, SubmitOrder(o) \/ CheckoutStepOf(o), checkout'[o].pc = "done"
    PROVE  WriteStock(o)
<1>1. checkout \in [Orders -> Checkout]
  BY DEF TypeOK
<1>2. ASSUME NEW from, NEW to, NEW ok, Advance(o, from, to, ok) PROVE to = "done"
  BY <1>1, <1>2 DEF Advance, At
<1>3. ASSUME NEW from, NEW to, NEW value, NEW needed, NEW ok, CheckoutReads(o, from, to, value, needed, ok)
      PROVE  to = "done"
  BY <1>1, <1>3 DEF CheckoutReads, At, Checkout
<1>4. "done" \notin {BeforeSave(o), BeforePoints(o), AfterCart(o), AfterSave(o)}
  BY DEF BeforeSave, BeforePoints, AfterCart, AfterSave
<1>5. ~SubmitOrder(o) /\ ~ReadCart(o) /\ ~CheckVoucher(o) /\ ~WritePoints(o) /\ ~MakeQR(o) /\ ~SaveOrder(o)
  BY <1>2, <1>4 DEF SubmitOrder, ReadCart, CheckVoucher, WritePoints, MakeQR, SaveOrder
<1>6. ~FindVoucher(o) /\ ~UseVoucher(o) /\ ~InsertVoucher(o) /\ ~SaveItems(o) /\ ~FindCart(o) /\ ~EmptyCart(o)
  BY <1>2 DEF FindVoucher, UseVoucher, InsertVoucher, SaveItems, FindCart, EmptyCart
<1>7. ~ReadPoints(o) /\ ~ReadStock(o)
  BY <1>3 DEF ReadPoints, ReadStock
<1>8. QED
  BY <1>5, <1>6, <1>7 DEF CheckoutStepOf

LEMMA CheckoutLifeMoves ==
    ASSUME TypeOK, TypeOK', NEW o \in Orders, OrderLife(o), OrderLife(o)',
           SubmitOrder(o) \/ CheckoutStepOf(o)
    PROVE  checkout[o].pc # "done" /\ (Life(o)' = Life(o) \/ Promise!Place(o))
<1>1. checkout[o].pc # "done" /\ Life(o) = Promise!NoOrderYet(o)
  <2>1. checkout[o].pc # "done"
    BY DEF SubmitOrder, CheckoutStepOf, ReadCart, CheckVoucher, ReadPoints, WritePoints, MakeQR, SaveOrder,
       FindVoucher, UseVoucher, InsertVoucher, SaveItems, FindCart, EmptyCart, ReadStock, WriteStock,
       Advance, CheckoutReads
  <2>2. QED
    BY <2>1, LifeNone
<1>2. CASE checkout'[o].pc # "done"
  BY <1>1, <1>2, NextLifeNone
<1>3. CASE checkout'[o].pc = "done"
  <2>1. WriteStock(o)
    BY <1>3, CheckoutEndsThere
  <2>2. /\ checkout[o].pc = "writeStock" /\ UNCHANGED <<row, request, returned, refunds>>
        /\ timer'[o].pc \in {timer[o].pc, "armed"}
    BY <2>1 DEF WriteStock, TypeOK, Timer
  <2>3. /\ row[o] = FreshRow(o) /\ Handlers(o) = {} /\ timer[o].pc = "off" /\ refunds[o] = 0
        /\ \A i \in Lines(o) : returned[o][i] = 0
    BY <2>2 DEF OrderLife, CheckoutLife, AfterSaving, Unused
  <2>4. Handlers(o)' = {} /\ ~Restocking(o)'
    BY <2>2, <2>3 DEF Handlers, Restocking
  <2>5. Life(o)' = RowLife(o)'
    BY <1>3, <2>4, NextLifeAlone
  <2>6. Given(o)' = [i \in Lines(o) |-> 0]
    <3>1. \A i \in Lines(o) : Returns(o, i)' = 0
      BY <2>2, <2>3, <2>4, NextReturnsAlone DEF Lines
    <3>2. QED
      BY <3>1 DEF Given, Lines
  <2>7. RowLife(o)' = [status |-> IF o \in BankingOrders THEN "PENDING" ELSE "PROCESSING",
                       paymentStatus |-> "UNPAID", returned |-> [i \in Lines(o) |-> 0], refunded |-> 0]
    BY <2>2, <2>3, <2>6 DEF RowLife, FreshRow
  <2>8. QED
    BY <1>1, <2>5, <2>7, PromisePlace
<1>4. QED
  BY <1>1, <1>2, <1>3

LEMMA TimerLifeMoves ==
    ASSUME TypeOK, TypeOK', NEW o \in Orders, OrderLife(o), OrderLife(o)',
           TimerStepOf(o), ~TimerThrows(o), o \notin disturbed'
    PROVE  (Life(o)' = Life(o) \/ Promise!Cancel(o)) /\ Tally(o)
<1>a. /\ timer \in [Orders -> Timer] /\ timer[o] \in Timer /\ refunds[o] \in Nat /\ revived[o] \in Nat
      /\ timer[o].item \in Lines(o)
      /\ \A i \in Lines(o) : i \in Nat /\ returned[o][i] \in Nat /\ broken[o][i] \in Nat
  BY LineFacts DEF TypeOK
<1>b. UNCHANGED <<request, checkout, refunds>> /\ checkout[o].pc = "done"
  BY DEF OrderLife, TimerLife, TimerStepOf, Fire, CompareExpired, UpdateExpired, TimerReadStock,
     TimerWriteStock, TimerToNextItem, TimerFindVoucher, TimerRefundVoucher, TimerReadPoints,
     TimerWritePoints, TimerGoes, TimerReads, dbVars, history
<1>d. broken' = broken
  BY DEF TimerStepOf, Fire, CompareExpired, UpdateExpired, TimerReadStock, TimerWriteStock, TimerToNextItem,
     TimerFindVoucher, TimerRefundVoucher, TimerReadPoints, TimerWritePoints, TimerGoes, TimerReads, stock,
     history
<1>e. ASSUME Life(o)' = Life(o), revived' = revived
      PROVE  (Life(o)' = Life(o) \/ Promise!Cancel(o)) /\ Tally(o)
  BY <1>d, <1>e, Untallied
<1>1. CASE Fire(o)
  <2>1. UNCHANGED <<row, returned, revived>> /\ ~Restocking(o) /\ ~Restocking(o)'
    BY <1>1, <1>a DEF Fire, TimerGoes, NoTimer, Restocking, stock
  <2>2. Cancelling(o)' = Cancelling(o) /\ \A r \in Cancelling(o) : Paid(r)' = Paid(r)
    BY <1>b DEF Cancelling, Handlers, Paid, Returning
  <2>3. Given(o)' = Given(o)
    <3>1. ASSUME NEW i \in Lines(o) PROVE Returns(o, i)' = Returns(o, i)
      BY <1>b, <2>1 DEF Returns, Handlers, Returning
    <3>2. QED
      BY <3>1, GivenSame
  <2>4. Life(o)' = Life(o)
    BY <1>b, <2>1, <2>2, <2>3 DEF Life, Given
  <2>5. QED
    BY <1>e, <2>1, <2>4
\* From then on the countdown is alone with its order.
<1>c. ASSUME ~Fire(o)
      PROVE  /\ Life(o) = RowLife(o) /\ Life(o)' = RowLife(o)'
             /\ \A i \in Lines(o) :
                   /\ Returns(o, i) = returned[o][i] + (IF Restocking(o) /\ timer[o].item <= i THEN 1 ELSE 0)
                   /\ Returns(o, i)' = returned'[o][i]
                                       + (IF Restocking(o)' /\ timer'[o].item <= i THEN 1 ELSE 0)
  <2>1. timer[o].pc \notin {"off", "armed"}
    BY <1>c DEF TimerStepOf, CompareExpired, UpdateExpired, TimerReadStock, TimerWriteStock, TimerToNextItem,
       TimerFindVoucher, TimerRefundVoucher, TimerReadPoints, TimerWritePoints, TimerGoes, TimerReads
  <2>2. Handlers(o) = {} /\ Handlers(o)' = {}
    BY <1>b, <2>1 DEF OrderLife, TimerLife, Counting, Handlers
  <2>3. Life(o) = RowLife(o) /\ Life(o)' = RowLife(o)'
    BY <1>b, <2>2, LifeAlone, NextLifeAlone
  <2>4. \A i \in Lines(o) :
           Returns(o, i) = returned[o][i] + (IF Restocking(o) /\ timer[o].item <= i THEN 1 ELSE 0)
    BY <2>2, ReturnsAlone
  <2>5. \A i \in Lines(o) :
           Returns(o, i)' = returned'[o][i] + (IF Restocking(o)' /\ timer'[o].item <= i THEN 1 ELSE 0)
    BY <2>2, NextReturnsAlone DEF Lines
  <2>6. QED
    BY <2>3, <2>4, <2>5
<1>2. CASE UpdateExpired(o)
  <2>1. /\ timer'[o].pc = "readStock" /\ timer'[o].item = 1 /\ timer[o].pc = "update"
        /\ UpdateRow(o, Expired, timer[o].dirty) /\ returned' = returned
    BY <1>2, <1>a DEF UpdateExpired, TimerGoes, NoTimer, stock
  <2>2. timer[o].dirty = Differing(o, Expired) /\ row[o] = Pending /\ ~Fire(o)
    BY <2>1 DEF OrderLife, TimerLife, Fire, TimerGoes
  <2>3. row'[o] = Expired /\ revived'[o] = revived[o]
    BY <2>1, <2>2, RowSaved, EntityEnds DEF Pending, Expired
  <2>4. /\ Life(o).status = "PENDING" /\ Life(o).paymentStatus = "UNPAID" /\ Life(o).refunded = refunds[o]
        /\ Life(o)'.status = "CANCELLED" /\ Life(o)'.paymentStatus = "UNPAID" /\ Life(o)'.refunded = refunds[o]
        /\ Life(o).returned = Given(o) /\ Life(o)'.returned = Given(o)'
    BY <1>b, <1>c, <2>2, <2>3 DEF RowLife, Pending, Expired
  <2>5. ASSUME NEW i \in Lines(o)
        PROVE  Life(o).returned[i] = returned[o][i] /\ Life(o)'.returned[i] = returned[o][i] + 1
    <3>1. 1 <= i
      BY LineFacts DEF Lines
    <3>2. Restocking(o)' /\ ~Restocking(o)
      BY <2>1 DEF Restocking
    <3>3. Returns(o, i) = returned[o][i] /\ Returns(o, i)' = returned[o][i] + 1
      BY <1>a, <1>c, <2>1, <2>2, <3>1, <3>2
    <3>4. Given(o)[i] = Returns(o, i) /\ Given(o)'[i] = Returns(o, i)'
      BY GivenType, NextGivenType DEF Lines
    <3>5. QED
      BY <2>4, <3>3, <3>4
  <2>6. Promise!Cancel(o)
    <3>1. Life(o) \in LifeRecord(o) /\ Life(o)' \in LifeRecord(o)
      BY LifeType, NextLifeType DEF LifeRecord, Lines
    <3>2. \A i \in Lines(o) : Life(o)'.returned[i] = Life(o).returned[i] + 1
      BY <1>a, <2>5
    <3>3. QED
      BY <2>4, <3>1, <3>2, PromiseCancels DEF Cancellable
  <2>7. Tally(o)
    BY <1>a, <1>d, <2>3, <2>4, <2>5 DEF Tally
  <2>8. QED
    BY <2>6, <2>7
\* The other steps change neither the row nor what counts as given back.
<1>f. ASSUME ~Fire(o), row' = row, revived' = revived, \A i \in Lines(o) : Returns(o, i)' = Returns(o, i)
      PROVE  (Life(o)' = Life(o) \/ Promise!Cancel(o)) /\ Tally(o)
  <2>1. Given(o)' = Given(o)
    BY <1>f, GivenSame
  <2>2. Life(o)' = Life(o)
    BY <1>b, <1>c, <1>f, <2>1 DEF RowLife
  <2>3. QED
    BY <1>e, <1>f, <2>2
<1>3. CASE TimerWriteStock(o)
  <2>0. /\ UNCHANGED <<row, revived>> /\ Restocking(o) /\ ~Fire(o)
        /\ returned' = [returned EXCEPT ![o][timer[o].item] = @ + 1]
    BY <1>3 DEF TimerWriteStock, TimerToNextItem, Restock, Restocking, Fire, TimerGoes
  <2>1. \A i \in Lines(o) : returned'[o][i] = returned[o][i] + (IF i = timer[o].item THEN 1 ELSE 0)
    <3>1. returned[o] \in [Lines(o) -> Nat] /\ DOMAIN returned = Orders
      BY DEF TypeOK
    <3>2. QED
      BY <1>a, <2>0, <3>1
  <2>2. CASE LastLine(o, timer[o].item)
    <3>1. timer' = [timer EXCEPT ![o] = [NoTimer EXCEPT !.pc = AfterRestock(o)]]
      BY <1>3, <2>2 DEF TimerWriteStock, TimerToNextItem
    <3>2. timer'[o].pc = AfterRestock(o)
      BY <1>a, <3>1 DEF NoTimer
    <3>3. ~Restocking(o)'
      BY <3>2 DEF Restocking, AfterRestock, AfterRefund
    <3>4. \A i \in Lines(o) : i <= timer[o].item
      BY <2>2, LineFacts DEF LastLine, Lines
    <3>5. ASSUME NEW i \in Lines(o) PROVE Returns(o, i)' = Returns(o, i)
      <4>1. timer[o].item <= i <=> i = timer[o].item
        BY <1>a, <3>4
      <4>2. QED
        BY <1>a, <1>c, <2>0, <2>1, <3>3, <4>1
    <3>6. QED
      BY <1>f, <2>0, <3>5
  <2>3. CASE ~LastLine(o, timer[o].item)
    <3>1. timer' = [timer EXCEPT ![o] = [NoTimer EXCEPT !.pc = "readStock", !.item = timer[o].item + 1]]
      BY <1>3, <2>3 DEF TimerWriteStock, TimerToNextItem
    <3>2. timer'[o].pc = "readStock" /\ timer'[o].item = timer[o].item + 1
      BY <1>a, <3>1 DEF NoTimer
    <3>3. Restocking(o)'
      BY <3>2 DEF Restocking
    <3>4. ASSUME NEW i \in Lines(o) PROVE Returns(o, i)' = Returns(o, i)
      <4>1. timer[o].item <= i <=> i = timer[o].item \/ timer'[o].item <= i
        BY <1>a, <3>2
      <4>2. ~(i = timer[o].item /\ timer'[o].item <= i)
        BY <1>a, <3>2
      <4>3. QED
        BY <1>a, <1>c, <2>0, <2>1, <3>3, <4>1, <4>2
    <3>5. QED
      BY <1>f, <2>0, <3>4
  <2>4. QED
    BY <2>2, <2>3
<1>4. CASE ~Fire(o) /\ ~UpdateExpired(o) /\ ~TimerWriteStock(o)
  <2>1. UNCHANGED <<row, returned, revived>>
    BY <1>4
    DEF TimerStepOf, CompareExpired, TimerReadStock, TimerFindVoucher, TimerRefundVoucher, TimerReadPoints,
        TimerWritePoints, TimerGoes, TimerReads, stock, dbVars, history
  <2>2. (Restocking(o)' <=> Restocking(o)) /\ (Restocking(o) => timer'[o].item = timer[o].item)
    <3>1. CASE TimerReadStock(o)
      BY <3>1, <1>a DEF TimerReadStock, TimerReads, Timer, Restocking
    <3>2. CASE CompareExpired(o) \/ TimerFindVoucher(o) \/ TimerRefundVoucher(o)
      BY <3>2, <1>a
      DEF CompareExpired, TimerFindVoucher, TimerRefundVoucher, TimerGoes, AfterRefund, NoTimer, Restocking
    <3>3. CASE TimerReadPoints(o) \/ TimerWritePoints(o)
      BY <3>3, <1>a DEF TimerReadPoints, TimerWritePoints, TimerReads, TimerGoes, Timer, NoTimer, Restocking
    <3>4. QED
      BY <1>4, <3>1, <3>2, <3>3 DEF TimerStepOf
  <2>3. ASSUME NEW i \in Lines(o) PROVE Returns(o, i)' = Returns(o, i)
    BY <1>4, <1>c, <2>1, <2>2
  <2>4. QED
    BY <1>4, <1>f, <2>1, <2>3
<1>5. QED
  BY <1>1, <1>2, <1>3, <1>4

LEMMA CallMoves ==
    ASSUME TypeOK, TypeOK', NEW o \in Orders, OrderLife(o), checkout[o].pc = "done",
           NEW r \in Requests, request[r].order = o, RequestStepOf(r)
    PROVE  LifeMoves(o) /\ Tally(o)
<1>a. /\ request[r] \in Request /\ request[r].entity \in Entity /\ row[o] \in Entity
      /\ refunds[o] \in Nat /\ revived[o] \in Nat
      /\ refunds \in [Orders -> Nat] /\ request \in [Requests -> Request]
  BY DEF TypeOK, Request
<1>b. Handlers(o) = {r} /\ Job(o, request[r]) /\ ~Counting(o) /\ ~request[r].bare
  <2>1. r \in Handlers(o)
    BY DEF Handlers
  <2>2. o \in itemRows
    BY DEF OrderLife, CheckoutLife, AfterItems
  <2>3. QED
    BY <2>1, <2>2, <1>a DEF OrderLife, HandlerLife, TimerLife, Job, Request
<1>c. /\ UNCHANGED <<checkout, timer>> /\ checkout'[o].pc = "done"
      /\ \A q \in Requests : q # r => request'[q] = request[q]
  BY DEF RequestStepOf, CancelReadsStock, CancelWritesStock, CompareCancelled, UpdateCancelled,
     CancelReadsPoints, CancelWritesPoints, FindOrder, CompareEntity, UpdateEntity, Compare, Continue, TypeOK
<1>d. ~Restocking(o) /\ ~Restocking(o)'
  BY <1>b, <1>c DEF Counting, Restocking
<1>e. Life(o) \in LifeRecord(o) /\ Life(o)' \in LifeRecord(o)
  BY LifeType, NextLifeType DEF LifeRecord, Lines
<1>l. \A i \in Lines(o) :
         /\ i \in Nat /\ returned[o][i] \in Nat /\ returned'[o][i] \in Nat /\ broken[o][i] \in Nat
         /\ Given(o)[i] = Returns(o, i) /\ Given(o)'[i] = Returns(o, i)'
  <2>1. \A i \in Lines(o) : Given(o)[i] = Returns(o, i) /\ Given(o)'[i] = Returns(o, i)'
    BY GivenType, NextGivenType DEF Lines
  <2>2. \A i \in Lines(o) : returned[o][i] \in Nat /\ broken[o][i] \in Nat
    BY DEF TypeOK
  <2>3. \A i \in Lines(o) : i \in Nat
    BY LineFacts DEF Lines
  <2>4. \A i \in Lines(o) : returned'[o][i] \in Nat
    BY DEF TypeOK, Lines
  <2>5. QED
    BY <2>1, <2>2, <2>3, <2>4
\* The life before the step, and after it.
<1>f. /\ Life(o) = IF Committed(r) THEN CancelledLife(o, r) ELSE RowLife(o)
      /\ \A i \in Lines(o) :
            Returns(o, i) = returned[o][i] - (IF Returning(r) /\ i < request[r].item THEN 1 ELSE 0)
  BY <1>b, <1>d, LifeBusy, ReturnsBusy
<1>g. ASSUME Over(r) PROVE Life(o)' = RowLife(o)' /\ \A i \in Lines(o) : Returns(o, i)' = returned'[o][i]
  <2>1. request'[r].order # o
    BY <1>g, OrdersAssumption DEF Over, Idle
  <2>2. Handlers(o)' = {}
    BY <1>b, <1>c, <2>1 DEF Handlers
  <2>3. \A i \in Lines(o) : Returns(o, i)' = returned'[o][i]
    BY <1>d, <1>l, <2>2, NextReturnsAlone DEF Lines
  <2>4. QED
    BY <1>c, <2>2, <2>3, NextLifeAlone
<1>h. ASSUME request'[r].order = o
      PROVE  /\ Life(o)' = IF Committed(r)' THEN CancelledLife(o, r)' ELSE RowLife(o)'
             /\ \A i \in Lines(o) :
                   Returns(o, i)' = returned'[o][i] - (IF Returning(r)' /\ i < request'[r].item THEN 1 ELSE 0)
  <2>1. Handlers(o)' = {r}
    BY <1>b, <1>c, <1>h DEF Handlers
  <2>2. Life(o)' = IF Committed(r)' THEN CancelledLife(o, r)' ELSE RowLife(o)'
    BY <1>c, <2>1, NextLifeBusy
  <2>3. \A i \in Lines(o) :
           Returns(o, i)' = returned'[o][i] - (IF Returning(r)' /\ i < request'[r].item THEN 1 ELSE 0)
    BY <1>d, <2>1, NextReturnsBusy DEF Lines
  <2>4. QED
    BY <2>2, <2>3
<1>i. ASSUME UNCHANGED <<broken, revived>>, Life(o)' = Life(o) PROVE LifeMoves(o) /\ Tally(o)
  BY <1>i, Untallied DEF LifeMoves
\* Past the items, what was given back stays as it is.
<1>j. ASSUME UNCHANGED returned, ~Returning(r), request'[r].order = o => ~Returning(r)',
             Over(r) \/ request'[r].order = o
      PROVE  Given(o)' = Given(o)
  <2>1. ASSUME NEW i \in Lines(o) PROVE Returns(o, i)' = Returns(o, i)
    <3>1. Returns(o, i) = returned[o][i]
      BY <1>f, <1>j, <1>l
    <3>2. Returns(o, i)' = returned[o][i]
      BY <1>g, <1>h, <1>j, <1>l
    <3>3. QED
      BY <3>1, <3>2
  <2>2. QED
    BY <2>1, GivenSame
<1>1. CASE CancelReadsStock(r)
  <2>1. request[r].pc = "readStock" /\ UNCHANGED <<row, returned, refunds, revived>> /\ Returning(r)
    BY <1>1 DEF CancelReadsStock, Continue, Returning
  <2>2. /\ Life(o) = RowLife(o) /\ request[r].item \in Lines(o) /\ row[o].status \in Cancellable
        /\ request[r].item \in Nat /\ request[r].item >= 1
    <3>1. request[r].item \in Lines(o)
      BY <2>1, RequestOrder
    <3>2. QED
      BY <1>b, <1>f, <2>1, <3>1 DEF Committed, Job, Lines
  <2>3. CASE Over(r)
    <3>1. broken' = [broken EXCEPT ![o] =
                        [j \in Lines(o) |-> IF j < request[r].item THEN broken[o][j] + 1 ELSE broken[o][j]]]
      <4>1. Product(o, request[r].item) \in removed
        <5>1. request'[r].order = NoOrder
          BY <2>3 DEF Over, Idle
        <5>2. [request[r] EXCEPT !.pc = "writeStock",
                  !.seen = inventory[Product(o, request[r].item)]].order = o
          BY <1>a DEF Request
        <5>3. Product(o, request[r].item) \notin removed =>
                 request'[r] = [request[r] EXCEPT !.pc = "writeStock",
                                    !.seen = inventory[Product(o, request[r].item)]]
          BY <1>1, <1>a DEF CancelReadsStock, Continue
        <5>4. QED
          BY <5>1, <5>2, <5>3, OrdersAssumption
      <4>2. QED
        BY <1>1, <4>1 DEF CancelReadsStock
    <3>2. \A i \in Lines(o) : broken'[o][i] = broken[o][i] + (IF i < request[r].item THEN 1 ELSE 0)
      <4>1. broken'[o] = [j \in Lines(o) |-> IF j < request[r].item THEN broken[o][j] + 1 ELSE broken[o][j]]
        BY <3>1 DEF TypeOK
      <4>2. QED
        BY <1>l, <4>1
    <3>3. Life(o)' = RowLife(o)'
      BY <1>g, <2>3
    <3>4. /\ Life(o).status = row[o].status /\ Life(o)'.status = row[o].status
          /\ Life(o).paymentStatus = row[o].paymentStatus /\ Life(o)'.paymentStatus = row[o].paymentStatus
          /\ Life(o).refunded = refunds[o] /\ Life(o)'.refunded = refunds[o]
          /\ Life(o).returned = Given(o) /\ Life(o)'.returned = Given(o)'
      BY <2>1, <2>2, <3>3 DEF RowLife
    <3>5. ASSUME NEW i \in Lines(o)
          PROVE  Given(o)'[i] = Given(o)[i] + (IF i < request[r].item THEN 1 ELSE 0)
      <4>1. Returns(o, i) = returned[o][i] - (IF i < request[r].item THEN 1 ELSE 0)
        BY <1>f, <2>1
      <4>2. Returns(o, i)' = returned[o][i]
        BY <1>g, <2>1, <2>3
      <4>3. QED
        BY <1>l, <4>1, <4>2
    <3>6. Tally(o)
      BY <1>a, <1>l, <1>e, <2>1, <3>2, <3>4, <3>5 DEF Tally, LifeRecord
    <3>7. CASE request[r].item = 1
      <4>1. ASSUME NEW i \in Lines(o) PROVE Returns(o, i)' = Returns(o, i)
        <5>1. ~(i < request[r].item)
          BY <3>7, LineFacts DEF Lines
        <5>2. Returns(o, i) = returned[o][i] /\ Returns(o, i)' = returned[o][i]
          BY <1>f, <1>g, <1>l, <2>1, <2>3, <5>1
        <5>3. QED
          BY <5>2
      <4>2. Given(o)' = Given(o)
        BY <4>1, GivenSame
      <4>3. Life(o)' = Life(o)
        BY <2>1, <2>2, <3>3, <4>2 DEF RowLife
      <4>4. QED
        BY <3>6, <4>3 DEF LifeMoves
    <3>8. CASE request[r].item # 1
      <4>1. PICK n \in 1..(Len(ItemsOf[o]) - 1) : n = request[r].item - 1
        BY <2>2, <3>8, LineFacts DEF Lines
      <4>2. \A i \in Lines(o) : Life(o)'.returned[i] = Life(o).returned[i] + (IF i <= n THEN 1 ELSE 0)
        <5>1. \A i \in Lines(o) : i < request[r].item <=> i <= n
          BY <1>l, <2>2, <4>1
        <5>2. QED
          BY <3>4, <3>5, <5>1
      <4>3. Promise!BreakOff(o)
        BY <1>e, <2>2, <3>4, <4>2, PromiseBreaksOff
      <4>4. QED
        BY <3>6, <4>3 DEF LifeMoves
    <3>9. QED
      BY <3>7, <3>8
  <2>4. CASE ~Over(r)
    <3>1. /\ CallIs(r, o, "writeStock", request[r].entity, request[r].bare, request[r].dirty)
          /\ request'[r].item = request[r].item /\ broken' = broken
      BY <1>1, <2>4, RequestCalls
    <3>2. Returning(r)' /\ ~Committed(r)' /\ request'[r].order = o
      BY <3>1 DEF CallIs, Returning, Committed
    <3>3. ASSUME NEW i \in Lines(o) PROVE Returns(o, i)' = Returns(o, i)
      BY <1>f, <1>h, <2>1, <3>1, <3>2
    <3>4. Given(o)' = Given(o)
      BY <3>3, GivenSame
    <3>5. Life(o)' = Life(o)
      BY <1>h, <2>1, <2>2, <3>2, <3>4 DEF RowLife
    <3>6. QED
      BY <1>i, <2>1, <3>1, <3>5
  <2>5. QED
    BY <2>3, <2>4
<1>2. CASE CancelWritesStock(r)
  <2>1. /\ request[r].pc = "writeStock" /\ UNCHANGED <<row, refunds, revived, broken>>
        /\ returned' = [returned EXCEPT ![o][request[r].item] = @ + 1]
    BY <1>2 DEF CancelWritesStock, Restock
  <2>2. request[r].item \in Lines(o) /\ request[r].item \in Nat /\ Returning(r)
    <3>1. request[r].item \in Lines(o)
      BY <2>1, RequestOrder
    <3>2. QED
      BY <2>1, <3>1, LineFacts DEF Returning
  <2>3. /\ row[o].status \in Cancellable /\ request[r].entity.status = "CANCELLED"
        /\ request[r].entity.paymentStatus = row[o].paymentStatus
    BY <1>a, <1>b, <2>1 DEF Job, Entity
  <2>4. \A i \in Lines(o) : returned'[o][i] = returned[o][i] + (IF i = request[r].item THEN 1 ELSE 0)
    <3>1. returned[o] \in [Lines(o) -> Nat] /\ DOMAIN returned = Orders
      BY DEF TypeOK
    <3>2. QED
      BY <2>1, <2>2, <3>1
  <2>5. Life(o) = RowLife(o)
    BY <1>f, <2>2 DEF Committed
  <2>6. CASE ~LastLine(o, request[r].item)
    <3>1. /\ CallIs(r, o, "readStock", request[r].entity, request[r].bare, {})
          /\ request'[r].item = request[r].item + 1
      BY <1>2, <2>6, NextItemCall
    <3>2. Returning(r)' /\ ~Committed(r)' /\ request'[r].order = o
      BY <3>1 DEF CallIs, Returning, Committed
    <3>3. ASSUME NEW i \in Lines(o) PROVE Returns(o, i)' = Returns(o, i)
      <4>1. i < request'[r].item <=> i < request[r].item \/ i = request[r].item
        BY <1>l, <2>2, <3>1
      <4>2. Returns(o, i)' = returned'[o][i] - (IF i < request'[r].item THEN 1 ELSE 0)
        BY <1>h, <3>2
      <4>3. Returns(o, i) = returned[o][i] - (IF i < request[r].item THEN 1 ELSE 0)
        BY <1>f, <2>2
      <4>4. QED
        BY <1>l, <2>2, <2>4, <4>1, <4>2, <4>3
    <3>4. Given(o)' = Given(o)
      BY <3>3, GivenSame
    <3>5. Life(o)' = Life(o)
      BY <1>h, <2>1, <2>5, <3>2, <3>4 DEF RowLife
    <3>6. QED
      BY <1>i, <2>1, <3>5
  <2>7. CASE LastLine(o, request[r].item)
    <3>1. CallIs(r, o, "compareCancelled", request[r].entity, request[r].bare, {})
      BY <1>2, <2>7, NextItemCall
    <3>2. Life(o)' = CancelledLife(o, r)' /\ ~Returning(r)' /\ request'[r].order = o
      BY <1>h, <2>3, <3>1 DEF CallIs, Committed, Returning
    <3>3. Paid(r)' <=> (o \in BankingOrders /\ row[o].paymentStatus = "PAID")
      BY <2>3, <3>1 DEF CallIs, Paid
    <3>4. /\ Life(o).status = row[o].status /\ Life(o).paymentStatus = row[o].paymentStatus
          /\ Life(o).returned = Given(o) /\ Life(o).refunded = refunds[o]
      BY <2>5 DEF RowLife
    <3>5. /\ Life(o)'.status = "CANCELLED" /\ Life(o)'.returned = Given(o)'
          /\ Life(o)'.paymentStatus = IF o \in BankingOrders /\ row[o].paymentStatus = "PAID"
                                      THEN "REFUNDED" ELSE row[o].paymentStatus
          /\ Life(o)'.refunded = IF o \in BankingOrders /\ row[o].paymentStatus = "PAID"
                                 THEN refunds[o] + 1 ELSE refunds[o]
      BY <1>a, <2>1, <2>3, <3>1, <3>2, <3>3 DEF CancelledLife, CallIs
    <3>6. ASSUME NEW i \in Lines(o) PROVE Life(o)'.returned[i] = Life(o).returned[i] + 1
      <4>1. i < request[r].item <=> i # request[r].item
        BY <2>2, <2>7, LineFacts DEF LastLine, Lines
      <4>2. Returns(o, i) = returned[o][i] - (IF i < request[r].item THEN 1 ELSE 0)
        BY <1>f, <2>2
      <4>3. Returns(o, i)' = returned'[o][i]
        BY <1>h, <1>l, <3>2
      <4>4. Returns(o, i)' = Returns(o, i) + 1
        BY <1>l, <2>4, <4>1, <4>2, <4>3
      <4>5. QED
        BY <1>l, <3>4, <3>5, <4>4
    <3>7. Promise!Cancel(o)
      BY <1>e, <2>3, <3>4, <3>5, <3>6, PromiseCancels
    <3>8. Tally(o)
      <4>1. row[o].status # "CANCELLED"
        BY <2>3 DEF Cancellable
      <4>2. \A i \in Lines(o) : Life(o).returned[i] \in Int
        BY <1>e DEF LifeRecord
      <4>3. QED
        BY <1>a, <1>l, <2>1, <3>4, <3>5, <3>6, <4>1, <4>2 DEF Tally
    <3>9. QED
      BY <3>7, <3>8 DEF LifeMoves
  <2>8. QED
    BY <2>6, <2>7
<1>3. CASE CompareCancelled(r) \/ CompareEntity(r)
  <2>1. /\ UNCHANGED <<row, stock, refunds, revived>> /\ ~Returning(r)
        /\ \E to \in {"updateCancelled", "updateEntity"} :
              CallIs(r, o, to, request[r].entity, request[r].bare, Differing(o, request[r].entity))
    BY <1>3, <1>b, CompareCall DEF CompareCancelled, CompareEntity, Returning
  <2>2. /\ ~Returning(r)' /\ request'[r].order = o /\ UNCHANGED <<returned, broken>>
        /\ Committed(r)' <=> Committed(r)
        /\ Paid(r)' <=> Paid(r)
    BY <2>1 DEF CallIs, Committed, Returning, Paid, stock
  <2>3. Given(o)' = Given(o)
    BY <1>j, <2>1, <2>2
  <2>4. RowLife(o)' = RowLife(o) /\ CancelledLife(o, r)' = CancelledLife(o, r)
    BY <2>1, <2>2, <2>3 DEF RowLife, CancelledLife, CallIs
  <2>5. QED
    BY <1>f, <1>h, <1>i, <2>1, <2>2, <2>4
<1>4. CASE UpdateCancelled(r)
  <2>1. /\ request[r].pc = "updateCancelled" /\ UNCHANGED <<returned, broken, refunds>>
        /\ UpdateRow(o, request[r].entity, request[r].dirty)
        /\ request' = [request EXCEPT ![r] = To(r, "readPoints")]
    BY <1>4 DEF UpdateCancelled, Continue, stock
  <2>2. CallIs(r, o, "readPoints", request[r].entity, request[r].bare, {})
    BY <2>1, ToCall
  <2>3. /\ row[o].status # "CANCELLED" /\ request[r].entity.status = "CANCELLED"
        /\ request[r].entity.paymentStatus = row[o].paymentStatus
        /\ request[r].dirty = Differing(o, request[r].entity)
    BY <1>a, <1>b, <2>1 DEF Job, Entity, Cancellable
  <2>4. row'[o] = request[r].entity /\ revived'[o] = revived[o]
    BY <1>a, <2>1, <2>3, RowSaved
  <2>5. /\ Life(o) = CancelledLife(o, r) /\ Life(o)' = CancelledLife(o, r)'
        /\ ~Returning(r) /\ ~Returning(r)' /\ request'[r].order = o
    BY <1>f, <1>h, <2>1, <2>2, <2>3 DEF CallIs, Committed, Returning
  <2>6. Given(o)' = Given(o)
    BY <1>j, <2>1, <2>5
  <2>7. Life(o)' = Life(o)
    BY <2>1, <2>2, <2>3, <2>4, <2>5, <2>6 DEF CancelledLife, CallIs, Paid
  <2>8. QED
    BY <2>1, <2>4, <2>7, Untallied DEF LifeMoves
<1>5. CASE CancelReadsPoints(r)
  <2>1. request[r].pc = "readPoints" /\ UNCHANGED <<row, returned, broken, refunds, revived>>
    BY <1>5 DEF CancelReadsPoints, Continue, stock
  <2>2. CallIs(r, o, "writePoints", request[r].entity, request[r].bare, request[r].dirty)
    BY <1>5, RequestCalls
  <2>3. /\ ~Returning(r) /\ ~Returning(r)' /\ request'[r].order = o
        /\ Committed(r)' <=> Committed(r)
        /\ Paid(r)' <=> Paid(r)
    BY <2>1, <2>2 DEF CallIs, Committed, Returning, Paid
  <2>4. Given(o)' = Given(o)
    BY <1>j, <2>1, <2>3
  <2>5. RowLife(o)' = RowLife(o) /\ CancelledLife(o, r)' = CancelledLife(o, r)
    BY <2>1, <2>2, <2>3, <2>4 DEF RowLife, CancelledLife, CallIs
  <2>6. QED
    BY <1>f, <1>h, <1>i, <2>1, <2>3, <2>5
<1>6. CASE CancelWritesPoints(r)
  <2>1. request[r].pc = "writePoints" /\ UNCHANGED <<row, returned, broken, revived>>
    BY <1>6 DEF CancelWritesPoints, stock
  <2>2. row[o].status = "CANCELLED" /\ request[r].entity = row[o] /\ ~Returning(r)
    BY <1>b, <2>1 DEF Job, Returning
  <2>3. Life(o) = CancelledLife(o, r)
    BY <1>f, <2>2 DEF Committed
  <2>4. CASE Paid(r)
    <3>1. CallIs(r, o, "compareEntity", [request[r].entity EXCEPT !.paymentStatus = "REFUNDED"],
                 request[r].bare, {})
      BY <1>6, <2>4, RequestCalls
    <3>2. request'[r].entity.status = "CANCELLED" /\ request'[r].entity.paymentStatus = "REFUNDED"
      BY <1>a, <2>2, <3>1 DEF CallIs, Entity
    <3>3. refunds'[o] = refunds[o] + 1
      BY <1>6, <1>a, <2>4 DEF CancelWritesPoints
    <3>4. Life(o)' = CancelledLife(o, r)' /\ ~Paid(r)' /\ ~Returning(r)' /\ request'[r].order = o
      BY <1>h, <3>1, <3>2 DEF CallIs, Committed, Returning, Paid
    <3>5. Given(o)' = Given(o)
      BY <1>j, <2>1, <2>2, <3>4
    <3>6. Life(o)' = Life(o)
      BY <1>a, <2>1, <2>3, <2>4, <3>2, <3>3, <3>4, <3>5 DEF CancelledLife
    <3>7. QED
      BY <1>i, <2>1, <3>6
  <2>5. CASE ~Paid(r)
    <3>1. request' = [request EXCEPT ![r] = To(r, "compareEntity")] /\ refunds' = refunds
      BY <1>6, <2>5 DEF CancelWritesPoints, Continue
    <3>2. CallIs(r, o, "compareEntity", request[r].entity, request[r].bare, {})
      BY <3>1, ToCall
    <3>3. Life(o)' = CancelledLife(o, r)' /\ ~Paid(r)' /\ ~Returning(r)' /\ request'[r].order = o
      BY <1>h, <2>2, <2>5, <3>2 DEF CallIs, Committed, Returning, Paid
    <3>4. Given(o)' = Given(o)
      BY <1>j, <2>1, <2>2, <3>3
    <3>5. Life(o)' = Life(o)
      BY <2>1, <2>3, <2>5, <3>1, <3>2, <3>3, <3>4 DEF CancelledLife, CallIs
    <3>6. QED
      BY <1>i, <2>1, <3>5
  <2>6. QED
    BY <2>4, <2>5
<1>7. CASE FindOrder(r)
  <2>1. request[r].pc = "findOrder" /\ UNCHANGED <<row, returned, broken, refunds, revived>>
    BY <1>7 DEF FindOrder, Continue, stock
  <2>2. CallIs(r, o, "compareEntity", [status |-> "PROCESSING", paymentStatus |-> "PAID"],
               request[r].bare, request[r].dirty)
    BY <1>7, RequestCalls
  <2>3. ~Committed(r) /\ ~Committed(r)' /\ ~Returning(r) /\ ~Returning(r)' /\ request'[r].order = o
    BY <1>b, <2>1, <2>2 DEF CallIs, Committed, Returning, Job, Blank
  <2>4. Given(o)' = Given(o)
    BY <1>j, <2>1, <2>3
  <2>5. RowLife(o)' = RowLife(o)
    BY <2>1, <2>4 DEF RowLife
  <2>6. QED
    BY <1>f, <1>h, <1>i, <2>1, <2>3, <2>5
<1>8. CASE UpdateEntity(r)
  <2>1. /\ request[r].pc = "updateEntity" /\ UNCHANGED <<returned, broken, refunds>> /\ Over(r)
        /\ UpdateRow(o, request[r].entity, request[r].dirty)
    BY <1>8, <1>a DEF UpdateEntity, Continue, Over, stock
  <2>2. request[r].dirty = Differing(o, request[r].entity) /\ Goal(o, request[r].entity) /\ ~Returning(r)
    BY <1>b, <2>1 DEF Job, Returning
  <2>3. /\ row'[o] = request[r].entity
        /\ revived'[o] = IF row[o].status = "CANCELLED" /\ request[r].entity.status # "CANCELLED"
                         THEN revived[o] + 1 ELSE revived[o]
    BY <1>a, <2>1, <2>2, RowSaved
  <2>0. Given(o)' = Given(o)
    <3>1. request'[r].order # o
      BY <2>1, OrdersAssumption DEF Over, Idle
    <3>2. QED
      BY <1>j, <2>1, <2>2, <3>1
  <2>4. /\ Life(o)' = RowLife(o)' /\ Life(o)'.status = request[r].entity.status
        /\ Life(o)'.paymentStatus = request[r].entity.paymentStatus
        /\ Life(o)'.returned = Given(o) /\ Life(o)'.refunded = refunds[o]
    BY <1>g, <2>0, <2>1, <2>3 DEF RowLife
  <2>5. CASE CancelGoal(o, request[r].entity)
    <3>1. Life(o) = CancelledLife(o, r) /\ ~Paid(r)
      BY <1>f, <2>2, <2>5 DEF CancelGoal, Committed, Paid
    <3>2. /\ Life(o).status = "CANCELLED" /\ Life(o).returned = Given(o) /\ Life(o).refunded = refunds[o]
          /\ Life(o).paymentStatus = request[r].entity.paymentStatus
      BY <1>a, <2>5, <3>1 DEF CancelGoal, CancelledLife
    <3>3. Life(o)' = Life(o)
      BY <1>e, <2>4, <2>5, <3>2, SameFields DEF CancelGoal
    <3>4. revived'[o] = revived[o]
      BY <2>3, <2>5 DEF CancelGoal
    <3>5. QED
      BY <2>1, <3>3, <3>4, Untallied DEF LifeMoves
  <2>6. ASSUME request[r].entity.status # "CANCELLED"
        PROVE  /\ Life(o).status = row[o].status /\ Life(o).paymentStatus = row[o].paymentStatus
               /\ Life(o).returned = Given(o) /\ Life(o).refunded = refunds[o]
               /\ Life(o).status # "none" /\ Tally(o)
    <3>1. /\ Life(o).status = row[o].status /\ Life(o).paymentStatus = row[o].paymentStatus
          /\ Life(o).returned = Given(o) /\ Life(o).refunded = refunds[o]
      BY <1>f, <2>6 DEF Committed, RowLife
    <3>2. row[o].status # "none"
      BY DEF OrderLife, CheckoutLife
    <3>3. Tally(o)
      <4>1. \A i \in Lines(o) : Life(o).returned[i] \in Int
        BY <1>e DEF LifeRecord
      <4>2. QED
        BY <1>a, <1>l, <2>1, <2>3, <2>4, <2>6, <3>1, <4>1 DEF Tally
    <3>4. QED
      BY <3>1, <3>2, <3>3
  <2>7. CASE UpdateGoal(o, request[r].entity)
    <3>1. request[r].entity.status # "CANCELLED"
      BY <2>7, OrdersAssumption DEF UpdateGoal
    <3>2. Promise!Update(o)
      BY <1>e, <2>4, <2>6, <2>7, <3>1, PromiseUpdates DEF UpdateGoal
    <3>3. QED
      BY <2>6, <3>1, <3>2 DEF LifeMoves
  <2>8. CASE PayGoal(o, request[r].entity)
    <3>1. request[r].entity.status # "CANCELLED"
      BY <2>8 DEF PayGoal
    <3>2. Promise!Pay(o)
      BY <1>e, <2>4, <2>6, <2>8, <3>1, PromisePays DEF PayGoal
    <3>3. QED
      BY <2>6, <3>1, <3>2 DEF LifeMoves
  <2>9. QED
    BY <2>2, <2>5, <2>7, <2>8 DEF Goal
<1>9. QED
  BY <1>1, <1>2, <1>3, <1>4, <1>5, <1>6, <1>7, <1>8 DEF RequestStepOf
\* A call that begins has not given anything back yet.
LEMMA BeginMoves ==
    ASSUME TypeOK, TypeOK', NEW o \in Orders, OrderLife(o), checkout[o].pc = "done",
           NEW r \in Requests, NEW call, call.order = o, Begin(r, o, call), o \notin disturbed',
           call.item = 1, o \in itemRows /\ call.entity.status = "CANCELLED" => call.pc = "readStock"
    PROVE  LifeMoves(o) /\ Tally(o)
<1>1. /\ Untouched(o) /\ request'[r] = call /\ Handlers(o)' = {r}
      /\ UNCHANGED <<row, itemRows, checkout, timer, held, stock, refunds, revived>>
  BY BeginsAlone
<1>2. Handlers(o) = {} /\ ~Restocking(o) /\ ~Restocking(o)'
  BY <1>1 DEF Untouched, Counting, Restocking
<1>3. o \in itemRows /\ returned' = returned /\ broken' = broken
  BY <1>1 DEF OrderLife, CheckoutLife, AfterItems, stock
<1>4. Life(o) = RowLife(o)
  BY <1>2, LifeAlone
<1>5. ~Committed(r)'
  BY <1>1, <1>3 DEF Committed, Returning
<1>6. Life(o)' = RowLife(o)'
  BY <1>1, <1>5, NextLifeBusy
<1>7. ASSUME NEW i \in Lines(o) PROVE Returns(o, i)' = Returns(o, i)
  <2>1. i \in Nat /\ i >= 1 /\ returned[o][i] \in Nat
    <3>1. returned[o][i] \in Nat
      BY DEF TypeOK
    <3>2. QED
      BY <3>1, LineFacts DEF Lines
  <2>2. Returns(o, i) = returned[o][i]
    BY <1>2, <2>1, ReturnsAlone
  <2>3. Returns(o, i)' = returned'[o][i] - (IF Returning(r)' /\ i < request'[r].item THEN 1 ELSE 0)
    BY <1>1, <1>2, NextReturnsBusy DEF Lines
  <2>4. request'[r].item = 1
    BY <1>1
  <2>5. QED
    BY <1>3, <2>1, <2>2, <2>3, <2>4
<1>8. Given(o)' = Given(o)
  BY <1>7, GivenSame
<1>9. Life(o)' = Life(o)
  BY <1>1, <1>4, <1>6, <1>8 DEF RowLife
<1>10. QED
  BY <1>1, <1>3, <1>9, Untallied DEF LifeMoves

LEMMA RestartMoves ==
    ASSUME TypeOK, TypeOK', NEW o \in Orders, checkout[o].pc = "done", Restart, o \notin disturbed'
    PROVE  LifeMoves(o) /\ Tally(o)
<1>1. /\ Untouched(o) /\ SameOrder(o) /\ checkout'[o].pc = "done" /\ Handlers(o)' = {}
      /\ timer'[o].pc = "off"
  BY RestartAlone DEF NoTimer
<1>2. Handlers(o) = {} /\ ~Restocking(o) /\ ~Restocking(o)'
  BY <1>1 DEF Untouched, Counting, Restocking
<1>3. Life(o) = RowLife(o) /\ Life(o)' = RowLife(o)'
  BY <1>1, <1>2, LifeAlone, NextLifeAlone
<1>4. ASSUME NEW i \in Lines(o) PROVE Returns(o, i)' = Returns(o, i)
  <2>1. returned'[o][i] = returned[o][i]
    BY <1>1 DEF SameOrder
  <2>2. Returns(o, i) = returned[o][i] + 0
    BY <1>2, ReturnsAlone
  <2>3. Returns(o, i)' = returned'[o][i] + 0
    BY <1>1, <1>2, NextReturnsAlone DEF Lines
  <2>4. QED
    BY <2>1, <2>2, <2>3
<1>5. Given(o)' = Given(o)
  BY <1>4, GivenSame
<1>6. Life(o)' = Life(o)
  BY <1>1, <1>3, <1>5 DEF RowLife, SameOrder
<1>7. QED
  BY <1>1, <1>6, Untallied DEF LifeMoves, SameOrder

LEMMA StepMoves ==
    ASSUME TypeOK, TypeOK', [Next]_vars, NEW o \in Orders, OrderLife(o), OrderLife(o)', o \notin disturbed'
    PROVE  LifeMoves(o) /\ (checkout[o].pc = "done" => Tally(o))
<1>1. CASE Apart(o)
  <2>1. Life(o)' = Life(o) /\ revived'[o] = revived[o] /\ broken'[o] = broken[o]
    BY <1>1, ApartStutters DEF Apart, SameOrder
  <2>2. QED
    BY <2>1, Untallied DEF LifeMoves
<1>2. CASE SubmitOrder(o) \/ CheckoutStepOf(o)
  BY <1>2, CheckoutLifeMoves DEF LifeMoves
<1>3. CASE TimerStepOf(o) /\ ~TimerThrows(o)
  BY <1>3, TimerLifeMoves DEF LifeMoves
\* Calls and restarts do not complete a checkout.
<1>4. ASSUME checkout[o].pc # "done", checkout'[o].pc # "done" PROVE LifeMoves(o)
  BY <1>4, LifeNone, NextLifeNone DEF LifeMoves
<1>5. ASSUME NEW r \in Requests, request[r].order = o, RequestStepOf(r)
      PROVE  LifeMoves(o) /\ (checkout[o].pc = "done" => Tally(o))
  <2>1. checkout' = checkout
    BY <1>5
    DEF RequestStepOf, CancelReadsStock, CancelWritesStock, CompareCancelled, UpdateCancelled,
        CancelReadsPoints, CancelWritesPoints, FindOrder, CompareEntity, UpdateEntity, Compare, Continue
  <2>2. QED
    BY <1>4, <1>5, <2>1, CallMoves
<1>6. ASSUME NEW r \in Requests, NEW call, call.order = o, call.item = 1, Begin(r, o, call),
             o \in itemRows /\ call.entity.status = "CANCELLED" => call.pc = "readStock"
      PROVE  LifeMoves(o) /\ (checkout[o].pc = "done" => Tally(o))
  <2>1. checkout' = checkout
    BY <1>6 DEF Begin
  <2>2. QED
    BY <1>4, <1>6, <2>1, BeginMoves
<1>7. ASSUME NEW r \in Requests, CancelOrder(r, o) \/ RecordTransfer(r, o)
      PROVE  LifeMoves(o) /\ (checkout[o].pc = "done" => Tally(o))
  <2>1. CASE CancelOrder(r, o)
    <3>1. Begin(r, o, CancelCall(o)) /\ CancelCall(o).order = o
      BY <2>1, CallsBegin
    <3>2. CancelCall(o).item = 1 /\ (o \in itemRows => CancelCall(o).pc = "readStock")
      BY DEF CancelCall, Idle
    <3>3. QED
      BY <1>6, <3>1, <3>2
  <2>2. CASE RecordTransfer(r, o)
    <3>1. Begin(r, o, TransferCall(o)) /\ TransferCall(o).order = o
      BY <2>2, CallsBegin
    <3>2. TransferCall(o).item = 1 /\ TransferCall(o).entity.status # "CANCELLED"
      BY DEF TransferCall, Idle, Blank
    <3>3. QED
      BY <1>6, <3>1, <3>2
  <2>3. QED
    BY <1>7, <2>1, <2>2
<1>8. ASSUME NEW r \in Requests, NEW status \in AdminStatuses, AdminUpdate(r, o, status)
      PROVE  LifeMoves(o) /\ (checkout[o].pc = "done" => Tally(o))
  <2>1. Begin(r, o, AdminCall(o, status)) /\ AdminCall(o, status).order = o
    BY <1>8, CallsBegin
  <2>2. AdminCall(o, status).item = 1 /\ AdminCall(o, status).entity.status # "CANCELLED"
    BY OrdersAssumption DEF AdminCall, Idle
  <2>3. QED
    BY <1>6, <2>1, <2>2
<1>9. CASE Restart
  <2>1. checkout'[o].pc = "done" => checkout[o].pc = "done"
    BY <1>9 DEF Restart, At
  <2>2. QED
    BY <1>4, <1>9, <2>1, RestartMoves
<1>10. QED
  BY <1>1, <1>2, <1>3, <1>5, <1>7, <1>8, <1>9, OrderSteps

THEOREM InitPromise == Init => Promise!Init
BY DEF Init, Promise!Init, Life, At, Promise!NoOrderYet, Lines

THEOREM StepPromise ==
    TypeOK /\ TypeOK' /\ SerialInv /\ SerialInv' /\ [Next]_vars => Promise!Next
<1> SUFFICES ASSUME TypeOK, TypeOK', SerialInv, SerialInv', [Next]_vars PROVE Promise!Next
  OBVIOUS
<1>1. disturbed \subseteq disturbed'
  BY DisturbedGrows
<1>2. \A o \in Orders \ disturbed' : LifeMoves(o)
  BY <1>1, StepMoves DEF SerialInv
<1>3. QED
  BY <1>1, <1>2 DEF Promise!Next, LifeMoves

(* Orders implements OrderPromise: however the queries of different orders' *)
(* handlers interleave and wherever the process restarts, the handlers of   *)
(* an undisturbed order are atomic steps of its life: placed once, given    *)
(* back and refunded with each cancellation and only then.                  *)
THEOREM OrdersKeepPromise == Spec => KeepsOrderPromise
<1>1. TypeOK /\ TypeOK' /\ SerialInv /\ SerialInv' /\ [Next]_vars => [Promise!Next]_(Promise!vars)
  BY StepPromise
<1>2. QED
  BY <1>1, InitPromise, OrdersTypeCorrect, OrdersSerial, PTL DEF Spec, KeepsOrderPromise, Promise!Spec
-----------------------------------------------------------------------------
(* The items of an order go back once for each cancellation.                 *)

\* Counted ahead: what a handler has yet to give back, or to cancel.
ReturnsCount(o) ==
    checkout[o].pc = "done" =>
        \A i \in Lines(o) : Life(o).returned[i] =
            revived[o] + broken[o][i] + (IF Life(o).status = "CANCELLED" THEN 1 ELSE 0)
CountInv == \A o \in Orders \ disturbed : ReturnsCount(o)

LEMMA InitCount == Init => CountInv
BY DEF Init, At, CountInv, ReturnsCount

LEMMA CheckoutCompletes ==
    ASSUME TypeOK, [Next]_vars, NEW o \in Orders, OrderLife(o), o \notin disturbed',
           checkout[o].pc # "done", checkout'[o].pc = "done"
    PROVE  WriteStock(o)
<1>1. ~Apart(o) /\ ~Restart
  BY DEF Apart, Restart, At
<1>2. ASSUME NEW r \in Requests, RequestStepOf(r) PROVE FALSE
  BY <1>2
  DEF RequestStepOf, CancelReadsStock, CancelWritesStock, CompareCancelled, UpdateCancelled,
      CancelReadsPoints, CancelWritesPoints, FindOrder, CompareEntity, UpdateEntity, Compare, Continue
<1>3. ASSUME NEW r \in Requests,
             \/ CancelOrder(r, o) \/ RecordTransfer(r, o)
             \/ \E status \in AdminStatuses : AdminUpdate(r, o, status)
      PROVE  FALSE
  BY <1>3 DEF CancelOrder, RecordTransfer, AdminUpdate, Begin
<1>4. ~(TimerStepOf(o) /\ ~TimerThrows(o))
  BY DEF TimerStepOf, Fire, CompareExpired, UpdateExpired, TimerReadStock, TimerWriteStock, TimerToNextItem,
     TimerFindVoucher, TimerRefundVoucher, TimerReadPoints, TimerWritePoints, TimerGoes, TimerReads, dbVars
<1>5. SubmitOrder(o) \/ CheckoutStepOf(o)
  BY <1>1, <1>2, <1>3, <1>4, OrderSteps
<1>6. QED
  BY <1>5, CheckoutEndsThere

LEMMA StepCount ==
    TypeOK /\ TypeOK' /\ SerialInv /\ SerialInv' /\ CountInv /\ [Next]_vars => CountInv'
<1> SUFFICES ASSUME TypeOK, TypeOK', SerialInv, SerialInv', CountInv, [Next]_vars,
                    NEW o \in Orders, o \notin disturbed', checkout'[o].pc = "done", NEW i \in Lines(o)
             PROVE  Life(o)'.returned[i] =
                       revived'[o] + broken'[o][i] + (IF Life(o)'.status = "CANCELLED" THEN 1 ELSE 0)
  BY DEF CountInv, ReturnsCount, Lines
<1>1. OrderLife(o) /\ OrderLife(o)' /\ ReturnsCount(o)
  BY DisturbedGrows DEF SerialInv, CountInv
<1>2. /\ revived[o] \in Nat /\ broken[o][i] \in Nat
      /\ revived'[o] \in Nat /\ broken'[o][i] \in Nat
  BY DEF TypeOK, Lines
<1>3. Life(o).returned[i] \in Int /\ Life(o)'.returned[i] \in Int
  <2>1. Life(o).returned \in [Lines(o) -> Int] /\ Life(o)'.returned \in [Lines(o) -> Int]
    BY LifeType, NextLifeType DEF LifeRecord, Lines
  <2>2. QED
    BY <2>1
<1>4. CASE checkout[o].pc = "done"
  <2>1. Tally(o)
    BY <1>1, <1>4, StepMoves
  <2>2. /\ Life(o).returned[i] = revived[o] + broken[o][i] + (IF Life(o).status = "CANCELLED" THEN 1 ELSE 0)
        /\ revived'[o] = revived[o] + (IF Life(o).status = "CANCELLED" /\ Life(o)'.status # "CANCELLED"
                                       THEN 1 ELSE 0)
        /\ Life(o)'.returned[i] - broken'[o][i] =
              Life(o).returned[i] - broken[o][i]
              + (IF Life(o).status # "CANCELLED" /\ Life(o)'.status = "CANCELLED" THEN 1 ELSE 0)
    BY <1>1, <1>4, <2>1 DEF ReturnsCount, Tally
  <2>3. QED
    BY <1>2, <1>3, <2>2
<1>5. CASE checkout[o].pc # "done"
  <2>1. WriteStock(o)
    BY <1>1, <1>5, CheckoutCompletes
  <2>2. revived'[o] = 0 /\ broken'[o][i] = 0
    BY <1>1, <2>1 DEF WriteStock, OrderLife, CheckoutLife, AfterSaving, Unused
  <2>3. Life(o)'.returned = [j \in Lines(o) |-> 0] /\ Life(o)'.status # "CANCELLED"
    <3>1. Life(o) = Promise!NoOrderYet(o)
      BY <1>5, LifeNone
    <3>2. Life(o)' = Life(o) \/ Promise!Place(o)
      BY <1>1, <2>1, CheckoutLifeMoves DEF CheckoutStepOf
    <3>3. Life(o).returned = [j \in Lines(o) |-> 0] /\ Life(o).status = "none"
      BY <3>1 DEF Promise!NoOrderYet, Lines
    <3>4. PICK life \in LifeRecord(o), status \in {"PENDING", "PROCESSING"} :
             life = Life(o) /\ status = IF o \in BankingOrders THEN "PENDING" ELSE "PROCESSING"
      BY LifeType
    <3>5. Life(o)' = life \/ Life(o)' = [life EXCEPT !.status = status]
      BY <3>1, <3>2, <3>4 DEF Promise!Place, Promise!Placed
    <3>6. QED
      BY <3>3, <3>4, <3>5 DEF LifeRecord
  <2>4. QED
    BY <2>2, <2>3
<1>6. QED
  BY <1>4, <1>5

THEOREM OrdersCount == Spec => []CountInv
<1>1. QED
  BY InitCount, StepCount, OrdersTypeCorrect, OrdersSerial, PTL DEF Spec

(* With handlers that do not overlap, each item of an order is given back   *)
(* exactly once for each time the order is cancelled, and once more for     *)
(* each cancellation that broke off at a later item.                        *)
THEOREM OrdersReturnStockOnce == Spec => []StockReturnedOnce
<1>1. TypeOK /\ CountInv => StockReturnedOnce
  <2> SUFFICES ASSUME TypeOK, CountInv, NEW o \in Orders,
                      Untouched(o), checkout[o].pc = "done", o \notin disturbed, NEW i \in Lines(o)
               PROVE  returned[o][i] = revived[o] + broken[o][i]
                                       + (IF row[o].status = "CANCELLED" THEN 1 ELSE 0)
    BY DEF StockReturnedOnce
  <2>1. Handlers(o) = {} /\ ~Restocking(o)
    BY DEF Untouched, Counting, Restocking
  <2>2. Life(o) = RowLife(o)
    BY <2>1, LifeAlone
  <2>3. returned[o][i] \in Nat
    BY DEF TypeOK
  <2>4. Life(o).status = row[o].status /\ Life(o).returned[i] = Returns(o, i)
    BY <2>2, GivenType DEF RowLife
  <2>5. Returns(o, i) = returned[o][i]
    BY <2>1, <2>3, ReturnsAlone
  <2>6. ReturnsCount(o)
    BY DEF CountInv
  <2>7. QED
    BY <2>4, <2>5, <2>6 DEF ReturnsCount
<1>2. QED
  BY <1>1, OrdersTypeCorrect, OrdersCount, PTL
-----------------------------------------------------------------------------
(* Refunds.  A payment that is not refunded yet is one a call is about to    *)
(* record, or one the row shows and no cancellation has credited.            *)

RefundLife(o) ==
    /\ o \notin BankingOrders => refunds[o] = 0
    /\ refunds[o] <= transfers[o]
    /\ row[o].paymentStatus = "REFUNDED" => refunds[o] > 0
    /\ \A r \in Handlers(o) : request[r].entity.paymentStatus = "REFUNDED" => refunds[o] > 0
    /\ /\ o \in BankingOrders /\ row[o].paymentStatus = "PAID"
       /\ \A r \in Handlers(o) : request[r].entity.paymentStatus # "REFUNDED"
       => refunds[o] < transfers[o]
    /\ \A r \in Handlers(o) :
          o \in BankingOrders /\ (request[r].pc = "findOrder" \/ request[r].entity.paymentStatus = "PAID")
          => refunds[o] < transfers[o]
RefundInv == \A o \in Orders \ disturbed : RefundLife(o)

LEMMA InitRefund == Init => RefundInv
<1> SUFFICES ASSUME Init, NEW o \in Orders PROVE RefundLife(o)
  BY DEF RefundInv
<1>1. Handlers(o) = {}
  BY OrdersAssumption DEF Init, Handlers, Idle
<1>2. QED
  BY <1>1 DEF Init, RefundLife, Blank

LEMMA ApartRefund ==
    ASSUME NEW o \in Orders, RefundLife(o), Apart(o)
    PROVE  RefundLife(o)'
BY DEF RefundLife, Apart, SameOrder, SameCalls

\* Checkouts and countdowns write UNPAID, if anything.
LEMMA UnpaidRefund ==
    ASSUME NEW o \in Orders, RefundLife(o), UNCHANGED <<request, refunds, transfers>>,
           row'[o] = row[o] \/ row'[o].paymentStatus = "UNPAID"
    PROVE  RefundLife(o)'
BY DEF RefundLife, Handlers

LEMMA ProcessRefund ==
    ASSUME TypeOK, NEW o \in Orders, RefundLife(o), OrderLife(o),
           \/ SubmitOrder(o) \/ CheckoutStepOf(o)
           \/ TimerStepOf(o) /\ ~TimerThrows(o)
    PROVE  RefundLife(o)'
<1>1. CASE SubmitOrder(o) \/ CheckoutStepOf(o)
  <2>1. /\ UNCHANGED <<request, refunds, transfers>>
        /\ row'[o] = row[o] \/ row'[o].paymentStatus = "UNPAID"
    BY <1>1
    DEF SubmitOrder, CheckoutStepOf, ReadCart, CheckVoucher, ReadPoints, WritePoints, MakeQR, SaveOrder,
        FindVoucher, UseVoucher, InsertVoucher, SaveItems, FindCart, EmptyCart, ReadStock, WriteStock,
        Advance, CheckoutReads, dbVars, history, TypeOK
  <2>2. QED
    BY <2>1, UnpaidRefund
<1>2. CASE UpdateExpired(o)
  <2>1. /\ UNCHANGED <<request, refunds, transfers>> /\ timer[o].pc = "update"
        /\ UpdateRow(o, Expired, timer[o].dirty)
    BY <1>2 DEF UpdateExpired, TimerGoes
  <2>2. row'[o] = Expired
    BY <2>1, RowSaved, EntityEnds DEF OrderLife, TimerLife
  <2>3. QED
    BY <2>1, <2>2, UnpaidRefund DEF Expired
<1>3. CASE TimerStepOf(o) /\ ~TimerThrows(o) /\ ~UpdateExpired(o)
  <2>1. UNCHANGED <<request, refunds, transfers, row>>
    BY <1>3
    DEF TimerStepOf, Fire, CompareExpired, TimerReadStock, TimerWriteStock, TimerToNextItem, TimerFindVoucher,
        TimerRefundVoucher, TimerReadPoints, TimerWritePoints, TimerGoes, TimerReads, dbVars, history
  <2>2. QED
    BY <2>1, UnpaidRefund
<1>4. QED
  BY <1>1, <1>2, <1>3

LEMMA BeginRefund ==
    ASSUME TypeOK, NEW o \in Orders, RefundLife(o), OrderLife(o), NEW r \in Requests, NEW call,
           call.order = o, Begin(r, o, call), o \notin disturbed',
           \/ transfers'[o] = transfers[o] /\ call.pc # "findOrder"
           \/ transfers'[o] = transfers[o] + 1,
           call.entity.paymentStatus = "REFUNDED" => row[o].paymentStatus = "REFUNDED",
           o \in BankingOrders /\ call.entity.paymentStatus = "PAID" => row[o].paymentStatus = "PAID"
    PROVE  RefundLife(o)'
<1>1. /\ Handlers(o) = {} /\ request'[r] = call /\ Handlers(o)' = {r}
      /\ row' = row /\ refunds' = refunds
  BY BeginsAlone DEF Untouched
<1>2. transfers[o] \in Nat /\ refunds[o] \in Nat
  BY DEF TypeOK
<1>3. QED
  BY <1>1, <1>2 DEF RefundLife

LEMMA RestartRefund ==
    ASSUME NEW o \in Orders, RefundLife(o), Restart, o \notin disturbed'
    PROVE  RefundLife(o)'
<1>1. Untouched(o) /\ SameOrder(o) /\ Handlers(o)' = {}
  BY RestartAlone
<1>2. QED
  BY <1>1 DEF RefundLife, Untouched, SameOrder

LEMMA CallRefund ==
    ASSUME TypeOK, NEW o \in Orders, RefundLife(o), OrderLife(o),
           NEW r \in Requests, request[r].order = o, RequestStepOf(r)
    PROVE  RefundLife(o)'
<1>a. /\ request[r] \in Request /\ request[r].entity \in Entity /\ row[o] \in Entity
      /\ transfers[o] \in Nat /\ refunds[o] \in Nat
      /\ refunds \in [Orders -> Nat] /\ request \in [Requests -> Request]
  BY DEF TypeOK, Request
<1>b. Handlers(o) = {r} /\ Job(o, request[r])
  <2>1. r \in Handlers(o)
    BY DEF Handlers
  <2>2. QED
    BY <2>1 DEF OrderLife, HandlerLife
<1>c. /\ UNCHANGED <<transfers, itemRows>>
      /\ \A q \in Requests : q # r => request'[q] = request[q]
  BY DEF RequestStepOf, CancelReadsStock, CancelWritesStock, CompareCancelled, UpdateCancelled,
     CancelReadsPoints, CancelWritesPoints, FindOrder, CompareEntity, UpdateEntity, Compare, Continue, TypeOK
<1>d. ASSUME Over(r) PROVE Handlers(o)' = {}
  <2>1. request'[r].order # o
    BY <1>d, OrdersAssumption DEF Over, Idle
  <2>2. QED
    BY <1>b, <1>c, <2>1 DEF Handlers
<1>e. ASSUME request'[r].order = o PROVE Handlers(o)' = {r}
  BY <1>b, <1>c, <1>e DEF Handlers
\* The entity and the payment status of the row stay.
<1>f. ASSUME request'[r].order = o, request'[r].pc # "findOrder", request'[r].entity = request[r].entity,
             row'[o].paymentStatus = row[o].paymentStatus, refunds' = refunds
      PROVE  RefundLife(o)'
  <2>1. Handlers(o)' = {r}
    BY <1>e, <1>f
  <2>2. QED
    BY <1>b, <1>c, <1>f, <2>1 DEF RefundLife
<1>1. CASE CancelReadsStock(r)
  <2>1. request[r].pc = "readStock" /\ UNCHANGED <<row, refunds>>
    BY <1>1 DEF CancelReadsStock, Continue
  <2>2. \/ Over(r)
        \/ CallIs(r, o, "writeStock", request[r].entity, request[r].bare, request[r].dirty)
    BY <1>1, RequestCalls
  <2>3. CASE Over(r)
    <3>1. request[r].entity.paymentStatus = row[o].paymentStatus
      BY <1>a, <1>b, <2>1 DEF Job, Entity
    <3>2. Handlers(o)' = {}
      BY <1>d, <2>3
    <3>3. QED
      BY <1>b, <1>c, <2>1, <3>1, <3>2 DEF RefundLife
  <2>4. CASE CallIs(r, o, "writeStock", request[r].entity, request[r].bare, request[r].dirty)
    BY <1>f, <2>1, <2>4 DEF CallIs
  <2>5. QED
    BY <2>2, <2>3, <2>4
<1>2. CASE CancelWritesStock(r)
  <2>1. UNCHANGED <<row, refunds>>
    BY <1>2 DEF CancelWritesStock
  <2>2. \E pc \in {"readStock", "compareCancelled"} :
           CallIs(r, o, pc, request[r].entity, request[r].bare, {})
    BY <1>2, NextItemCall
  <2>3. QED
    BY <1>f, <2>1, <2>2 DEF CallIs
<1>3. CASE CompareCancelled(r) \/ CompareEntity(r)
  <2>1. /\ UNCHANGED <<row, refunds>>
        /\ \E to \in {"updateCancelled", "updateEntity"} :
              CallIs(r, o, to, request[r].entity, request[r].bare, Differing(o, request[r].entity))
    BY <1>3, <1>b, CompareCall DEF CompareCancelled, CompareEntity, Job
  <2>2. QED
    BY <1>f, <2>1 DEF CallIs
<1>4. CASE UpdateCancelled(r)
  <2>1. /\ request[r].pc = "updateCancelled" /\ refunds' = refunds
        /\ UpdateRow(o, request[r].entity, request[r].dirty)
        /\ request' = [request EXCEPT ![r] = To(r, "readPoints")]
    BY <1>4 DEF UpdateCancelled, Continue
  <2>2. CallIs(r, o, "readPoints", request[r].entity, request[r].bare, {})
    BY <2>1, ToCall
  <2>3. /\ request[r].entity.paymentStatus = row[o].paymentStatus
        /\ request[r].dirty = Differing(o, request[r].entity)
    BY <1>a, <1>b, <2>1 DEF Job, Entity
  <2>4. row'[o] = request[r].entity
    BY <1>a, <2>1, <2>3, RowSaved
  <2>5. QED
    BY <1>f, <2>1, <2>2, <2>3, <2>4 DEF CallIs
<1>5. CASE CancelReadsPoints(r)
  <2>1. CallIs(r, o, "writePoints", request[r].entity, request[r].bare, request[r].dirty)
    BY <1>5, RequestCalls
  <2>2. UNCHANGED <<row, refunds>>
    BY <1>5 DEF CancelReadsPoints
  <2>3. QED
    BY <1>f, <2>1, <2>2 DEF CallIs
<1>6. CASE CancelWritesPoints(r) /\ Paid(r)
  <2>1. CallIs(r, o, "compareEntity", [request[r].entity EXCEPT !.paymentStatus = "REFUNDED"],
               request[r].bare, {})
    BY <1>6, RequestCalls
  <2>2. request'[r].entity.paymentStatus = "REFUNDED" /\ request'[r].pc # "findOrder"
    BY <1>a, <2>1 DEF CallIs, Entity
  <2>3. refunds'[o] = refunds[o] + 1 /\ row' = row
    BY <1>6, <1>a DEF CancelWritesPoints
  <2>4. refunds[o] < transfers[o] /\ o \in BankingOrders
    BY <1>6, <1>b DEF RefundLife, Paid
  <2>5. Handlers(o)' = {r}
    BY <1>e, <2>1 DEF CallIs
  <2>6. QED
    BY <1>a, <1>c, <2>2, <2>3, <2>4, <2>5 DEF RefundLife
<1>7. CASE CancelWritesPoints(r) /\ ~Paid(r)
  <2>1. request' = [request EXCEPT ![r] = To(r, "compareEntity")] /\ UNCHANGED <<row, refunds>>
    BY <1>7 DEF CancelWritesPoints, Continue
  <2>2. CallIs(r, o, "compareEntity", request[r].entity, request[r].bare, {})
    BY <2>1, ToCall
  <2>3. QED
    BY <1>f, <2>1, <2>2 DEF CallIs
<1>8. CASE FindOrder(r)
  <2>1. request[r].pc = "findOrder" /\ UNCHANGED <<row, refunds>>
    BY <1>8 DEF FindOrder, Continue
  <2>2. CallIs(r, o, "compareEntity", [status |-> "PROCESSING", paymentStatus |-> "PAID"],
               request[r].bare, request[r].dirty)
    BY <1>8, RequestCalls
  <2>3. refunds[o] < transfers[o] /\ o \in BankingOrders
    BY <1>b, <2>1 DEF RefundLife, Job
  <2>4. Handlers(o)' = {r}
    BY <1>e, <2>2 DEF CallIs
  <2>5. QED
    BY <1>c, <2>1, <2>2, <2>3, <2>4 DEF RefundLife, CallIs
<1>9. CASE UpdateEntity(r)
  <2>1. /\ request[r].pc = "updateEntity" /\ refunds' = refunds /\ Over(r)
        /\ UpdateRow(o, request[r].entity, request[r].dirty)
    BY <1>9, <1>a DEF UpdateEntity, Continue, Over
  <2>2. row'[o] = request[r].entity
    BY <1>a, <1>b, <2>1, RowSaved DEF Job
  <2>3. Handlers(o)' = {}
    BY <1>d, <2>1
  <2>4. QED
    BY <1>b, <1>c, <2>1, <2>2, <2>3 DEF RefundLife
<1>10. QED
  BY <1>1, <1>2, <1>3, <1>4, <1>5, <1>6, <1>7, <1>8, <1>9 DEF RequestStepOf

LEMMA StepRefund == TypeOK /\ SerialInv /\ RefundInv /\ [Next]_vars => RefundInv'
<1> SUFFICES ASSUME TypeOK, SerialInv, RefundInv, [Next]_vars, NEW o \in Orders, o \notin disturbed'
             PROVE  RefundLife(o)'
  BY DEF RefundInv
<1>1. OrderLife(o) /\ RefundLife(o)
  BY DisturbedGrows DEF SerialInv, RefundInv
<1>2. ASSUME NEW r \in Requests, CancelOrder(r, o) PROVE RefundLife(o)'
  <2>1. Begin(r, o, CancelCall(o)) /\ CancelCall(o).order = o /\ transfers' = transfers
    BY <1>2, CallsBegin
  <2>2. CancelCall(o).pc # "findOrder" /\ CancelCall(o).entity = [row[o] EXCEPT !.status = "CANCELLED"]
    BY DEF CancelCall, Idle
  <2>3. CancelCall(o).entity.paymentStatus = row[o].paymentStatus
    BY <2>2 DEF TypeOK, Entity
  <2>4. QED
    BY <1>1, <2>1, <2>2, <2>3, BeginRefund
<1>3. ASSUME NEW r \in Requests, RecordTransfer(r, o) PROVE RefundLife(o)'
  <2>1. /\ Begin(r, o, TransferCall(o)) /\ TransferCall(o).order = o
        /\ transfers'[o] = transfers[o] + 1
    BY <1>3, CallsBegin DEF TypeOK
  <2>2. TransferCall(o).entity.paymentStatus = "UNPAID"
    BY DEF TransferCall, Idle, Blank
  <2>3. QED
    BY <1>1, <2>1, <2>2, BeginRefund
<1>4. ASSUME NEW r \in Requests, NEW status \in AdminStatuses, AdminUpdate(r, o, status)
      PROVE  RefundLife(o)'
  <2>1. Begin(r, o, AdminCall(o, status)) /\ AdminCall(o, status).order = o /\ transfers' = transfers
    BY <1>4, CallsBegin
  <2>2. /\ AdminCall(o, status).pc # "findOrder"
        /\ AdminCall(o, status).entity.paymentStatus =
              IF status = "DELIVERED" /\ o \notin BankingOrders THEN "PAID" ELSE row[o].paymentStatus
    BY DEF AdminCall, Idle
  <2>3. QED
    BY <1>1, <2>1, <2>2, BeginRefund
<1>5. QED
  BY <1>1, <1>2, <1>3, <1>4, OrderSteps, ApartRefund, ProcessRefund, CallRefund, RestartRefund

THEOREM OrdersRefund == Spec => []RefundInv
<1>1. QED
  BY InitRefund, StepRefund, OrdersTypeCorrect, OrdersSerial, PTL DEF Spec

(* With handlers that do not overlap, no payment is refunded twice, and an  *)
(* order that says REFUNDED was.                                            *)
THEOREM OrdersRefundPayments == Spec => []RefundsMatchPayments
<1>1. RefundInv => RefundsMatchPayments
  BY DEF RefundInv, RefundLife, RefundsMatchPayments
<1>2. QED
  BY <1>1, OrdersRefund, PTL
-----------------------------------------------------------------------------
(* What an order holds when its countdown is armed.                          *)

\* The items its checkout has taken; afterwards, all that were not given back.
ItemsHeld(o) ==
    /\ checkout[o].pc \in {"readStock", "writeStock"} =>
          \A i \in Lines(o) : i < checkout[o].item => i \in taken[o]
    /\ checkout[o].pc = "done" => \A i \in Lines(o) : i \in taken[o] \/ returned[o][i] > 0

HeldLife(o) ==
    /\ checkout[o].pc \in {"makeQR", "saveOrder"} \cup AfterSaving /\ PointsOf[o] # 0 =>
          "points" \in held[o]
    /\ checkout[o].pc \in {"saveItems", "findCart", "emptyCart", "readStock", "writeStock"}
       /\ o \in VoucherOrders => "voucher" \in held[o]
    /\ checkout[o].pc = "done" /\ row[o].status # "CANCELLED" /\ revived[o] = 0 => Due(o) \subseteq held[o]
HeldInv == \A o \in Orders \ disturbed : HeldLife(o) /\ ItemsHeld(o)

LEMMA InitHeld == Init => HeldInv
BY DEF Init, At, HeldInv, HeldLife, ItemsHeld, AfterSaving

\* The loop over the items comes to an item when those before it are taken.
LEMMA CheckoutItems ==
    ASSUME TypeOK, NEW o \in Orders, ItemsHeld(o), SubmitOrder(o) \/ CheckoutStepOf(o)
    PROVE  ItemsHeld(o)'
<1>a. /\ checkout \in [Orders -> Checkout] /\ checkout[o].item \in Lines(o)
      /\ taken[o] \subseteq Lines(o) /\ DOMAIN taken = Orders
  BY DEF TypeOK
<1>b. /\ Len(ItemsOf[o]) \in Nat /\ Lines(o) = 1..Len(ItemsOf[o]) /\ \A i \in Lines(o) : i \in Nat
      /\ checkout[o].item \in Nat
  BY <1>a, LineFacts DEF Lines
<1>1. CASE ReadStock(o)
  <2>1. /\ taken' = taken /\ checkout[o].pc = "readStock" /\ checkout'[o].pc \in {"writeStock", "rejected"}
        /\ checkout'[o].pc = "writeStock" => checkout'[o].item = checkout[o].item
    <3>1. ASSUME NEW value, NEW needed, NEW ok,
                 CheckoutReads(o, "readStock", "writeStock", value, needed, ok)
          PROVE  /\ taken' = taken /\ checkout[o].pc = "readStock"
                 /\ checkout'[o].pc \in {"writeStock", "rejected"}
                 /\ checkout'[o].pc = "writeStock" => checkout'[o].item = checkout[o].item
      BY <3>1, <1>a DEF CheckoutReads, At, Checkout, history
    <3>2. QED
      BY <1>1, <3>1 DEF ReadStock
  <2>2. QED
    BY <2>1 DEF ItemsHeld, Lines
<1>2. CASE WriteStock(o)
  <2>1. /\ checkout[o].pc = "writeStock" /\ taken'[o] = taken[o] \cup {checkout[o].item}
        /\ checkout'[o].pc = IF LastLine(o, checkout[o].item) THEN "done" ELSE "readStock"
        /\ ~LastLine(o, checkout[o].item) => checkout'[o].item = checkout[o].item + 1
    BY <1>2, <1>a DEF WriteStock, At, TypeOK
  <2>2. \A i \in Lines(o) : i < checkout[o].item => i \in taken[o]
    BY <2>1 DEF ItemsHeld
  <2>3. CASE LastLine(o, checkout[o].item)
    <3>1. \A i \in Lines(o) : i < checkout[o].item \/ i = checkout[o].item
      BY <1>b, <2>3 DEF LastLine
    <3>2. \A i \in Lines(o) : i \in taken'[o]
      BY <2>1, <2>2, <3>1
    <3>3. QED
      BY <2>1, <2>3, <3>2 DEF ItemsHeld, Lines
  <2>4. CASE ~LastLine(o, checkout[o].item)
    <3>1. \A i \in Lines(o) : i < checkout'[o].item => i < checkout[o].item \/ i = checkout[o].item
      BY <1>b, <2>1, <2>4
    <3>2. \A i \in Lines(o) : i < checkout'[o].item => i \in taken'[o]
      BY <2>1, <2>2, <3>1
    <3>3. QED
      BY <2>1, <2>4, <3>2 DEF ItemsHeld, Lines
  <2>5. QED
    BY <2>3, <2>4
<1>3. CASE ~ReadStock(o) /\ ~WriteStock(o)
  <2>1. checkout'[o].pc # "done"
    BY <1>3, CheckoutEndsThere
  <2>2. checkout'[o].pc \in {"readStock", "writeStock"} => checkout'[o].item = 1
    <3>1. ASSUME NEW from, NEW to, NEW ok, Advance(o, from, to, ok) PROVE checkout'[o].item = 1
      BY <3>1, <1>a DEF Advance, At
    <3>2. ASSUME ReadPoints(o) PROVE checkout'[o].pc \notin {"readStock", "writeStock"}
      BY <3>2, <1>a DEF ReadPoints, CheckoutReads, At, Checkout
    <3>3. QED
      BY <1>3, <3>1, <3>2
      DEF SubmitOrder, CheckoutStepOf, ReadCart, CheckVoucher, WritePoints, MakeQR, SaveOrder,
          FindVoucher, UseVoucher, InsertVoucher, SaveItems, FindCart, EmptyCart
  <2>3. checkout'[o].pc \in {"readStock", "writeStock"} => \A i \in Lines(o) : ~(i < checkout'[o].item)
    BY <1>b, <2>2
  <2>4. QED
    BY <2>1, <2>3 DEF ItemsHeld, Lines
<1>4. QED
  BY <1>1, <1>2, <1>3

LEMMA CheckoutHeld ==
    ASSUME TypeOK, NEW o \in Orders, HeldLife(o), SubmitOrder(o) \/ CheckoutStepOf(o)
    PROVE  HeldLife(o)'
<1>a. /\ checkout \in [Orders -> Checkout] /\ held \in [Orders -> SUBSET Holding]
      /\ PointsOf[o] \in Int
  BY OrdersAssumption DEF TypeOK
<1>b. ASSUME NEW from, NEW to, NEW ok, Advance(o, from, to, ok)
      PROVE  checkout[o].pc = from /\ checkout'[o].pc \in {to, "rejected"}
  BY <1>a, <1>b DEF Advance, At
<1>c. ASSUME NEW from, NEW to, NEW value, NEW needed, NEW ok, CheckoutReads(o, from, to, value, needed, ok)
      PROVE  checkout[o].pc = from /\ checkout'[o].pc \in {to, "rejected"} /\ held' = held
  BY <1>a, <1>c DEF CheckoutReads, At, history
<1>d. ASSUME checkout'[o].pc \notin {"makeQR", "saveOrder", "done"} \cup AfterSaving
      PROVE  HeldLife(o)'
  BY <1>d DEF HeldLife, AfterSaving
<1>1. CASE SubmitOrder(o) \/ CheckVoucher(o) \/ ReadCart(o)
  <2>1. /\ held' = held
        /\ checkout'[o].pc \in {"readCart", "checkVoucher", "readPoints", "rejected"} \/ PointsOf[o] = 0
        /\ checkout'[o].pc \in {"readCart", "checkVoucher", "readPoints", "makeQR", "saveOrder", "rejected"}
    <3>1. \E ok : \/ Advance(o, "idle", "readCart", ok)
                   \/ Advance(o, "readCart", AfterCart(o), ok)
                   \/ Advance(o, "checkVoucher", BeforePoints(o), ok)
      BY <1>1 DEF SubmitOrder, ReadCart, CheckVoucher
    <3>2. checkout'[o].pc \in {"readCart", AfterCart(o), BeforePoints(o), "rejected"}
      BY <1>b, <3>1
    <3>3. held' = held
      BY <1>1 DEF SubmitOrder, ReadCart, CheckVoucher
    <3>4. QED
      BY <1>a, <3>2, <3>3 DEF AfterCart, BeforePoints, BeforeSave
  <2>2. QED
    BY <1>a, <2>1 DEF HeldLife, AfterSaving
<1>2. CASE ReadPoints(o)
  <2>1. checkout'[o].pc \in {"writePoints", "rejected"}
    BY <1>2, <1>c DEF ReadPoints
  <2>2. QED
    BY <1>d, <2>1 DEF AfterSaving
<1>3. CASE WritePoints(o)
  <2>1. checkout'[o].pc \in {"makeQR", "saveOrder", "rejected"}
    BY <1>3, <1>b DEF WritePoints, BeforeSave
  <2>2. "points" \in held'[o]
    BY <1>3, <1>a DEF WritePoints, Take
  <2>3. QED
    BY <2>1, <2>2 DEF HeldLife, AfterSaving
<1>4. CASE MakeQR(o) \/ SaveOrder(o)
  <2>1. /\ held' = held /\ checkout[o].pc \in {"makeQR", "saveOrder"}
        /\ checkout'[o].pc \in {"saveOrder", "findVoucher", "saveItems", "rejected"}
        /\ o \in VoucherOrders => checkout'[o].pc # "saveItems"
    <3>1. \E ok : \/ Advance(o, "makeQR", "saveOrder", ok)
                   \/ Advance(o, "saveOrder", AfterSave(o), ok)
      BY <1>4 DEF MakeQR, SaveOrder
    <3>2. \/ checkout[o].pc = "makeQR" /\ checkout'[o].pc \in {"saveOrder", "rejected"}
          \/ checkout[o].pc = "saveOrder" /\ checkout'[o].pc \in {AfterSave(o), "rejected"}
      BY <1>b, <3>1
    <3>3. held' = held
      BY <1>4 DEF MakeQR, SaveOrder
    <3>4. QED
      BY <3>2, <3>3 DEF AfterSave
  <2>2. QED
    BY <2>1 DEF HeldLife, AfterSaving
<1>5. CASE FindVoucher(o)
  <2>1. /\ held' = held /\ checkout[o].pc = "findVoucher"
        /\ checkout'[o].pc \in {"useVoucher", "insertVoucher", "rejected"}
    BY <1>5, <1>b DEF FindVoucher
  <2>2. QED
    BY <2>1 DEF HeldLife, AfterSaving
<1>6. CASE UseVoucher(o) \/ InsertVoucher(o)
  <2>1. /\ held[o] \subseteq held'[o] /\ checkout[o].pc \in {"useVoucher", "insertVoucher"}
        /\ checkout'[o].pc = "saveItems" => "voucher" \in held'[o]
        /\ checkout'[o].pc \in {"saveItems", "rejected"}
    <3>1. CASE UseVoucher(o)
      BY <3>1, <1>a, <1>b DEF UseVoucher, Take
    <3>2. CASE InsertVoucher(o)
      BY <3>2, <1>a DEF InsertVoucher, Advance, Take, At
    <3>3. QED
      BY <1>6, <3>1, <3>2
  <2>2. QED
    BY <2>1 DEF HeldLife, AfterSaving
<1>7. CASE SaveItems(o) \/ FindCart(o) \/ EmptyCart(o)
  <2>1. /\ held' = held /\ checkout[o].pc \in {"saveItems", "findCart", "emptyCart"}
        /\ checkout'[o].pc \in {"findCart", "emptyCart", "readStock", "rejected"}
    <3>1. ASSUME NEW ok, Advance(o, "findCart", "emptyCart", ok)
          PROVE  checkout[o].pc = "findCart" /\ checkout'[o].pc \in {"emptyCart", "rejected"}
      BY <3>1, <1>b
    <3>2. QED
      BY <1>7, <1>b, <3>1 DEF SaveItems, FindCart, EmptyCart
  <2>2. QED
    BY <2>1 DEF HeldLife, AfterSaving
<1>8. CASE ReadStock(o)
  <2>1. held' = held /\ checkout[o].pc = "readStock" /\ checkout'[o].pc \in {"writeStock", "rejected"}
    <3>1. ASSUME NEW value, NEW needed, NEW ok,
                 CheckoutReads(o, "readStock", "writeStock", value, needed, ok)
          PROVE  held' = held /\ checkout[o].pc = "readStock" /\ checkout'[o].pc \in {"writeStock", "rejected"}
      BY <3>1, <1>c
    <3>2. QED
      BY <1>8, <3>1 DEF ReadStock
  <2>2. QED
    BY <2>1 DEF HeldLife, AfterSaving
<1>9. CASE WriteStock(o)
  <2>1. /\ checkout[o].pc = "writeStock" /\ checkout'[o].pc \in {"readStock", "done"} /\ held' = held
    BY <1>9, <1>a DEF WriteStock, At
  <2>2. QED
    BY <2>1 DEF HeldLife, AfterSaving, Due
<1>10. QED
  BY <1>1, <1>2, <1>3, <1>4, <1>5, <1>6, <1>7, <1>8, <1>9 DEF CheckoutStepOf

\* What is given back is given back by a cancellation.
LEMMA SavedHeld ==
    ASSUME TypeOK, NEW o \in Orders, HeldLife(o), UNCHANGED <<checkout, held>>,
           (row' = row /\ revived' = revived) \/ \E entity, dirty : UpdateRow(o, entity, dirty)
    PROVE  HeldLife(o)'
<1>1. revived[o] \in Nat
  BY DEF TypeOK
<1>2. revived'[o] = 0 /\ row'[o].status # "CANCELLED" =>
         revived[o] = 0 /\ row[o].status # "CANCELLED"
  <2>1. ASSUME NEW entity, NEW dirty, UpdateRow(o, entity, dirty), revived'[o] = 0,
               row'[o].status # "CANCELLED"
        PROVE  revived[o] = 0 /\ row[o].status # "CANCELLED"
    <3>1. row'[o] = Written(o, entity, dirty)
      BY <2>1 DEF UpdateRow, TypeOK
    <3>2. row[o].status # "CANCELLED"
      <4>1. row[o].status = "CANCELLED" => revived'[o] = revived[o] + 1
        BY <2>1, <3>1 DEF UpdateRow, TypeOK
      <4>2. QED
        BY <1>1, <2>1, <4>1
    <3>3. revived' = revived
      BY <2>1, <3>2 DEF UpdateRow
    <3>4. QED
      BY <2>1, <3>2, <3>3
  <2>2. QED
    BY <2>1
<1>3. QED
  BY <1>2 DEF HeldLife, Due

LEMMA CancelledHeld ==
    ASSUME NEW o \in Orders, checkout'[o].pc \in CheckoutEnd, row'[o].status = "CANCELLED"
    PROVE  HeldLife(o)'
BY DEF HeldLife, AfterSaving, CheckoutEnd

LEMMA ItemsStay ==
    ASSUME NEW o \in Orders, ItemsHeld(o), checkout'[o] = checkout[o],
           taken'[o] = taken[o], returned'[o] = returned[o]
    PROVE  ItemsHeld(o)'
BY DEF ItemsHeld, Lines

\* An item that is no longer taken was given back.
LEMMA RestockHeld ==
    ASSUME TypeOK, NEW o \in Orders, ItemsHeld(o), checkout' = checkout, checkout[o].pc \in CheckoutEnd,
           NEW i \in Lines(o), NEW seen, Restock(o, i, seen)
    PROVE  ItemsHeld(o)'
<1>1. /\ returned[o] \in [Lines(o) -> Nat] /\ DOMAIN returned = Orders /\ DOMAIN taken = Orders
      /\ returned[o][i] \in Nat
  BY DEF TypeOK
<1>2. /\ taken'[o] = taken[o] \ {i}
      /\ returned'[o][i] = returned[o][i] + 1
      /\ \A j \in Lines(o) : j # i => returned'[o][j] = returned[o][j]
  BY <1>1 DEF Restock
<1>3. returned'[o][i] > 0
  BY <1>1, <1>2
<1>4. QED
  BY <1>2, <1>3 DEF ItemsHeld, CheckoutEnd, Lines

LEMMA TimerHeld ==
    ASSUME TypeOK, NEW o \in Orders, HeldLife(o), ItemsHeld(o), OrderLife(o), TimerStepOf(o), ~TimerThrows(o)
    PROVE  HeldLife(o)' /\ ItemsHeld(o)'
<1>1. checkout[o].pc = "done" /\ checkout' = checkout
  BY DEF OrderLife, TimerLife, TimerStepOf, Fire, CompareExpired, UpdateExpired, TimerReadStock,
     TimerWriteStock, TimerToNextItem, TimerFindVoucher, TimerRefundVoucher, TimerReadPoints, TimerWritePoints,
     TimerGoes, TimerReads, dbVars
<1>2. CASE TimerRefundVoucher(o) \/ TimerWritePoints(o)
  <2>1. /\ row' = row /\ timer[o].pc \in {"refundVoucher", "writePoints"}
        /\ UNCHANGED <<taken, returned>>
    BY <1>2 DEF TimerRefundVoucher, TimerWritePoints, TimerGoes, stock
  <2>2. row[o] = Expired
    BY <2>1 DEF OrderLife, TimerLife, Counting
  <2>3. QED
    BY <1>1, <2>1, <2>2, CancelledHeld, ItemsStay DEF Expired, CheckoutEnd
<1>3. CASE TimerWriteStock(o)
  <2>1. row' = row /\ revived' = revived /\ held' = held /\ Restock(o, timer[o].item, timer[o].seen)
    BY <1>3 DEF TimerWriteStock, TimerToNextItem
  <2>2. timer[o].item \in Lines(o)
    BY DEF TypeOK
  <2>3. ItemsHeld(o)'
    BY <1>1, <2>1, <2>2, RestockHeld DEF CheckoutEnd
  <2>4. HeldLife(o)'
    BY <1>1, <2>1, SavedHeld
  <2>5. QED
    BY <2>3, <2>4
<1>4. CASE ~TimerWriteStock(o) /\ ~TimerRefundVoucher(o) /\ ~TimerWritePoints(o)
  <2>1. UNCHANGED <<checkout, held, taken, returned>>
    BY <1>4 DEF TimerStepOf, Fire, CompareExpired, UpdateExpired, TimerReadStock, TimerFindVoucher,
       TimerReadPoints, TimerGoes, TimerReads, history, dbVars, stock
  <2>2. (row' = row /\ revived' = revived) \/ UpdateRow(o, Expired, timer[o].dirty)
    BY <1>4 DEF TimerStepOf, Fire, CompareExpired, UpdateExpired, TimerReadStock, TimerFindVoucher,
       TimerReadPoints, TimerReads, history, dbVars
  <2>3. QED
    BY <2>1, <2>2, SavedHeld, ItemsStay
<1>5. QED
  BY <1>2, <1>3, <1>4

LEMMA CallHeld ==
    ASSUME TypeOK, NEW o \in Orders, HeldLife(o), ItemsHeld(o), OrderLife(o),
           NEW r \in Requests, request[r].order = o, RequestStepOf(r)
    PROVE  HeldLife(o)' /\ ItemsHeld(o)'
<1>1. checkout' = checkout
  BY DEF RequestStepOf, CancelReadsStock, CancelWritesStock, CompareCancelled, UpdateCancelled,
     CancelReadsPoints, CancelWritesPoints, FindOrder, CompareEntity, UpdateEntity, Compare, Continue
<1>2. r \in Handlers(o)
  BY DEF Handlers
<1>3. checkout[o].pc \in CheckoutEnd
  BY <1>2 DEF OrderLife, HandlerLife, CheckingOut
<1>4. CASE CancelWritesStock(r)
  <2>1. /\ request[r].pc = "writeStock" /\ UNCHANGED <<row, revived, held>>
        /\ Restock(o, request[r].item, request[r].seen)
    BY <1>4 DEF CancelWritesStock
  <2>2. request[r].item \in Lines(o)
    BY <2>1, RequestOrder
  <2>3. ItemsHeld(o)'
    BY <1>1, <1>3, <2>1, <2>2, RestockHeld
  <2>4. HeldLife(o)'
    BY <1>1, <2>1, SavedHeld
  <2>5. QED
    BY <2>3, <2>4
<1>5. CASE CancelWritesPoints(r)
  <2>1. row' = row /\ request[r].pc = "writePoints" /\ UNCHANGED <<taken, returned>>
    BY <1>5 DEF CancelWritesPoints, stock
  <2>2. row[o].status = "CANCELLED"
    BY <1>2, <2>1 DEF OrderLife, HandlerLife, Job
  <2>3. QED
    BY <1>1, <1>3, <2>1, <2>2, CancelledHeld, ItemsStay
<1>6. CASE ~CancelWritesStock(r) /\ ~CancelWritesPoints(r)
  <2>1. UNCHANGED <<held, taken, returned>>
    BY <1>6 DEF RequestStepOf, CancelReadsStock, CompareCancelled, UpdateCancelled,
       CancelReadsPoints, FindOrder, CompareEntity, UpdateEntity, Compare, stock
  <2>2. (row' = row /\ revived' = revived) \/ UpdateRow(o, request[r].entity, request[r].dirty)
    BY <1>6 DEF RequestStepOf, CancelReadsStock, CompareCancelled, UpdateCancelled,
       CancelReadsPoints, FindOrder, CompareEntity, UpdateEntity, Compare
  <2>3. QED
    BY <1>1, <2>1, <2>2, SavedHeld, ItemsStay
<1>7. QED
  BY <1>4, <1>5, <1>6

LEMMA StepHeld == TypeOK /\ SerialInv /\ HeldInv /\ [Next]_vars => HeldInv'
<1> SUFFICES ASSUME TypeOK, SerialInv, HeldInv, [Next]_vars, NEW o \in Orders, o \notin disturbed'
             PROVE  HeldLife(o)' /\ ItemsHeld(o)'
  BY DEF HeldInv
<1>1. OrderLife(o) /\ HeldLife(o) /\ ItemsHeld(o)
  BY DisturbedGrows DEF SerialInv, HeldInv
<1>2. CASE Apart(o)
  BY <1>1, <1>2, ItemsStay DEF Apart, SameOrder, HeldLife, Due
<1>3. ASSUME NEW r \in Requests,
             \/ CancelOrder(r, o) \/ RecordTransfer(r, o)
             \/ \E status \in AdminStatuses : AdminUpdate(r, o, status)
      PROVE  HeldLife(o)' /\ ItemsHeld(o)'
  <2>1. UNCHANGED <<checkout, held, taken, returned, row, revived>>
    BY <1>3 DEF CancelOrder, RecordTransfer, AdminUpdate, Begin, stock
  <2>2. QED
    BY <1>1, <2>1, SavedHeld, ItemsStay
<1>4. CASE Restart
  <2>1. SameOrder(o) /\ checkout'[o] = checkout[o]
    BY <1>4, RestartAlone
  <2>2. QED
    BY <1>1, <2>1, ItemsStay DEF SameOrder, HeldLife, Due
<1>5. QED
  BY <1>1, <1>2, <1>3, <1>4, OrderSteps, CheckoutHeld, CheckoutItems, TimerHeld, CallHeld

THEOREM OrdersHeld == Spec => []HeldInv
<1>1. QED
  BY InitHeld, StepHeld, OrdersTypeCorrect, OrdersSerial, PTL DEF Spec

(* Whenever the countdown of an undisturbed order may fire, the order holds *)
(* the voucher, the points and the items the countdown is going to give     *)
(* back, but for items a cancellation gave back before it broke off.        *)
THEOREM OrdersBackCountdowns == Spec => []CountdownBacked
<1>1. TypeOK /\ SerialInv /\ CountInv /\ HeldInv => CountdownBacked
  <2> SUFFICES ASSUME TypeOK, SerialInv, CountInv, HeldInv, NEW o \in Orders,
                      timer[o].pc = "armed", row[o] = Pending, Untouched(o), o \notin disturbed,
                      revived[o] = 0
               PROVE  /\ Due(o) \subseteq held[o]
                      /\ \A i \in Lines(o) : i \in taken[o] \/ broken[o][i] > 0
    BY DEF CountdownBacked, Pending
  <2>1. checkout[o].pc = "done"
    BY DEF SerialInv, OrderLife, TimerLife
  <2>2. Handlers(o) = {} /\ ~Restocking(o) /\ row[o].status = "PENDING"
    BY DEF Untouched, Restocking, Pending
  <2>3. Life(o) = RowLife(o)
    BY <2>1, <2>2, LifeAlone
  <2>4. ASSUME NEW i \in Lines(o), i \notin taken[o] PROVE broken[o][i] > 0
    <3>1. returned[o][i] \in Nat /\ broken[o][i] \in Nat
      BY DEF TypeOK
    <3>2. returned[o][i] > 0
      BY <2>1, <2>4 DEF HeldInv, ItemsHeld
    <3>3. Life(o).status = "PENDING" /\ Life(o).returned[i] = Returns(o, i)
      BY <2>2, <2>3, GivenType DEF RowLife
    <3>4. Returns(o, i) = returned[o][i]
      BY <2>2, <3>1, ReturnsAlone
    <3>5. Life(o).returned[i] = revived[o] + broken[o][i]
                                 + (IF Life(o).status = "CANCELLED" THEN 1 ELSE 0)
      BY <2>1 DEF CountInv, ReturnsCount
    <3>6. returned[o][i] = broken[o][i]
      BY <3>1, <3>3, <3>4, <3>5
    <3>7. QED
      BY <3>1, <3>2, <3>6
  <2>5. QED
    BY <2>1, <2>2, <2>4 DEF HeldInv, HeldLife
<1>2. QED
  BY <1>1, OrdersTypeCorrect, OrdersSerial, OrdersCount, OrdersHeld, PTL
=============================================================================
