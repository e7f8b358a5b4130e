----------------------------- MODULE CartProofs ------------------------------
(***************************************************************************)
(* Proofs about Cart: its variables keep their types, no line asks for     *)
(* more than its size once had in stock, for any number of calls, sizes    *)
(* and carts, and any overlap of the calls; and while calls do not         *)
(* overlap, the cart is the bag that CartPromise promises.                 *)
(*                                                                         *)
(* A row is only as good as the entities that are written over it, so the  *)
(* first invariant says of every entity in memory what the property says   *)
(* of the rows: both are below the peak, which only rises.                 *)
(***************************************************************************)
EXTENDS Cart, TLAPS, WellFoundedInduction

\* What a call may hold.
EntityWithin(e) == \A i \in e.items : e.quantity[i] <= peak[SizeOf(i)]
Held(e) == e \in Call /\ (e.pc = "merge" => e.todo # <<>>) /\ EntityWithin(e)

EntitiesWithin == \A c \in Calls : EntityWithin(call[c])
StockWithin == \A s \in VariantSizes : inventory[s] <= peak[s]

CartInvariant == CartTypeOK /\ StockWithin /\ LinesWithinStock /\ EntitiesWithin

-----------------------------------------------------------------------------
LEMMA SizesOfItems == \A i \in CartItems : SizeOf(i) \in VariantSizes
  BY DEF CartItems, SizeOf

\* findOne's cart is one of the customer's carts.
LEMMA SmallestIsOne ==
  ASSUME carts \subseteq Calls, carts # {}
  PROVE  Smallest(carts) \in carts
<1>1. carts \subseteq Nat
  BY CartAssumption
<1> DEFINE Less == {p \in Nat \X Nat : p[1] < p[2]}
<1>2. IsWellFoundedOn(Less, Nat)
  BY NatLessThanWellFounded DEF OpToRel
<1>3. PICK x \in carts : \A y \in carts : ~(<<y, x>> \in Less)
  <2> HIDE DEF Less
  <2> QED
    BY <1>1, <1>2, WFMin, Zenon
<1>4. \A m, n \in Nat : m < n => <<m, n>> \in Less
  <2> SUFFICES ASSUME NEW m \in Nat, NEW n \in Nat, m < n
               PROVE  <<m, n>> \in Less
    OBVIOUS
  <2>1. <<m, n>> \in Nat \X Nat /\ <<m, n>>[1] = m /\ <<m, n>>[2] = n
    OBVIOUS
  <2> QED
    BY <2>1, Zenon
<1>5. \A y \in carts : ~(y < x)
  BY <1>1, <1>3, <1>4, Zenon
<1>6. \A y \in carts : x <= y
  <2> HIDE DEF Less
  <2> QED
    BY <1>1, <1>5
<1> QED
  BY <1>6 DEF Smallest

LEMMA FreshIsCall == Fresh \in Call
<1>1. /\ <<>> \in Seq(Line)
      /\ [i \in CartItems |-> 0] \in [CartItems -> Int]
      /\ NoCartRow \in CartRow
  BY DEF NoCartRow, CartRow
<1>2. [i \in CartItems |-> NoCartRow] \in [CartItems -> CartRow]
  BY <1>1
<1> QED
  BY <1>1, <1>2 DEF Fresh, Call, CartStep

LEMMA FreshHolds == Fresh.items = {} /\ Fresh.pc = "idle"
  BY DEF Fresh

\* A call that has ended holds nothing.
LEMMA EndedIsHeld ==
  ASSUME NEW outcome \in {"done", "refused", "broken"}
  PROVE  Held(Ended(outcome)) /\ Ended(outcome).pc = outcome
<1>1. \A e \in Call : /\ [e EXCEPT !.pc = outcome] \in Call
                      /\ [e EXCEPT !.pc = outcome].pc = outcome
                      /\ [e EXCEPT !.pc = outcome].items = e.items
  BY DEF Call, CartStep
<1> QED
  BY <1>1, FreshIsCall, FreshHolds DEF Held, EntityWithin, Ended

\* What a call has loaded is held if the entity is.
LEMMA LoadedIsHeld ==
  ASSUME NEW e \in Call, EntityWithin(e)
  PROVE  Held(Loaded(e))
<1>1. CASE e.todo = <<>>
  BY <1>1, EndedIsHeld DEF Loaded, Answer
<1>2. CASE e.todo # <<>>
  <2> DEFINE m == [e EXCEPT !.pc = "merge"]
  <2>1. /\ m \in Call /\ m.pc = "merge" /\ m.todo = e.todo
        /\ m.items = e.items /\ m.quantity = e.quantity
    BY DEF Call, CartStep
  <2>2. Loaded(e) = m
    BY <1>2 DEF Loaded
  <2> HIDE DEF m
  <2> QED
    BY <1>2, <2>1, <2>2 DEF Held, EntityWithin
<1> QED
  BY <1>1, <1>2

\* An entity with the columns of a stored cart, as findOne loads it.
LEMMA OpenedIsHeld ==
  ASSUME CartInvariant, NEW todo \in Seq(Line)
  PROVE  Held(Opened(todo))
<1> DEFINE cart == Smallest(carts)
           items == RowsOf(cart)
           quantity == [i \in CartItems |-> IF i \in items THEN row[i].quantity ELSE 0]
<1>1. CASE carts = {}
  <2>1. \A f \in Call :
           LET e == [f EXCEPT !.todo = todo, !.pc = "create"]
           IN e \in Call /\ e.pc = "create" /\ e.items = f.items
    BY DEF Call, CartStep
  <2> QED
    BY <1>1, <2>1, FreshIsCall, FreshHolds DEF Opened, Held, EntityWithin
<1>2. CASE carts # {}
  <2>1. cart \in Calls
    BY <1>2, SmallestIsOne DEF CartInvariant, CartTypeOK
  <2>2. items \in SUBSET CartItems
    BY DEF RowsOf
  <2>3. quantity \in [CartItems -> Int] /\ \A i \in items : quantity[i] <= peak[SizeOf(i)]
    BY DEF RowsOf, CartInvariant, CartTypeOK, CartRow, LinesWithinStock
  <2> HIDE DEF cart, items, quantity
  <2> DEFINE entity(f) == [f EXCEPT !.todo = todo, !.cart = cart, !.items = items, !.quantity = quantity]
  <2>4. \A f \in Call : /\ entity(f) \in Call
                        /\ entity(f).items = items /\ entity(f).quantity = quantity
    BY <2>1, <2>2, <2>3 DEF Call
  <2>5. Held(Loaded(entity(Fresh)))
    <3> HIDE DEF entity
    <3>1. entity(Fresh) \in Call /\ EntityWithin(entity(Fresh))
      BY <2>3, <2>4, FreshIsCall DEF EntityWithin
    <3> QED
      BY <3>1, LoadedIsHeld
  <2> QED
    BY <1>2, <2>5 DEF Opened, cart, items, quantity
<1> QED
  BY <1>1, <1>2

-----------------------------------------------------------------------------
\* A step of one call, whatever it does to the rows.
LEMMA CallMoves ==
  ASSUME CartInvariant, NEW c \in Calls, NEW e, Held(e),
         call' = [call EXCEPT ![c] = e],
         row' \in [CartItems -> CartRow], LinesWithinStock',
         overlapped' \in BOOLEAN, UNCHANGED shop,
         carts' \subseteq Calls
  PROVE  CartInvariant'
<1> USE DEF CartInvariant, shop
<1>1. \A d \in Calls : Held(call'[d])
  BY DEF Held, CartTypeOK, EntitiesWithin
<1>2. CartTypeOK'
  <2>1. call' \in [Calls -> Call]
    BY DEF CartTypeOK, Held
  <2> QED
    BY <1>1, <2>1 DEF CartTypeOK, Held
<1>3. StockWithin'
  BY DEF StockWithin
<1>4. EntitiesWithin'
  BY <1>1 DEF EntitiesWithin, EntityWithin, Held
<1> QED
  BY <1>2, <1>3, <1>4

\* The rows as they are will do.
LEMMA RowsStay ==
  ASSUME CartInvariant, UNCHANGED <<row, shop>>
  PROVE  row' \in [CartItems -> CartRow] /\ LinesWithinStock'
BY DEF CartInvariant, CartTypeOK, LinesWithinStock, shop

\* A row that is removed asks for nothing.
LEMMA RowsRemoved ==
  ASSUME CartInvariant, UNCHANGED shop, NEW items,
         row' = [i \in CartItems |-> IF i \in items THEN NoCartRow ELSE row[i]]
  PROVE  row' \in [CartItems -> CartRow] /\ LinesWithinStock'
BY DEF CartInvariant, CartTypeOK, LinesWithinStock, shop, CartRow, NoCartRow

LEMMA InitCartInvariant == CartInit => CartInvariant
<1> SUFFICES ASSUME CartInit PROVE CartInvariant
  OBVIOUS
<1> USE CartAssumption
<1>1. /\ inventory \in [VariantSizes -> Stocks] /\ peak = inventory
      /\ \A s \in VariantSizes : peak[s] \in Nat /\ 1 <= peak[s]
  <2>1. /\ inventory \in [VariantSizes -> Stocks \ {0}]
        /\ peak = inventory /\ Stocks \subseteq Nat
    BY DEF CartInit
  <2>2. \A s \in VariantSizes : inventory[s] \in Nat /\ inventory[s] # 0
    BY <2>1
  <2> QED
    BY <2>1, <2>2
<1>2. row \in [CartItems -> CartRow] /\ carts \subseteq Calls
  <2>1. NoCartRow \in CartRow /\ [there |-> TRUE, cart |-> Earlier, quantity |-> 1] \in CartRow
    BY DEF CartRow, NoCartRow
  <2> QED
    BY <2>1 DEF CartInit
<1>3. LinesWithinStock
  BY <1>1, SizesOfItems DEF CartInit, LinesWithinStock, NoCartRow
<1>4. \A c \in Calls : call[c] = Fresh \/ call[c] = Ended("done")
  BY DEF CartInit
<1>5. \A c \in Calls : Held(call[c]) /\ call[c].pc # "merge"
  BY <1>4, EndedIsHeld, FreshIsCall, FreshHolds DEF Held, EntityWithin
<1>6. call \in [Calls -> Call]
  BY <1>5 DEF CartInit, Held
<1>7. CartTypeOK
  <2>1. moves \in 0..MaxMoves /\ gone = {} /\ offSale = {} /\ overlapped = FALSE
    BY DEF CartInit
  <2> QED
    BY <1>1, <1>2, <1>5, <1>6, <2>1 DEF CartTypeOK
<1>8. StockWithin
  BY <1>1 DEF StockWithin
<1>9. EntitiesWithin
  BY <1>5 DEF EntitiesWithin, Held
<1> QED
  BY <1>3, <1>7, <1>8, <1>9 DEF CartInvariant
-----------------------------------------------------------------------------
(* The steps of a call *)

LEMMA CallIsHeld ==
  ASSUME CartInvariant, NEW c \in Calls
  PROVE  Held(call[c])
BY DEF CartInvariant, CartTypeOK, EntitiesWithin, Held

LEMMA BeginKeeps == ASSUME CartInvariant, NEW c \in Calls, Begin(c) PROVE CartInvariant'
<1>1. PICK todo \in Requests \cup {<<>>} : call' = [call EXCEPT ![c] = Opened(todo)]
  BY DEF Begin
<1>2. todo \in Seq(Line)
  <2>1. Requests \subseteq Seq(Line) /\ <<>> \in Seq(Line)
    BY CartAssumption
  <2> QED
    BY <2>1, Zenon
<1>3. Held(Opened(todo))
  BY <1>2, OpenedIsHeld
<1>4. carts' \subseteq Calls /\ overlapped' \in BOOLEAN
  BY DEF Begin, CartInvariant, CartTypeOK
<1> QED
  BY <1>1, <1>3, <1>4, CallMoves, RowsStay DEF Begin

LEMMA CreateKeeps == ASSUME CartInvariant, NEW c \in Calls, CreateCart(c) PROVE CartInvariant'
<1> DEFINE entity(f) == [f EXCEPT !.cart = c]
<1>1. \A f \in Call : /\ entity(f) \in Call
                      /\ entity(f).items = f.items /\ entity(f).quantity = f.quantity
  BY DEF Call
<1>2. call' = [call EXCEPT ![c] = Loaded(entity(call[c]))]
  BY DEF CreateCart
<1> HIDE DEF entity
<1>3. Held(Loaded(entity(call[c])))
  BY <1>1, CallIsHeld, LoadedIsHeld DEF Held, EntityWithin
<1>4. carts' \subseteq Calls /\ overlapped' \in BOOLEAN
  BY DEF CreateCart, CartInvariant, CartTypeOK
<1> QED
  BY <1>2, <1>3, <1>4, CallMoves, RowsStay DEF CreateCart

\* What fits into the stock is within the peak.
LEMMA MergeKeeps == ASSUME CartInvariant, NEW c \in Calls, Merge(c) PROVE CartInvariant'
<1> DEFINE l == Head(call[c].todo)
           same == {i \in call[c].items : SizeOf(i) = l.size}
           rest == Tail(call[c].todo)
<1>1. /\ call[c] \in Call /\ call[c].todo # <<>> /\ EntityWithin(call[c])
  BY CallIsHeld DEF Held, Merge
<1>2. l \in Line /\ rest \in Seq(Line)
  BY <1>1 DEF Call
<1>3. PICK i \in IF same = {} THEN {<<c, l.size>>} ELSE same :
        LET before == IF same = {} THEN 0 ELSE call[c].quantity[i]
        IN \/ /\ Fits(c, l, before)
              /\ call' = [call EXCEPT ![c] = [call[c] EXCEPT
                    !.pc = IF rest = <<>> THEN "compare" ELSE "merge",
                    !.todo = rest,
                    !.items = @ \cup {i},
                    !.quantity[i] = before + l.quantity]]
           \/ call' = [call EXCEPT ![c] = Ended("refused")]
  BY DEF Merge
<1> DEFINE before == IF same = {} THEN 0 ELSE call[c].quantity[i]
           pc == IF rest = <<>> THEN "compare" ELSE "merge"
           total == before + l.quantity
           entity(f) == [f EXCEPT !.pc = pc, !.todo = rest,
                            !.items = @ \cup {i}, !.quantity[i] = total]
<1>4. carts' \subseteq Calls /\ overlapped' \in BOOLEAN
  BY DEF Merge, CartInvariant, CartTypeOK
<1>5. UNCHANGED <<row, shop>>
  BY DEF Merge
<1>6. CASE call' = [call EXCEPT ![c] = Ended("refused")]
  BY <1>4, <1>5, <1>6, EndedIsHeld, CallMoves, RowsStay
<1>7. CASE Fits(c, l, before) /\ call' = [call EXCEPT ![c] = entity(call[c])]
  <2>1. i \in CartItems /\ SizeOf(i) = l.size
    <3>1. l.size \in VariantSizes /\ call[c].items \subseteq CartItems
      BY <1>1, <1>2 DEF Line, Call
    <3> QED
      BY <3>1, <1>3 DEF CartItems, SizeOf
  <2>2. before \in Int /\ total \in Int
    BY <1>1, <1>2, <2>1 DEF Call, Line
  <2>3. total <= peak[SizeOf(i)]
    <3>1. l.size \in VariantSizes /\ Stocks \subseteq Nat
      BY <1>2, CartAssumption DEF Line
    <3>2. \A s \in VariantSizes : inventory[s] \in Int /\ peak[s] \in Int /\ inventory[s] <= peak[s]
      <4>1. inventory \in [VariantSizes -> Stocks] /\ peak \in [VariantSizes -> Stocks]
        BY DEF CartInvariant, CartTypeOK
      <4>2. StockWithin
        BY DEF CartInvariant
      <4>3. Stocks \subseteq Int
        BY <3>1
      <4> QED
        BY <4>1, <4>2, <4>3 DEF StockWithin
    <3>3. total <= inventory[l.size]
      BY <1>7 DEF Fits
    <3> HIDE DEF total, l
    <3> QED
      BY <3>1, <3>2, <3>3, <2>1, <2>2
  <2>4. pc \in CartStep /\ (pc = "merge" => rest # <<>>)
    BY DEF CartStep
  <2> HIDE DEF pc, total, rest, l, same, before
  <2>5. \A f \in Call :
           /\ entity(f) \in Call
           /\ entity(f).pc = pc /\ entity(f).todo = rest
           /\ entity(f).items = f.items \cup {i}
           /\ entity(f).quantity = [f.quantity EXCEPT ![i] = total]
    BY <1>2, <2>1, <2>2, <2>4 DEF Call
  <2> HIDE DEF entity
  <2>6. EntityWithin(entity(call[c]))
    <3>1. call[c].quantity \in [CartItems -> Int] /\ call[c].items \subseteq CartItems
      BY <1>1 DEF Call
    <3> SUFFICES ASSUME NEW j \in call[c].items \cup {i}
                 PROVE  [call[c].quantity EXCEPT ![i] = total][j] <= peak[SizeOf(j)]
      BY <1>1, <2>5 DEF EntityWithin
    <3>2. CASE j = i
      BY <3>1, <3>2, <2>1, <2>3
    <3>3. CASE j # i
      BY <3>1, <3>3, <1>1 DEF EntityWithin
    <3> QED
      BY <3>2, <3>3
  <2>7. Held(entity(call[c]))
    BY <1>1, <2>4, <2>5, <2>6 DEF Held
  <2> QED
    BY <1>4, <1>5, <1>7, <2>7, CallMoves, RowsStay
<1> QED
  BY <1>3, <1>6, <1>7

LEMMA CompareKeeps == ASSUME CartInvariant, NEW c \in Calls, Compare(c) PROVE CartInvariant'
<1> DEFINE seen == [i \in CartItems |-> IF i \in call[c].items \cup RowsOf(call[c].cart)
                                         THEN row[i] ELSE NoCartRow]
           entity(f) == [f EXCEPT !.pc = "write", !.seen = seen]
<1>1. call' = [call EXCEPT ![c] = entity(call[c])]
  BY DEF Compare
<1>2. seen \in [CartItems -> CartRow]
  BY DEF CartInvariant, CartTypeOK, CartRow, NoCartRow
<1> HIDE DEF seen
<1>3. \A f \in Call :
         /\ entity(f) \in Call /\ entity(f).pc = "write"
         /\ entity(f).items = f.items /\ entity(f).quantity = f.quantity
  BY <1>2 DEF Call, CartStep
<1> HIDE DEF entity
<1>4. Held(entity(call[c]))
  BY <1>3, CallIsHeld DEF Held, EntityWithin
<1>5. carts' \subseteq Calls /\ overlapped' \in BOOLEAN
  BY DEF Compare, CartInvariant, CartTypeOK
<1> QED
  BY <1>1, <1>4, <1>5, CallMoves, RowsStay DEF Compare

\* A saved row has its old quantity or the entity's.
LEMMA SavedRow ==
  ASSUME CartInvariant, NEW c \in Calls, NEW i \in call[c].items
  PROVE  /\ Saved(c, i) \in CartRow
         /\ Saved(c, i).there => Saved(c, i).quantity <= peak[SizeOf(i)]
<1>1. call[c] \in Call /\ i \in CartItems
  BY CallIsHeld DEF Held, Call
<1> DEFINE held == call[c].quantity[i]
           cart == call[c].cart
<1>2. held \in Int /\ held <= peak[SizeOf(i)] /\ cart \in Calls \cup {None}
  BY <1>1, CallIsHeld DEF Held, EntityWithin, Call
<1>3. row[i] \in CartRow /\ (row[i].there => row[i].quantity <= peak[SizeOf(i)])
  BY <1>1 DEF CartInvariant, CartTypeOK, LinesWithinStock
<1>4. \E n \in {held, row[i].quantity}, k \in {cart, row[i].cart} :
         \/ Saved(c, i) = [there |-> TRUE, cart |-> cart, quantity |-> held]
         \/ Saved(c, i) = NoCartRow
         \/ row[i].there /\ Saved(c, i) = [there |-> TRUE, cart |-> k, quantity |-> n]
  BY DEF Saved
<1> HIDE DEF held, cart
<1>5. CASE Saved(c, i) = NoCartRow
  BY <1>5 DEF CartRow, NoCartRow
<1>6. ASSUME NEW n \in {held, row[i].quantity}, NEW k \in {cart, row[i].cart},
             n \in Int, n <= peak[SizeOf(i)], k \in Calls \cup {None},
             Saved(c, i) = [there |-> TRUE, cart |-> k, quantity |-> n]
      PROVE  Saved(c, i) \in CartRow /\ Saved(c, i).quantity <= peak[SizeOf(i)]
  BY <1>6 DEF CartRow
<1>7. row[i].quantity \in Int /\ row[i].cart \in Calls \cup {None}
  BY <1>3 DEF CartRow
<1> QED
  BY <1>2, <1>3, <1>4, <1>5, <1>6, <1>7

LEMMA WriteKeeps == ASSUME CartInvariant, NEW c \in Calls, Write(c) PROVE CartInvariant'
<1>1. carts' \subseteq Calls /\ overlapped' \in BOOLEAN /\ UNCHANGED shop
  BY DEF Write, CartInvariant, CartTypeOK
<1>2. \E outcome \in {"done", "refused", "broken"} : call' = [call EXCEPT ![c] = Ended(outcome)]
  BY DEF Write, Answer
<1>3. row' \in [CartItems -> CartRow] /\ LinesWithinStock'
  <2>1. CASE UNCHANGED row
    BY <1>1, <2>1, RowsStay
  <2>2. CASE row' = [i \in CartItems |->
                        IF i \in call[c].items THEN Saved(c, i)
                        ELSE IF Dropped(c, i) THEN [row[i] EXCEPT !.cart = None]
                        ELSE row[i]]
    <3>1. ASSUME NEW i \in CartItems
          PROVE  row'[i] \in CartRow /\ (row'[i].there => row'[i].quantity <= peak[SizeOf(i)])
      <4>1. row[i] \in CartRow /\ (row[i].there => row[i].quantity <= peak[SizeOf(i)])
        BY DEF CartInvariant, CartTypeOK, LinesWithinStock
      <4>2. CASE i \in call[c].items
        BY <2>2, <4>2, SavedRow
      <4>3. CASE i \notin call[c].items /\ Dropped(c, i)
        <5>1. row'[i] = [row[i] EXCEPT !.cart = None]
          BY <2>2, <4>3
        <5> QED
          BY <4>1, <5>1 DEF CartRow
      <4>4. CASE i \notin call[c].items /\ ~Dropped(c, i)
        BY <2>2, <4>1, <4>4
      <4> QED
        BY <4>2, <4>3, <4>4
    <3>2. row' \in [CartItems -> CartRow]
      <4> DEFINE R(i) == IF i \in call[c].items THEN Saved(c, i)
                         ELSE IF Dropped(c, i) THEN [row[i] EXCEPT !.cart = None]
                         ELSE row[i]
      <4>1. row' = [i \in CartItems |-> R(i)]
        BY <2>2
      <4> HIDE DEF R
      <4> QED
        BY <3>1, <4>1
    <3> QED
      BY <1>1, <3>1, <3>2 DEF LinesWithinStock, shop
  <2> QED
    BY <2>1, <2>2 DEF Write
<1> QED
  BY <1>1, <1>2, <1>3, EndedIsHeld, CallMoves

\* A removal holds the rows that it found; their quantities it does not read.
LEMMA FoundIsHeld ==
  ASSUME CartInvariant, NEW pc \in {"remove", "removeAll"},
         NEW items \in SUBSET {i \in CartItems : row[i].there},
         NEW cart \in Calls \cup {None}, NEW e,
         e = [Fresh EXCEPT !.pc = pc, !.items = items, !.cart = cart],
         \A i \in items : 0 <= peak[SizeOf(i)]
  PROVE  Held(e)
<1> DEFINE found(f) == [f EXCEPT !.pc = pc, !.items = items, !.cart = cart]
<1>1. \A f \in Call : /\ found(f) \in Call /\ found(f).pc = pc
                      /\ found(f).items = items /\ found(f).quantity = f.quantity
  BY DEF Call, CartStep
<1>2. \A i \in CartItems : Fresh.quantity[i] = 0
  BY DEF Fresh
<1>3. e = found(Fresh)
  OBVIOUS
<1> HIDE DEF found
<1> QED
  BY <1>1, <1>2, <1>3, FreshIsCall DEF Held, EntityWithin

LEMMA PeakIsNatural == ASSUME CartInvariant, NEW i \in CartItems PROVE 0 <= peak[SizeOf(i)]
<1>1. peak \in [VariantSizes -> Stocks] /\ Stocks \subseteq Nat
  BY CartAssumption DEF CartInvariant, CartTypeOK
<1>2. SizeOf(i) \in VariantSizes
  BY SizesOfItems
<1>3. peak[SizeOf(i)] \in Nat
  BY <1>1, <1>2
<1> QED
  BY <1>3

LEMMA FindItemKeeps == ASSUME CartInvariant, NEW c \in Calls, FindItem(c) PROVE CartInvariant'
<1>1. PICK i \in CartItems :
        call' = [call EXCEPT ![c] =
            IF ~row[i].there THEN Ended("refused")
            ELSE [Fresh EXCEPT !.pc = "remove", !.items = {i}, !.cart = row[i].cart]]
  BY DEF FindItem
<1>2. carts' \subseteq Calls /\ overlapped' \in BOOLEAN /\ UNCHANGED <<row, shop>>
  BY DEF FindItem, CartInvariant, CartTypeOK
<1>3. CASE ~row[i].there
  <2>1. call' = [call EXCEPT ![c] = Ended("refused")]
    BY <1>1, <1>3
  <2> QED
    BY <1>2, <2>1, EndedIsHeld, CallMoves, RowsStay
<1>4. CASE row[i].there
  <2> DEFINE e == [Fresh EXCEPT !.pc = "remove", !.items = {i}, !.cart = row[i].cart]
  <2>1. call' = [call EXCEPT ![c] = e]
    BY <1>1, <1>4
  <2>2. row[i].cart \in Calls \cup {None}
    BY DEF CartInvariant, CartTypeOK, CartRow
  <2>3. {i} \in SUBSET {j \in CartItems : row[j].there}
    BY <1>4
  <2>4. \A j \in {i} : 0 <= peak[SizeOf(j)]
    BY PeakIsNatural
  <2>5. Held(e)
    BY <2>2, <2>3, <2>4, FoundIsHeld
  <2> HIDE DEF e
  <2> QED
    BY <1>2, <2>1, <2>5, CallMoves, RowsStay
<1> QED
  BY <1>3, <1>4

LEMMA FindAllKeeps == ASSUME CartInvariant, NEW c \in Calls, FindAll(c) PROVE CartInvariant'
<1>1. PICK cart \in carts :
        call' = [call EXCEPT ![c] =
            IF RowsOf(cart) = {} THEN Ended("refused")
            ELSE [Fresh EXCEPT !.pc = "removeAll", !.cart = cart, !.items = RowsOf(cart)]]
  BY DEF FindAll
<1>2. carts' \subseteq Calls /\ overlapped' \in BOOLEAN /\ UNCHANGED <<row, shop>>
  BY DEF FindAll, CartInvariant, CartTypeOK
<1>3. CASE RowsOf(cart) = {}
  <2>1. call' = [call EXCEPT ![c] = Ended("refused")]
    BY <1>1, <1>3
  <2> QED
    BY <1>2, <2>1, EndedIsHeld, CallMoves, RowsStay
<1>4. CASE RowsOf(cart) # {}
  <2> DEFINE items == RowsOf(cart)
             e == [Fresh EXCEPT !.pc = "removeAll", !.items = items, !.cart = cart]
  <2>1. call' = [call EXCEPT ![c] = e]
    <3>1. [Fresh EXCEPT !.pc = "removeAll", !.cart = cart, !.items = RowsOf(cart)] = e
      BY DEF Fresh
    <3> QED
      BY <1>1, <1>4, <3>1
  <2>2. cart \in Calls \cup {None}
    BY DEF CartInvariant, CartTypeOK
  <2>3. items \in SUBSET {j \in CartItems : row[j].there}
    BY DEF RowsOf
  <2>4. \A j \in items : 0 <= peak[SizeOf(j)]
    BY <2>3, PeakIsNatural
  <2>5. Held(e)
    <3> HIDE DEF items
    <3> QED
      BY <2>2, <2>3, <2>4, FoundIsHeld
  <2> HIDE DEF e
  <2> QED
    BY <1>2, <2>1, <2>5, CallMoves, RowsStay
<1> QED
  BY <1>3, <1>4

LEMMA RemoveItemKeeps == ASSUME CartInvariant, NEW c \in Calls, RemoveItem(c) PROVE CartInvariant'
<1>1. \E outcome \in {"done", "refused", "broken"} : call' = [call EXCEPT ![c] = Ended(outcome)]
  BY DEF RemoveItem, Answer
<1>2. carts' \subseteq Calls /\ overlapped' \in BOOLEAN
  BY DEF RemoveItem, CartInvariant, CartTypeOK
<1>3. row' \in [CartItems -> CartRow] /\ LinesWithinStock'
  BY RowsRemoved DEF RemoveItem
<1> QED
  BY <1>1, <1>2, <1>3, EndedIsHeld, CallMoves DEF RemoveItem

LEMMA RemoveAllKeeps == ASSUME CartInvariant, NEW c \in Calls, RemoveAll(c) PROVE CartInvariant'
<1>1. carts' \subseteq Calls /\ overlapped' \in BOOLEAN
  BY DEF RemoveAll, CartInvariant, CartTypeOK
<1>2. row' \in [CartItems -> CartRow] /\ LinesWithinStock'
  BY RowsRemoved DEF RemoveAll
<1> QED
  BY <1>1, <1>2, EndedIsHeld, CallMoves DEF RemoveAll

-----------------------------------------------------------------------------
(* The shop around the cart *)

\* The peak rises with the stock.
LEMMA StockMovesKeeps ==
  ASSUME CartInvariant, NEW s \in VariantSizes, StockMoves(s)
  PROVE  CartInvariant'
<1>1. PICK n \in Stocks : /\ inventory' = [inventory EXCEPT ![s] = n]
                         /\ peak' = [peak EXCEPT ![s] = IF n > peak[s] THEN n ELSE peak[s]]
  BY DEF StockMoves
<1>2. Stocks \subseteq Int
  BY CartAssumption
<1>3. inventory \in [VariantSizes -> Stocks] /\ peak \in [VariantSizes -> Stocks]
  BY DEF CartInvariant, CartTypeOK
<1>4. \A t \in VariantSizes : peak[t] <= peak'[t] /\ inventory'[t] <= peak'[t]
  <2> SUFFICES ASSUME NEW t \in VariantSizes
               PROVE  peak[t] <= peak'[t] /\ inventory'[t] <= peak'[t]
    OBVIOUS
  <2>1. /\ n \in Int /\ peak[t] \in Int /\ inventory[t] \in Int
        /\ inventory[t] <= peak[t]
    BY <1>2, <1>3 DEF CartInvariant, StockWithin
  <2>2. CASE t = s
    <3>1. inventory'[t] = n /\ peak'[t] = IF n > peak[t] THEN n ELSE peak[t]
      BY <1>1, <1>3, <2>2
    <3> QED
      BY <2>1, <3>1
  <2>3. CASE t # s
    <3>1. inventory'[t] = inventory[t] /\ peak'[t] = peak[t]
      BY <1>1, <1>3, <2>3
    <3> QED
      BY <2>1, <3>1
  <2> QED
    BY <2>2, <2>3
<1>5. peak' \in [VariantSizes -> Stocks] /\ inventory' \in [VariantSizes -> Stocks]
  BY <1>1, <1>3
<1>6. \A t \in VariantSizes : peak[t] \in Int /\ peak'[t] \in Int
  BY <1>2, <1>3, <1>5
<1>7. moves' \in 0..MaxMoves
  BY CartAssumption DEF StockMoves, CartInvariant, CartTypeOK
<1>8. CartTypeOK'
  BY <1>5, <1>7 DEF StockMoves, CartInvariant, CartTypeOK
<1>9. LinesWithinStock'
  <2> SUFFICES ASSUME NEW i \in CartItems, row[i].there
               PROVE  row[i].quantity <= peak'[SizeOf(i)]
    BY DEF LinesWithinStock, StockMoves
  <2>1. row[i].quantity \in Int /\ row[i].quantity <= peak[SizeOf(i)]
    BY DEF CartInvariant, CartTypeOK, CartRow, LinesWithinStock
  <2> QED
    BY <2>1, <1>4, <1>6, SizesOfItems
<1>10. EntitiesWithin'
  <2> SUFFICES ASSUME NEW c \in Calls, NEW i \in call[c].items
               PROVE  call[c].quantity[i] <= peak'[SizeOf(i)]
    BY DEF EntitiesWithin, EntityWithin, StockMoves
  <2>1. i \in CartItems /\ call[c].quantity[i] \in Int /\ call[c].quantity[i] <= peak[SizeOf(i)]
    BY CallIsHeld DEF Held, EntityWithin, Call
  <2> QED
    BY <2>1, <1>4, <1>6, SizesOfItems
<1> QED
  BY <1>4, <1>8, <1>9, <1>10 DEF CartInvariant, StockWithin

LEMMA TakeOffSaleKeeps ==
  ASSUME CartInvariant, NEW s \in VariantSizes, TakeOffSale(s)
  PROVE  CartInvariant'
<1>1. moves' \in 0..MaxMoves
  BY CartAssumption DEF TakeOffSale, CartInvariant, CartTypeOK
<1>2. CartTypeOK'
  BY <1>1 DEF TakeOffSale, CartInvariant, CartTypeOK
<1> QED
  BY <1>2 DEF TakeOffSale, CartInvariant, StockWithin, LinesWithinStock, EntitiesWithin, EntityWithin

-----------------------------------------------------------------------------
(* Every state a cart can be in satisfies the invariant: the calls' entities *)
(* are within the peak of the stock as the rows are.                         *)
THEOREM CartStaysSound == CartSpec => []CartInvariant
<1>1. ASSUME CartInvariant, [CartNext]_cartVars PROVE CartInvariant'
  <2>1. CASE UNCHANGED cartVars
    BY <1>1, <2>1 DEF cartVars, CartInvariant, CartTypeOK, StockWithin, LinesWithinStock,
                      EntitiesWithin, EntityWithin
  <2>2. ASSUME NEW c \in Calls, CartCallStep(c) PROVE CartInvariant'
    BY <1>1, <2>2, BeginKeeps, CreateKeeps, MergeKeeps, CompareKeeps, WriteKeeps, FindItemKeeps,
       RemoveItemKeeps, FindAllKeeps, RemoveAllKeeps DEF CartCallStep
  <2>3. ASSUME NEW s \in VariantSizes, StockMoves(s) \/ TakeOffSale(s) PROVE CartInvariant'
    BY <1>1, <2>3, StockMovesKeeps, TakeOffSaleKeeps
  <2> QED
    BY <1>1, <2>1, <2>2, <2>3 DEF CartNext
<1> QED
  BY <1>1, InitCartInvariant, PTL DEF CartSpec

(* The cart's variables keep their types.                                    *)
THEOREM CartTypes == CartSpec => []CartTypeOK
<1>1. CartInvariant => CartTypeOK
  BY DEF CartInvariant
<1> QED
  BY <1>1, CartStaysSound, PTL

(* However the calls for a cart overlap, no line asks for more than its size *)
(* once had in stock (carts.service.ts:101, 107).                            *)
THEOREM CartWithinStock == CartSpec => []LinesWithinStock
<1>1. CartInvariant => LinesWithinStock
  BY DEF CartInvariant
<1> QED
  BY <1>1, CartStaysSound, PTL
-----------------------------------------------------------------------------
(* CartPromise.  While no two calls overlap, one call at most is at work,   *)
(* and what it holds is what the rows are (SerialCart): its entity is the   *)
(* cart that is shown with the first lines of its request added, as         *)
(* FoldLeft adds them (AfterLines).                                         *)


\* f is the recursive function that FoldLeft(With, b, q) stands for, on the
\* first n lines of q.
IsFold(f, b, q, n) ==
    f = [s \in SUBSET (1..n) |-> IF s = {} THEN b ELSE Bag!With(f[s \ {Max(s)}], q[Max(s)])]

LEMMA AllNaturals ==
  ASSUME NEW S \in SUBSET Nat, 0 \in S, \A n \in S : n + 1 \in S
  PROVE  S = Nat
<1> SUFFICES ASSUME Nat \ S # {} PROVE FALSE
  OBVIOUS
<1> DEFINE Less == {p \in Nat \X Nat : p[1] < p[2]}
<1>1. PICK n \in Nat \ S : \A m \in Nat \ S : ~(m < n)
  <2>1. IsWellFoundedOn(Less, Nat)
    BY NatLessThanWellFounded DEF OpToRel
  <2>2. PICK n \in Nat \ S : \A m \in Nat \ S : ~(<<m, n>> \in Less)
    <3> HIDE DEF Less
    <3>1. Nat \ S \subseteq Nat
      OBVIOUS
    <3> QED
      BY <2>1, <3>1, WFMin, Zenon
  <2>3. \A m, k \in Nat : m < k => <<m, k>> \in Less
    <3> SUFFICES ASSUME NEW m \in Nat, NEW k \in Nat, m < k
                 PROVE  <<m, k>> \in Less
      OBVIOUS
    <3>1. <<m, k>> \in Nat \X Nat /\ <<m, k>>[1] = m /\ <<m, k>>[2] = k
      OBVIOUS
    <3> QED
      BY <3>1, Zenon
  <2> QED
    BY <2>2, <2>3, Zenon
<1>2. n # 0 /\ n - 1 \in Nat
  BY <1>1
<1>3. n - 1 \in S
  BY <1>1, <1>2
<1> QED
  BY <1>1, <1>2, <1>3

LEMMA MaxIs ==
  ASSUME NEW s \in SUBSET Int, NEW n \in s, \A m \in s : m <= n
  PROVE  Max(s) = n
<1>1. \A y \in s : n >= y
  OBVIOUS
<1>2. \A m \in s : (\A y \in s : m >= y) => m = n
  OBVIOUS
<1> QED
  BY <1>1, <1>2 DEF Max

LEMMA FoldExists ==
  ASSUME NEW b, NEW q
  PROVE  \A n \in Nat : \E f : IsFold(f, b, q, n)
<1> DEFINE N == {n \in Nat : \E f : IsFold(f, b, q, n)}
<1>1. 0 \in N
  <2>1. \A s \in SUBSET (1..0) : s = {}
    OBVIOUS
  <2>2. IsFold([s \in SUBSET (1..0) |-> b], b, q, 0)
    BY <2>1 DEF IsFold
  <2> QED
    BY <2>2
<1>2. ASSUME NEW n \in N PROVE n + 1 \in N
  <2>1. PICK f : IsFold(f, b, q, n)
    OBVIOUS
  <2> DEFINE g == [s \in SUBSET (1..(n + 1)) |-> IF s \in SUBSET (1..n) THEN f[s]
                        ELSE Bag!With(f[s \ {Max(s)}], q[Max(s)])]
             Next(h, s) == IF s = {} THEN b ELSE Bag!With(h[s \ {Max(s)}], q[Max(s)])
  <2>2. ASSUME NEW s \in SUBSET (1..(n + 1)) PROVE g[s] = Next(g, s)
    <3>1. CASE s \in SUBSET (1..n)
      <4>1. s \ {Max(s)} \in SUBSET (1..n) /\ s \ {Max(s)} \in SUBSET (1..(n + 1))
        BY <3>1
      <4>2. g[s] = f[s] /\ g[s \ {Max(s)}] = f[s \ {Max(s)}]
        BY <3>1, <4>1
      <4>3. f[s] = Next(f, s)
        BY <2>1, <3>1 DEF IsFold
      <4> HIDE DEF g
      <4> QED
        BY <4>2, <4>3
    <3>2. CASE s \notin SUBSET (1..n)
      <4>1. n + 1 \in s /\ s \in SUBSET Int /\ \A m \in s : m <= n + 1
        BY <3>2
      <4>2. Max(s) = n + 1
        BY <4>1, MaxIs
      <4>3. s \ {Max(s)} \in SUBSET (1..n) /\ s \ {Max(s)} \in SUBSET (1..(n + 1)) /\ s # {}
        BY <4>1, <4>2
      <4>4. g[s] = Bag!With(f[s \ {Max(s)}], q[Max(s)]) /\ g[s \ {Max(s)}] = f[s \ {Max(s)}]
        BY <3>2, <4>3
      <4> HIDE DEF g
      <4> QED
        BY <4>3, <4>4
    <3> QED
      BY <3>1, <3>2
  <2>3. g = [s \in SUBSET (1..(n + 1)) |-> g[s]]
    OBVIOUS
  <2>4. IsFold(g, b, q, n + 1)
    <3> HIDE DEF g
    <3> QED
      BY <2>2, <2>3 DEF IsFold
  <2>5. n + 1 \in Nat
    OBVIOUS
  <2> HIDE DEF g
  <2> QED
    BY <2>4, <2>5
<1>3. N \subseteq Nat
  OBVIOUS
<1>4. N = Nat
  <2> HIDE DEF N
  <2> QED
    BY <1>1, <1>2, <1>3, AllNaturals
<1> QED
  BY <1>4

\* The bag b after the first k of the lines q.
AfterLines(b, q, k) == (CHOOSE f : IsFold(f, b, q, Len(q)))[1..k]

LEMMA AfterStep ==
  ASSUME NEW b, NEW q \in Seq(Line)
  PROVE  /\ AfterLines(b, q, 0) = b
         /\ \A k \in 0..(Len(q) - 1) : AfterLines(b, q, k + 1) = Bag!With(AfterLines(b, q, k), q[k + 1])
<1> DEFINE n == Len(q)
           f == CHOOSE g : IsFold(g, b, q, n)
<1>1. n \in Nat
  OBVIOUS
<1>2. \E g : IsFold(g, b, q, n)
  BY <1>1, FoldExists
<1>3. IsFold(f, b, q, n)
  BY <1>2
<1>4. \A s \in SUBSET (1..n) : f[s] = IF s = {} THEN b ELSE Bag!With(f[s \ {Max(s)}], q[Max(s)])
  <2> HIDE DEF f
  <2> QED
    BY <1>3 DEF IsFold
<1> HIDE DEF f
<1>5. f[1..0] = b
  <2>1. 1..0 = {}
    OBVIOUS
  <2> QED
    BY <1>4, <2>1
<1>6. ASSUME NEW k \in 0..(n - 1) PROVE f[1..(k + 1)] = Bag!With(f[1..k], q[k + 1])
  <2>1. 1..(k + 1) \in SUBSET (1..n) /\ k + 1 \in 1..(k + 1)
    BY <1>1
  <2>2. Max(1..(k + 1)) = k + 1
    <3>1. 1..(k + 1) \in SUBSET Int /\ \A m \in 1..(k + 1) : m <= k + 1
      OBVIOUS
    <3> QED
      BY <2>1, <3>1, MaxIs
  <2>3. (1..(k + 1)) \ {k + 1} = 1..k
    BY <1>1
  <2> QED
    BY <1>4, <2>1, <2>2, <2>3
<1> QED
  BY <1>5, <1>6 DEF AfterLines, f

\* A bag that is what it was with all lines of a request is what AddAll makes.
LEMMA AddsAll ==
  ASSUME NEW lines \in Requests, Shown' = AfterLines(Shown, lines, Len(lines))
  PROVE  Bag!AddAll
<1>1. lines \in Seq(Line)
  BY CartAssumption
<1>2. DOMAIN lines = 1..Len(lines)
  BY <1>1
<1> QED
  BY <1>2 DEF Bag!AddAll, Bag!FoldLeft, Bag!MapThenFoldSet, Bag!Max, Max, AfterLines, IsFold

-----------------------------------------------------------------------------
\* What there is of each size, in a set of lines of different sizes.
DistinctSizes(items) == \A i, j \in items : SizeOf(i) = SizeOf(j) => i = j
LineOf(items, s) == CHOOSE i \in items : SizeOf(i) = s
Amounts(items, quantity) ==
    [s \in VariantSizes |-> IF \E i \in items : SizeOf(i) = s THEN quantity[LineOf(items, s)] ELSE 0]

\* The lines that the customer sees.
Visible == {i \in CartItems : row[i].there /\ row[i].cart \in carts}
Stored == [i \in CartItems |-> row[i].quantity]

OneCart == \A a, b \in carts : a = b

LEMMA LineIs ==
  ASSUME NEW items, DistinctSizes(items), NEW i \in items
  PROVE  LineOf(items, SizeOf(i)) = i
<1>1. \E j \in items : SizeOf(j) = SizeOf(i)
  OBVIOUS
<1> QED
  BY <1>1 DEF LineOf, DistinctSizes

LEMMA AmountsAre ==
  ASSUME NEW items \in SUBSET CartItems, DistinctSizes(items), NEW quantity
  PROVE  /\ \A i \in items : Amounts(items, quantity)[SizeOf(i)] = quantity[i]
         /\ \A s \in VariantSizes : (\A i \in items : SizeOf(i) # s) => Amounts(items, quantity)[s] = 0
<1>1. \A i \in items : SizeOf(i) \in VariantSizes
  BY SizesOfItems
<1> QED
  BY <1>1, LineIs DEF Amounts

LEMMA AmountsEqual ==
  ASSUME NEW items \in SUBSET CartItems, DistinctSizes(items), NEW quantity, NEW b,
         b = [s \in VariantSizes |-> b[s]],
         \A i \in items : b[SizeOf(i)] = quantity[i],
         \A s \in VariantSizes : (\A i \in items : SizeOf(i) # s) => b[s] = 0
  PROVE  b = Amounts(items, quantity)
<1>1. \A s \in VariantSizes : b[s] = Amounts(items, quantity)[s]
  BY AmountsAre
<1>2. Amounts(items, quantity) = [s \in VariantSizes |-> Amounts(items, quantity)[s]]
  BY DEF Amounts
<1> QED
  BY <1>1, <1>2

\* The sum over a size's lines is that of none or of one.
LEMMA SumOfFew ==
  ASSUME CartInvariant, NEW S \in SUBSET CartItems
  PROVE  /\ S = {} => MapThenSumSet(LAMBDA i : row[i].quantity, S) = 0
         /\ \A x \in S : S = {x} => MapThenSumSet(LAMBDA i : row[i].quantity, S) = row[x].quantity
<1> DEFINE Any(t) == CHOOSE x \in t : TRUE
           IsSum(f) == f = [t \in SUBSET S |-> IF t = {} THEN 0 ELSE row[Any(t)].quantity + f[t \ {Any(t)}]]
<1>1. MapThenSumSet(LAMBDA i : row[i].quantity, S) = (CHOOSE f : IsSum(f))[S]
  BY DEF MapThenSumSet, MapThenFoldSet
<1>2. CASE S = {}
  <2>1. \A t \in SUBSET S : t = {}
    BY <1>2
  <2>2. IsSum([t \in SUBSET S |-> 0])
    BY <2>1
  <2>3. IsSum(CHOOSE f : IsSum(f))
    <3> HIDE DEF IsSum
    <3> QED
      BY <2>2
  <2> DEFINE h == CHOOSE f : IsSum(f)
  <2>4. h[S] = 0
    <3> HIDE DEF h
    <3> QED
      BY <1>2, <2>3 DEF h
  <2> QED
    BY <1>1, <1>2, <2>4
<1>3. ASSUME NEW x \in S, S = {x}
      PROVE  MapThenSumSet(LAMBDA i : row[i].quantity, S) = row[x].quantity
  <2>1. \A t \in SUBSET S : t = {} \/ t = {x}
    BY <1>3
  <2>2. Any({x}) = x /\ {x} \ {x} = {} /\ {x} # {} /\ {} \in SUBSET S /\ {x} \in SUBSET S
    BY <1>3
  <2>3. row[x].quantity \in Int
    BY DEF CartInvariant, CartTypeOK, CartRow
  <2> DEFINE g == [t \in SUBSET S |-> IF t = {} THEN 0 ELSE row[x].quantity]
  <2>4. \A t \in SUBSET S : g[t] = IF t = {} THEN 0 ELSE row[Any(t)].quantity + g[t \ {Any(t)}]
    BY <2>1, <2>2, <2>3
  <2>5. g = [t \in SUBSET S |-> g[t]]
    OBVIOUS
  <2>6. IsSum(g)
    <3> HIDE DEF g, Any
    <3> QED
      BY <2>4, <2>5
  <2> DEFINE h == CHOOSE f : IsSum(f)
  <2>7. IsSum(h)
    <3> HIDE DEF IsSum, g
    <3> QED
      BY <2>6
  <2>8. h[S] = row[x].quantity
    <3> HIDE DEF h, Any
    <3>1. h[{x}] = row[x].quantity + h[{}] /\ h[{}] = 0
      BY <2>2, <2>7
    <3> QED
      BY <1>3, <2>3, <3>1
  <2> QED
    BY <1>1, <2>8
<1> QED
  BY <1>2, <1>3

LEMMA ShownIs ==
  CartInvariant /\ OneCart /\ DistinctSizes(Visible) => Shown = Amounts(Visible, Stored)
<1> SUFFICES ASSUME CartInvariant, OneCart, DistinctSizes(Visible)
             PROVE  Shown = Amounts(Visible, Stored)
  OBVIOUS
<1> DEFINE Mine(s) == {i \in RowsOf(Smallest(carts)) : SizeOf(i) = s}
<1>1. Visible \in SUBSET CartItems
  BY DEF Visible
<1>2. CASE carts = {}
  <2>1. Visible = {}
    BY <1>2 DEF Visible
  <2> QED
    BY <1>2, <2>1 DEF Shown, Amounts
<1>3. CASE carts # {}
  <2>1. Smallest(carts) \in carts
    BY <1>3, SmallestIsOne DEF CartInvariant, CartTypeOK
  <2>2. RowsOf(Smallest(carts)) = Visible
    BY <2>1 DEF OneCart, RowsOf, Visible
  <2>3. \A s \in VariantSizes : Mine(s) \in SUBSET CartItems
    BY DEF RowsOf
  <2>4. \A s \in VariantSizes : Shown[s] = MapThenSumSet(LAMBDA i : row[i].quantity, Mine(s))
    BY <1>3 DEF Shown
  <2>5. ASSUME NEW i \in Visible PROVE Shown[SizeOf(i)] = Stored[i]
    <3>1. SizeOf(i) \in VariantSizes /\ i \in CartItems
      BY <1>1, SizesOfItems
    <3>2. Mine(SizeOf(i)) = {i}
      BY <2>2 DEF DistinctSizes
    <3>3. i \in Mine(SizeOf(i))
      BY <3>2
    <3> QED
      BY <2>3, <2>4, <3>1, <3>2, <3>3, SumOfFew DEF Stored
  <2>6. ASSUME NEW s \in VariantSizes, \A i \in Visible : SizeOf(i) # s PROVE Shown[s] = 0
    <3>1. Mine(s) = {}
      BY <2>2, <2>6
    <3> QED
      BY <2>3, <2>4, <3>1, SumOfFew
  <2>7. Shown = [s \in VariantSizes |-> Shown[s]]
    BY DEF Shown
  <2> QED
    BY <1>1, <2>5, <2>6, <2>7, AmountsEqual
<1> QED
  BY <1>2, <1>3

LEMMA ShownIsNext ==
  (CartInvariant /\ OneCart /\ DistinctSizes(Visible) => Shown = Amounts(Visible, Stored))'
BY ShownIs, PTL
-----------------------------------------------------------------------------
\* The call's remaining lines are those behind the first k of the request, and
\* its entity is the cart that is shown with the first k added.
Adding == {"merge", "compare", "write"}
AddedSoFar(c) ==
    \E lines \in Requests : \E k \in 0..Len(lines) :
        /\ Len(call[c].todo) = Len(lines) - k
        /\ \A j \in 1..Len(call[c].todo) : call[c].todo[j] = lines[k + j]
        /\ Amounts(call[c].items, call[c].quantity) = AfterLines(Shown, lines, k)

LEMMA AfterLinesNext ==
  \A lines, k : AfterLines(Shown, lines, k)' = AfterLines(Shown', lines, k)
BY DEF AfterLines, IsFold, Bag!With, Max

\* While no two calls overlap, what a call holds is what the rows are.
CallFresh(c) ==
    /\ call[c].pc = "create" =>
          carts = {} /\ call[c].todo \in Requests \cup {<<>>} /\ call[c].items = {}
    /\ call[c].pc \in Adding =>
          /\ carts = {call[c].cart}
          /\ Visible \subseteq call[c].items
          /\ DistinctSizes(call[c].items)
          /\ AddedSoFar(c)
    /\ call[c].pc \in {"compare", "write"} => call[c].todo = <<>>
    /\ call[c].pc = "write" => \A i \in call[c].items : call[c].seen[i] = row[i]
    /\ call[c].pc = "remove" => \E i \in CartItems : call[c].items = {i}
    /\ call[c].pc = "removeAll" => carts = {call[c].cart} /\ call[c].items = Visible

RowsOfCarts == \A i \in CartItems : row[i].there => row[i].cart \in carts \cup {None}
CartsFit == OneCart /\ RowsOfCarts /\ DistinctSizes(Visible)
AloneCall == \A c, d \in Calls : InFlight(c) /\ InFlight(d) => c = d

SerialCart == ~overlapped => AloneCall /\ CartsFit /\ \A c \in Calls : CallFresh(c)

LEMMA EndedIsFresh ==
  ASSUME NEW c \in Calls, ~InFlight(c)
  PROVE  CallFresh(c)
BY DEF InFlight, Over, CallFresh, Adding

LEMMA EndedIsFreshNext ==
  ASSUME NEW c \in Calls, ~InFlight(c)'
  PROVE  CallFresh(c)'
BY DEF InFlight, Over, CallFresh, Adding

LEMMA InitSerial == CartInit => SerialCart
<1> SUFFICES ASSUME CartInit PROVE SerialCart
  OBVIOUS
<1>1. \A c \in Calls : ~InFlight(c)
  <2>1. \A c \in Calls : call[c] = Ended("done") \/ call[c] = Fresh
    BY DEF CartInit
  <2> QED
    BY <2>1, EndedIsHeld, FreshHolds DEF InFlight, Over
<1>2. CartsFit
  <2>1. CASE carts = {} /\ row = [i \in CartItems |-> NoCartRow]
    BY <2>1 DEF CartsFit, OneCart, RowsOfCarts, Visible, DistinctSizes, NoCartRow
  <2>2. CASE /\ carts = {Earlier}
             /\ row = [i \in CartItems |-> IF i \in {Earlier} \X StartLines
                          THEN [there |-> TRUE, cart |-> Earlier, quantity |-> 1] ELSE NoCartRow]
    <3>1. \A i \in CartItems : row[i].there => i \in {Earlier} \X StartLines /\ row[i].cart = Earlier
      BY <2>2 DEF NoCartRow
    <3>2. \A i, j \in {Earlier} \X StartLines : SizeOf(i) = SizeOf(j) => i = j
      BY DEF SizeOf
    <3> QED
      BY <2>2, <3>1, <3>2 DEF CartsFit, OneCart, RowsOfCarts, Visible, DistinctSizes
  <2> QED
    BY <2>1, <2>2 DEF CartInit
<1> QED
  BY <1>1, <1>2, EndedIsFresh DEF SerialCart, AloneCall

LEMMA InitBag == CartInit => Bag!Init
<1> SUFFICES ASSUME CartInit PROVE Bag!Init
  OBVIOUS
<1>1. CartInvariant /\ CartsFit
  BY InitCartInvariant, InitSerial DEF SerialCart, CartInit
<1>2. Shown = Amounts(Visible, Stored)
  BY <1>1, ShownIs DEF CartsFit
<1>3. \A i \in CartItems : row[i].quantity \in Nat
  BY DEF CartInit, NoCartRow
<1>4. \A s \in VariantSizes : Amounts(Visible, Stored)[s] \in Nat
  <2> SUFFICES ASSUME NEW s \in VariantSizes PROVE Amounts(Visible, Stored)[s] \in Nat
    OBVIOUS
  <2>1. CASE \E i \in Visible : SizeOf(i) = s
    <3>1. PICK i \in Visible : SizeOf(i) = s
      BY <2>1
    <3>2. Amounts(Visible, Stored)[s] = Stored[i] /\ i \in CartItems
      <4>1. Visible \in SUBSET CartItems
        BY DEF Visible
      <4> QED
        BY <1>1, <3>1, <4>1, AmountsAre DEF CartsFit
    <3> QED
      BY <1>3, <3>2 DEF Stored
  <2>2. CASE ~\E i \in Visible : SizeOf(i) = s
    BY <2>2 DEF Amounts
  <2> QED
    BY <2>1, <2>2
<1> QED
  BY <1>2, <1>4 DEF Bag!Init, Amounts, CartInit

-----------------------------------------------------------------------------
\* A step of the only call.
LEMMA OneCallMoves ==
  ASSUME NEW c \in Calls, \A d \in Calls : InFlight(d) => d = c,
         \A d \in Calls \ {c} : call'[d] = call[d],
         CartsFit', CallFresh(c)'
  PROVE  SerialCart'
<1>1. \A d \in Calls \ {c} : ~InFlight(d)'
  BY DEF InFlight
<1>2. \A d \in Calls : CallFresh(d)'
  BY <1>1, EndedIsFreshNext
<1> QED
  BY <1>1, <1>2 DEF SerialCart, AloneCall

\* What is shown depends on the rows only.
LEMMA ShownStays ==
  ASSUME UNCHANGED <<carts, row>>
  PROVE  /\ Shown' = Shown /\ Visible' = Visible /\ Stored' = Stored
         /\ CartsFit => CartsFit'
<1>1. Shown' = Shown
  BY DEF Shown, RowsOf, Smallest, MapThenSumSet, MapThenFoldSet
<1> QED
  BY <1>1 DEF Visible, Stored, CartsFit, OneCart, RowsOfCarts, DistinctSizes

\* Who else may be at work when c makes a step.
LEMMA OnlyOne ==
  ASSUME SerialCart, NEW c \in Calls, ~overlapped', InFlight(c) /\ UNCHANGED overlapped
  PROVE  ~overlapped /\ CartsFit /\ CallFresh(c) /\ \A d \in Calls : InFlight(d) => d = c
BY DEF SerialCart, AloneCall

LEMMA NobodyElse ==
  ASSUME CartInvariant, SerialCart, ~overlapped', overlapped' = (overlapped \/ ~NoCall)
  PROVE  ~overlapped /\ UNCHANGED overlapped /\ CartsFit /\ \A d \in Calls : ~InFlight(d)
BY DEF CartInvariant, CartTypeOK, SerialCart, NoCall

BagStep == Bag!Next \/ UNCHANGED <<Shown, overlapped>>

\* A call that changes no row and ends, or goes on with what is fresh.
LEMMA RowsUntouched ==
  ASSUME UNCHANGED <<carts, row, overlapped>>
  PROVE  BagStep
BY ShownStays DEF BagStep

LEMMA CreateSerial ==
  ASSUME CartInvariant, SerialCart, ~overlapped', NEW c \in Calls, CreateCart(c)
  PROVE  SerialCart' /\ BagStep
<1>1. /\ call[c].pc = "create" /\ InFlight(c) /\ UNCHANGED <<row, overlapped>>
      /\ carts' = carts \cup {c}
      /\ call' = [call EXCEPT ![c] = Loaded([call[c] EXCEPT !.cart = c])]
  BY DEF CreateCart, InFlight, Over
<1>2. ~overlapped /\ CartsFit /\ CallFresh(c) /\ \A d \in Calls : InFlight(d) => d = c
  BY <1>1, OnlyOne
<1>3. carts = {} /\ carts' = {c} /\ call[c].todo \in Requests \cup {<<>>} /\ call[c].items = {}
  BY <1>1, <1>2 DEF CallFresh
<1>4. Visible = {} /\ Visible' = {}
  <2>1. \A i \in CartItems : ~(row[i].there /\ row[i].cart = c)
    BY <1>2, <1>3, CartAssumption DEF CartsFit, RowsOfCarts
  <2> QED
    BY <1>1, <1>3, <2>1 DEF Visible
<1>5. CartsFit'
  BY <1>1, <1>2, <1>3, <1>4 DEF CartsFit, OneCart, RowsOfCarts, DistinctSizes
<1>6. CartInvariant'
  BY CreateKeeps
<1>7. Shown = Amounts({}, Stored) /\ Shown' = Amounts({}, Stored')
  <2>1. Shown' = Amounts(Visible, Stored)'
    BY <1>5, <1>6, ShownIsNext DEF CartsFit
  <2> QED
    BY <1>2, <1>4, <2>1, ShownIs DEF CartsFit, Amounts
<1>8. Shown' = Shown
  BY <1>7 DEF Amounts
<1>9. CallFresh(c)'
  <2> DEFINE e == [call[c] EXCEPT !.cart = c]
  <2>0. call[c] \in Call
    BY DEF CartInvariant, CartTypeOK
  <2>1. e \in Call /\ e.todo = call[c].todo /\ e.items = {} /\ e.cart = c
    BY <1>3, <2>0 DEF Call
  <2>2. call'[c] = Loaded(e)
    BY <1>1 DEF CartInvariant, CartTypeOK
  <2> HIDE DEF e
  <2>3. CASE e.todo = <<>>
    <3>1. ~InFlight(c)'
      BY <2>2, <2>3, EndedIsHeld DEF Loaded, Answer, InFlight, Over
    <3> QED
      BY <3>1, EndedIsFreshNext
  <2>4. CASE e.todo # <<>>
    <3> DEFINE m == [e EXCEPT !.pc = "merge"]
    <3>1. /\ m.pc = "merge" /\ m.todo = e.todo /\ m.items = {} /\ m.cart = c
      BY <2>1 DEF Call
    <3>2. call'[c] = m
      BY <2>2, <2>4 DEF Loaded
    <3> HIDE DEF m
    <3>3. AddedSoFar(c)'
      <4>1. PICK lines \in Requests : lines = e.todo /\ lines \in Seq(Line)
        BY <1>3, <2>1, <2>4, CartAssumption
      <4>2. Amounts(call[c].items, call[c].quantity)' = AfterLines(Shown', lines, 0)
        BY <1>7, <3>1, <3>2, <4>1, AfterStep DEF Amounts
      <4>3. 0 \in 0..Len(lines) /\ Len(lines) = Len(lines) - 0
            /\ \A j \in 1..Len(lines) : lines[j] = lines[0 + j]
        BY <4>1
      <4> QED
        BY <2>1, <3>1, <3>2, <4>1, <4>2, <4>3, AfterLinesNext DEF AddedSoFar
    <3> QED
      BY <1>3, <1>4, <3>1, <3>2, <3>3 DEF CallFresh, Adding, DistinctSizes
  <2> QED
    BY <2>3, <2>4
<1> QED
  BY <1>1, <1>2, <1>5, <1>8, <1>9, OneCallMoves DEF BagStep, CartInvariant, CartTypeOK
LEMMA BeginSerial ==
  ASSUME CartInvariant, SerialCart, ~overlapped', NEW c \in Calls, Begin(c)
  PROVE  SerialCart' /\ BagStep
<1>1. PICK todo \in Requests \cup {<<>>} : call' = [call EXCEPT ![c] = Opened(todo)]
  BY DEF Begin
<1>2. ~overlapped /\ UNCHANGED overlapped /\ CartsFit /\ \A d \in Calls : ~InFlight(d)
  BY NobodyElse DEF Begin
<1>a. UNCHANGED <<carts, row, overlapped>> /\ UNCHANGED <<carts, row>>
  BY <1>2 DEF Begin
<1>3. CartsFit' /\ Shown' = Shown /\ Visible' = Visible
  BY <1>2, <1>a, ShownStays
<1>4. todo \in Seq(Line) /\ call'[c] = Opened(todo)
  <2>1. todo \in Seq(Line)
    <3>1. <<>> \in Seq(Line)
      OBVIOUS
    <3>2. Requests \subseteq Seq(Line)
      BY CartAssumption
    <3> QED
      BY <3>1, <3>2, Zenon
  <2>2. call'[c] = Opened(todo)
    BY <1>1 DEF CartInvariant, CartTypeOK
  <2> QED
    BY <2>1, <2>2
<1>5. CallFresh(c)'
  <2>1. CASE carts = {}
    <3> DEFINE e(f) == [f EXCEPT !.todo = todo, !.pc = "create"]
    <3>1. \A f \in Call : e(f).pc = "create" /\ e(f).todo = todo /\ e(f).items = f.items
      BY <1>4 DEF Call, CartStep
    <3>2. call'[c] = e(Fresh)
      BY <1>4, <2>1 DEF Opened
    <3> HIDE DEF e
    <3> QED
      BY <1>a, <2>1, <3>1, <3>2, FreshIsCall, FreshHolds DEF CallFresh, Adding
  <2>2. CASE carts # {}
    <3> DEFINE cart == Smallest(carts)
               items == RowsOf(cart)
               quantity == [i \in CartItems |-> IF i \in items THEN row[i].quantity ELSE 0]
    <3>1. cart \in carts /\ carts = {cart} /\ cart \in Calls
      BY <1>2, <2>2, SmallestIsOne DEF CartInvariant, CartTypeOK, CartsFit, OneCart
    <3>2. items = Visible /\ items \in SUBSET CartItems
      BY <3>1 DEF RowsOf, Visible
    <3>3. Amounts(items, quantity) = Shown
      <4>1. Amounts(Visible, Stored) = Shown
        BY <1>2, ShownIs DEF CartsFit
      <4>2. \A i \in items : quantity[i] = Stored[i]
        BY <3>2 DEF Stored
      <4>3. DistinctSizes(items)
        BY <1>2, <3>2 DEF CartsFit
      <4>4. Amounts(items, quantity) = [s \in VariantSizes |-> Amounts(items, quantity)[s]]
        BY DEF Amounts
      <4> HIDE DEF items, quantity
      <4> QED
        BY <3>2, <4>1, <4>2, <4>3, <4>4, AmountsAre, AmountsEqual
    <3>4. quantity \in [CartItems -> Int]
      BY DEF CartInvariant, CartTypeOK, CartRow
    <3> DEFINE e(f) == [f EXCEPT !.todo = todo, !.cart = cart, !.items = items, !.quantity = quantity]
               m(f) == [e(f) EXCEPT !.pc = "merge"]
    <3>5. call'[c] = Loaded(e(Fresh))
      BY <1>4, <2>2 DEF Opened
    <3> HIDE DEF cart, items, quantity
    <3>6. \A f \in Call :
             /\ e(f) \in Call
             /\ e(f).todo = todo /\ e(f).cart = cart /\ e(f).items = items /\ e(f).quantity = quantity
             /\ m(f).todo = todo /\ m(f).cart = cart /\ m(f).items = items /\ m(f).quantity = quantity
             /\ m(f).pc = "merge"
      BY <1>4, <3>1, <3>2, <3>4 DEF Call, CartStep
    <3>7. CASE todo = <<>>
      <4> HIDE DEF e
      <4>1. ~InFlight(c)'
        BY <3>5, <3>6, <3>7, FreshIsCall, EndedIsHeld DEF Loaded, Answer, InFlight, Over
      <4> QED
        BY <4>1, EndedIsFreshNext
    <3>8. CASE todo # <<>>
      <4>1. call'[c] = m(Fresh)
        <5>1. e(Fresh).todo # <<>>
          BY <3>6, <3>8, FreshIsCall
        <5> HIDE DEF e
        <5> QED
          BY <3>5, <5>1 DEF Loaded
      <4> HIDE DEF e, m
      <4>2. /\ call'[c].pc = "merge" /\ call'[c].todo = todo /\ call'[c].cart = cart
            /\ call'[c].items = items /\ call'[c].quantity = quantity
        BY <3>6, <4>1, FreshIsCall
      <4>3. AddedSoFar(c)'
        <5>1. todo \in Requests
          BY <3>8
        <5>2. AfterLines(Shown', todo, 0) = Shown'
          BY <1>4, AfterStep
        <5>3. 0 \in 0..Len(todo) /\ Len(todo) = Len(todo) - 0
              /\ \A j \in 1..Len(todo) : todo[j] = todo[0 + j]
          BY <1>4
        <5>4. Amounts(call[c].items, call[c].quantity)' = Shown'
          BY <1>3, <3>3, <4>2 DEF Amounts, LineOf
        <5> QED
          BY <4>2, <5>1, <5>2, <5>3, <5>4, AfterLinesNext DEF AddedSoFar
      <4>4. DistinctSizes(items)
        BY <1>2, <3>2 DEF CartsFit
      <4> QED
        BY <1>a, <1>3, <3>1, <3>2, <4>2, <4>3, <4>4 DEF CallFresh, Adding, DistinctSizes
    <3> QED
      BY <3>7, <3>8
  <2> QED
    BY <2>1, <2>2
<1>6. \A d \in Calls \ {c} : call'[d] = call[d]
  BY <1>1 DEF CartInvariant, CartTypeOK
<1> QED
  BY <1>2, <1>a, <1>3, <1>5, <1>6, OneCallMoves, RowsUntouched

LEMMA CallEnds ==
  ASSUME CartInvariant, SerialCart, ~overlapped', NEW c \in Calls, InFlight(c), UNCHANGED overlapped,
         NEW outcome \in Over, call' = [call EXCEPT ![c] = Ended(outcome)], CartsFit'
  PROVE  SerialCart'
<1>1. \A d \in Calls : InFlight(d) => d = c
  BY OnlyOne
<1>2. call'[c].pc = outcome /\ \A d \in Calls \ {c} : call'[d] = call[d]
  BY EndedIsHeld DEF CartInvariant, CartTypeOK, Over
<1>3. CallFresh(c)'
  BY <1>2, EndedIsFreshNext DEF InFlight
<1> QED
  BY <1>1, <1>2, <1>3, OneCallMoves

\* A line is added to an entity.
LEMMA AmountsGrow ==
  ASSUME NEW items \in SUBSET CartItems, DistinctSizes(items),
         NEW quantity \in [CartItems -> Int], NEW l \in Line, NEW i \in CartItems, SizeOf(i) = l.size,
         NEW before, i \in items => before = quantity[i],
         i \notin items => before = 0 /\ \A j \in items : SizeOf(j) # l.size
  PROVE  /\ DistinctSizes(items \cup {i})
         /\ Amounts(items \cup {i}, [quantity EXCEPT ![i] = before + l.quantity])
              = Bag!With(Amounts(items, quantity), l)
<1> DEFINE more == [quantity EXCEPT ![i] = before + l.quantity]
           old == Amounts(items, quantity)
           new == Bag!With(old, l)
<1>1. DistinctSizes(items \cup {i})
  BY DEF DistinctSizes
<1>2. old = [s \in VariantSizes |-> old[s]]
  BY DEF Amounts
<1>3. /\ \A j \in items : old[SizeOf(j)] = quantity[j]
      /\ \A s \in VariantSizes : (\A j \in items : SizeOf(j) # s) => old[s] = 0
  BY AmountsAre
<1>4. l.size \in VariantSizes /\ \A j \in CartItems : SizeOf(j) \in VariantSizes
  BY SizesOfItems DEF Line
<1> HIDE DEF old
<1>5. /\ new = [s \in VariantSizes |-> new[s]]
      /\ new[l.size] = old[l.size] + l.quantity
      /\ \A s \in VariantSizes \ {l.size} : new[s] = old[s]
  BY <1>2, <1>4 DEF Bag!With
<1>6. old[l.size] = before
  BY <1>3, <1>4
<1>7. more[i] = before + l.quantity /\ \A j \in items \ {i} : more[j] = quantity[j]
  OBVIOUS
<1> HIDE DEF new, more
<1>8. ASSUME NEW j \in items \cup {i} PROVE new[SizeOf(j)] = more[j]
  <2>1. CASE j = i
    BY <1>5, <1>6, <1>7, <2>1
  <2>2. CASE j # i
    BY <1>1, <1>3, <1>4, <1>5, <1>7, <2>2 DEF DistinctSizes
  <2> QED
    BY <2>1, <2>2
<1>9. ASSUME NEW s \in VariantSizes, \A j \in items \cup {i} : SizeOf(j) # s PROVE new[s] = 0
  BY <1>3, <1>5, <1>9
<1>10. items \cup {i} \in SUBSET CartItems
  OBVIOUS
<1>11. new = Amounts(items \cup {i}, more)
  BY <1>1, <1>5, <1>8, <1>9, <1>10, AmountsEqual
<1> QED
  BY <1>1, <1>11 DEF new, more, old

LEMMA MergeSerial ==
  ASSUME CartInvariant, SerialCart, ~overlapped', NEW c \in Calls, Merge(c)
  PROVE  SerialCart' /\ BagStep
<1> DEFINE l == Head(call[c].todo)
           same == {i \in call[c].items : SizeOf(i) = l.size}
           rest == Tail(call[c].todo)
           Before(i) == IF same = {} THEN 0 ELSE call[c].quantity[i]
           entity(i) == [call[c] EXCEPT !.pc = IF rest = <<>> THEN "compare" ELSE "merge",
                                        !.todo = rest,
                                        !.items = @ \cup {i},
                                        !.quantity[i] = Before(i) + l.quantity]
<1>1. /\ call[c].pc = "merge" /\ InFlight(c) /\ UNCHANGED <<carts, row, overlapped>>
  BY DEF Merge, InFlight, Over
<1>2. ~overlapped /\ CartsFit /\ CallFresh(c) /\ \A d \in Calls : InFlight(d) => d = c
  BY <1>1, OnlyOne
<1>3. CartsFit' /\ Shown' = Shown /\ Visible' = Visible /\ BagStep
  BY <1>1, <1>2, ShownStays, RowsUntouched
<1>4. PICK i \in IF same = {} THEN {<<c, l.size>>} ELSE same :
         \/ call' = [call EXCEPT ![c] = entity(i)]
         \/ call' = [call EXCEPT ![c] = Ended("refused")]
  BY DEF Merge
<1>5. CASE call' = [call EXCEPT ![c] = Ended("refused")]
  BY <1>1, <1>3, <1>5, CallEnds DEF Over
<1>6. CASE call' = [call EXCEPT ![c] = entity(i)]
  <2>1. /\ call[c] \in Call /\ call[c].items \in SUBSET CartItems
        /\ call[c].quantity \in [CartItems -> Int]
        /\ call[c].todo \in Seq(Line) /\ call[c].todo # <<>>
    <3>1. call[c] \in Call /\ call[c].todo # <<>>
      BY <1>1 DEF CartInvariant, CartTypeOK
    <3> QED
      BY <3>1 DEF Call
  <2>2. l \in Line /\ l.size \in VariantSizes /\ rest \in Seq(Line) /\ l.quantity \in Int
    <3>1. l \in Line /\ rest \in Seq(Line)
      BY <2>1
    <3>2. \A m \in Line : m.size \in VariantSizes /\ m.quantity \in Int
      BY DEF Line
    <3> QED
      BY <3>1, <3>2
  <2>3. i \in CartItems /\ SizeOf(i) = l.size
    BY <1>4, <2>1, <2>2 DEF CartItems, SizeOf
  <2>4. /\ Before(i) = IF i \in call[c].items THEN call[c].quantity[i] ELSE 0
        /\ i \in call[c].items \/ \A j \in call[c].items : SizeOf(j) # l.size
    BY <1>4, <2>3
  <2>5. Before(i) \in Int
    BY <2>1, <2>3, <2>4
  <2> DEFINE more == [call[c].quantity EXCEPT ![i] = Before(i) + l.quantity]
  <2>6. more \in [CartItems -> Int]
    BY <2>1, <2>2, <2>3, <2>5
  <2>7. /\ call'[c].pc = (IF rest = <<>> THEN "compare" ELSE "merge")
        /\ call'[c].todo = rest /\ call'[c].cart = call[c].cart
        /\ call'[c].items = call[c].items \cup {i} /\ call'[c].quantity = more
    <3> DEFINE q == Before(i) + l.quantity
    <3>1. call'[c] = entity(i)
      BY <1>6 DEF CartInvariant, CartTypeOK
    <3> HIDE DEF l, rest, Before
    <3> QED
      BY <2>1, <3>1 DEF Call
  <2>8. /\ DistinctSizes(call[c].items) /\ carts = {call[c].cart} /\ Visible \subseteq call[c].items
        /\ AddedSoFar(c)
    BY <1>1, <1>2 DEF CallFresh, Adding
  <2>9. /\ DistinctSizes(call'[c].items)
        /\ Amounts(call'[c].items, call'[c].quantity)
             = Bag!With(Amounts(call[c].items, call[c].quantity), l)
    <3> DEFINE b == Before(i)
    <3>1. /\ b = IF i \in call[c].items THEN call[c].quantity[i] ELSE 0
          /\ more = [call[c].quantity EXCEPT ![i] = b + l.quantity]
      BY <2>4
    <3>2. l \in Line /\ SizeOf(i) = l.size /\ i \in CartItems
          /\ (i \in call[c].items \/ \A j \in call[c].items : SizeOf(j) # l.size)
      BY <2>2, <2>3, <2>4
    <3> HIDE DEF l, rest, Before, more, b
    <3>3. /\ DistinctSizes(call[c].items \cup {i})
          /\ Amounts(call[c].items \cup {i}, [call[c].quantity EXCEPT ![i] = b + l.quantity])
               = Bag!With(Amounts(call[c].items, call[c].quantity), l)
      <4>1. PICK items \in SUBSET CartItems : items = call[c].items
        BY <2>1
      <4>2. PICK quantity \in [CartItems -> Int] : quantity = call[c].quantity
        BY <2>1
      <4>3. PICK m \in Line : m = l
        BY <3>2
      <4>4. PICK before : before = b
        OBVIOUS
      <4>5. /\ DistinctSizes(items) /\ SizeOf(i) = m.size /\ i \in CartItems
            /\ i \in items => before = quantity[i]
            /\ i \notin items => before = 0 /\ \A j \in items : SizeOf(j) # m.size
        BY <2>8, <3>1, <3>2, <4>1, <4>2, <4>3, <4>4
      <4>6. /\ DistinctSizes(items \cup {i})
            /\ Amounts(items \cup {i}, [quantity EXCEPT ![i] = before + m.quantity])
                 = Bag!With(Amounts(items, quantity), m)
        BY <4>5, AmountsGrow, ZenonT(60)
      <4> QED
        BY <4>1, <4>2, <4>3, <4>4, <4>6
    <3> QED
      BY <2>7, <3>1, <3>3
  <2>10. AddedSoFar(c)'
    <3>0. PICK lines \in Requests : \E k \in 0..Len(lines) :
             /\ Len(call[c].todo) = Len(lines) - k
             /\ \A j \in 1..Len(call[c].todo) : call[c].todo[j] = lines[k + j]
             /\ Amounts(call[c].items, call[c].quantity) = AfterLines(Shown, lines, k)
      BY <2>8 DEF AddedSoFar
    <3>1. PICK k \in 0..Len(lines) :
             /\ Len(call[c].todo) = Len(lines) - k
             /\ \A j \in 1..Len(call[c].todo) : call[c].todo[j] = lines[k + j]
             /\ Amounts(call[c].items, call[c].quantity) = AfterLines(Shown, lines, k)
      BY <3>0
    <3>2. lines \in Seq(Line) /\ Len(lines) \in Nat
      BY CartAssumption
    <3>3. Len(call[c].todo) \in Nat \ {0}
      BY <2>1
    <3>4. k + 1 \in 0..Len(lines) /\ k \in 0..(Len(lines) - 1)
      BY <3>1, <3>2, <3>3
    <3>5. l = lines[k + 1]
      BY <2>1, <3>1, <3>3
    <3>6. /\ Len(rest) = Len(lines) - (k + 1)
          /\ \A j \in 1..Len(rest) : rest[j] = lines[(k + 1) + j]
      <4>1. Len(rest) = Len(call[c].todo) - 1 /\ \A j \in 1..Len(rest) : rest[j] = call[c].todo[j + 1]
        BY <2>1
      <4>2. \A j \in 1..Len(rest) : j + 1 \in 1..Len(call[c].todo) /\ k + (j + 1) = (k + 1) + j
        BY <3>2, <3>3, <4>1
      <4> HIDE DEF rest, l
      <4>3. Len(rest) = Len(lines) - (k + 1)
        BY <3>1, <3>2, <3>3, <4>1
      <4>4. ASSUME NEW j \in 1..Len(rest) PROVE rest[j] = lines[(k + 1) + j]
        <5>1. rest[j] = call[c].todo[j + 1] /\ j + 1 \in 1..Len(call[c].todo)
          BY <4>1, <4>2
        <5>2. call[c].todo[j + 1] = lines[k + (j + 1)] /\ k + (j + 1) = (k + 1) + j
          BY <3>1, <4>2, <5>1
        <5> QED
          BY <5>1, <5>2
      <4> QED
        BY <4>3, <4>4
    <3>7. Amounts(call'[c].items, call'[c].quantity) = AfterLines(Shown, lines, k + 1)
      <4>1. AfterLines(Shown, lines, k + 1) = Bag!With(AfterLines(Shown, lines, k), lines[k + 1])
        BY <3>2, <3>4, AfterStep
      <4> HIDE DEF l
      <4> QED
        BY <2>9, <3>1, <3>5, <4>1
    <3>8. Amounts(call[c].items, call[c].quantity)' = Amounts(call'[c].items, call'[c].quantity)
      BY DEF Amounts, LineOf
    <3> HIDE DEF rest, l
    <3> QED
      BY <1>3, <2>7, <3>4, <3>6, <3>7, <3>8, AfterLinesNext DEF AddedSoFar
  <2>11. CallFresh(c)'
    <3>1. DistinctSizes(call[c].items)'
      BY <2>9 DEF DistinctSizes
    <3>2. call'[c].pc \in {"compare", "merge"} /\ (call'[c].pc = "compare" => call'[c].todo = <<>>)
      BY <2>7
    <3>3. carts' = {call'[c].cart} /\ Visible' \subseteq call'[c].items
      BY <1>1, <1>3, <2>7, <2>8
    <3> QED
      BY <2>10, <3>1, <3>2, <3>3 DEF CallFresh, Adding
  <2>12. \A d \in Calls \ {c} : call'[d] = call[d]
    BY <1>6 DEF CartInvariant, CartTypeOK
  <2> QED
    BY <1>2, <1>3, <2>11, <2>12, OneCallMoves
<1> QED
  BY <1>4, <1>5, <1>6

LEMMA CompareSerial ==
  ASSUME CartInvariant, SerialCart, ~overlapped', NEW c \in Calls, Compare(c)
  PROVE  SerialCart' /\ BagStep
<1> DEFINE seen == [i \in CartItems |-> IF i \in call[c].items \cup RowsOf(call[c].cart)
                                        THEN row[i] ELSE NoCartRow]
           entity(f) == [f EXCEPT !.pc = "write", !.seen = seen]
<1>1. /\ call[c].pc = "compare" /\ InFlight(c) /\ UNCHANGED <<carts, row, overlapped>>
      /\ UNCHANGED <<carts, row>>
      /\ call' = [call EXCEPT ![c] = entity(call[c])]
  BY DEF Compare, InFlight, Over
<1>2. ~overlapped /\ CartsFit /\ CallFresh(c) /\ \A d \in Calls : InFlight(d) => d = c
  BY <1>1, OnlyOne
<1>3. CartsFit' /\ Shown' = Shown /\ Visible' = Visible /\ BagStep
  BY <1>1, <1>2, ShownStays, RowsUntouched
<1>4. call[c] \in Call /\ call'[c] = entity(call[c])
  BY <1>1 DEF CartInvariant, CartTypeOK
<1>5. \A i \in call[c].items : seen[i] = row[i]
  <2>1. call[c].items \in SUBSET CartItems
    BY <1>4 DEF Call
  <2> QED
    BY <2>1
<1>6. /\ call'[c].pc = "write" /\ call'[c].todo = call[c].todo /\ call'[c].cart = call[c].cart
      /\ call'[c].items = call[c].items /\ call'[c].quantity = call[c].quantity
      /\ call'[c].seen = seen
  <2> HIDE DEF seen
  <2> QED
    BY <1>4 DEF Call
<1> HIDE DEF seen, entity
<1>7. /\ carts = {call[c].cart} /\ Visible \subseteq call[c].items
      /\ DistinctSizes(call[c].items) /\ AddedSoFar(c) /\ call[c].todo = <<>>
  BY <1>1, <1>2 DEF CallFresh, Adding
<1>8. AddedSoFar(c)'
  <2>1. Amounts(call[c].items, call[c].quantity)' = Amounts(call[c].items, call[c].quantity)
    BY <1>6 DEF Amounts, LineOf
  <2> QED
    BY <1>3, <1>6, <1>7, <2>1, AfterLinesNext DEF AddedSoFar
<1>9. CallFresh(c)'
  BY <1>1, <1>3, <1>5, <1>6, <1>7, <1>8 DEF CallFresh, Adding, DistinctSizes
<1>10. \A d \in Calls \ {c} : call'[d] = call[d]
  BY <1>1 DEF CartInvariant, CartTypeOK
<1> QED
  BY <1>2, <1>3, <1>9, <1>10, OneCallMoves

\* The save of a fresh entity makes the rows of the cart what the entity is.
LEMMA WriteSerial ==
  ASSUME CartInvariant, SerialCart, ~overlapped', NEW c \in Calls, Write(c)
  PROVE  SerialCart' /\ BagStep
<1>1. call[c].pc = "write" /\ InFlight(c) /\ UNCHANGED <<carts, overlapped>>
  BY DEF Write, InFlight, Over
<1>2. ~overlapped /\ CartsFit /\ CallFresh(c) /\ \A d \in Calls : InFlight(d) => d = c
  BY <1>1, OnlyOne
<1>3. CASE call' = [call EXCEPT ![c] = Ended("refused")] /\ UNCHANGED row
  <2>1. UNCHANGED <<carts, row, overlapped>> /\ UNCHANGED <<carts, row>>
    BY <1>1, <1>3
  <2> QED
    BY <1>1, <1>2, <1>3, <2>1, CallEnds, ShownStays, RowsUntouched DEF Over
<1>4. CASE /\ \A i \in call[c].items : call[c].seen[i].there \/ ~row[i].there
           /\ row' = [i \in CartItems |->
                         IF i \in call[c].items THEN Saved(c, i)
                         ELSE IF Dropped(c, i) THEN [row[i] EXCEPT !.cart = None]
                         ELSE row[i]]
           /\ call' = [call EXCEPT ![c] = Ended(Answer(call[c].items))]
  <2> DEFINE items == call[c].items
             cart == call[c].cart
             quantity == call[c].quantity
  <2>1. /\ items \in SUBSET CartItems /\ quantity \in [CartItems -> Int]
        /\ \A i \in CartItems : row[i] \in CartRow /\ row'[i] \in CartRow
    <3>1. CartInvariant'
      BY WriteKeeps
    <3>2. call[c] \in Call
      BY DEF CartInvariant, CartTypeOK
    <3>3. row \in [CartItems -> CartRow] /\ row' \in [CartItems -> CartRow]
      BY <3>1 DEF CartInvariant, CartTypeOK
    <3> QED
      BY <3>2, <3>3 DEF Call
  <2>2. /\ carts = {cart} /\ carts' = {cart} /\ Visible \subseteq items
        /\ DistinctSizes(items) /\ AddedSoFar(c) /\ call[c].todo = <<>>
        /\ \A i \in items : call[c].seen[i] = row[i]
    BY <1>1, <1>2 DEF CallFresh, Adding
  <2>3. ASSUME NEW i \in items
        PROVE  row'[i].there /\ row'[i].cart = cart /\ row'[i].quantity = quantity[i]
    <3>1. row'[i] = Saved(c, i) /\ call[c].seen[i] = row[i]
      BY <1>4, <2>1, <2>2
    <3>2. CASE ~row[i].there
      BY <3>1, <3>2 DEF Saved
    <3>3. CASE row[i].there
      BY <3>1, <3>3 DEF Saved
    <3> QED
      BY <3>2, <3>3
  <2>4. ASSUME NEW i \in CartItems \ items
        PROVE  row'[i].there => row'[i].cart = None
    <3>1. row'[i] = row[i] \/ row'[i] = [row[i] EXCEPT !.cart = None]
      BY <1>4
    <3>2. row[i].there => row[i].cart = None
      BY <1>2, <2>2 DEF CartsFit, RowsOfCarts, Visible
    <3>3. row[i] \in CartRow
      BY <2>1
    <3> QED
      BY <3>1, <3>2, <3>3 DEF CartRow
  <2>5. cart # None
    BY <2>2, CartAssumption DEF CartInvariant, CartTypeOK
  <2>6. Visible' = items
    BY <2>1, <2>2, <2>3, <2>4, <2>5 DEF Visible
  <2>7. CartsFit'
    <3>1. DistinctSizes(Visible)'
      BY <2>2, <2>6 DEF DistinctSizes
    <3>2. RowsOfCarts'
      BY <2>2, <2>3, <2>4 DEF RowsOfCarts
    <3> QED
      BY <2>2, <3>1, <3>2 DEF CartsFit, OneCart
  <2>8. Shown' = Amounts(items, quantity)
    <3>1. Shown' = Amounts(Visible, Stored)'
      BY <2>7, WriteKeeps, ShownIsNext DEF CartsFit
    <3>2. \A i \in items : Stored'[i] = quantity[i]
      BY <2>1, <2>3 DEF Stored
    <3>3. Amounts(Visible, Stored)' = Amounts(items, Stored')
      BY <2>6 DEF Amounts, LineOf
    <3>4. \A s \in VariantSizes : (\E i \in items : SizeOf(i) = s) => LineOf(items, s) \in items
      BY DEF LineOf
    <3> HIDE DEF items, quantity
    <3> QED
      BY <3>1, <3>2, <3>3, <3>4 DEF Amounts
  <2>9. Bag!AddAll
    <3>0. PICK lines \in Requests : \E k \in 0..Len(lines) :
             /\ Len(call[c].todo) = Len(lines) - k
             /\ Amounts(items, quantity) = AfterLines(Shown, lines, k)
      BY <2>2 DEF AddedSoFar
    <3>1. PICK k \in 0..Len(lines) :
             /\ Len(call[c].todo) = Len(lines) - k
             /\ Amounts(items, quantity) = AfterLines(Shown, lines, k)
      BY <3>0
    <3>2. lines \in Seq(Line) /\ Len(lines) \in Nat
      BY CartAssumption
    <3>3. Len(call[c].todo) = 0
      BY <2>2
    <3>4. k = Len(lines)
      BY <3>1, <3>2, <3>3
    <3> QED
      BY <2>8, <3>1, <3>4, AddsAll
  <2>10. BagStep
    BY <1>1, <1>2, <2>9 DEF BagStep, Bag!Next
  <2>11. Answer(items) \in Over
    BY DEF Answer, Over
  <2> QED
    BY <1>1, <1>4, <2>7, <2>10, <2>11, CallEnds
<1> QED
  BY <1>3, <1>4 DEF Write

-----------------------------------------------------------------------------
\* The removals find their rows first.
LEMMA FindItemSerial ==
  ASSUME CartInvariant, SerialCart, ~overlapped', NEW c \in Calls, FindItem(c)
  PROVE  SerialCart' /\ BagStep
<1>1. PICK i \in CartItems :
         call' = [call EXCEPT ![c] =
                IF ~row[i].there THEN Ended("refused")
                ELSE [Fresh EXCEPT !.pc = "remove", !.items = {i}, !.cart = row[i].cart]]
  BY DEF FindItem
<1>2. ~overlapped /\ UNCHANGED overlapped /\ CartsFit /\ \A d \in Calls : ~InFlight(d)
  BY NobodyElse DEF FindItem
<1>3. UNCHANGED <<carts, row, overlapped>> /\ UNCHANGED <<carts, row>>
  BY <1>2 DEF FindItem
<1>4. CallFresh(c)'
  <2>1. CASE ~row[i].there
    <3>1. call'[c] = Ended("refused")
      BY <1>1, <2>1 DEF CartInvariant, CartTypeOK
    <3> QED
      BY <3>1, EndedIsHeld, EndedIsFreshNext DEF InFlight, Over
  <2>2. CASE row[i].there
    <3> DEFINE e(f) == [f EXCEPT !.pc = "remove", !.items = {i}, !.cart = row[i].cart]
    <3>1. \A f \in Call : e(f).pc = "remove" /\ e(f).items = {i}
      BY DEF Call
    <3>2. call'[c] = e(Fresh)
      BY <1>1, <2>2 DEF CartInvariant, CartTypeOK
    <3> HIDE DEF e
    <3>3. call'[c].pc = "remove" /\ call'[c].items = {i}
      BY <3>1, <3>2, FreshIsCall
    <3> QED
      BY <3>3 DEF CallFresh, Adding
  <2> QED
    BY <2>1, <2>2
<1>5. \A d \in Calls \ {c} : call'[d] = call[d]
  BY <1>1 DEF CartInvariant, CartTypeOK
<1> QED
  BY <1>2, <1>3, <1>4, <1>5, ShownStays, OneCallMoves, RowsUntouched

LEMMA FindAllSerial ==
  ASSUME CartInvariant, SerialCart, ~overlapped', NEW c \in Calls, FindAll(c)
  PROVE  SerialCart' /\ BagStep
<1>1. PICK cart \in carts :
         call' = [call EXCEPT ![c] =
                IF RowsOf(cart) = {} THEN Ended("refused")
                ELSE [Fresh EXCEPT !.pc = "removeAll", !.cart = cart, !.items = RowsOf(cart)]]
  BY DEF FindAll
<1>2. ~overlapped /\ UNCHANGED overlapped /\ CartsFit /\ \A d \in Calls : ~InFlight(d)
  BY NobodyElse DEF FindAll
<1>3. UNCHANGED <<carts, row, overlapped>> /\ UNCHANGED <<carts, row>>
  BY <1>2 DEF FindAll
<1>4. carts = {cart} /\ RowsOf(cart) = Visible /\ Visible' = Visible
  BY <1>2, <1>3, ShownStays DEF CartsFit, OneCart, RowsOf, Visible
<1>5. CallFresh(c)'
  <2>1. CASE RowsOf(cart) = {}
    <3>1. call'[c] = Ended("refused")
      BY <1>1, <2>1 DEF CartInvariant, CartTypeOK
    <3> QED
      BY <3>1, EndedIsHeld, EndedIsFreshNext DEF InFlight, Over
  <2>2. CASE RowsOf(cart) # {}
    <3> DEFINE e(f) == [f EXCEPT !.pc = "removeAll", !.cart = cart, !.items = RowsOf(cart)]
    <3>1. \A f \in Call : e(f).pc = "removeAll" /\ e(f).items = RowsOf(cart) /\ e(f).cart = cart
      BY DEF Call
    <3>2. call'[c] = e(Fresh)
      BY <1>1, <2>2 DEF CartInvariant, CartTypeOK
    <3> HIDE DEF e
    <3>3. call'[c].pc = "removeAll" /\ call'[c].items = Visible' /\ carts' = {call'[c].cart}
      BY <1>3, <1>4, <3>1, <3>2, FreshIsCall
    <3> QED
      BY <3>3 DEF CallFresh, Adding
  <2> QED
    BY <2>1, <2>2
<1>6. \A d \in Calls \ {c} : call'[d] = call[d]
  BY <1>1 DEF CartInvariant, CartTypeOK
<1> QED
  BY <1>2, <1>3, <1>5, <1>6, ShownStays, OneCallMoves, RowsUntouched

\* Rows that are removed are no longer shown, the others as before.
LEMMA ShownWithout ==
  ASSUME CartInvariant, CartInvariant', CartsFit, UNCHANGED carts, NEW items \in SUBSET CartItems,
         row' = [i \in CartItems |-> IF i \in items THEN NoCartRow ELSE row[i]]
  PROVE  /\ CartsFit' /\ Visible' = Visible \ items
         /\ Shown' = [s \in VariantSizes |->
               IF \E i \in Visible \cap items : SizeOf(i) = s THEN 0 ELSE Shown[s]]
<1> DEFINE without == [s \in VariantSizes |->
               IF \E i \in Visible \cap items : SizeOf(i) = s THEN 0 ELSE Shown[s]]
<1>1. \A i \in CartItems : /\ row'[i].there <=> row[i].there /\ i \notin items
                           /\ i \notin items => row'[i] = row[i]
  BY DEF NoCartRow
<1>2. Visible' = Visible \ items
  BY <1>1 DEF Visible
<1>3. CartsFit'
  BY <1>1, <1>2 DEF CartsFit, OneCart, RowsOfCarts, DistinctSizes
<1>4. Shown = Amounts(Visible, Stored)
  BY ShownIs DEF CartsFit
<1>5. Shown' = Amounts(Visible \ items, Stored')
  <2>1. Shown' = Amounts(Visible, Stored)'
    BY <1>3, ShownIsNext DEF CartsFit
  <2> QED
    BY <1>2, <2>1 DEF Amounts, LineOf
<1>6. Visible \in SUBSET CartItems /\ DistinctSizes(Visible) /\ DistinctSizes(Visible \ items)
  BY DEF Visible, CartsFit, DistinctSizes
<1>7. ASSUME NEW i \in Visible \ items PROVE without[SizeOf(i)] = Stored'[i]
  <2>1. SizeOf(i) \in VariantSizes /\ i \in CartItems
    BY <1>6, SizesOfItems
  <2>2. ~\E j \in Visible \cap items : SizeOf(j) = SizeOf(i)
    BY <1>6 DEF DistinctSizes
  <2>3. Shown[SizeOf(i)] = Stored[i]
    BY <1>4, <1>6, AmountsAre
  <2> QED
    BY <1>1, <2>1, <2>2, <2>3 DEF Stored
<1>8. ASSUME NEW s \in VariantSizes, \A i \in Visible \ items : SizeOf(i) # s PROVE without[s] = 0
  <2>1. CASE \E i \in Visible \cap items : SizeOf(i) = s
    BY <2>1
  <2>2. CASE ~\E i \in Visible \cap items : SizeOf(i) = s
    <3>1. \A i \in Visible : SizeOf(i) # s
      BY <1>8, <2>2
    <3>2. Shown[s] = 0
      BY <1>4, <1>6, <3>1, AmountsAre
    <3> QED
      BY <2>2, <3>2
  <2> QED
    BY <2>1, <2>2
<1>9. without = [s \in VariantSizes |-> without[s]] /\ Visible \ items \in SUBSET CartItems
  BY <1>6
<1> HIDE DEF without
<1>10. without = Amounts(Visible \ items, Stored')
  BY <1>6, <1>7, <1>8, <1>9, AmountsEqual
<1> QED
  BY <1>2, <1>3, <1>5, <1>10 DEF without

LEMMA RemoveItemSerial ==
  ASSUME CartInvariant, SerialCart, ~overlapped', NEW c \in Calls, RemoveItem(c)
  PROVE  SerialCart' /\ BagStep
<1>1. /\ call[c].pc = "remove" /\ InFlight(c) /\ UNCHANGED carts /\ UNCHANGED overlapped
      /\ row' = [i \in CartItems |-> IF i \in call[c].items THEN NoCartRow ELSE row[i]]
      /\ \E outcome \in Over : call' = [call EXCEPT ![c] = Ended(outcome)]
  BY DEF RemoveItem, InFlight, Over, Answer
<1>2. ~overlapped /\ CartsFit /\ CallFresh(c)
  BY <1>1, OnlyOne
<1>3. PICK i \in CartItems : call[c].items = {i}
  BY <1>1, <1>2 DEF CallFresh
<1>4. /\ CartsFit' /\ Visible' = Visible \ {i}
      /\ Shown' = [s \in VariantSizes |->
            IF \E j \in Visible \cap {i} : SizeOf(j) = s THEN 0 ELSE Shown[s]]
  <2>1. /\ {i} \in SUBSET CartItems
        /\ row' = [j \in CartItems |-> IF j \in {i} THEN NoCartRow ELSE row[j]]
    BY <1>1, <1>3
  <2>2. CartInvariant'
    BY RemoveItemKeeps
  <2> QED
    BY <1>1, <1>2, <2>1, <2>2, ShownWithout
<1>5. Shown = [s \in VariantSizes |-> Shown[s]]
  BY DEF Shown
<1>6. BagStep
  <2>1. CASE i \in Visible
    <3>1. Shown' = [Shown EXCEPT ![SizeOf(i)] = 0]
      <4>1. SizeOf(i) \in VariantSizes
        BY SizesOfItems
      <4>2. \A s \in VariantSizes : (\E j \in Visible \cap {i} : SizeOf(j) = s) <=> s = SizeOf(i)
        BY <2>1
      <4> QED
        BY <1>4, <1>5, <4>1, <4>2
    <3>2. Bag!RemoveLine
      BY <3>1, SizesOfItems DEF Bag!RemoveLine
    <3> QED
      BY <1>1, <1>2, <3>2 DEF BagStep, Bag!Next
  <2>2. CASE i \notin Visible
    <3>1. Shown' = Shown
      BY <1>4, <1>5, <2>2
    <3> QED
      BY <1>1, <3>1 DEF BagStep
  <2> QED
    BY <2>1, <2>2
<1> QED
  BY <1>1, <1>4, <1>6, CallEnds

LEMMA RemoveAllSerial ==
  ASSUME CartInvariant, SerialCart, ~overlapped', NEW c \in Calls, RemoveAll(c)
  PROVE  SerialCart' /\ BagStep
<1>1. /\ call[c].pc = "removeAll" /\ InFlight(c) /\ UNCHANGED carts /\ UNCHANGED overlapped
      /\ row' = [i \in CartItems |-> IF i \in call[c].items THEN NoCartRow ELSE row[i]]
      /\ call' = [call EXCEPT ![c] = Ended("done")]
  BY DEF RemoveAll, InFlight, Over
<1>2. ~overlapped /\ CartsFit /\ CallFresh(c)
  BY <1>1, OnlyOne
<1>3. call[c].items = Visible /\ Visible \in SUBSET CartItems
  BY <1>1, <1>2 DEF CallFresh, Visible
<1>4. /\ CartsFit'
      /\ Shown' = [s \in VariantSizes |->
            IF \E i \in Visible \cap Visible : SizeOf(i) = s THEN 0 ELSE Shown[s]]
  BY <1>1, <1>2, <1>3, RemoveAllKeeps, ShownWithout
<1>5. Shown = Amounts(Visible, Stored)
  BY <1>2, ShownIs DEF CartsFit
<1>6. \A s \in VariantSizes : (~\E i \in Visible : SizeOf(i) = s) => Shown[s] = 0
  BY <1>5 DEF Amounts
<1>7. Shown' = [s \in VariantSizes |-> 0]
  BY <1>4, <1>6
<1>8. BagStep
  BY <1>1, <1>2, <1>7 DEF BagStep, Bag!Next, Bag!RemoveAll
<1> QED
  BY <1>1, <1>4, <1>8, CallEnds DEF Over

-----------------------------------------------------------------------------
\* The shop around the cart moves, and no call and no row.
LEMMA ShopSerial ==
  ASSUME SerialCart, UNCHANGED <<carts, row, call, overlapped>>
  PROVE  SerialCart' /\ BagStep
<1>1. UNCHANGED <<carts, row, overlapped>> /\ UNCHANGED <<carts, row>> /\ UNCHANGED call
      /\ UNCHANGED overlapped
  OBVIOUS
<1>2. CASE overlapped
  BY <1>1, <1>2, RowsUntouched DEF SerialCart
<1>3. CASE ~overlapped
  <2>1. /\ CartsFit /\ CartsFit' /\ Shown' = Shown /\ Visible' = Visible
        /\ AloneCall /\ \A c \in Calls : CallFresh(c)
    BY <1>1, <1>3, ShownStays DEF SerialCart
  <2>2. AloneCall'
    BY <1>1, <2>1 DEF AloneCall, InFlight
  <2>3. ASSUME NEW c \in Calls PROVE CallFresh(c)'
    <3>1. AddedSoFar(c) => AddedSoFar(c)'
      <4>1. Amounts(call[c].items, call[c].quantity)' = Amounts(call[c].items, call[c].quantity)
        BY <1>1 DEF Amounts, LineOf
      <4> QED
        BY <1>1, <2>1, <4>1, AfterLinesNext DEF AddedSoFar
    <3> QED
      BY <1>1, <2>1, <3>1 DEF CallFresh, DistinctSizes
  <2> QED
    BY <1>1, <2>1, <2>2, <2>3, RowsUntouched DEF SerialCart
<1> QED
  BY <1>2, <1>3

LEMMA SerialStep ==
  ASSUME CartInvariant, SerialCart, [CartNext]_cartVars
  PROVE  SerialCart' /\ BagStep
<1>1. CASE overlapped'
  BY <1>1 DEF SerialCart, BagStep, Bag!Next
<1>2. CASE ~overlapped'
  <2>1. ASSUME NEW c \in Calls, CartCallStep(c) PROVE SerialCart' /\ BagStep
    BY <1>2, <2>1, BeginSerial, CreateSerial, MergeSerial, CompareSerial, WriteSerial,
       FindItemSerial, RemoveItemSerial, FindAllSerial, RemoveAllSerial DEF CartCallStep
  <2>2. ASSUME NEW s \in VariantSizes, StockMoves(s) \/ TakeOffSale(s) PROVE SerialCart' /\ BagStep
    <3>1. UNCHANGED <<carts, row, call, overlapped>>
      BY <2>2 DEF StockMoves, TakeOffSale
    <3> QED
      BY <3>1, ShopSerial
  <2>3. CASE UNCHANGED cartVars
    <3>1. UNCHANGED <<carts, row, call, overlapped>>
      BY <2>3 DEF cartVars
    <3> QED
      BY <3>1, ShopSerial
  <2> QED
    BY <2>1, <2>2, <2>3 DEF CartNext
<1> QED
  BY <1>1, <1>2

(* The chain of queries behind an addition, an import, a removal or an      *)
(* emptying implements CartPromise, for any number of calls, requests and   *)
(* sizes: while no two calls overlap, each is one step on one bag of        *)
(* quantities, or none.                                                     *)
THEOREM CartKeepsPromise == CartSpec => KeepsCartPromise
<1>1. CartInit => CartInvariant /\ SerialCart /\ Bag!Init
  BY InitCartInvariant, InitSerial, InitBag
<1>2. CartInvariant /\ SerialCart /\ [CartNext]_cartVars => SerialCart' /\ [Bag!Next]_(Bag!vars)
  BY SerialStep DEF BagStep, Bag!vars
<1> QED
  BY <1>1, <1>2, CartStaysSound, PTL DEF CartSpec, KeepsCartPromise, Bag!Spec
=============================================================================
