-------------------------------- MODULE Cart --------------------------------
(***************************************************************************)
(* One customer's cart (src/modules/carts/carts.service.ts): the rows of   *)
(* carts and cart-item, and the calls made for them, by the customer's     *)
(* clients and by the checkout (deleteAllCartItem).                        *)
(*                                                                         *)
(* A call holds the cart as it loaded it.  Its lines are found, merged or  *)
(* added in memory, and save(cart) writes the whole entity at the end: it  *)
(* selects the rows (the stored ones of the cart and those of the entity), *)
(* and then, in one transaction, inserts what is missing, updates the      *)
(* columns that differ and takes from the cart the rows that the entity    *)
(* does not have.                                                          *)
(*                                                                         *)
(* A line is one size; the product and the variant of the request are the  *)
(* size's own.  The three lookups that validate a line run side by side;   *)
(* only the size's inventory is used later, so they are one step.          *)
(***************************************************************************)
EXTENDS Integers, Sequences, FiniteSetsExt

CONSTANTS
    Calls,      \* numbers: a cart is named by the call that created it,
                \* and findOne takes the one with the lowest id
    VariantSizes,
    Earlier,    \* a call that has ended when the model begins,
    StartLines, \* and the sizes of the lines that it has put into its cart, if any
    Requests,   \* what an addition may ask for: sequences of [size, quantity]
    Stocks,     \* values variant-sizes.inventory takes
    StartStock,
    MaxMoves,   \* bound: changes of the shop around the cart
    None

Line == [size : VariantSizes, quantity : Int]

ASSUME CartAssumption ==
    /\ Calls \subseteq Nat
    /\ Earlier \in Calls /\ StartLines \subseteq VariantSizes
    /\ Requests \subseteq Seq(Line) \ {<<>>}
    /\ Stocks \subseteq Nat
    /\ StartStock \in [VariantSizes -> Stocks \ {0}]
    /\ MaxMoves \in Nat
    /\ None \notin Calls

\* A cart-item row is named by the call that first inserted it and its size.
CartItems == Calls \X VariantSizes
SizeOf(i) == i[2]

\* A row is there or not; a detached row has no cart.
CartRow == [there : BOOLEAN, cart : Calls \cup {None}, quantity : Int]
NoCartRow == [there |-> FALSE, cart |-> None, quantity |-> 0]

CartStep == {"idle", "create", "merge", "compare", "write", "remove", "removeAll",
         "done", "refused", "broken"}

\* Progress of a call: the lines to add (none, for a call that looks), and the
\* cart entity it holds (id, items, quantities).
Call == [pc : CartStep, todo : Seq(Line), cart : Calls \cup {None},
         items : SUBSET CartItems, quantity : [CartItems -> Int], seen : [CartItems -> CartRow]]
Fresh == [pc |-> "idle", todo |-> <<>>, cart |-> None,
          items |-> {}, quantity |-> [i \in CartItems |-> 0], seen |-> [i \in CartItems |-> NoCartRow]]

VARIABLES
    carts,      \* the customer's rows of carts
    row,        \* cart-item
    inventory,  \* variant-sizes.inventory
    offSale,    \* sizes that fail the validation, being inactive or removed
    gone,       \* those of them whose product is soft-deleted: it is joined as null
    call,
    \* history
    moves,
    peak,       \* the largest inventory each size has had
    overlapped  \* a call began while another was in flight

cartVars == <<carts, row, inventory, offSale, gone, call, moves, peak, overlapped>>
shop == <<inventory, offSale, gone, moves, peak>>

Over == {"done", "refused", "broken"}
InFlight(c) == call[c].pc \notin Over \cup {"idle"}
NoCall == \A c \in Calls : ~InFlight(c)

RowsOf(cart) == {i \in CartItems : row[i].there /\ row[i].cart = cart}
Smallest(S) == CHOOSE x \in S : \A y \in S : x <= y

\* What a call held is forgotten when it ends.
Ended(outcome) == [Fresh EXCEPT !.pc = outcome]

CartInit ==
    /\ \/ /\ carts = {}
          /\ row = [i \in CartItems |-> NoCartRow]
       \/ /\ carts = {Earlier}
          /\ row = [i \in CartItems |-> IF i \in {Earlier} \X StartLines
                       THEN [there |-> TRUE, cart |-> Earlier, quantity |-> 1] ELSE NoCartRow]
    /\ inventory = StartStock
    /\ offSale = {}
    /\ gone = {}
    /\ call = [c \in Calls |-> IF c = Earlier THEN Ended("done") ELSE Fresh]
    /\ moves = 0
    /\ peak = inventory
    /\ overlapped = FALSE
-----------------------------------------------------------------------------
\* The mapper reads the product of every line: a removed one makes it throw.
Answer(items) == IF \E i \in items : SizeOf(i) \in gone THEN "broken" ELSE "done"

\* A call that looks is answered; one that adds has its first line to merge.
Loaded(entity) == IF entity.todo = <<>> THEN Ended(Answer(entity.items))
                  ELSE [entity EXCEPT !.pc = "merge"]

\* getOrCreateCart finds a cart with its items, or has one to create.
Opened(todo) ==
    LET cart == Smallest(carts)
        items == RowsOf(cart)
    IN IF carts = {} THEN [Fresh EXCEPT !.todo = todo, !.pc = "create"]
       ELSE Loaded([Fresh EXCEPT !.todo = todo, !.cart = cart, !.items = items,
                !.quantity = [i \in CartItems |-> IF i \in items THEN row[i].quantity ELSE 0]])

\* addToCart, addManyToCart and getCartByUser look for the cart.
Begin(c) ==
    /\ call[c].pc = "idle"
    /\ \E todo \in Requests \cup {<<>>} : call' = [call EXCEPT ![c] = Opened(todo)]
    /\ overlapped' = (overlapped \/ ~NoCall)
    /\ UNCHANGED <<carts, row, shop>>

CreateCart(c) ==
    /\ call[c].pc = "create"
    /\ carts' = carts \cup {c}
    /\ call' = [call EXCEPT ![c] = Loaded([call[c] EXCEPT !.cart = c])]
    /\ UNCHANGED <<row, shop, overlapped>>

\* Mutant: only what is asked for is compared with the stock, not the new total.
Fits_RequestOnly(c, l, before) == l.size \notin offSale /\ l.quantity <= inventory[l.size]

\* The line, with what the entity has of it, is for sale and in stock.
Fits(c, l, before) == l.size \notin offSale /\ before + l.quantity <= inventory[l.size]

\* insertOrMergeCartItem: find takes any of the entity's items of the size.
Merge(c) ==
    /\ call[c].pc = "merge"
    /\ LET l == Head(call[c].todo)
           same == {i \in call[c].items : SizeOf(i) = l.size}
       IN \E i \in IF same = {} THEN {<<c, l.size>>} ELSE same :
             LET before == IF same = {} THEN 0 ELSE call[c].quantity[i]
                 rest == Tail(call[c].todo)
             IN \/ /\ Fits(c, l, before)
                   /\ call' = [call EXCEPT ![c] = [call[c] EXCEPT
                         !.pc = IF rest = <<>> THEN "compare" ELSE "merge",
                         !.todo = rest,
                         !.items = @ \cup {i},
                         !.quantity[i] = before + l.quantity]]
                \/ /\ ~Fits(c, l, before)
                   /\ call' = [call EXCEPT ![c] = Ended("refused")]
    /\ UNCHANGED <<carts, row, shop, overlapped>>

\* save(cart) selects the cart's rows and the entity's.
Compare(c) ==
    /\ call[c].pc = "compare"
    /\ call' = [call EXCEPT ![c] = [call[c] EXCEPT !.pc = "write",
          !.seen = [i \in CartItems |-> IF i \in call[c].items \cup RowsOf(call[c].cart)
                                       THEN row[i] ELSE NoCartRow]]]
    /\ UNCHANGED <<carts, row, shop, overlapped>>

\* Mutant: the new quantity of a line that is in the cart already is not written.
Saved_QuantityKept(c, i) ==
    IF ~call[c].seen[i].there
    THEN [there |-> TRUE, cart |-> call[c].cart, quantity |-> call[c].quantity[i]]
    ELSE row[i]

\* What the save makes of row i, which the entity has: the columns that the
\* select found different are written, unless the row is gone by now.
Saved(c, i) ==
    LET seen == call[c].seen[i]
        held == call[c].quantity[i]
    IN IF ~seen.there THEN [there |-> TRUE, cart |-> call[c].cart, quantity |-> held]
       ELSE IF ~row[i].there THEN NoCartRow
       ELSE [there |-> TRUE,
             cart |-> IF seen.cart # call[c].cart THEN call[c].cart ELSE row[i].cart,
             quantity |-> IF seen.quantity # held THEN held ELSE row[i].quantity]

\* A row of the cart that the entity does not have loses its cart.
Dropped(c, i) ==
    /\ i \notin call[c].items
    /\ call[c].seen[i].there /\ row[i].there
    /\ call[c].seen[i].cart = call[c].cart

Write(c) ==
    /\ call[c].pc = "write"
    /\ \/ \* a missing row was inserted meanwhile: a duplicate key, all is rolled back
          /\ \E i \in call[c].items : ~call[c].seen[i].there /\ row[i].there
          /\ call' = [call EXCEPT ![c] = Ended("refused")]
          /\ UNCHANGED row
       \/ /\ \A i \in call[c].items : call[c].seen[i].there \/ ~row[i].there
          /\ row' = [i \in CartItems |->
                        IF i \in call[c].items THEN Saved(c, i)
                        ELSE IF Dropped(c, i) THEN [row[i] EXCEPT !.cart = None]
                        ELSE row[i]]
          /\ call' = [call EXCEPT ![c] = Ended(Answer(call[c].items))]
    /\ UNCHANGED <<carts, shop, overlapped>>
-----------------------------------------------------------------------------
\* deleteCartItem: the row is found, then removed.
FindItem(c) ==
    /\ call[c].pc = "idle"
    /\ \E i \in CartItems :
          call' = [call EXCEPT ![c] =
                IF ~row[i].there THEN Ended("refused")
                ELSE [Fresh EXCEPT !.pc = "remove", !.items = {i}, !.cart = row[i].cart]]
    /\ overlapped' = (overlapped \/ ~NoCall)
    /\ UNCHANGED <<carts, row, shop>>

\* The answer is the cart; for a detached row there is none to look up.
RemoveItem(c) ==
    /\ call[c].pc = "remove"
    /\ row' = [i \in CartItems |-> IF i \in call[c].items THEN NoCartRow ELSE row[i]]
    /\ call' = [call EXCEPT ![c] = Ended(
          IF call[c].cart = None THEN "broken"
          ELSE Answer(RowsOf(call[c].cart) \ call[c].items))]
    /\ UNCHANGED <<carts, shop, overlapped>>

\* deleteAllCartItem, for the customer or at the end of a checkout.
FindAll(c) ==
    /\ call[c].pc = "idle"
    /\ \E cart \in carts :
          call' = [call EXCEPT ![c] =
                IF RowsOf(cart) = {} THEN Ended("refused")
                ELSE [Fresh EXCEPT !.pc = "removeAll", !.cart = cart, !.items = RowsOf(cart)]]
    /\ overlapped' = (overlapped \/ ~NoCall)
    /\ UNCHANGED <<carts, row, shop>>

RemoveAll(c) ==
    /\ call[c].pc = "removeAll"
    /\ row' = [i \in CartItems |-> IF i \in call[c].items THEN NoCartRow ELSE row[i]]
    /\ call' = [call EXCEPT ![c] = Ended("done")]
    /\ UNCHANGED <<carts, shop, overlapped>>
-----------------------------------------------------------------------------
(* The rest of the shop *)

\* A checkout, a restock or the admin changes the stock.
StockMoves(s) ==
    /\ moves < MaxMoves /\ moves' = moves + 1
    /\ \E n \in Stocks \ {inventory[s]} :
          /\ inventory' = [inventory EXCEPT ![s] = n]
          /\ peak' = [peak EXCEPT ![s] = IF n > @ THEN n ELSE @]
    /\ UNCHANGED <<carts, row, offSale, gone, call, overlapped>>

\* The admin archives the product of a size, or removes it.
TakeOffSale(s) ==
    /\ moves < MaxMoves /\ moves' = moves + 1
    /\ s \notin gone
    /\ offSale' = offSale \cup {s}
    /\ \/ gone' = gone \cup {s}
       \/ s \notin offSale /\ gone' = gone
    /\ UNCHANGED <<carts, row, inventory, call, peak, overlapped>>

CartCallStep(c) ==
    \/ Begin(c) \/ CreateCart(c) \/ Merge(c) \/ Compare(c) \/ Write(c)
    \/ FindItem(c) \/ RemoveItem(c) \/ FindAll(c) \/ RemoveAll(c)

CartNext ==
    \/ \E c \in Calls : CartCallStep(c)
    \/ \E s \in VariantSizes : StockMoves(s) \/ TakeOffSale(s)

CartSpec == CartInit /\ [][CartNext]_cartVars
-----------------------------------------------------------------------------
CartTypeOK ==
    /\ carts \subseteq Calls
    /\ row \in [CartItems -> CartRow]
    /\ inventory \in [VariantSizes -> Stocks]
    /\ gone \subseteq offSale /\ offSale \subseteq VariantSizes
    /\ call \in [Calls -> Call]
    /\ moves \in 0..MaxMoves
    /\ peak \in [VariantSizes -> Stocks]
    /\ overlapped \in BOOLEAN
    /\ \A c \in Calls : call[c].pc = "merge" => call[c].todo # <<>>

(* However calls overlap, re-insert and overwrite each other's lines, no    *)
(* line asks for more than its size once had in stock: every quantity that  *)
(* is saved was compared with an inventory (carts.service.ts:101, 107).     *)
LinesWithinStock ==
    \A i \in CartItems : row[i].there => row[i].quantity <= peak[SizeOf(i)]

\* What the customer sees: the lines of the cart that findOne finds.
Shown ==
    [s \in VariantSizes |->
        IF carts = {} THEN 0
        ELSE MapThenSumSet(LAMBDA i : row[i].quantity,
                           {i \in RowsOf(Smallest(carts)) : SizeOf(i) = s})]

Bag == INSTANCE CartPromise WITH Sizes <- VariantSizes, bag <- Shown, disturbed <- overlapped

(* While calls do not overlap, the chain of queries behind an addition, an  *)
(* import or a removal is one step on one bag (CartPromise): all lines or   *)
(* none, no line lost or counted twice.                                     *)
KeepsCartPromise == Bag!Spec
=============================================================================
