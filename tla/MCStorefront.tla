---------------------------- MODULE MCStorefront ----------------------------
(***************************************************************************)
(* Nine parts of the shop side by side: a cart, the product as the admin   *)
(* edits it, the banks, the reviews, the addresses, the chat, the sales    *)
(* reports, the transfers with their texts and the lists of orders.  The   *)
(* last two are instances of one module; the others share no rows but the  *)
(* products', of which each models the columns that it uses.  So a         *)
(* behaviour is one of any part, with the others at rest: "part" says      *)
(* which.                                                                  *)
(***************************************************************************)
EXTENDS Cart, OrderList, Catalog, Banks, Reviews, Addresses, Chat, Sales

VARIABLE part

-----------------------------------------------------------------------------
(* The instances *)

\* One line that fits once or twice, and an import of two lines.
MCRequests == {<<[size |-> "s1", quantity |-> 1]>>,
               <<[size |-> "s2", quantity |-> 1], [size |-> "s1", quantity |-> 1]>>}
MCStartStock == [s \in VariantSizes |-> IF s = "s1" THEN 2 ELSE 1]
\* The size that the admin may take off sale: the last of both requests.
Leaving == {"s1"}

\* A product of one size, of which one is sold.  One edit raises its quantity,
\* adds a size and puts the product on sale; the other adds a variant.
MCCreations == {[active |-> TRUE, variants |-> <<[active |-> Unset, sizes |->
    <<[name |-> "s", quantity |-> 2, sold |-> 1, inventory |-> Unset, active |-> Unset]>>]>>]}
Body(active, archived, id, sizes) ==
    [active |-> active, archived |-> archived,
     variants |-> <<[id |-> id, active |-> TRUE, sizes |-> sizes]>>]
Sized(name, quantity, active) == [name |-> name, quantity |-> quantity, active |-> active]
MCEdits == {Body(TRUE, FALSE, 1, <<Sized("s", 3, TRUE), Sized("m", 1, Unset)>>),
            Body(Unset, Unset, NoEdit, <<Sized("m", 1, Unset)>>)}

\* Two banks that have had an order, and one to create.
MCStartBanks ==
    [b \in Banks |->
        [there |-> b # "b3", deleted |-> FALSE, active |-> TRUE,
         account |-> CASE b = "b1" -> "x" [] b = "b2" -> "y" [] b = "b3" -> "z",
         lastOrder |-> CASE b = "b1" -> 1 [] b = "b2" -> 2 [] b = "b3" -> 0]]

MCProductOf == [i \in Items |-> "p1"]

\* Two addresses of one customer, one of another.
MCOwnerOf == [a \in Addresses |-> IF a = "a3" THEN "u2" ELSE "u1"]

\* The numbers 1 and 12, and codes that begin with digits: 1 with 21 reads like
\* 12 with 1.  Prefix, date and code have two characters each.
MCChars == {"F", "S", "0", "1", "2", "a"}
MCDigits == {"0", "1", "2"}
MCPrefix == <<"F", "S">>
MCDates == {<<"0", "1">>}
MCCodes == {<<"1", "a">>, <<"2", "1">>}
MCAdmin == <<>>
MCItemCount == [o \in Orders |-> 1]
MCUserOf == [o \in Orders |-> IF o = "o2" THEN <<"1", "2">> ELSE <<"1">>]

\* The lists of the admin and of customer 1, two orders to a page.
Lists == INSTANCE OrderList WITH Codes <- {<<"a", "a">>}, MaxCut <- 0, MaxChanges <- 5,
    Readers <- {Admin, <<"1">>}

ASSUME ShopAssumption == OrderListAssumption /\ Lists!OrderListAssumption
-----------------------------------------------------------------------------
ShopInit ==
    /\ part \in {"cart", "catalog", "banks", "reviews", "addresses", "chat", "sales", "transfers", "lists"}
    /\ CartInit
    /\ CatalogInit
    /\ BanksInit
    /\ ReviewsInit
    /\ AddressesInit
    /\ ChatInit
    /\ SalesInit
    /\ OrderListInit
    /\ part # "cart" => carts = {}
    /\ part # "chat" => ~rootAdmin

NotCart == UNCHANGED <<part, catalogVars, banksVars, reviewsVars, addressesVars, chatVars, salesVars, listVars>>
NotCatalog == UNCHANGED <<part, cartVars, banksVars, reviewsVars, addressesVars, chatVars, salesVars, listVars>>
NotBanks == UNCHANGED <<part, cartVars, catalogVars, reviewsVars, addressesVars, chatVars, salesVars, listVars>>
NotReviews == UNCHANGED <<part, cartVars, catalogVars, banksVars, addressesVars, chatVars, salesVars, listVars>>
NotAddresses == UNCHANGED <<part, cartVars, catalogVars, banksVars, reviewsVars, chatVars, salesVars, listVars>>
NotChat == UNCHANGED <<part, cartVars, catalogVars, banksVars, reviewsVars, addressesVars, salesVars, listVars>>
NotSales == UNCHANGED <<part, cartVars, catalogVars, banksVars, reviewsVars, addressesVars, chatVars, listVars>>
NotLists == UNCHANGED <<part, cartVars, catalogVars, banksVars, reviewsVars, addressesVars, chatVars, salesVars>>

InCart(A) == part = "cart" /\ A /\ NotCart
InCatalog(A) == part = "catalog" /\ A /\ NotCatalog
InBanks(A) == part = "banks" /\ A /\ NotBanks
InReviews(A) == part = "reviews" /\ A /\ NotReviews
InAddresses(A) == part = "addresses" /\ A /\ NotAddresses
InChat(A) == part = "chat" /\ A /\ NotChat
InSales(A) == part = "sales" /\ A /\ NotSales
InTransfers(A) == part = "transfers" /\ A /\ NotLists
InLists(A) == part = "lists" /\ A /\ NotLists

ShopNext ==
    \/ \E c \in Calls :
          \/ InCart(Begin(c)) \/ InCart(CreateCart(c)) \/ InCart(Merge(c))
          \/ InCart(Compare(c)) \/ InCart(Write(c)) \/ InCart(FindItem(c))
          \/ InCart(RemoveItem(c)) \/ InCart(FindAll(c)) \/ InCart(RemoveAll(c))
    \/ \E s \in VariantSizes : InCart(StockMoves(s))
    \/ \E s \in Leaving : InCart(TakeOffSale(s))
    \/ \E c \in AdminCalls :
          \/ InCatalog(CreateProduct(c)) \/ InCatalog(LoadToUpdate(c))
          \/ InCatalog(LoadToArchive(c)) \/ InCatalog(DeleteProduct(c))
          \/ InCatalog(InsertVariant(c)) \/ InCatalog(InsertSize(c))
          \/ InCatalog(SaveVariant(c)) \/ InCatalog(SaveSize(c))
          \/ InCatalog(SaveProduct(c)) \/ InCatalog(CreateEnds(c))
    \/ \E m \in Movers : InCatalog(ReadStock(m)) \/ InCatalog(SaveStock(m)) \/ InCatalog(SaveTotals(m))
    \/ \E who \in AdminCalls \cup Movers : InCatalog(EditDies(who))
    \/ \E w \in BankWorkers :
          \/ InBanks(Pick(w)) \/ InBanks(FindForCreate(w))
          \/ InBanks(FindForUpdate(w)) \/ InBanks(CheckAccount(w))
          \/ InBanks(FindForDelete(w)) \/ InBanks(SaveBank(w)) \/ InBanks(RemoveBank(w))
    \/ \E c \in ReviewCalls :
          \/ InReviews(FindOrderItem(c)) \/ InReviews(InsertReview(c))
          \/ InReviews(MarkItem(c)) \/ InReviews(Aggregate(c))
          \/ InReviews(UpdateRating(c)) \/ InReviews(ReviewDies(c))
    \/ \E s \in Savers : InReviews(LoadProduct(s)) \/ InReviews(SaveLoadedProduct(s))
    \/ \E p \in Products : InReviews(RemoveProduct(p))
    \/ \E w \in AddressWorkers :
          \/ InAddresses(CreateAddress(w)) \/ InAddresses(FindAddressToUpdate(w))
          \/ InAddresses(SaveAddress(w)) \/ InAddresses(FindAddressToDelete(w))
          \/ InAddresses(DeleteAddress(w)) \/ InAddresses(ClearDefault(w))
          \/ InAddresses(SetDefault(w)) \/ InAddresses(TaskDies(w))
    \/ InChat(RootAdminCreated)
    \/ \E c \in ChatCalls :
          \/ InChat(FindConversation(c)) \/ InChat(FindRootAdmin(c))
          \/ InChat(CreateConversation(c)) \/ InChat(CountMessages(c))
          \/ InChat(SendOverHttp(c)) \/ InChat(TouchConversation(c))
          \/ InChat(InsertMessage(c)) \/ InChat(Announce(c)) \/ InChat(ChatDies(c))
    \/ InSales(Tick)
    \/ \E o \in SalesOrders : InSales(PlaceSale(o)) \/ InSales(DeliverSale(o))
    \/ \E o \in Orders :
          \/ InTransfers(PlaceOrder(o)) \/ InTransfers(CancelOrder(o))
          \/ InTransfers(UpdateOrder(o)) \/ InTransfers(DeliverTransfer(o))
          \/ InLists(Lists!PlaceOrder(o)) \/ InLists(Lists!CancelOrder(o))
          \/ InLists(Lists!UpdateOrder(o)) \/ InLists(Lists!DeliverTransfer(o))
    \/ \E of \in {Admin, <<"1">>} : InLists(Lists!BeginReading(of))
    \/ InLists(Lists!ReadPage) \/ InLists(Lists!CountRows)
    \/ InLists(Lists!FollowHeader) \/ InLists(Lists!EndReading)

ShopSpec ==
    ShopInit /\ [][ShopNext]_<<part, cartVars, catalogVars, banksVars, reviewsVars,
                              addressesVars, chatVars, salesVars, listVars>>
-----------------------------------------------------------------------------
(* The other properties are those of the parts: one that is not at work     *)
(* rests in its initial state.                                              *)

(* The type invariants of the parts.                                               *)
ShopTypeOK ==
    CASE part = "cart" -> CartTypeOK
      [] part = "catalog" -> CatalogTypeOK
      [] part = "banks" -> BanksTypeOK
      [] part = "reviews" -> ReviewsTypeOK
      [] part = "addresses" -> AddressesTypeOK
      [] part = "chat" -> ChatTypeOK
      [] part = "sales" -> SalesTypeOK
      [] part = "transfers" -> OrderListTypeOK
      [] part = "lists" -> Lists!OrderListTypeOK
=============================================================================
