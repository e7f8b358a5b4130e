------------------------------ MODULE OrderList ------------------------------
(***************************************************************************)
(* The orders as others see them: the bank, which knows them by the texts  *)
(* of their transfers (webhook.controller.ts), and the readers of their    *)
(* lists, the admin and the customers (getOrdersWithPaging,                *)
(* getOrderByUserId), who go from page to page by the header x-next-page   *)
(* while orders come and change.                                           *)
(*                                                                         *)
(* A handler is one step here, and does what OrderPromise says.  A         *)
(* cancellation that breaks off changes nothing that is seen here.  No two *)
(* orders are created at the same instant.                                 *)
(***************************************************************************)
EXTENDS OrderPromise, OrderCodes, SequencesExt

CONSTANTS
    UserOf,         \* the customer of an order
    Codes,          \* the random codes that are drawn
    Readers,        \* the admin or a customer: whose list is read
    Admin,
    perPage,
    MaxCut,         \* bound: characters that a text may lose at its end
    MaxChanges,     \* bound: calls of the handlers
    MaxPage         \* bound: where a reader who finds no end gives up

OrderListAssumption ==
    /\ OrderCodesAssumption
    /\ UserOf \in [Orders -> Numerals] /\ ItemCount \in [Orders -> Nat \ {0}]
    /\ Codes \subseteq RandomCodes
    /\ Admin \notin Numerals /\ Readers \subseteq Numerals \cup {Admin}
    /\ "none" \notin AdminStatuses
    /\ perPage \in Nat \ {0}
    /\ MaxCut \in Nat /\ MaxChanges \in Nat /\ MaxPage \in Nat \ {0}

VARIABLES
    placed,         \* the orders as they were created
    code,
    info,           \* the text of the QR code, <<>> for a COD order
    reader,         \* whose list is read, from which page, with what header
    changes,
    \* history
    transfer,       \* the text that was delivered last and the order it paid
    due, seen,      \* the orders of the list when its reading began; those read
    shrunk          \* an order has left the list since

ordersVars == <<order, disturbed, placed, code, info, changes, transfer>>
readingVars == <<due, seen>>
listVars == <<ordersVars, reader, readingVars, shrunk>>

NoTransfer == [text |-> <<>>, paid |-> {}]
NotReading == [pc |-> "idle", of |-> Admin, page |-> 1, pagesCount |-> 0]

\* The where clause of getOrdersWithPaging.
Listed(o) ==
    /\ order[o].status # "PENDING" /\ order[o].paymentStatus # "PENDING"
    /\ ~(/\ order[o].status = "CANCELLED" /\ o \in BankingOrders
         /\ order[o].paymentStatus = "UNPAID")

InList(o, of) == IF of = Admin THEN Listed(o) ELSE UserOf[o] = of

\* ORDER BY "createdAt" DESC
Rows(of) ==
    LET newest[n \in 0..Len(placed)] ==     \* of the first n
            IF n = 0 THEN <<>>
            ELSE IF InList(placed[n], of) THEN <<placed[n]>> \o newest[n - 1] ELSE newest[n - 1]
    IN newest[Len(placed)]

Reading == reader.pc # "idle"

OrderListInit ==
    /\ Init
    /\ placed = <<>>
    /\ code = [o \in Orders |-> <<>>] /\ info = [o \in Orders |-> <<>>]
    /\ reader = NotReading
    /\ changes = 0
    /\ transfer = NoTransfer
    /\ due = {} /\ seen = {}
    /\ shrunk = FALSE
-----------------------------------------------------------------------------
(* The handlers *)

Change ==
    /\ changes < MaxChanges
    /\ changes' = changes + 1
    /\ UNCHANGED <<disturbed, reader, readingVars>>
    /\ shrunk' = (shrunk \/ (Reading /\ ~(ToSet(Rows(reader.of)) \subseteq ToSet(Rows(reader.of)'))))

\* createOrder
PlaceOrder(o) ==
    /\ order[o].status = "none"
    /\ order' = [order EXCEPT ![o] = Placed(o)]
    /\ placed' = Append(placed, o)
    /\ \E c \in Codes, t \in Dates :
          /\ code' = [code EXCEPT ![o] = c]
          /\ info' = IF o \in BankingOrders
                     THEN [info EXCEPT ![o] = generateOrderCode(UserOf[o], t, c)] ELSE info
    /\ transfer' = NoTransfer
    /\ Change

CancelOrder(o) ==
    /\ order[o].status \in Cancellable
    /\ order' = [order EXCEPT ![o] = Cancelled(o)]
    /\ transfer' = NoTransfer
    /\ UNCHANGED <<placed, code, info>>
    /\ Change

UpdateOrder(o) ==
    /\ order[o].status # "none"
    /\ \E status \in AdminStatuses : order' = [order EXCEPT ![o] = Updated(o, status)]
    /\ transfer' = NoTransfer
    /\ UNCHANGED <<placed, code, info>>
    /\ Change

\* findOneBy({ userId, code })
Found(name) == {o \in ToSet(placed) : UserOf[o] = name.userId /\ code[o] = name.code}

\* The bank delivers the text of an order's QR code, whole or cut off.
DeliverTransfer(o) ==
    \E lost \in 0..MaxCut :
        LET text == Slice(info[o], 0, Len(info[o]) - lost)
            found == Found(decodeOrderCode(text))
        IN /\ info[o] # <<>> /\ lost < Len(info[o])
           /\ \/ /\ found = {}
                 /\ transfer' = [text |-> text, paid |-> {}]
                 /\ UNCHANGED order
              \/ \E p \in found :
                    /\ order' = [order EXCEPT ![p] = PaidFor(p)]
                    /\ transfer' = [text |-> text, paid |-> {p}]
           /\ UNCHANGED <<placed, code, info>>
           /\ Change
-----------------------------------------------------------------------------
(* The readers *)

\* Mutant: the pages that are full.
PagesCount_Floor(total) == total \div perPage

\* Math.ceil(totalCount / perPage)
PagesCount(total) == (total + perPage - 1) \div perPage

startIndex == (reader.page - 1) * perPage
endIndex == reader.page * perPage
Page == Slice(Rows(reader.of), startIndex, endIndex)

BeginReading(of) ==
    /\ ~Reading
    /\ reader' = [NotReading EXCEPT !.pc = "read", !.of = of]
    /\ due' = ToSet(Rows(of)) /\ seen' = {}
    /\ shrunk' = FALSE
    /\ UNCHANGED ordersVars

\* getManyAndCount, findAndCount: the rows of the page.  A page that is not
\* full may save the second query.
ReadPage ==
    /\ reader.pc = "read"
    /\ \/ reader' = [reader EXCEPT !.pc = "count"]
       \/ /\ Len(Page) < perPage /\ (Page # <<>> \/ startIndex = 0)
          /\ reader' = [reader EXCEPT !.pc = "next", !.pagesCount = PagesCount(startIndex + Len(Page))]
    /\ seen' = seen \cup ToSet(Page)
    /\ UNCHANGED <<ordersVars, due, shrunk>>

\* ... and how many rows there are.
CountRows ==
    /\ reader.pc = "count"
    /\ reader' = [reader EXCEPT !.pc = "next", !.pagesCount = PagesCount(Len(Rows(reader.of)))]
    /\ UNCHANGED <<ordersVars, readingVars, shrunk>>

\* x-next-page
NextPage == IF reader.page = reader.pagesCount THEN reader.page ELSE reader.page + 1

\* On the last page x-next-page is the page itself.
FollowHeader ==
    /\ reader.pc = "next"
    /\ reader.page < MaxPage
    /\ reader' = IF NextPage = reader.page THEN [reader EXCEPT !.pc = "end"]
                 ELSE [reader EXCEPT !.pc = "read", !.page = NextPage]
    /\ UNCHANGED <<ordersVars, readingVars, shrunk>>

EndReading ==
    /\ reader.pc = "end"
    /\ reader' = NotReading
    /\ due' = {} /\ seen' = {}
    /\ shrunk' = FALSE
    /\ UNCHANGED ordersVars

OrderListNext ==
    \/ \E o \in Orders : PlaceOrder(o) \/ CancelOrder(o) \/ UpdateOrder(o) \/ DeliverTransfer(o)
    \/ \E of \in Readers : BeginReading(of)
    \/ ReadPage \/ CountRows \/ FollowHeader \/ EndReading

OrderListSpec == OrderListInit /\ [][OrderListNext]_listVars
-----------------------------------------------------------------------------
OrderListTypeOK ==
    /\ DOMAIN order = Orders
    /\ \A o \in Orders :
          order[o] \in [status : {"none", "PENDING", "PROCESSING", "CANCELLED"} \cup AdminStatuses,
                       paymentStatus : {"UNPAID", "PAID", "REFUNDED"},
                       returned : [1..ItemCount[o] -> 0..MaxChanges], refunded : 0..MaxChanges]
    /\ placed \in Seq(Orders) /\ IsInjective(placed)
    /\ code \in [Orders -> Codes \cup {<<>>}] /\ info \in [Orders -> Seq(Chars)]
    /\ reader \in [pc : {"idle", "read", "count", "next", "end"}, of : Readers \cup {Admin},
                   page : 1..MaxPage, pagesCount : Nat]
    /\ changes \in 0..MaxChanges
    /\ transfer \in [text : Seq(Chars), paid : {{}} \cup {{o} : o \in Orders}]
    /\ due \subseteq Orders /\ seen \subseteq Orders
    /\ shrunk \in BOOLEAN

(* A transfer with the whole text of an order's QR code pays that order, or *)
(* one of the same customer who drew the same code.  A text that was cut    *)
(* off pays no order, unless it spells the order's customer and code.       *)
TransferPaysItsOrder ==
    /\ \A o \in Orders :
          transfer.text = info[o] /\ info[o] # <<>> =>
              \E p \in transfer.paid : UserOf[p] = UserOf[o] /\ code[p] = code[o]
    /\ \A p \in transfer.paid : \E t \in Dates : transfer.text = generateOrderCode(UserOf[p], t, code[p])

(* Who goes through a list by x-next-page while no order leaves it has read *)
(* all orders that it had when the reading began, also those that others    *)
(* have pushed to a later page, and is not led behind the last page, from   *)
(* where the header would lead on for ever, as it does in an empty list.    *)
HeaderLeadsThroughList ==
    Reading /\ ~shrunk /\ due # {} =>
        /\ reader.pc = "end" => due \subseteq seen
        /\ reader.page <= PagesCount(Len(Rows(reader.of)))
=============================================================================
