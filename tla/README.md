# TLA+ models of be-server

`be-server` is the NestJS back end of a shop: carts, checkout with stock, vouchers and
loyalty points, payment by bank transfer, an admin's order management, discount events,
reviews, chat. Its data is in PostgreSQL behind TypeORM, with Redis for locks and reset
tokens. This directory holds TLA+ models of the parts whose correctness depends on order
and interleaving, the TLC configurations that check them, and proofs checked by TLAPS.

The repository's only tests are a stub (`test/app.e2e-spec.ts`), so the models are written
from the code; paths below are relative to `src/modules/`.

## What the code is like to reason about

* **No transaction and no row lock is taken anywhere.** A handler is a chain of awaited
  queries; between any two of them every other handler may run. The models therefore have
  one action per query, and what a handler read it keeps, however stale.
* **`repository.save(entity)`** selects the row (soft-deleted ones too), compares, and
  updates *the columns that differ from the entity*. Consequences that the models keep:
  a stale entity overwrites only columns someone changed meanwhile; an entity read before a
  soft delete has `deletedAt = null` and undoes it; an entity loaded with a one-to-many
  relation detaches the rows added since.
* **The payment countdown is a `setTimeout`** in the process, and an exception in its
  callback is an unhandled rejection, which ends a Node 20 process.

Where one `save` is modelled as one action, the reason is in the module: the written columns
move together (`Inventory`), or only one row and column is at stake, so writing an unchanged
value and not writing it are the same.

## Inventory of the system

| component | state | operations | what makes it correct | where |
|---|---|---|---|---|
| stock updates `products/inventory.helper.ts` | `variant-sizes.inventory/soldQuantity`, `products.totalInventory/totalSoldQuantity` | `updateInventoryQuantities` | nothing is overdrawn, no unit appears or vanishes in a row, totals are the sums of the sizes | `Inventory`, `StockPromise` |
| orders `orders/orders.service.ts` | `orders`, `order-items`, timers in memory | `createOrder`, countdown, cancel, admin update, payment | a payment is not lost, refunded twice or invented; what an order took goes back once when it is cancelled; the wait for its money ends | `Orders`, `OrderPromise` |
| webhook, transactions | `transactions` | `handleTransactionPayment` | every transfer is kept, and reaches its order | `Orders`; its text in `OrderCodes`, `OrderList` |
| order texts and paging `utils/helpers/common.helper.ts`, `utils/pagination/` | none | make and read an order's text, page of a list, `x-next-page` | a text comes back to its order; a reader of all pages sees all orders | `OrderCodes`, `OrderList` |
| vouchers `voucher/voucher.service.ts` | `vouchers`, `voucher-users` | create, apply, use, refund, update, delete | the quantity is respected, one use per user, surplus rows withdrawn | `Voucher`, and one customer's row in `Orders` |
| users and points `users/` | `users.point`, addresses, verify codes | `updatePoint`, CRUD, `setDefault` | points are not overdrawn; a stored password is hashed once; one default address | points in `Orders`, password in `Auth`, `Addresses` |
| carts `carts/carts.service.ts` | `carts`, `cart-item` | get-or-create, add, import, remove, empty | an addition arrives whole or not at all, no line is lost or doubled, quantities within the stock | `Cart`, `CartPromise`; full/empty in `Orders` |
| auth and sessions `auth/`, `session/` | `sessions`, password hashes, `resetPassword:*` in Redis | login, refresh, logout, forgot, reset, change | a refresh token works once, a changed password ends the sessions | `Auth` |
| discount events `events/`, `cron-job/` | `discount-events`, `products.discount`, a redlock | minute tick, create, update, delete | a product's discount is that of its running event, and ends with it | `DiscountEvents` |
| catalogue `products/products.service.ts` | products, variants, sizes | create, update, archive, delete, listings | an edit leaves rows and totals that fit; what was closed is not listed and gets into no cart | `Catalog` |
| categories `products/segments` etc. | segments, categories, subcategories | create, update | - | not modelled |
| reviews `products/reviews` | reviews, the product's rating | `createReview` | one review per item, the rating is the average | `Reviews` |
| banks, VietQR `payment-gateway/` | `banks.lastOrder` | create, update, delete, rotation, QR | the banks take turns, account numbers differ | `Banks`; failure in `Orders` |
| chat `chat/`, `wss/` | conversations, messages | get-or-create, send, announce | one conversation per client, the admin hears of each that is listed | `Chat` |
| analytics `analytics/` | none: reads orders | dashboard, revenue, sellers | the reports agree with each other at every date | `Sales` |
| other helpers in `utils/`, news, master data, health, mail | - | formatting, reads and single-query CRUD | - | not modelled |

How they interact: `createOrder` calls cart, address, voucher, points, bank, VietQR, order
and item repositories, cart again and stock, in that order. The countdown and the
cancellation call stock, points and (the countdown only) vouchers back. The webhook calls
the order. The admin's catalogue and voucher edits write the same rows. Sockets only carry
notifications out.

`PROJECT.json` lists the hazards at their lines, with the properties that cover them.

## Modules

**`StockPromise`** is what the helper's callers may rely on. While no two updates overlap
and none is torn by a crash, an item moves between "available" and "sold" in its size and
its product at once (`MoveItem`). After a disturbance only the ledger and the sign remain
(`MoveDisturbed`).

**`Inventory`** is `updateInventoryQuantities`, a job per call, five steps per item. It
implements `StockPromise` under a refinement mapping in which an undisturbed item counts as
moved in both rows when its size is saved: `PromisedProductRow` is the product row as the
pending save will leave it.

**`Orders`** has the whole life of an order. `checkout[o]` is a `createOrder` call, a
program counter at the query it is about to make; `timer[o]` the countdown; `request[r]` one
later call, with the entity it holds (`entity`), the columns its save found different
(`dirty`) and whether it loaded the order without items (`bare`). `UpdateRow` writes the
dirty columns with the entity's values. An order has several items, and whoever moves its
stock goes through them as `updateInventoryQuantities` does: read an item's stock, check, save,
next item (`item` says where). What throws at an item leaves those before it moved; so a
cancellation that meets a removed product at its second item has given the first one back and
has cancelled nothing (`CancelReadsStock`), and can be made again. What is left to `Inventory`
is that each of these saves is one of a size and one of its product. Points and totals are
whole numbers of either sign: `dto.point` is checked to be a string only, and nothing checks
the total. History variables record the points and the voucher that each order holds (`held`),
its items that are taken (`taken`), how often each was given back (`returned`) and how often
by a cancellation that broke off later (`broken`), refunds, saves that moved the order out of
CANCELLED (`revived`), the negative amounts that were added to the points (`debits`), and
whether handlers of the order overlapped (`disturbed`).

**`Voucher`** has one voucher and the rows of several users, with the admin's update and
delete running between the checkouts' queries. A row that a checkout marks was read with
`deletedAt = null`, so `SaveRow` undoes a soft removal made since.

**`Auth`** has one account, the calls made for it (register, login, refresh, logout, forgot,
reset and change of the password), its `sessions` rows and its Redis reset key. A session
row is named by the login that inserted it, a hash and a reset token by the call that made
them, so a refresh token is a pair of session and hash. The stored password is a text and how
often it was hashed: `UsersService.update` hashes whatever differs from the stored value,
which matters when a caller has hashed it before (`NewPassword`). A client may send any token
ever issued, however old. The history fields
(`before`, `late`) say what a call met when it began.

**`DiscountEvents`** has several server processes, each with the cron job, one Redis lock that
runs out, the `discount-events` rows and `products.discount`, with the admin's calls between
the tick's queries. An event's `type` and `pid` are one *target*, which covers products. The
update of the whole shop, which the code does not await, is under way in `shopUpdates` and
lands at any later time. `reach`, `touched`, `raced` and `overtaken` are history: which
products an event could write to, and what disturbed it.

**`OrderPromise`** is the life of an order as its handlers promise it together: placed once,
cancelled with all of its items returned and its payment refunded *in the same step*, revived
by a late payment or the admin. One step gives items back and cancels nothing: a cancellation
that breaks off (`BreakOff`). `Orders` implements it, for orders whose handlers did not overlap,
under the mapping `Life`. Whether a cancellation will break off is not known before its last
item, so none of its returns counts until then; from then on it counts as done, with all that
its pending writes will do. A countdown that breaks off ends the process, so it counts from its
save of the row on.

**`OrderCodes`** is the text of an order's QR code, which the bank sends back with the transfer:
`generateOrderCode` writes prefix, time, customer and random code one after the other, and
`decodeOrderCode` has to find where the number ends. **`OrderList`** puts `OrderPromise` to use:
each handler is one step that does what is promised there (a cancellation that breaks off changes
nothing that is seen here), and what is detailed is what others see of the orders. The bank delivers a text, whole or cut off at its end, and the order it
names is paid (`DeliverTransfer`). The admin or a customer reads the list page by page
(`ReadPage`, `CountRows`: the two queries of `getManyAndCount`), and goes where `x-next-page`
leads, while orders come, change and drop out between the queries. The first page of a list
is asked for without a number.

**`Cart`** has one customer's carts and lines and the calls for them, each with the cart entity
it loaded. `Compare` and `Write` are the two halves of `save(cart)`: the select of the stored
rows, and the transaction that inserts, updates and detaches. A second cart appears when two
first requests overlap. The product and the variant of a request are taken to be the size's own,
which `carts.service.ts:76-119` never checks; `Inventory` takes the same of an order's items.
**`CartPromise`** is the bag of quantities a customer believes to have;
`Cart` implements it while no two calls overlap (`Shown` is the mapping).

**`Catalog`** has one product: the admin's calls load it with its variants and sizes
(`Snapshot`) and save it task by task (`CreateTasks`, `UpdateTasks`, `ArchiveTasks` are the
loops of the code); checkouts and cancellations move its stock, out and back, beside them.
`CartTakes` is what is asked before a size goes into a cart. A checkout of what is in a cart
already asks for neither `isActive` nor `isArchived`, so a closed product may still be sold
(`ReadStock` takes its stock, too). A save that would detach a row
fails, as those columns are not nullable: that is how an update with a new variant ends.

**`Banks`**, **`Reviews`**, **`Addresses`** and **`Chat`** have one action per query of their
services, with the process dying in between where a call has several. **`Sales`** has orders
placed and delivered along a small calendar and the reports as operators over them;
`getAnalytics`, `getRevenue` and `getTopProducts` are what the admin is answered.

**`InventoryProofs`**, **`OrdersProofs`** (what holds in every interleaving),
**`OrderLifeProofs`** (what holds of orders whose handlers do not overlap), **`VoucherProofs`**,
**`AuthProofs`**, **`CartProofs`**, **`DiscountEventsProofs`** and **`StorefrontProofs`** (transfers'
texts and lists, banks, addresses, chat, reviews, catalogue, reports) hold the theorems. `MC*`
modules give constants their values; `MCStorefront` extends eight parts of the shop and puts them
and a second instance of the order list side by side.

Definitions whose name ends in `_Something` after an underscore and whose comment says
"Mutant" are faulty variants of the next definition, kept to show that the properties notice.

## Runs

| run | instance | shows |
|---|---|---|
| `inventory` | two checkouts and a restock, three sizes, two products, removals, crashes | `NonNegative`, `RowLedger`, `TotalsAgree`, and `KeepsPromise` (refinement) |
| `order_handlers` | one banking order of two items, with voucher and points, its countdown, up to four calls among cancel, admin update (PENDING, DELIVERED) and webhook, the second item's product removable; fairness | `MoneyBacked`, `CountdownBacked`, `StockReturnedOnce`, `RefundsMatchPayments`, `KeepsOrderPromise` (refinement), `ArmedWaitEnds`, `ExpiryGivesBack` |
| `checkouts` | a banking checkout of two items and a COD one of one item and minus two points, competing for voucher, points and the last unit; one call, one crash, the voucher and a product removable | `NeverOverdrawn`, `VoucherHeld`, `StockReturnedOnce` |
| `voucher` | three checkouts of two users and a third who is only handed a row, quantity 1 or unlimited, one update to 1 or 2 or of the dates alone, one deletion | `LimitKept`, `OncePerUser`, `RowsFitQuantity`, and `PreviewHonoured`: a checkout that nothing raced is refused or granted what `getVoucherByCode` said |
| `auth` | five calls of any kinds for one account, two passwords, logouts, profile updates, removal, a lost Redis write, crashes | `ChangeEndsSessions`, `SpentTokenRefused`, `OlderMailRefused` |
| `events` | two processes, one old and one new event, two products, one call of the admin, three points in time, one kill or expiry under a tick; fairness | `StatusAgrees`, `DeletionResets`, `EventEnds` |
| `storefront` | one of nine parts at a time, see below | `LinesWithinStock`, `KeepsCartPromise` (refinement), `EditSettlesTotals`, `ClosedStaysClosed`, `BanksTakeTurns`, `AccountsUnique`, `RatingIsAverage`, `OneDefault`, `ListedWereAnnounced`, `ReportsAgree`, `TransferPaysItsOrder`, `HeaderLeadsThroughList` |
| `pending_expires` | one banking order, one restart | violated: line 229's comment; the countdown is lost with the process |
| `points_rollback` | one checkout | violated: line 97's comment; a failed checkout keeps the points |
| `voucher_limit` | three calls one after the other, quantity 1 | violated: line 93's comment; a refunded row is used again uncounted |
| `reset_password` | four calls | violated: the mail's "to reset your password"; what a reset stores opens with no password |
| `event_deletion` | one process, one event, one deletion | violated: line 113's comment; a tick that read the event before puts the discount back |

**Why the bounds are enough.** Every interference here is between two calls, or a call and the
countdown, over one row; a third party is needed to observe the damage. `inventory` has three
jobs whose items meet in opposite orders on shared rows, with one unit fewer than wanted.
`order_handlers` has the countdown and four calls: pay, cancel, pay again, cancel is the
shortest story that refunds twice; cancel, revive, cancel, or two cancellations that break off
at the second item, the shortest that return stock twice; pay and an update to PENDING the
shortest that leaves an order for which the countdown does nothing. A call that meets an order
at work, or one whose handlers have overlapped before, is one of the first two after the
checkout (`MaxOverlapping`): two calls beside each other and the checkout or the countdown are
what may overlap, and of the order afterwards only `TypeOK`, `MoneyBacked` and the liveness
properties say anything. `checkouts` has stock for one, points for one, a voucher for one, and
two who want them, one of them a negative number of points. The voucher is handed out to the
customer or is for everyone, so that the second use finds a row or meets the unique index. There
the second order's checkout may bring a removed product back by its save, so that a cancellation of the first order breaks
off and its countdown then cancels it whole.
In `voucher`, two calls of one user share a row and the third is of another user, which is what
it takes to pass a limit of one; with the third there are rows for an update to 2 to withdraw
after one has been used. `auth` has five calls because the longest stories it must refuse are
register, login, two refreshes and a third with the spent token, and register, two mails and
two resets. `events` has an event before, in and after its time, and a second one for the
conflicts and the products they share. `storefront` is nine small instances in one state space:
the parts share no rows but the products' (transfers and lists are two instances of
`OrderList`, of which one behaviour uses one), of which each uses columns of its own, so a
behaviour is one of any part with the others at rest (`part`), and nothing is lost by not
mixing them. The cart has three calls after an earlier one and one change of the shop around it
(the stock of a size, or the size that both requests end with goes off sale), over two sizes:
two additions that overlap and a third call that sees the result, or an import, a removal and
an emptying. The catalogue has three calls of the admin (create and two among update, archive,
delete) beside a stock update. Two workers pick among three banks up to six times with two
edits. Three reviews of two items, two workers with five calls for three addresses of two
users, and four calls of a chat. The reports have two orders of two products at four instants:
one early in a year, its last, the first of the next year, which is a midnight, and one in its
second month (months have two days); so a boundary of a day, month, quarter and year is between
two of them. The lists have three orders (two by transfer), pages of two and five calls
(cancel, admin update, payment): there is a full page, one that is not full and none, and an
order is pushed behind the page that is read. The transfers have the customers 1 and 12, so
that a number and a code that begins with 2 spell another customer's, and texts that lose up to
six characters, the whole code and number and part of the date; a prefix, a date and a code
have two characters each instead of 2, 14 and 6. Other named bounds: `MaxChanges` (calls),
`MaxCut` (characters lost) and `MaxPage` (where a reader who finds no end gives up) in
`OrderList`, `MaxMoves` in `Cart`, `MaxPicks` and `MaxEdits` in `Banks`, `MaxCalls` in
`Addresses`, `Moments` in `Sales`, `MaxTime` and `MaxKills` in `DiscountEvents`, `MaxCrashes`
(kills of the process; the restarts the code itself causes are not bounded), `MaxCalls` and
`MaxOverlapping` in `Orders`, and `AddToCart`, which stops when no checkout is left that looks at
the cart (`LooksAtCart`). Requests are interchangeable in `Orders`, whose next call is therefore
made by any one that is ready (`NextRequest`), as are the calls of the same user in `voucher`,
calls and passwords in `auth`; symmetry is declared in these two, never in a run with liveness.

**Deadlock** is checked in `events`, where the cron job goes on for ever, and nowhere else:
every call ends, and when all calls have been made the system rests.

**"Undisturbed" properties.** `TotalsAgree`, `CountdownBacked`, `StockReturnedOnce` and
`RefundsMatchPayments` speak of orders whose handlers did not overlap. With overlaps they are
false of this code, since nothing serialises two cancellations of an order; no document says
otherwise, so this is stated here and in the hazards rather than as a finding. They still range
over every sequence of calls, over interleavings with other orders and over restarts, and over
calls that fail midway: a cancellation that breaks off at its second item has given back the
first, and a later one, or the countdown, gives it back again. `StockReturnedOnce` and
`CountdownBacked` count these returns (`broken`), and allow no others.
`NeverOverdrawn` says of the points that no checkout overdraws them. They do fall below zero
where a negative number was used: it is added at the checkout, and when it is taken back nothing
checks that it is still there.
`NonNegative`, `RowLedger`, `NeverOverdrawn`, `MoneyBacked`, `VoucherHeld`, `LimitKept`,
`OncePerUser`, the properties of `Auth` and `TransferPaysItsOrder` hold under every
interleaving. `StatusAgrees` speaks of events the admin let alone that share no product with
another, in a history without kills and without two updates of the whole shop at once;
`DeletionResets` of deletions no tick ran beside, and `event_deletion` shows why.

`HeaderLeadsThroughList` is about lists that no order left while they were read. One that
leaves moves the others a place forward, and the one that crosses a page boundary is missed, as
always with offsets. In an empty list, and behind the end of one that shrank, `x-next-page` is
a page further on each time (`pagination.helper.ts:23` compares with equality); no document
says what it should be, so this is said here only.

In the storefront, `LinesWithinStock` and `ListedWereAnnounced` (its first half) hold under every
interleaving. The others say that what is undisturbed *now* is right, whatever was disturbed
before: an update that ran alone repairs the totals that overlapping calls or a crash had left
wrong, a review made alone sets the average of all reviews, a `setDefault` made alone leaves
one default, two lone picks of a bank have let each waiting bank in between. That the code
heals in this way is what the history variables of each part are for (`editLone` and
`editSettled`, `reviewLone` and `reviewSettled`, and so on); what happens while calls overlap is
in the hazards. `ReportsAgree` compares reports computed by different
queries with different boundaries. It does not compare the sellers of a past year, for which
`getTopProducts` counts one day too many (`analytics.service.ts:285`), nor the sellers of a range,
which take in the first instant after it.

**Fairness.** `FairSpec` assumes only that the process does not idle for ever while a started
call or a due timer can take a step (`WF_vars(ProcessStep)`), which is what the event loop
does. No caller, admin or crash is obliged to anything. Both liveness properties of `Orders`
say "unless the process is restarted"; `pending_expires` shows what happens if it is.
`ArmedWaitEnds` asks for the end of the wait for the money: an order that was paid and that the
admin sets back to PENDING is left alone by its countdown and may stay PENDING for ever.
`DiscountEvents` assumes that the cron job goes on in some process, that updates land and
that a lock runs out (`WF_vars(CronStep)`): the job is scheduled every minute and Redis drops
the key after five. `EventEnds` holds with deaths under the lock; with a lock that never runs
out it does not, which is its mutant.

## Proofs

TLAPS checks the following for every value of the constants that satisfies the modules'
assumptions, named `…Assumption` in each module: the constants have their types, start values
are not negative (the points an order uses and its total may be), the sets that are counted (users and calls of a voucher, banks, the products
that are sold) are finite,
every order has an item, `None` and its like are no member of the sets they stand apart from, the banks at the start
differ in their accounts, customers are numerals without a leading 0, codes and dates have their
lengths. `TotalsStayInStep` assumes two things more, in its statement: finitely many sizes, and
totals that are the sums of the sizes at the start. Nothing else is assumed.

| theorem | says |
|---|---|
| `InventoryProofs!InventoryTypeCorrect` | `Inventory`'s `TypeOK` |
| `InventoryProofs!NeverOverdrawn` | no inventory or total below zero (`NonNegative`) |
| `InventoryProofs!LedgerKept` | inventory plus soldQuantity of a row never changes (`RowLedger`) |
| `InventoryProofs!HelperKeepsPromise` | `Inventory` implements `StockPromise` |
| `InventoryProofs!TotalsStayInStep` | a product's total is the sum of its sizes when nothing overlapped (`TotalsAgree`) |
| `OrdersProofs!OrdersTypeCorrect` | `Orders`' `TypeOK` |
| `OrdersProofs!OrdersNeverOverdrawn` | stock not below zero, points no further than the negative amounts added to them (`NeverOverdrawn`) |
| `OrdersProofs!OrdersMoneyBacked` | no banking order paid without a transaction (`MoneyBacked`) |
| `OrdersProofs!OrdersVoucherHeld` | a used voucher is held by an order (`VoucherHeld`) |
| `OrderLifeProofs!OrdersSerial` | one handler at a time works on an undisturbed order, and holds what its row is |
| `OrderLifeProofs!OrdersKeepPromise` | `Orders` implements `OrderPromise`, for any number of items |
| `OrderLifeProofs!OrdersReturnStockOnce` | each item goes back once per cancellation, and once for one that broke off later (`StockReturnedOnce`) |
| `OrderLifeProofs!OrdersRefundPayments` | refunds do not outnumber payments (`RefundsMatchPayments`) |
| `OrderLifeProofs!OrdersBackCountdowns` | what an armed countdown will give back is there, but for items a broken-off cancellation gave back (`CountdownBacked`) |
| `VoucherProofs!VoucherTypeCorrect` | `Voucher`'s `TypeOK` (proved only; no run repeats it) |
| `VoucherProofs!VoucherLimitKept` | by how much a limited voucher can be overused (`LimitKept`) |
| `VoucherProofs!VoucherOncePerUser` | one use per user (`OncePerUser`) |
| `VoucherProofs!VoucherRowsFit` | an update leaves no more rows than the quantity (`RowsFitQuantity`) |
| `VoucherProofs!VoucherPreviewHonoured` | a checkout gets what the preview said (`PreviewHonoured`) |
| `AuthProofs!AuthTypeCorrect` | `Auth`'s `TypeOK` (proved only; no run repeats it) |
| `AuthProofs!PasswordChangeEndsSessions` | an answered change or reset has ended the sessions it met, for good (`ChangeEndsSessions`) |
| `AuthProofs!SpentTokensRefused` | a refresh token works once (`SpentTokenRefused`) |
| `AuthProofs!OlderMailsRefused` | a later mail ends the earlier ones (`OlderMailRefused`) |
| `CartProofs!CartTypes` | `Cart`'s `CartTypeOK` |
| `CartProofs!CartWithinStock` | no line asks for more than its size once had in stock (`LinesWithinStock`) |
| `CartProofs!CartKeepsPromise` | `Cart` implements `CartPromise` |
| `DiscountEventsProofs!EventsTypeCorrect` | `DiscountEvents`' `TypeOK` |
| `DiscountEventsProofs!EventsStatusAgrees` | the products have the discount of the running event (`StatusAgrees`) |
| `DiscountEventsProofs!EventsDeletionResets` | a deletion that nothing raced takes the discount back (`DeletionResets`) |
| `StorefrontProofs!DecodeInverts` | what `generateOrderCode` writes, `decodeOrderCode` reads |
| `StorefrontProofs!TransfersPayTheirOrders` | a transfer pays the order that its text spells (`TransferPaysItsOrder`) |
| `StorefrontProofs!OrderListTypes` | `OrderListTypeOK`, the part of `ShopTypeOK` about orders and lists |
| `StorefrontProofs!ReadersReadAll` | a reader who follows `x-next-page` misses no order (`HeaderLeadsThroughList`) |
| `StorefrontProofs!BanksTypeCorrect` | `Banks`' `BanksTypeOK` |
| `StorefrontProofs!BanksPickedInTurn` | no bank is picked twice while another waits (`BanksTakeTurns`) |
| `StorefrontProofs!BanksDiffer` | account numbers differ (`AccountsUnique`) |
| `StorefrontProofs!OneDefaultStands` | a default set alone is the only one (`OneDefault`) |
| `StorefrontProofs!ListedAnnounced` | a listed conversation was announced, and is the client's only one (`ListedWereAnnounced`) |
| `StorefrontProofs!RatedRight` | a review made alone sets the average (`RatingIsAverage`) |
| `StorefrontProofs!AddressesTypes`, `ChatTypes`, `ReviewsTypes`, `CatalogTypes`, `SalesTypes` | the type invariants of these modules; of a rating also that it is on its scale, 0 to 5 |
| `StorefrontProofs!EditSettles` | an update that ran alone leaves the sums of the sizes, less what is sold (`EditSettlesTotals`) |
| `StorefrontProofs!ClosedProductStaysClosed` | what was closed alone is neither listed nor let into a cart (`ClosedStaysClosed`) |
| `StorefrontProofs!ReportsTellOneStory` | the reports agree with each other, whatever the calendar and also with no orders (`ReportsAgree`, `OneStory`) |

Hardly any of these properties is inductive, always for the same reason: a handler acts on what
it read some queries ago, so a fact about the rows is kept only if something is known of the
values in memory. There are two kinds of argument.

*Every interleaving.* The invariant says of each value in memory what may be written later.

- `Inventory`: `StockInv` adds `HeldOK`, which says that an entity a job holds has the sum its
  row had at the start and, once accepted, is not negative.
- `Orders`, numbers: `SeenInv` says that whoever is about to write a number has seen one that
  is large enough to be reduced, or as far above the limit as the row has to be. This is why
  stale reads and lost updates cannot overdraw, whatever else they do. The limit of the points
  is minus the negative amounts added so far, which only grow.
- `Orders`, money: `MoneyInv` says that an entity in memory that is not UNPAID belongs to an
  order with a transaction, and that the webhook looks for an order only after keeping one.
  `VoucherHeld` is inductive beside the types.
- `Voucher`: `Covered` counts the granted inserts with the uses (`Taken`), since a count and
  its insert are two queries; `HeldQuantity` says that the quantity a call compares with is
  one the voucher had; `NothingYet`, that nobody passes `find` before the voucher exists.
  `UsesInv` relates, for a user none of whose rows was marked twice or detached, each call past
  its look at the row to what the row says.
- `Auth`: every name (a session, a hash, a reset token) is made once, by one call. `EndInv`
  says that a session is not there before its login inserts it and never open again once
  ended; `SpentInv`, that the hash a refresh was given is one an *answered* call had made, so
  nobody is left to write it a second time; `OlderInv`, that after its deletion the key is
  none of those mailed before.
- `Cart`, limit: `CartInvariant` says of every entity in memory what the property says of the
  rows: its quantities, and those that its save saw, are within the peak of their sizes. A save
  may write any of these over any row, so nothing weaker is kept.
- `OrderList`: `TransferInvariant` says that the text of a placed order always is the one its
  customer and code make, whatever happens to the order's row. A whole text then finds its
  order by `DecodeInverts`. For one that was cut off, `CutSpells`: what `decodeOrderCode`
  makes of it spells the text again, so it is refused or names exactly what it says.
- `OrderList`, pages: `ReaderOK` says where a reader stands: the orders that were there at the
  beginning are still in the list, those that are unread lie behind the pages read so far, and
  the page the reader is sent to has rows. `PlacesMoveDown` shows what a handler's call can do
  to a list that no order leaves: the orders in it only move towards its end, since the list
  keeps the order of creation (`LastFirst`). That the recursion of `Rows` is such a list is an
  induction over a set of naturals (`ListExists`, `ListLastFirst`); that `Math.ceil` reaches the
  last row and no further is `PagesReach`.
- `Chat`, announcements: `AnnouncedOK` says of a conversation with a message that it was
  announced, or that a call is under way that will announce it, or one died over it.

*Undisturbed.* The invariant says where the one operation at work can be, and that what it holds
is what the rows still are. Most of the work is to show that others, who may be at work on other
orders, events or users, leave these rows alone.

- `Inventory`: `FreshInv` says that in an undisturbed state one job at most runs and what it
  holds is what the rows are; so the pending product save is exact and the mapped state moves
  size and product at once. A disturbed step falls back on the ledger alone. `TotalsInv` is
  `TotalsAgree` for the mapped product rows, in all undisturbed states; that moving one size
  moves the sum by as much (`TotalFollows`) is proved from the recursive function inside
  the community modules' fold, which is shown to exist by induction over a set of naturals.
- `Orders`: `SerialInv` lists the places of the one handler of an undisturbed order, with the
  entity and the dirty columns that it has there. The mapping `Life` runs ahead of the rows, so
  a cancellation is a promise kept later: `CountInv` and `RefundInv` say what is still to be
  returned and refunded at each place. While the helper goes through the items of a
  cancellation, `Returns` takes off what it has given back so far, which is counted when it
  comes to the last item (`PromiseCancels`) or breaks off (`PromiseBreaksOff`). `Tally` says of
  every step that the items returned, less those of cancellations that broke off, grow exactly
  when the life enters CANCELLED: `StockReturnedOnce` is its sum. `HeldInv` is what a countdown
  has to give back: the voucher and the points until the order is cancelled (`HeldLife`), each
  item until it is given back (`ItemsHeld`).
- `Voucher`: `AloneInv` and `QuietInv` say of the one operation in flight that what it has
  read is still so; `RowsFitQuantity` and `PreviewHonoured` are about its last step.
- `DiscountEvents`: the lock matters only through `OneTick`, nobody but its holder ticks while
  no lock ran out and nobody was killed. `ReachInv` says that a product no event covers has no
  discount and bounds what the memory of ticks and calls can touch, `OriginInv` where a tick's
  events come from. `LetAloneInv` says of an event that the admin let alone that a tick's
  copy of it is current, but for the status it has marked itself; `DeletionInv` which products
  a deletion has still to settle.
- `Cart`, promise: `SerialCart` says that there is one cart, no size twice in it, and that the
  one call at work holds the rows as they are; `AfterLines` is what a merge has added so far,
  line by line.
- `Banks`: `BanksInv` says that a pick that is alone holds the bank with the oldest order
  (`WorkerOK`), and `PassedOK` that a bank that was passed over has an older order than the one
  that passed it. Account numbers differ because a lone call's check still holds when it saves.
- `Addresses`: `AddressesInv` says that a `setDefault` alone has cleared all others before it
  sets its own, and that a settled user has one default.
- `Reviews`: `ReviewsInv` says that the summary that a lone call has in memory is still that of
  the rows (`SameSum`: equal ratings have equal sums) and that a settled product has it. The
  types need `RatingsInv`: an average is taken over one review at least, the call's own, so
  it never divides by zero and stays on the scale (`RoundedInScale`).
- `Catalog`, what is closed: `CatalogInv`'s `Shut` says that nobody at work holds anything that
  would open what was closed.
- `Catalog`, totals: `TotalsInv` follows an update through its list of tasks. `EditLoneOK` says
  that a call that is alone has in memory what the rows say, but for what it has added itself,
  of which no unit is sold yet; `SettledOK`, that after it only archivings and stock updates came,
  one at a time, and that a stock update between its two saves is about to bring the totals up
  to the rows (`MoverSettled`, `Balanced`). The sums are the recursive function inside the
  community modules' fold (`SumOver`, `SumTakes`): `TotalsAreSums` is how a whole product's
  totals come from its rows, `SomeSold` how a unit sold or given back moves them. That a task list has the
  type of its parts joined together is `FlatSeq`.

*Reports.* `OneStory` is about one state, so `SalesInv` adds to the types only that there are
finitely many orders and none of the future. The work is in the sums: `SumByKey` says that a sum
over orders can be taken by any label of theirs first, which makes months, quarters, products and
the days on either side of a boundary cases of one lemma; `ReportAddsUp` turns the fold over a
report into such a sum. Which instants have which label is division with remainder (`DividesAt`,
from which `DayBegins`, `MonthBegins`, `YearBegins`, `QuartersOfYear`). For the sellers, whose
list is any sorted one, `EachRowOnce` says that it has every row once, so the order is of no
matter.

The storefront's invariants were also checked by TLC, on its instance, before they were proved: a
conjunct that is not true there is found sooner than one that is not inductive.

Only model-checked: the three liveness properties, as liveness under fairness is beyond the
prover, and `ShopTypeOK`, which is about `MCStorefront`'s instance; the type invariant of each of
its parts is a theorem. The five violations are TLC's.

## What is not modelled

`verifyEmail`, as nothing creates the codes it looks for; `DELETE me`, which asks for the
removal of a user whose id is not a number; two reset tokens signed within the same second,
which are equal; roles and the status that refuses a login. Discounts an admin sets by hand,
and events without the `pid` that their type needs, which make a tick fail. Amounts: prices,
discounts and totals are constants. The create and update of segments, categories and
subcategories (each a lookup and one write), product images, searching and sorting; the pages
of other lists than the orders', which are made by the same helper; the listings of vouchers,
among them `getListVoucherValidByUserId`, which does not load the users it filters by;
`getProductsInventory`. Two orders with equal `createdAt`, whose rows may change places between
pages; requests for a page that is no positive number; transfers whose text was altered
otherwise than cut off, and the signs and blanks that `parseInt` takes. In `Orders` a code is a
name that the webhook is given whole. A rating outside 1 to 5, which `CreateReviewDto` does not
refuse. News, master data, health and mail: single-query CRUD, probes and templates. Several
customers in one `Orders` instance (the voucher's are in `Voucher`). A `dto.point` that is no
number or "0", and fractions, which `updatePoint` rounds and `total` does not. The other columns
that `updatePoint` saves with the user as it was read: a password changed in between is written
back, which `Auth` does not have. Expiry dates and
`isActive` of vouchers, which only refuse calls. Timing: the countdown may fire at any moment
after it was armed. Several Node processes on one database (the models' processes share memory
only through timers, so the safety results carry over to calls spread over several processes,
but a crash then stops only some). `cancelExpiredUnpaidOrders` has no caller. Behaviour of
PostgreSQL below a single statement. How `save` works is not in this repository: `Differing`,
`Written` and `UpdateRow` are marked external.

## Plan

1. *Done*: `Inventory` with its abstract specification and proofs; `Orders` with its abstract
   life cycle; `Voucher`; `Auth`; all four with theorems. `DiscountEvents`. `Cart` with its
   abstract specification and the proof of its limit; `Catalog`, `Banks`, `Reviews`,
   `Addresses`, `Chat`, `Sales`, in one run. `OrderCodes` and `OrderList`, with the theorem
   about the texts of transfers.
2. *Done*: the properties of undisturbed orders, the voucher's actions, the discounts of events,
   the promises of orders and carts, the storefront's parts, a product's totals under edits and
   the reports, as theorems. But for `ShopTypeOK` no safety property of a run is left without one.
3. Segments, categories and subcategories, if their lookups ever decide more than a refusal.
