------------------------------ MODULE Voucher -------------------------------
(***************************************************************************)
(* One voucher and its voucher-users rows: VouchersService.createVoucher,  *)
(* applyVoucher and useVoucher as createOrder calls them, refundVoucher as *)
(* the payment countdown calls it, updateVoucher and delete as the admin   *)
(* does (src/modules/voucher/voucher.service.ts).                          *)
(*                                                                         *)
(* Each action is one query.  A save() is one action: its SELECT and its   *)
(* UPDATE touch one row each here, and what is written between the two     *)
(* could as well have been written after them.                             *)
(*                                                                         *)
(* Left out: the dates and isActive, which only make a call be refused,    *)
(* and the voucher's other columns.                                        *)
(***************************************************************************)
EXTENDS Integers, FiniteSets, FiniteSetsExt

CONSTANTS
    Users,
    Calls,           \* checkouts that give the voucher, each with a countdown that may follow
    UserOf,          \* the customer of each
    StartQuantities, \* createVoucher's dto.quantity; 0 also when undefined: unlimited
    Updates,         \* the admin's calls of updateVoucher
    NewQuantities,   \* their dto.quantity, or
    Unchanged        \* when it is undefined

ASSUME VoucherAssumption ==
    /\ IsFiniteSet(Users) /\ IsFiniteSet(Calls)
    /\ UserOf \in [Calls -> Users]
    /\ StartQuantities \subseteq Nat
    /\ Unchanged \notin Nat
    /\ NewQuantities \subseteq Nat \cup {Unchanged}

VARIABLES
    voucher,    \* vouchers: "absent", "live" or soft-"deleted"; and its quantity
    rowOf,      \* voucher-users: each user's row, "none", "unused" or "used"
    removed,    \* users whose row is soft-deleted
    handOut,    \* createVoucher, between its insert and the rows for everyone
    call,       \* applyVoucher, useVoucher and refundVoucher of each checkout
    update,     \* updateVoucher
    deletion,   \* delete
    \* history
    quantities, \* every quantity the voucher has had
    reused,     \* uses that found the user's row and so skipped the count
    slack,      \* how many calls were past the count when another one counted
    crowded,    \* users with two calls about to mark the same row, or a row detached
    raced       \* an operation began while another was in flight

history == <<quantities, reused, slack, crowded, raced>>
vars == <<voucher, rowOf, removed, handOut, call, update, deletion, history>>

RowState == {"none", "unused", "used"}
CallStep == {"idle", "find", "findRow", "count", "saveRow", "insertRow", "used",
             "refundRow", "refunded", "rejected"}
UpdateStep == {"idle", "count", "findUnused", "remove", "save", "done", "rejected"}
DeleteStep == {"idle", "deleteRows", "deleteVoucher", "done"}

Call == [pc : CallStep, phase : {"apply", "use"}, quantity : Nat]
Update == [pc : UpdateStep, quantity : Nat \cup {Unchanged},
           known : SUBSET Users, used : Nat, excess : SUBSET Users]

\* What find and count see: rows that are not soft-deleted.
Visible(u) == rowOf[u] # "none" /\ u \notin removed
VisibleUsers == {u \in Users : Visible(u)}
UnusedUsers == {u \in VisibleUsers : rowOf[u] = "unused"}
UsedUsers == {u \in VisibleUsers : rowOf[u] = "used"}
UsedCount == Cardinality(UsedUsers)

At(pc) == {c \in Calls : call[c].pc = pc}

InFlight ==
    \/ handOut
    \/ \E c \in Calls : call[c].pc \notin {"idle", "used", "refunded", "rejected"}
    \/ \E a \in Updates : update[a].pc \notin {"idle", "done", "rejected"}
    \/ deletion \notin {"idle", "done"}

Init ==
    /\ voucher = [state |-> "absent", quantity |-> 0]
    /\ rowOf = [u \in Users |-> "none"]
    /\ removed = {}
    /\ handOut = FALSE
    /\ call = [c \in Calls |-> [pc |-> "idle", phase |-> "apply", quantity |-> 0]]
    /\ update = [a \in Updates |-> [pc |-> "idle", quantity |-> Unchanged, known |-> {}, used |-> 0, excess |-> {}]]
    /\ deletion = "idle"
    /\ quantities = {}
    /\ reused = 0
    /\ slack = 0
    /\ crowded = {}
    /\ raced = FALSE
-----------------------------------------------------------------------------
(* createVoucher *)

\* With no quantity everyone is to get a row.
CreateVoucher ==
    /\ voucher.state = "absent"
    /\ \E quantity \in StartQuantities :
          /\ voucher' = [state |-> "live", quantity |-> quantity]
          /\ handOut' = (quantity = 0)
          /\ quantities' = {quantity}
    /\ raced' = (raced \/ InFlight)
    /\ UNCHANGED <<rowOf, removed, call, update, deletion, reused, slack, crowded>>

\* The rows are saved in one transaction: one duplicate and nobody gets any.
HandOut ==
    /\ handOut
    /\ handOut' = FALSE
    /\ rowOf' = IF \A u \in Users : rowOf[u] = "none" THEN [u \in Users |-> "unused"] ELSE rowOf
    /\ UNCHANGED <<voucher, removed, call, update, deletion, history>>
-----------------------------------------------------------------------------
(* applyVoucher, then useVoucher: the same queries, first to look and then  *)
(* to act.                                                                  *)

CallUnchanged == UNCHANGED <<voucher, removed, handOut, update, deletion, quantities>>

Apply(c) ==
    /\ call[c].pc = "idle"
    /\ call' = [call EXCEPT ![c].pc = "find"]
    /\ raced' = (raced \/ InFlight)
    /\ UNCHANGED <<rowOf, reused, slack, crowded>>
    /\ CallUnchanged

FindVoucher(c) ==
    /\ call[c].pc = "find"
    /\ call' = IF voucher.state = "live"
               THEN [call EXCEPT ![c].pc = "findRow", ![c].quantity = voucher.quantity]
               ELSE [call EXCEPT ![c].pc = "rejected"]
    /\ UNCHANGED <<rowOf, reused, slack, crowded, raced>>
    /\ CallUnchanged

\* applyVoucher's verdict is that the voucher is available; useVoucher goes on to write.
Granted(c, write) ==
    IF call[c].phase = "apply" THEN [call EXCEPT ![c].phase = "use", ![c].pc = "find"]
                               ELSE [call EXCEPT ![c].pc = write]

FindRow(c) ==
    LET u == UserOf[c]
        other == \E d \in At("saveRow") : UserOf[d] = u IN
    /\ call[c].pc = "findRow"
    /\ \/ /\ u \in UsedUsers
          /\ call' = [call EXCEPT ![c].pc = "rejected"]
          /\ UNCHANGED crowded
       \/ /\ u \in UnusedUsers
          /\ call' = Granted(c, "saveRow")
          /\ crowded' = IF other THEN crowded \cup {u} ELSE crowded
       \/ /\ u \notin VisibleUsers
          /\ call' = IF call[c].quantity > 0 THEN [call EXCEPT ![c].pc = "count"]
                                             ELSE Granted(c, "insertRow")
          /\ UNCHANGED crowded
    /\ UNCHANGED <<rowOf, reused, slack, raced>>
    /\ CallUnchanged

\* Mutant: the last use is granted once too often.
CountUsed_OffByOne(c) ==
    /\ call[c].pc = "count"
    /\ call' = IF UsedCount > call[c].quantity THEN [call EXCEPT ![c].pc = "rejected"]
                                               ELSE Granted(c, "insertRow")
    /\ slack' = Max({slack, Cardinality(At("insertRow"))})
    /\ UNCHANGED <<rowOf, reused, crowded, raced>>
    /\ CallUnchanged

CountUsed(c) ==
    /\ call[c].pc = "count"
    /\ call' = IF UsedCount >= call[c].quantity THEN [call EXCEPT ![c].pc = "rejected"]
                                                ELSE Granted(c, "insertRow")
    /\ slack' = Max({slack, Cardinality(At("insertRow"))})
    /\ UNCHANGED <<rowOf, reused, crowded, raced>>
    /\ CallUnchanged

\* Mutant: no unique index on (user, voucher).
InsertRow_NotUnique(c) ==
    /\ call[c].pc = "insertRow"
    /\ rowOf' = [rowOf EXCEPT ![UserOf[c]] = "used"]
    /\ call' = [call EXCEPT ![c].pc = "used"]
    /\ UNCHANGED <<reused, slack, crowded, raced>>
    /\ CallUnchanged

\* The unique index (user, voucher) covers soft-deleted rows too.
InsertRow(c) ==
    /\ call[c].pc = "insertRow"
    /\ IF rowOf[UserOf[c]] = "none"
       THEN /\ rowOf' = [rowOf EXCEPT ![UserOf[c]] = "used"]
            /\ call' = [call EXCEPT ![c].pc = "used"]
       ELSE /\ call' = [call EXCEPT ![c].pc = "rejected"]
            /\ UNCHANGED rowOf
    /\ UNCHANGED <<reused, slack, crowded, raced>>
    /\ CallUnchanged

\* The row is saved by its id, whatever has become of it.  It was read with
\* deletedAt null: saving it undoes a soft-removal since.
SaveRow(c) ==
    LET u == UserOf[c] IN
    /\ call[c].pc = "saveRow"
    /\ rowOf' = IF rowOf[u] = "none" THEN rowOf ELSE [rowOf EXCEPT ![u] = "used"]
    /\ removed' = removed \ {u}
    /\ call' = [call EXCEPT ![c].pc = "used"]
    /\ reused' = reused + 1
    /\ UNCHANGED <<voucher, handOut, update, deletion, quantities, slack, crowded, raced>>
-----------------------------------------------------------------------------
(* refundVoucher: the order's payment time is over.                         *)

RefundFind(c) ==
    /\ call[c].pc = "used"
    /\ voucher.state = "live"
    /\ call' = [call EXCEPT ![c].pc = "refundRow"]
    /\ raced' = (raced \/ InFlight)
    /\ UNCHANGED <<rowOf, reused, slack, crowded>>
    /\ CallUnchanged

\* An UPDATE, which does not care whether the row is soft-deleted.
RefundRow(c) ==
    LET u == UserOf[c] IN
    /\ call[c].pc = "refundRow"
    /\ rowOf' = IF rowOf[u] = "used" THEN [rowOf EXCEPT ![u] = "unused"] ELSE rowOf
    /\ call' = [call EXCEPT ![c].pc = "refunded"]
    /\ UNCHANGED <<reused, slack, crowded, raced>>
    /\ CallUnchanged
-----------------------------------------------------------------------------
(* updateVoucher *)

UpdateUnchanged == UNCHANGED <<handOut, call, deletion, reused, slack>>

\* The entity is loaded with its rows, which the last save compares again.
UpdateFind(a) ==
    /\ update[a].pc = "idle"
    /\ voucher.state = "live"
    /\ \E quantity \in NewQuantities :
          update' = [update EXCEPT ![a].pc = "count", ![a].quantity = quantity,
                                   ![a].known = VisibleUsers]
    /\ raced' = (raced \/ InFlight)
    /\ UNCHANGED <<voucher, rowOf, removed, quantities, crowded>>
    /\ UpdateUnchanged

UpdateCount(a) ==
    /\ update[a].pc = "count"
    /\ update' = [update EXCEPT
          ![a].used = UsedCount,
          ![a].pc = IF update[a].quantity \in {Unchanged, UsedCount} THEN "save"
                    ELSE IF update[a].quantity < UsedCount THEN "rejected" ELSE "findUnused"]
    /\ UNCHANGED <<voucher, rowOf, removed, quantities, crowded, raced>>
    /\ UpdateUnchanged

\* Mutant: the uses so far are not taken off the new quantity.
Surplus_UsedForgotten(a) == Cardinality(UnusedUsers) - update[a].quantity

\* How many unused rows the new quantity leaves no room for.
Surplus(a) == Cardinality(UnusedUsers) - (update[a].quantity - update[a].used)

\* The oldest go; rows handed out together are equally old.
FindUnused(a) ==
    /\ update[a].pc = "findUnused"
    /\ IF Surplus(a) > 0
       THEN \E excess \in SUBSET UnusedUsers :
              /\ Cardinality(excess) = Surplus(a)
              /\ update' = [update EXCEPT ![a].pc = "remove", ![a].excess = excess]
       ELSE update' = [update EXCEPT ![a].pc = "save"]
    /\ UNCHANGED <<voucher, rowOf, removed, quantities, crowded, raced>>
    /\ UpdateUnchanged

\* softRemove of the rows as they were read, used or not by now.
RemoveExcess(a) ==
    /\ update[a].pc = "remove"
    /\ removed' = removed \cup {u \in update[a].excess : rowOf[u] # "none"}
    /\ update' = [update EXCEPT ![a].pc = "save", ![a].excess = {}]
    /\ UNCHANGED <<voucher, rowOf, quantities, crowded, raced>>
    /\ UpdateUnchanged

SavedQuantity(a) ==
    IF update[a].quantity = Unchanged THEN voucher.quantity ELSE update[a].quantity

\* save(voucher): rows the entity was not loaded with lose their voucher, and
\* its deletedAt = null brings a voucher back that was deleted meanwhile.
SaveVoucher(a) ==
    LET detached == VisibleUsers \ update[a].known IN
    /\ update[a].pc = "save"
    /\ voucher' = [state |-> "live", quantity |-> SavedQuantity(a)]
    /\ quantities' = quantities \cup {voucher'.quantity}
    /\ rowOf' = [u \in Users |-> IF u \in detached THEN "none" ELSE rowOf[u]]
    /\ crowded' = crowded \cup detached
    /\ update' = [update EXCEPT ![a].pc = "done", ![a].known = {}, ![a].used = 0]
    /\ UNCHANGED <<removed, raced>>
    /\ UpdateUnchanged
-----------------------------------------------------------------------------
(* delete *)

DeleteUnchanged == UNCHANGED <<rowOf, handOut, call, update, quantities, reused, slack, crowded>>

DeleteFind ==
    /\ deletion = "idle"
    /\ voucher.state = "live"
    /\ deletion' = IF VisibleUsers = {} THEN "deleteVoucher" ELSE "deleteRows"
    /\ raced' = (raced \/ InFlight)
    /\ UNCHANGED <<voucher, removed>>
    /\ DeleteUnchanged

DeleteRows ==
    /\ deletion = "deleteRows"
    /\ deletion' = "deleteVoucher"
    /\ removed' = {u \in Users : rowOf[u] # "none"}
    /\ UNCHANGED <<voucher, raced>>
    /\ DeleteUnchanged

DeleteVoucher ==
    /\ deletion = "deleteVoucher"
    /\ deletion' = "done"
    /\ voucher' = [voucher EXCEPT !.state = "deleted"]
    /\ UNCHANGED <<removed, raced>>
    /\ DeleteUnchanged
-----------------------------------------------------------------------------
CallStepOf(c) ==
    \/ Apply(c) \/ FindVoucher(c) \/ FindRow(c) \/ CountUsed(c) \/ InsertRow(c) \/ SaveRow(c)
    \/ RefundFind(c) \/ RefundRow(c)

UpdateStepOf(a) ==
    UpdateFind(a) \/ UpdateCount(a) \/ FindUnused(a) \/ RemoveExcess(a) \/ SaveVoucher(a)

Next ==
    \/ CreateVoucher
    \/ HandOut
    \/ \E c \in Calls : CallStepOf(c)
    \/ \E a \in Updates : UpdateStepOf(a)
    \/ DeleteFind
    \/ DeleteRows
    \/ DeleteVoucher

Spec == Init /\ [][Next]_vars
-----------------------------------------------------------------------------
TypeOK ==
    /\ voucher \in [state : {"absent", "live", "deleted"}, quantity : Nat]
    /\ rowOf \in [Users -> RowState]
    /\ removed \subseteq Users
    /\ handOut \in BOOLEAN
    /\ call \in [Calls -> Call]
    /\ update \in [Updates -> Update]
    /\ deletion \in DeleteStep
    /\ quantities \subseteq Nat
    /\ reused \in Nat
    /\ slack \in Nat
    /\ crowded \subseteq Users
    /\ raced \in BOOLEAN

(* A voucher that was always limited is used no more often than its        *)
(* largest quantity allows, plus the uses that found a row and skipped the *)
(* count, plus the calls that slipped between another's count and insert.  *)
LimitKept ==
    0 \notin quantities /\ UsedCount > 0 =>
        \E q \in quantities : UsedCount <= q + reused + slack

(* However the calls of a user interleave, one use at most stands: rows    *)
(* that are inserted meet the unique index.  Excepted are users with two   *)
(* calls about to mark the same row, or whose row an update detached.      *)
OncePerUser ==
    \A u \in Users \ crowded :
        Cardinality({c \in Calls : UserOf[c] = u /\ call[c].pc \in {"used", "refundRow"}}) <= 1

(* Where no operations overlap, an update to a larger number than the uses *)
(* so far leaves no more rows, used and unused, than that number.          *)
RowsFitQuantity ==
    [][\A a \in Updates :
         SaveVoucher(a) /\ ~raced /\ update[a].quantity # Unchanged
                        /\ update[a].quantity > update[a].used
         => Cardinality(VisibleUsers') <= update[a].quantity]_vars
-----------------------------------------------------------------------------
(* getVoucherByCode: what the customer is told before the checkout, by the  *)
(* same three questions that applyVoucher and useVoucher ask again.         *)
getVoucherByCode(u) ==
    /\ voucher.state = "live"
    /\ u \notin UsedUsers
    /\ u \in UnusedUsers \/ voucher.quantity = 0 \/ UsedCount < voucher.quantity

(* Where no operations overlap, a checkout is refused the voucher only if   *)
(* the customer would have been told so, and granted only if not.  Excepted *)
(* are customers whose row an update or a deletion has soft-removed: they   *)
(* are told yes by both, and then their new row meets the unique index.     *)
PreviewHonoured ==
    [][~raced' => \A c \in Calls :
         LET u == UserOf[c] IN
         /\ call[c].pc # "rejected" /\ call'[c].pc = "rejected" /\ u \notin removed
               => ~getVoucherByCode(u)
         /\ call[c].pc # "used" /\ call'[c].pc = "used" => getVoucherByCode(u)]_vars
-----------------------------------------------------------------------------
(* "Nếu là voucher limit → kiểm tra số lượng và đánh dấu đã dùng" (lines 93 *)
(* and 184): a limited voucher's quantity is checked before it is marked   *)
(* as used.  With no calls overlapping, then, its uses are within it.      *)
UsesWithinQuantity == voucher.quantity > 0 /\ ~raced => UsedCount <= voucher.quantity
=============================================================================
