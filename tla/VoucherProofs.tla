--------------------------- MODULE VoucherProofs ----------------------------
(***************************************************************************)
(* For any number of users, calls and updates: how far a limited voucher's *)
(* uses can exceed its quantity, that one use per user stands, and what    *)
(* the preview and an update promise where no operations overlap.          *)
(*                                                                         *)
(* A use is granted on a count and inserted later, so LimitInv counts the  *)
(* granted inserts with the uses (Taken), and says of a call that is about *)
(* to compare that the quantity it holds is one the voucher had.  UsesInv  *)
(* relates each call past its look at the row to the row.  QuietInv says   *)
(* of the one operation in flight that what it has read is still so.       *)
(***************************************************************************)
EXTENDS Voucher, FiniteSetTheorems, TLAPS

(* TypeOK *)

LEMMA Counts ==
    ASSUME NEW S \in SUBSET Users
    PROVE  IsFiniteSet(S) /\ Cardinality(S) \in Nat
BY VoucherAssumption, FS_Subset, FS_CardinalityType

LEMMA CountsCalls ==
    ASSUME NEW S \in SUBSET Calls
    PROVE  IsFiniteSet(S) /\ Cardinality(S) \in Nat
BY VoucherAssumption, FS_Subset, FS_CardinalityType

LEMMA MaxOfTwo ==
    ASSUME NEW a \in Nat, NEW b \in Nat
    PROVE  Max({a, b}) \in Nat /\ Max({a, b}) >= a /\ Max({a, b}) >= b
<1>1. \E x \in {a, b} : \A y \in {a, b} : x >= y
  <2>1. CASE a >= b
    BY <2>1
  <2>2. CASE ~(a >= b)
    BY <2>2
  <2>3. QED
    BY <2>1, <2>2
<1>2. Max({a, b}) \in {a, b} /\ \A y \in {a, b} : Max({a, b}) >= y
  BY <1>1, Zenon DEF Max
<1>3. QED
  BY <1>2

LEMMA UsedIsNat == UsedCount \in Nat
<1>1. UsedUsers \in SUBSET Users
  BY DEF UsedUsers, VisibleUsers
<1>2. QED
  BY <1>1, Counts DEF UsedCount

LEMMA InsertingIsNat == \A pc : Cardinality(At(pc)) \in Nat
<1>1. \A pc : At(pc) \in SUBSET Calls
  BY DEF At
<1>2. QED
  BY <1>1, CountsCalls

THEOREM InitType == Init => TypeOK
<1> SUFFICES ASSUME Init PROVE TypeOK
  OBVIOUS
<1>1. call \in [Calls -> Call]
  BY DEF Init, Call, CallStep
<1>2. update \in [Updates -> Update]
  BY DEF Init, Update, UpdateStep
<1>3. QED
  BY <1>1, <1>2 DEF Init, TypeOK, RowState, DeleteStep

LEMMA CallType ==
    ASSUME TypeOK, NEW c \in Calls, CallStepOf(c)
    PROVE  TypeOK'
<1> USE DEF TypeOK, CallUnchanged
<1>a. UserOf[c] \in Users
  BY VoucherAssumption
<1>0. \A pc \in CallStep : Granted(c, pc) \in [Calls -> Call]
  BY DEF Granted, Call, CallStep
<1>1. CASE Apply(c)
  <2>1. call' \in [Calls -> Call]
    BY <1>1 DEF Apply, Call, CallStep
  <2>2. raced' \in BOOLEAN
    BY <1>1 DEF Apply
  <2>3. QED
    BY <1>1, <2>1, <2>2 DEF Apply
<1>2. CASE FindVoucher(c)
  <2>1. call' \in [Calls -> Call]
    BY <1>2 DEF FindVoucher, Call, CallStep
  <2>2. QED
    BY <1>2, <2>1 DEF FindVoucher
<1>3. CASE FindRow(c)
  <2>1. call' \in [Calls -> Call]
    <3>1. "saveRow" \in CallStep /\ "insertRow" \in CallStep
      BY DEF CallStep
    <3>2. \/ call' = [call EXCEPT ![c].pc = "rejected"] \/ call' = [call EXCEPT ![c].pc = "count"]
          \/ call' = Granted(c, "saveRow") \/ call' = Granted(c, "insertRow")
      BY <1>3 DEF FindRow
    <3>3. \A pc \in CallStep : [call EXCEPT ![c].pc = pc] \in [Calls -> Call]
      BY DEF Call
    <3>4. "rejected" \in CallStep /\ "count" \in CallStep
      BY DEF CallStep
    <3>5. QED
      BY <1>0, <3>1, <3>2, <3>3, <3>4, Zenon
  <2>2. crowded' \subseteq Users
    BY <1>3, <1>a DEF FindRow
  <2>3. QED
    BY <1>3, <2>1, <2>2 DEF FindRow
<1>4. CASE CountUsed(c)
  <2>1. call' \in [Calls -> Call]
    <3>1. "insertRow" \in CallStep
      BY DEF CallStep
    <3>2. call' = [call EXCEPT ![c].pc = "rejected"] \/ call' = Granted(c, "insertRow")
      BY <1>4 DEF CountUsed
    <3>3. \A pc \in CallStep : [call EXCEPT ![c].pc = pc] \in [Calls -> Call]
      BY DEF Call
    <3>4. "rejected" \in CallStep /\ "count" \in CallStep
      BY DEF CallStep
    <3>5. QED
      BY <1>0, <3>1, <3>2, <3>3, <3>4, Zenon
  <2>2. slack' \in Nat
    BY <1>4, MaxOfTwo, InsertingIsNat DEF CountUsed
  <2>3. QED
    BY <1>4, <2>1, <2>2 DEF CountUsed
<1>5. CASE InsertRow(c)
  <2>1. call' \in [Calls -> Call]
    BY <1>5 DEF InsertRow, Call, CallStep
  <2>2. rowOf' \in [Users -> RowState]
    BY <1>5 DEF InsertRow, RowState
  <2>3. QED
    BY <1>5, <2>1, <2>2 DEF InsertRow
<1>6. CASE SaveRow(c)
  <2>1. call' \in [Calls -> Call]
    BY <1>6 DEF SaveRow, Call, CallStep
  <2>2. rowOf' \in [Users -> RowState]
    BY <1>6 DEF SaveRow, RowState
  <2>3. QED
    BY <1>6, <2>1, <2>2 DEF SaveRow
<1>7. CASE RefundFind(c)
  <2>1. call' \in [Calls -> Call]
    BY <1>7 DEF RefundFind, Call, CallStep
  <2>2. raced' \in BOOLEAN
    BY <1>7 DEF RefundFind
  <2>3. QED
    BY <1>7, <2>1, <2>2 DEF RefundFind
<1>8. CASE RefundRow(c)
  <2>1. call' \in [Calls -> Call]
    BY <1>8 DEF RefundRow, Call, CallStep
  <2>2. rowOf' \in [Users -> RowState]
    BY <1>8 DEF RefundRow, RowState
  <2>3. QED
    BY <1>8, <2>1, <2>2 DEF RefundRow
<1>9. QED
  BY <1>1, <1>2, <1>3, <1>4, <1>5, <1>6, <1>7, <1>8 DEF CallStepOf

\* The fields an update's steps write.
LEMMA UpdateFields ==
    ASSUME TypeOK, NEW a \in Updates, NEW pc \in UpdateStep
    PROVE  /\ [update EXCEPT ![a].pc = pc] \in [Updates -> Update]
           /\ \A quantity \in Nat \cup {Unchanged}, known \in SUBSET Users :
                 [update EXCEPT ![a].pc = pc, ![a].quantity = quantity, ![a].known = known]
                    \in [Updates -> Update]
           /\ \A used \in Nat : [update EXCEPT ![a].used = used, ![a].pc = pc] \in [Updates -> Update]
           /\ \A excess \in SUBSET Users :
                 [update EXCEPT ![a].pc = pc, ![a].excess = excess] \in [Updates -> Update]
           /\ \A known \in SUBSET Users, used \in Nat :
                 [update EXCEPT ![a].pc = pc, ![a].known = known, ![a].used = used]
                    \in [Updates -> Update]
<1> DEFINE Quantity == Nat \cup {Unchanged}
           Uses == Nat
           Known == SUBSET Users
<1>0. update \in [Updates -> [pc : UpdateStep, quantity : Quantity, known : Known, used : Uses, excess : Known]]
  BY DEF TypeOK, Update
<1> DEFINE Updating == [Updates -> [pc : UpdateStep, quantity : Quantity, known : Known, used : Uses, excess : Known]]
<1> HIDE DEF Quantity, Uses, Known
<1>1. [update EXCEPT ![a].pc = pc] \in Updating
  BY <1>0
<1>2. ASSUME NEW quantity \in Quantity, NEW known \in Known
      PROVE  [update EXCEPT ![a].pc = pc, ![a].quantity = quantity, ![a].known = known] \in Updating
  BY <1>0
<1>3. ASSUME NEW used \in Uses
      PROVE  [update EXCEPT ![a].used = used, ![a].pc = pc] \in Updating
  BY <1>0
<1>4. ASSUME NEW excess \in Known
      PROVE  [update EXCEPT ![a].pc = pc, ![a].excess = excess] \in Updating
  BY <1>0
<1>5. ASSUME NEW known \in Known, NEW used \in Uses
      PROVE  [update EXCEPT ![a].pc = pc, ![a].known = known, ![a].used = used] \in Updating
  BY <1>0
<1>6. QED
  BY <1>1, <1>2, <1>3, <1>4, <1>5, Zenon DEF Quantity, Uses, Known, Update

LEMMA UpdateType ==
    ASSUME TypeOK, NEW a \in Updates, UpdateStepOf(a)
    PROVE  TypeOK'
<1> USE DEF TypeOK, UpdateUnchanged
<1>1. CASE UpdateFind(a)
  <2>1. PICK quantity \in NewQuantities :
           update' = [update EXCEPT ![a].pc = "count", ![a].quantity = quantity, ![a].known = VisibleUsers]
    BY <1>1 DEF UpdateFind
  <2>2. update' \in [Updates -> Update]
    <3>1. /\ quantity \in Nat \cup {Unchanged} /\ VisibleUsers \in SUBSET Users
          /\ "count" \in UpdateStep
      BY VoucherAssumption DEF VisibleUsers, UpdateStep
    <3>2. QED
      BY <2>1, <3>1, UpdateFields, Zenon
  <2>3. raced' \in BOOLEAN
    BY <1>1 DEF UpdateFind
  <2>4. QED
    BY <1>1, <2>2, <2>3 DEF UpdateFind
<1>2. CASE UpdateCount(a)
  <2> DEFINE pc == IF update[a].quantity \in {Unchanged, UsedCount} THEN "save"
                   ELSE IF update[a].quantity < UsedCount THEN "rejected" ELSE "findUnused"
  <2>1. pc \in UpdateStep
    BY DEF UpdateStep
  <2>2. update' = [update EXCEPT ![a].used = UsedCount, ![a].pc = pc]
    BY <1>2 DEF UpdateCount
  <2> HIDE DEF pc
  <2>3. update' \in [Updates -> Update]
    BY <2>1, <2>2, UsedIsNat, UpdateFields, Zenon
  <2>4. QED
    BY <1>2, <2>3 DEF UpdateCount
<1>3. CASE FindUnused(a)
  <2>1. UnusedUsers \subseteq Users
    BY DEF UnusedUsers, VisibleUsers
  <2>2. \/ update' = [update EXCEPT ![a].pc = "save"]
        \/ \E excess \in SUBSET UnusedUsers :
              update' = [update EXCEPT ![a].pc = "remove", ![a].excess = excess]
    BY <1>3 DEF FindUnused
  <2>3. update' \in [Updates -> Update]
    BY <2>1, <2>2 DEF Update, UpdateStep
  <2>4. QED
    BY <1>3, <2>3 DEF FindUnused
<1>4. CASE RemoveExcess(a)
  <2>1. update' \in [Updates -> Update]
    <3>1. {} \in SUBSET Users /\ "save" \in UpdateStep
      BY DEF UpdateStep
    <3>2. update' = [update EXCEPT ![a].pc = "save", ![a].excess = {}]
      BY <1>4 DEF RemoveExcess
    <3>3. QED
      BY <3>1, <3>2, UpdateFields, Zenon
  <2>2. removed' \subseteq Users
    BY <1>4 DEF RemoveExcess, Update
  <2>3. QED
    BY <1>4, <2>1, <2>2 DEF RemoveExcess
<1>5. CASE SaveVoucher(a)
  <2>1. update' \in [Updates -> Update]
    <3>1. {} \in SUBSET Users /\ 0 \in Nat /\ "done" \in UpdateStep
      BY DEF UpdateStep
    <3>2. update' = [update EXCEPT ![a].pc = "done", ![a].known = {}, ![a].used = 0]
      BY <1>5 DEF SaveVoucher
    <3>3. QED
      BY <3>1, <3>2, UpdateFields, Zenon
  <2>2. SavedQuantity(a) \in Nat
    BY DEF SavedQuantity, Update
  <2>3. /\ voucher' \in [state : {"absent", "live", "deleted"}, quantity : Nat]
        /\ voucher'.quantity \in Nat
    BY <1>5, <2>2 DEF SaveVoucher
  <2>4. rowOf' \in [Users -> RowState]
    BY <1>5 DEF SaveVoucher, RowState
  <2>5. quantities' \subseteq Nat /\ crowded' \subseteq Users
    BY <1>5, <2>3 DEF SaveVoucher, VisibleUsers
  <2>6. QED
    BY <1>5, <2>1, <2>3, <2>4, <2>5 DEF SaveVoucher
<1>6. QED
  BY <1>1, <1>2, <1>3, <1>4, <1>5 DEF UpdateStepOf

THEOREM StepType == TypeOK /\ [Next]_vars => TypeOK'
<1> SUFFICES ASSUME TypeOK, [Next]_vars PROVE TypeOK'
  OBVIOUS
<1> USE DEF TypeOK, DeleteUnchanged
<1>1. CASE CreateVoucher
  <2>1. PICK quantity \in StartQuantities :
           /\ voucher' = [state |-> "live", quantity |-> quantity]
           /\ handOut' = (quantity = 0) /\ quantities' = {quantity}
    BY <1>1 DEF CreateVoucher
  <2>2. quantity \in Nat
    BY VoucherAssumption
  <2>3. QED
    BY <1>1, <2>1, <2>2 DEF CreateVoucher
<1>2. CASE HandOut
  <2>1. rowOf' \in [Users -> RowState]
    BY <1>2 DEF HandOut, RowState
  <2>2. QED
    BY <1>2, <2>1 DEF HandOut, history
<1>3. CASE DeleteFind
  <2>1. deletion' \in DeleteStep /\ raced' \in BOOLEAN
    BY <1>3 DEF DeleteFind, DeleteStep
  <2>2. QED
    BY <1>3, <2>1 DEF DeleteFind
<1>4. CASE DeleteRows
  BY <1>4 DEF DeleteRows, DeleteStep
<1>5. CASE DeleteVoucher
  <2>1. voucher' \in [state : {"absent", "live", "deleted"}, quantity : Nat]
    BY <1>5 DEF DeleteVoucher
  <2>2. QED
    BY <1>5, <2>1 DEF DeleteVoucher, DeleteStep
<1>6. CASE UNCHANGED vars
  BY <1>6 DEF vars, history
<1>7. QED
  BY <1>1, <1>2, <1>3, <1>4, <1>5, <1>6, CallType, UpdateType DEF Next

(* The voucher's model keeps its types.                                    *)
THEOREM VoucherTypeCorrect == Spec => []TypeOK
<1>1. QED
  BY InitType, StepType, PTL DEF Spec
-----------------------------------------------------------------------------
(* LimitKept *)

\* The uses, with those that have been granted and not yet inserted.
Taken == UsedCount + Cardinality(At("insertRow"))

Covered ==
    0 \notin quantities /\ Taken > 0 => \E q \in quantities : Taken <= q + reused + slack

\* Before createVoucher nobody gets past find.
NothingYet ==
    voucher.state = "absent" =>
        /\ \A u \in Users : rowOf[u] # "used"
        /\ \A c \in Calls : call[c].pc \in {"idle", "find", "rejected"}
        /\ deletion = "idle"

\* A quantity that is held, or in the row, is one the voucher had.
HeldQuantity(c) == call[c].pc \in {"findRow", "count"} => call[c].quantity \in quantities

LimitInv ==
    /\ NothingYet
    /\ voucher.state # "absent" => voucher.quantity \in quantities
    /\ \A c \in Calls : HeldQuantity(c)
    /\ Covered

LEMMA TakenIsNat == UsedCount \in Nat /\ Cardinality(At("insertRow")) \in Nat /\ Taken \in Nat
BY UsedIsNat, InsertingIsNat DEF Taken

LEMMA NothingTaken ==
    ASSUME \A u \in Users : rowOf[u] # "used", \A c \in Calls : call[c].pc # "insertRow"
    PROVE  Taken = 0
<1>1. UsedUsers = {} /\ At("insertRow") = {}
  BY DEF UsedUsers, At, VisibleUsers
<1>2. QED
  BY <1>1, FS_EmptySet DEF Taken, UsedCount

THEOREM InitLimit == Init => LimitInv
<1> SUFFICES ASSUME Init PROVE LimitInv
  OBVIOUS
<1>1. (\A u \in Users : rowOf[u] # "used") /\ (\A c \in Calls : call[c].pc = "idle")
  BY DEF Init
<1>2. Taken = 0
  BY <1>1, NothingTaken
<1>3. QED
  BY <1>1, <1>2 DEF Init, LimitInv, NothingYet, HeldQuantity, Covered

\* As long as no use and no grant is added, what covered them still does.
LEMMA StillCovered ==
    ASSUME TypeOK, TypeOK', Covered, UsedUsers' \subseteq UsedUsers,
           At("insertRow")' \subseteq At("insertRow"),
           quantities \subseteq quantities', reused' = reused, slack' = slack
    PROVE  Covered'
<1>1. UsedUsers \in SUBSET Users /\ At("insertRow") \in SUBSET Calls
  BY DEF UsedUsers, VisibleUsers, At
<1>2. IsFiniteSet(UsedUsers) /\ IsFiniteSet(At("insertRow"))
  BY <1>1, Counts, CountsCalls
<1>3. UsedCount' <= UsedCount /\ UsedCount' \in Nat
  BY <1>2, FS_Subset, FS_CardinalityType DEF UsedCount
<1>4. Cardinality(At("insertRow")') <= Cardinality(At("insertRow"))
      /\ Cardinality(At("insertRow")') \in Nat
  BY <1>2, FS_Subset, FS_CardinalityType
<1>5. Taken' <= Taken /\ Taken' \in Nat
  BY <1>3, <1>4, TakenIsNat DEF Taken
<1>6. SUFFICES ASSUME 0 \notin quantities', Taken' > 0
               PROVE  \E q \in quantities' : Taken' <= q + reused' + slack'
  BY DEF Covered
<1>7. PICK q \in quantities : Taken <= q + reused + slack
  BY <1>5, <1>6, TakenIsNat DEF Covered
<1>8. q \in Nat /\ reused \in Nat /\ slack \in Nat
  BY DEF TypeOK
<1>9. Taken' <= q + reused + slack
  BY <1>5, <1>7, <1>8, TakenIsNat
<1>10. QED
  BY <1>7, <1>9

\* Two sets of which one element moves.
LEMMA OneMore ==
    ASSUME NEW S, NEW T, NEW x, IsFiniteSet(S), T \subseteq S \cup {x}
    PROVE  IsFiniteSet(T) /\ Cardinality(T) <= Cardinality(S) + 1
           /\ Cardinality(S) \in Nat /\ Cardinality(T) \in Nat
<1>0. Cardinality(S) \in Nat
  BY FS_CardinalityType
<1>1. IsFiniteSet(S \cup {x}) /\ Cardinality(S \cup {x}) <= Cardinality(S) + 1
  <2>1. /\ IsFiniteSet(S \cup {x})
        /\ Cardinality(S \cup {x}) \in {Cardinality(S), Cardinality(S) + 1}
    BY FS_AddElement
  <2>2. QED
    BY <1>0, <2>1
<1>2. IsFiniteSet(T) /\ Cardinality(T) <= Cardinality(S \cup {x})
  BY <1>1, FS_Subset
<1>3. Cardinality(S) \in Nat /\ Cardinality(T) \in Nat /\ Cardinality(S \cup {x}) \in Nat
  BY <1>1, <1>2, FS_CardinalityType
<1>4. QED
  BY <1>1, <1>2, <1>3

LEMMA OneLess ==
    ASSUME NEW S, NEW T, NEW x \in S, IsFiniteSet(S), T \subseteq S \ {x}
    PROVE  Cardinality(T) <= Cardinality(S) - 1
<1>1. IsFiniteSet(S \ {x}) /\ Cardinality(S \ {x}) = Cardinality(S) - 1
  BY FS_RemoveElement
<1>2. Cardinality(T) <= Cardinality(S \ {x})
  BY <1>1, FS_Subset
<1>3. QED
  BY <1>1, <1>2

LEMMA CallLimit ==
    ASSUME TypeOK, TypeOK', LimitInv, NEW c \in Calls, CallStepOf(c)
    PROVE  LimitInv'
<1> USE DEF CallUnchanged
<1>a. UserOf[c] \in Users /\ call \in [Calls -> Call] /\ rowOf \in [Users -> RowState]
  BY VoucherAssumption DEF TypeOK
<1>b. UsedUsers \in SUBSET Users /\ At("insertRow") \in SUBSET Calls
  BY DEF UsedUsers, VisibleUsers, At
<1>c. IsFiniteSet(UsedUsers) /\ IsFiniteSet(At("insertRow"))
  BY <1>b, Counts, CountsCalls
<1>d. reused \in Nat /\ slack \in Nat /\ quantities \subseteq Nat
  BY DEF TypeOK
\* Everything but Covered, when the call does not start to hold a quantity.
<1>1. ASSUME voucher' = voucher, quantities' = quantities,
             voucher.state = "absent" => /\ \A u \in Users : rowOf'[u] # "used"
                                         /\ call'[c].pc \in {"idle", "find", "rejected"},
             \A d \in Calls : d # c => call'[d] = call[d],
             HeldQuantity(c)', Covered'
      PROVE  LimitInv'
  <2>1. \A d \in Calls : HeldQuantity(d)'
    BY <1>1 DEF LimitInv, HeldQuantity
  <2>2. deletion' = deletion
    BY DEF CallStepOf, Apply, FindVoucher, FindRow, CountUsed, InsertRow, SaveRow, RefundFind, RefundRow
  <2>3. NothingYet'
    BY <1>1, <2>2 DEF LimitInv, NothingYet
  <2>4. QED
    BY <1>1, <2>1, <2>3 DEF LimitInv
<1>2. CASE Apply(c)
  <2>1. /\ call'[c].pc = "find" /\ \A d \in Calls : d # c => call'[d] = call[d]
        /\ UNCHANGED <<voucher, rowOf, removed, quantities, reused, slack>>
    BY <1>2, <1>a DEF Apply, Call
  <2>2. At("insertRow")' \subseteq At("insertRow") /\ UsedUsers' = UsedUsers
    BY <2>1 DEF At, UsedUsers, VisibleUsers, Visible
  <2>3. Covered' /\ HeldQuantity(c)'
    BY <2>1, <2>2, StillCovered DEF LimitInv, HeldQuantity
  <2>4. QED
    BY <1>1, <2>1, <2>3 DEF LimitInv, NothingYet
<1>3. CASE FindVoucher(c)
  <2>1. /\ \A d \in Calls : d # c => call'[d] = call[d]
        /\ \/ voucher.state = "live" /\ call'[c].pc = "findRow" /\ call'[c].quantity = voucher.quantity
           \/ call'[c].pc = "rejected"
        /\ UNCHANGED <<voucher, rowOf, removed, quantities, reused, slack>>
    BY <1>3, <1>a DEF FindVoucher, Call
  <2>2. At("insertRow")' \subseteq At("insertRow") /\ UsedUsers' = UsedUsers
    BY <2>1 DEF At, UsedUsers, VisibleUsers, Visible
  <2>3. Covered' /\ HeldQuantity(c)'
    BY <2>1, <2>2, StillCovered DEF LimitInv, HeldQuantity
  <2>4. QED
    BY <1>1, <2>1, <2>3 DEF LimitInv, NothingYet
<1>4. CASE FindRow(c)
  <2>1. /\ call[c].pc = "findRow" /\ \A d \in Calls : d # c => call'[d] = call[d]
        /\ UNCHANGED <<voucher, rowOf, removed, quantities, reused, slack>>
    BY <1>4, <1>a DEF FindRow, Granted, Call
  <2>2. \/ call'[c].pc \in {"rejected", "saveRow", "find"}
        \/ call'[c].pc = "count" /\ call'[c].quantity = call[c].quantity
        \/ call'[c].pc = "insertRow" /\ ~(call[c].quantity > 0)
    BY <1>4, <1>a DEF FindRow, Granted, Call
  <2>3. HeldQuantity(c)' /\ call[c].quantity \in quantities
    BY <2>1, <2>2 DEF LimitInv, HeldQuantity
  <2>4. UsedUsers' = UsedUsers
    BY <2>1 DEF UsedUsers, VisibleUsers, Visible
  <2>5. Covered'
    <3>1. CASE call'[c].pc = "insertRow"
      <4>1. call[c].quantity = 0
        BY <1>a, <2>2, <3>1 DEF Call
      <4>2. QED
        BY <2>1, <2>3, <4>1 DEF Covered
    <3>2. CASE call'[c].pc # "insertRow"
      <4>1. At("insertRow")' \subseteq At("insertRow")
        BY <2>1, <3>2 DEF At
      <4>2. QED
        BY <2>1, <2>4, <4>1, StillCovered DEF LimitInv
    <3>3. QED
      BY <3>1, <3>2
  <2>6. QED
    BY <1>1, <2>1, <2>3, <2>5 DEF LimitInv, NothingYet
<1>5. CASE CountUsed(c)
  <2>1. /\ call[c].pc = "count" /\ \A d \in Calls : d # c => call'[d] = call[d]
        /\ UNCHANGED <<voucher, rowOf, removed, quantities, reused>>
        /\ slack' = Max({slack, Cardinality(At("insertRow"))})
    BY <1>5, <1>a DEF CountUsed, Granted, Call
  <2>2. \/ call'[c].pc \in {"rejected", "find"}
        \/ call'[c].pc = "insertRow" /\ ~(UsedCount >= call[c].quantity)
    BY <1>5, <1>a DEF CountUsed, Granted, Call
  <2>3. call[c].quantity \in quantities /\ call[c].quantity \in Nat
    BY <1>a, <2>1 DEF LimitInv, HeldQuantity, Call
  <2>4. slack' >= slack /\ slack' >= Cardinality(At("insertRow")) /\ slack' \in Nat
    BY <1>d, <2>1, MaxOfTwo, InsertingIsNat
  <2>5. UsedUsers' = UsedUsers /\ UsedCount' = UsedCount
    BY <2>1 DEF UsedCount, UsedUsers, VisibleUsers, Visible
  <2>6. Covered'
    <3>1. CASE call'[c].pc = "insertRow"
      <4>1. At("insertRow")' \subseteq At("insertRow") \cup {c}
        BY <2>1 DEF At
      <4>2. Cardinality(At("insertRow")') <= Cardinality(At("insertRow")) + 1
            /\ Cardinality(At("insertRow")') \in Nat
        BY <1>c, <4>1, OneMore
      <4>3. UsedCount < call[c].quantity
        BY <2>2, <2>3, <3>1, UsedIsNat
      <4>4. Taken' <= call[c].quantity + reused + slack'
        BY <1>d, <2>3, <2>4, <2>5, <4>2, <4>3, TakenIsNat DEF Taken
      <4>5. QED
        BY <2>1, <2>3, <4>4 DEF Covered
    <3>2. CASE call'[c].pc # "insertRow"
      <4>1. At("insertRow")' = At("insertRow")
        BY <2>1, <3>2 DEF At
      <4>2. Taken' = Taken
        BY <2>5, <4>1 DEF Taken
      <4>3. SUFFICES ASSUME 0 \notin quantities, Taken > 0
                     PROVE  \E q \in quantities : Taken <= q + reused + slack'
        BY <2>1, <4>2 DEF Covered
      <4>4. PICK q \in quantities : Taken <= q + reused + slack
        BY <4>3 DEF LimitInv, Covered
      <4>5. q \in Nat /\ reused \in Nat /\ slack \in Nat /\ Taken \in Nat
        BY <1>d, TakenIsNat
      <4>6. Taken <= q + reused + slack'
        <5>1. slack' >= slack /\ slack' \in Nat
          BY <2>4
        <5>2. \A t, n, r, k \in Nat, m \in Nat : t <= n + r + k /\ m >= k => t <= n + r + m
          OBVIOUS
        <5>3. QED
          BY <4>4, <4>5, <5>1, <5>2
      <4>7. QED
        BY <4>6
    <3>3. QED
      BY <3>1, <3>2
  <2>7. HeldQuantity(c)'
    BY <2>2 DEF HeldQuantity
  <2>8. QED
    BY <1>1, <2>1, <2>6, <2>7 DEF LimitInv, NothingYet
<1>6. CASE InsertRow(c)
  <2>1. /\ call[c].pc = "insertRow" /\ \A d \in Calls : d # c => call'[d] = call[d]
        /\ call'[c].pc \in {"used", "rejected"}
        /\ UNCHANGED <<voucher, removed, quantities, reused, slack>>
    BY <1>6, <1>a DEF InsertRow, Call
  <2>2. \A u \in Users : u # UserOf[c] => rowOf'[u] = rowOf[u]
    BY <1>6, <1>a DEF InsertRow
  <2>3. UsedUsers' \subseteq UsedUsers \cup {UserOf[c]}
    BY <2>1, <2>2 DEF UsedUsers, VisibleUsers, Visible
  <2>4. UsedCount' <= UsedCount + 1 /\ UsedCount' \in Nat
    BY <1>c, <2>3, OneMore DEF UsedCount
  <2>5. At("insertRow")' \subseteq At("insertRow") \ {c} /\ c \in At("insertRow")
    BY <2>1 DEF At
  <2>6. Cardinality(At("insertRow")') <= Cardinality(At("insertRow")) - 1
    BY <1>c, <2>5, OneLess
  <2>7. Cardinality(At("insertRow")') \in Nat
    <3>1. At("insertRow")' \in SUBSET Calls
      BY <2>5, <1>b
    <3>2. QED
      BY <3>1, CountsCalls
  <2>8. Taken' <= Taken /\ Taken' \in Nat
    BY <2>4, <2>6, <2>7, TakenIsNat DEF Taken
  <2>9. Covered'
    <3>1. SUFFICES ASSUME 0 \notin quantities, Taken' > 0
                   PROVE  \E q \in quantities : Taken' <= q + reused + slack
      BY <2>1 DEF Covered
    <3>2. PICK q \in quantities : Taken <= q + reused + slack
      BY <2>8, <3>1, TakenIsNat DEF LimitInv, Covered
    <3>3. Taken' <= q + reused + slack
      BY <1>d, <2>8, <3>2, TakenIsNat
    <3>4. QED
      BY <3>3
  <2>10. voucher.state # "absent"
    BY <2>1 DEF LimitInv, NothingYet
  <2>11. HeldQuantity(c)'
    BY <2>1 DEF HeldQuantity
  <2>12. QED
    BY <1>1, <2>1, <2>9, <2>10, <2>11
<1>7. CASE SaveRow(c)
  <2>1. /\ call[c].pc = "saveRow" /\ \A d \in Calls : d # c => call'[d] = call[d]
        /\ call'[c].pc = "used" /\ reused' = reused + 1
        /\ removed' = removed \ {UserOf[c]} /\ UNCHANGED <<voucher, quantities, slack>>
    BY <1>7, <1>a DEF SaveRow, Call
  <2>2. \A u \in Users : u # UserOf[c] => rowOf'[u] = rowOf[u]
    BY <1>7, <1>a DEF SaveRow
  <2>3. UsedUsers' \subseteq UsedUsers \cup {UserOf[c]}
    BY <2>1, <2>2 DEF UsedUsers, VisibleUsers, Visible
  <2>4. UsedCount' <= UsedCount + 1 /\ UsedCount' \in Nat
    BY <1>c, <2>3, OneMore DEF UsedCount
  <2>5. At("insertRow")' = At("insertRow")
    BY <2>1 DEF At
  <2>6. Taken' <= Taken + 1 /\ Taken' \in Nat
    BY <2>4, <2>5, TakenIsNat DEF Taken
  <2>7. voucher.state # "absent" /\ voucher.quantity \in quantities
    BY <2>1 DEF LimitInv, NothingYet
  <2>8. Covered'
    <3>1. SUFFICES ASSUME 0 \notin quantities
                   PROVE  \E q \in quantities : Taken' <= q + (reused + 1) + slack
      BY <2>1 DEF Covered
    <3>2. CASE Taken > 0
      <4>1. PICK q \in quantities : Taken <= q + reused + slack
        BY <3>1, <3>2 DEF LimitInv, Covered
      <4>2. Taken' <= q + (reused + 1) + slack
        BY <1>d, <2>6, <4>1, TakenIsNat
      <4>3. QED
        BY <4>2
    <3>3. CASE ~(Taken > 0)
      <4>1. Taken' <= voucher.quantity + (reused + 1) + slack
        <5>1. voucher.quantity \in Nat
          BY <1>d, <2>7
        <5>2. QED
          BY <1>d, <2>6, <3>3, <5>1, TakenIsNat
      <4>2. QED
        BY <2>7, <4>1
    <3>4. QED
      BY <3>2, <3>3
  <2>9. HeldQuantity(c)'
    BY <2>1 DEF HeldQuantity
  <2>10. QED
    BY <1>1, <2>1, <2>7, <2>8, <2>9
<1>8. CASE RefundFind(c)
  <2>1. /\ call'[c].pc = "refundRow" /\ \A d \in Calls : d # c => call'[d] = call[d]
        /\ voucher.state = "live"
        /\ UNCHANGED <<voucher, rowOf, removed, quantities, reused, slack>>
    BY <1>8, <1>a DEF RefundFind, Call
  <2>2. At("insertRow")' \subseteq At("insertRow") /\ UsedUsers' = UsedUsers
    BY <2>1 DEF At, UsedUsers, VisibleUsers, Visible
  <2>3. Covered' /\ HeldQuantity(c)'
    BY <2>1, <2>2, StillCovered DEF LimitInv, HeldQuantity
  <2>4. QED
    BY <1>1, <2>1, <2>3
<1>9. CASE RefundRow(c)
  <2>0. \A u \in Users : rowOf'[u] = rowOf[u] \/ rowOf'[u] = "unused"
    BY <1>9, <1>a DEF RefundRow
  <2>1. /\ call[c].pc = "refundRow" /\ call'[c].pc = "refunded"
        /\ \A d \in Calls : d # c => call'[d] = call[d]
        /\ UNCHANGED <<voucher, removed, quantities, reused, slack>>
    BY <1>9, <1>a DEF RefundRow, Call
  <2>2. At("insertRow")' \subseteq At("insertRow") /\ UsedUsers' \subseteq UsedUsers
    BY <2>0, <2>1 DEF At, UsedUsers, VisibleUsers, Visible
  <2>3. Covered' /\ HeldQuantity(c)' /\ voucher.state # "absent"
    BY <2>1, <2>2, StillCovered DEF LimitInv, HeldQuantity, NothingYet
  <2>4. QED
    BY <1>1, <2>1, <2>3
<1>10. QED
  BY <1>2, <1>3, <1>4, <1>5, <1>6, <1>7, <1>8, <1>9 DEF CallStepOf

THEOREM StepLimit == TypeOK /\ TypeOK' /\ LimitInv /\ [Next]_vars => LimitInv'
<1> SUFFICES ASSUME TypeOK, TypeOK', LimitInv, [Next]_vars PROVE LimitInv'
  OBVIOUS
\* No call moves, no row becomes used or visible again.
<1>1. ASSUME UNCHANGED <<call, reused, slack>>, quantities \subseteq quantities',
             \A u \in Users : rowOf'[u] = rowOf[u] \/ rowOf'[u] \in {"none", "unused"},
             removed \subseteq removed',
             voucher'.state = "absent" => voucher.state = "absent" /\ deletion' = deletion,
             voucher'.state # "absent" => voucher'.quantity \in quantities'
      PROVE  LimitInv'
  <2>1. UsedUsers' \subseteq UsedUsers /\ At("insertRow")' = At("insertRow")
    BY <1>1 DEF UsedUsers, VisibleUsers, Visible, At
  <2>2. Covered'
    BY <1>1, <2>1, StillCovered DEF LimitInv
  <2>3. (\A c \in Calls : HeldQuantity(c)') /\ NothingYet'
    BY <1>1 DEF LimitInv, HeldQuantity, NothingYet
  <2>4. QED
    BY <1>1, <2>2, <2>3 DEF LimitInv
<1>2. CASE CreateVoucher
  <2>1. PICK quantity \in StartQuantities :
           /\ voucher' = [state |-> "live", quantity |-> quantity] /\ quantities' = {quantity}
    BY <1>2 DEF CreateVoucher
  <2>2. UNCHANGED <<rowOf, call>> /\ voucher.state = "absent"
    BY <1>2 DEF CreateVoucher
  <2>3. /\ \A u \in Users : rowOf'[u] # "used"
        /\ \A c \in Calls : call'[c].pc \in {"idle", "find", "rejected"}
    BY <2>2 DEF LimitInv, NothingYet
  <2>4. Taken' = 0
    <3>1. UsedUsers' = {} /\ At("insertRow")' = {}
      BY <2>3 DEF UsedUsers, At, VisibleUsers
    <3>2. QED
      BY <3>1, FS_EmptySet DEF Taken, UsedCount
  <2>5. QED
    BY <2>1, <2>3, <2>4 DEF LimitInv, NothingYet, HeldQuantity, Covered
<1>3. CASE HandOut
  <2>1. \A u \in Users : rowOf'[u] = rowOf[u] \/ rowOf'[u] \in {"none", "unused"}
    BY <1>3 DEF HandOut
  <2>2. QED
    BY <1>1, <1>3, <2>1 DEF HandOut, history, LimitInv
<1>4. ASSUME NEW a \in Updates, UpdateStepOf(a) PROVE LimitInv'
  <2>1. CASE SaveVoucher(a)
    <3>1. \A u \in Users : rowOf'[u] = rowOf[u] \/ rowOf'[u] \in {"none", "unused"}
      BY <2>1 DEF SaveVoucher
    <3>2. voucher'.state = "live" /\ quantities' = quantities \cup {voucher'.quantity}
      BY <2>1 DEF SaveVoucher
    <3>3. QED
      BY <1>1, <2>1, <3>1, <3>2 DEF SaveVoucher, UpdateUnchanged
  <2>2. CASE ~SaveVoucher(a)
    <3>1. /\ UNCHANGED <<voucher, rowOf, call, reused, slack, quantities>>
          /\ removed \subseteq removed' /\ deletion' = deletion
      BY <1>4, <2>2
      DEF UpdateStepOf, UpdateFind, UpdateCount, FindUnused, RemoveExcess, UpdateUnchanged
    <3>2. QED
      BY <1>1, <3>1 DEF LimitInv
  <2>3. QED
    BY <2>1, <2>2
<1>5. CASE DeleteFind
  BY <1>1, <1>5 DEF DeleteFind, DeleteUnchanged, LimitInv
<1>6. CASE DeleteRows
  \* Every row is removed, and what is removed counts no more.
  <2>1. UNCHANGED <<voucher, rowOf, call, quantities, reused, slack>>
        /\ removed' = {u \in Users : rowOf[u] # "none"}
    BY <1>6 DEF DeleteRows, DeleteUnchanged
  <2>2. UsedUsers' \subseteq UsedUsers /\ At("insertRow")' = At("insertRow")
    BY <2>1 DEF UsedUsers, VisibleUsers, Visible, At
  <2>3. Covered'
    BY <2>1, <2>2, StillCovered DEF LimitInv
  <2>4. QED
    BY <1>6, <2>1, <2>3 DEF DeleteRows, LimitInv, NothingYet, HeldQuantity
<1>7. CASE DeleteVoucher
  <2>1. voucher'.quantity = voucher.quantity /\ voucher'.state = "deleted"
    BY <1>7 DEF DeleteVoucher, TypeOK
  <2>2. voucher.state # "absent"
    BY <1>7 DEF DeleteVoucher, LimitInv, NothingYet
  <2>3. QED
    BY <1>1, <1>7, <2>1, <2>2 DEF DeleteVoucher, DeleteUnchanged, LimitInv
<1>8. CASE UNCHANGED vars
  BY <1>1, <1>8 DEF vars, history, LimitInv
<1>9. QED
  BY <1>2, <1>3, <1>4, <1>5, <1>6, <1>7, <1>8, CallLimit DEF Next

(* For any number of customers and calls, a voucher that was always        *)
(* limited is overused only by marked rows, which skip the count, and by   *)
(* calls that slip between another's count and its insert.                 *)
THEOREM VoucherLimitKept == Spec => []LimitKept
<1>1. TypeOK /\ LimitInv => LimitKept
  <2> SUFFICES ASSUME TypeOK, LimitInv, 0 \notin quantities, UsedCount > 0
               PROVE  \E q \in quantities : UsedCount <= q + reused + slack
    BY DEF LimitKept
  <2>1. UsedCount <= Taken /\ Taken > 0
    BY TakenIsNat DEF Taken
  <2>2. PICK q \in quantities : Taken <= q + reused + slack
    BY <2>1 DEF LimitInv, Covered
  <2>3. q \in Nat /\ reused \in Nat /\ slack \in Nat
    BY DEF TypeOK
  <2>4. UsedCount <= q + reused + slack
    BY <2>1, <2>2, <2>3, TakenIsNat
  <2>5. QED
    BY <2>4
<1>2. QED
  BY <1>1, InitType, StepType, InitLimit, StepLimit, PTL DEF Spec
-----------------------------------------------------------------------------
(* OncePerUser.  A row that is about to be marked is unused, a use that      *)
(* stands keeps its row used: so of a user's calls one at most is past the   *)
(* look at the row.                                                          *)

UsesOf(u) ==
    /\ \A c \in Calls : UserOf[c] = u =>
          /\ call[c].pc = "saveRow" => rowOf[u] = "unused"
          /\ call[c].pc \in {"used", "refundRow"} => rowOf[u] = "used"
    /\ \A c, d \in Calls :
          /\ UserOf[c] = u /\ call[c].pc \in {"saveRow", "used", "refundRow"}
          /\ UserOf[d] = u /\ call[d].pc \in {"saveRow", "used", "refundRow"}
          => c = d
UsesInv == \A u \in Users \ crowded : UsesOf(u)

LEMMA InitUses == Init => UsesInv
BY DEF Init, UsesInv, UsesOf

LEMMA CallUses ==
    ASSUME TypeOK, UsesInv, NEW c \in Calls, CallStepOf(c)
    PROVE  UsesInv'
<1>a. /\ call \in [Calls -> Call] /\ call[c] \in Call /\ rowOf \in [Users -> RowState]
      /\ UserOf[c] \in Users
  BY VoucherAssumption DEF TypeOK
<1>b. crowded \subseteq crowded' /\ \A d \in Calls : d # c => call'[d] = call[d]
  BY <1>a
  DEF CallStepOf, Apply, FindVoucher, FindRow, CountUsed, InsertRow, SaveRow, RefundFind, RefundRow, Granted
<1>c. \A u \in Users : u # UserOf[c] => rowOf'[u] = rowOf[u]
  BY <1>a
  DEF CallStepOf, Apply, FindVoucher, FindRow, CountUsed, InsertRow, SaveRow, RefundFind, RefundRow
<1> SUFFICES ASSUME NEW u \in Users, u \notin crowded' PROVE UsesOf(u)'
  BY DEF UsesInv
<1>d. UsesOf(u)
  BY <1>b DEF UsesInv
<1>1. CASE u # UserOf[c]
  BY <1>1, <1>b, <1>c, <1>d DEF UsesOf
<1>2. CASE u = UserOf[c]
  <2>1. CASE Apply(c) \/ FindVoucher(c) \/ CountUsed(c)
    <3>1. rowOf' = rowOf /\ call'[c].pc \notin {"saveRow", "used", "refundRow"}
      BY <2>1, <1>a DEF Apply, FindVoucher, CountUsed, Granted, Call
    <3>2. QED
      BY <3>1, <1>b, <1>d DEF UsesOf
  <2>2. CASE FindRow(c)
    <3>1. rowOf' = rowOf /\ call[c].pc = "findRow"
      BY <2>2 DEF FindRow
    <3>2. CASE call'[c].pc # "saveRow"
      <4>1. call'[c].pc \notin {"saveRow", "used", "refundRow"}
        BY <2>2, <3>2, <1>a DEF FindRow, Granted, Call
      <4>2. QED
        BY <3>1, <4>1, <1>b, <1>d DEF UsesOf
    <3>3. CASE call'[c].pc = "saveRow"
      <4>1. u \in UnusedUsers /\ \A d \in Calls : call[d].pc = "saveRow" => UserOf[d] # u
        BY <1>2, <2>2, <3>3, <1>a DEF FindRow, Granted, Call, At
      <4>2. rowOf[u] = "unused"
        BY <4>1 DEF UnusedUsers
      <4>3. \A d \in Calls : UserOf[d] = u => call[d].pc \notin {"saveRow", "used", "refundRow"}
        BY <4>1, <4>2, <1>d DEF UsesOf
      <4>4. QED
        BY <3>1, <3>3, <4>2, <4>3, <1>b DEF UsesOf
    <3>4. QED
      BY <3>2, <3>3
  <2>3. CASE InsertRow(c)
    <3>1. CASE rowOf[u] = "none"
      <4>1. rowOf'[u] = "used" /\ call'[c].pc = "used"
        BY <1>2, <2>3, <3>1, <1>a DEF InsertRow, Call
      <4>2. \A d \in Calls : UserOf[d] = u => call[d].pc \notin {"saveRow", "used", "refundRow"}
        BY <3>1, <1>d DEF UsesOf
      <4>3. QED
        BY <4>1, <4>2, <1>b DEF UsesOf
    <3>2. CASE rowOf[u] # "none"
      <4>1. rowOf' = rowOf /\ call'[c].pc = "rejected"
        BY <1>2, <2>3, <3>2, <1>a DEF InsertRow, Call
      <4>2. QED
        BY <4>1, <1>b, <1>d DEF UsesOf
    <3>3. QED
      BY <3>1, <3>2
  <2>4. CASE SaveRow(c)
    <3>1. call[c].pc = "saveRow" /\ rowOf[u] = "unused"
      BY <1>2, <2>4, <1>d DEF SaveRow, UsesOf
    <3>2. rowOf'[u] = "used" /\ call'[c].pc = "used"
      BY <1>2, <2>4, <3>1, <1>a DEF SaveRow, Call
    <3>3. QED
      BY <1>2, <3>1, <3>2, <1>b, <1>d DEF UsesOf
  <2>5. CASE RefundFind(c)
    <3>1. rowOf' = rowOf /\ call[c].pc = "used" /\ call'[c].pc = "refundRow"
      BY <2>5, <1>a DEF RefundFind, Call
    <3>2. QED
      BY <1>2, <3>1, <1>b, <1>d DEF UsesOf
  <2>6. CASE RefundRow(c)
    <3>1. call[c].pc = "refundRow" /\ call'[c].pc = "refunded"
      BY <2>6, <1>a DEF RefundRow, Call
    <3>2. \A d \in Calls : d # c /\ UserOf[d] = u => call[d].pc \notin {"saveRow", "used", "refundRow"}
      BY <1>2, <3>1, <1>d DEF UsesOf
    <3>3. QED
      BY <3>1, <3>2, <1>b DEF UsesOf
  <2>7. QED
    BY <2>1, <2>2, <2>3, <2>4, <2>5, <2>6 DEF CallStepOf
<1>3. QED
  BY <1>1, <1>2

LEMMA StepUses == TypeOK /\ UsesInv /\ [Next]_vars => UsesInv'
<1> SUFFICES ASSUME TypeOK, UsesInv, [Next]_vars PROVE UsesInv'
  OBVIOUS
\* Rows of users that are not crowded stay as they are.
<1>1. ASSUME call' = call, crowded \subseteq crowded',
             \A u \in Users \ crowded' : rowOf'[u] = rowOf[u]
      PROVE  UsesInv'
  BY <1>1 DEF UsesInv, UsesOf
<1>2. CASE HandOut
  <2>1. call' = call /\ crowded' = crowded
    BY <1>2 DEF HandOut, history
  <2>2. CASE \A u \in Users : rowOf[u] = "none"
    BY <2>1, <2>2 DEF UsesInv, UsesOf
  <2>3. CASE ~\A u \in Users : rowOf[u] = "none"
    BY <1>1, <1>2, <2>1, <2>3 DEF HandOut
  <2>4. QED
    BY <2>2, <2>3
<1>3. ASSUME NEW a \in Updates, SaveVoucher(a) PROVE UsesInv'
  <2>1. /\ call' = call /\ crowded' = crowded \cup (VisibleUsers \ update[a].known)
        /\ rowOf' = [u \in Users |-> IF u \in VisibleUsers \ update[a].known THEN "none" ELSE rowOf[u]]
    BY <1>3 DEF SaveVoucher, UpdateUnchanged
  <2>2. QED
    BY <1>1, <2>1
<1>4. ASSUME NEW a \in Updates, UpdateStepOf(a), ~SaveVoucher(a) PROVE UsesInv'
  BY <1>1, <1>4 DEF UpdateStepOf, UpdateFind, UpdateCount, FindUnused, RemoveExcess, UpdateUnchanged
<1>5. CASE CreateVoucher \/ DeleteFind \/ DeleteRows \/ DeleteVoucher \/ UNCHANGED vars
  BY <1>1, <1>5 DEF CreateVoucher, DeleteFind, DeleteRows, DeleteVoucher, DeleteUnchanged, vars, history
<1>6. QED
  BY <1>2, <1>3, <1>4, <1>5, CallUses DEF Next

(* However the calls of any number of customers interleave with each other, *)
(* with updates and with a deletion, one use per user at most stands.       *)
THEOREM VoucherOncePerUser == Spec => []OncePerUser
<1>1. UsesInv => OncePerUser
  <2> SUFFICES ASSUME UsesInv, NEW u \in Users \ crowded
               PROVE  Cardinality({c \in Calls : UserOf[c] = u /\ call[c].pc \in {"used", "refundRow"}}) <= 1
    BY DEF OncePerUser
  <2> DEFINE S == {c \in Calls : UserOf[c] = u /\ call[c].pc \in {"used", "refundRow"}}
  <2>1. \A c, d \in S : c = d
    BY DEF UsesInv, UsesOf
  <2> HIDE DEF S
  <2>2. S = {} \/ \E c : S = {c}
    BY <2>1
  <2>3. Cardinality(S) \in {0, 1}
    BY <2>2, FS_EmptySet, FS_Singleton
  <2>4. QED
    BY <2>3 DEF S
<1>2. QED
  BY <1>1, InitType, StepType, InitUses, StepUses, PTL DEF Spec
-----------------------------------------------------------------------------
(* As long as no operation has begun while another was in flight, one at     *)
(* most is, and what it has read is still so.                                *)

Calling(c) == call[c].pc \notin {"idle", "used", "refunded", "rejected"}
Updating(a) == update[a].pc \notin {"idle", "done", "rejected"}
Deleting == deletion \notin {"idle", "done"}

AloneInv ==
    ~raced =>
        /\ \A c \in Calls : Calling(c) =>
              /\ ~handOut /\ ~Deleting /\ \A a \in Updates : ~Updating(a)
              /\ \A d \in Calls : d # c => ~Calling(d)
        /\ \A a \in Updates : Updating(a) =>
              /\ ~handOut /\ ~Deleting /\ \A c \in Calls : ~Calling(c)
              /\ \A b \in Updates : b # a => ~Updating(b)

LEMMA InFlightIs ==
    InFlight <=> \/ handOut \/ Deleting
                 \/ \E c \in Calls : Calling(c)
                 \/ \E a \in Updates : Updating(a)
BY DEF InFlight, Deleting, Calling, Updating

LEMMA InitAlone == Init => AloneInv
BY DEF Init, AloneInv, Calling, Updating

\* An operation begins when none is in flight, or the race is on record.
LEMMA StepAlone == TypeOK /\ AloneInv /\ [Next]_vars => AloneInv'
<1> SUFFICES ASSUME TypeOK, AloneInv, [Next]_vars, ~raced' PROVE AloneInv'
  BY DEF AloneInv
<1>a. call \in [Calls -> Call] /\ update \in [Updates -> Update]
  BY DEF TypeOK
<1>1. ASSUME NEW c \in Calls, CallStepOf(c) PROVE AloneInv'
  <2>1. /\ UNCHANGED <<handOut, deletion, update>>
        /\ \A d \in Calls : d # c => call'[d] = call[d]
        /\ Calling(c) \/ ~InFlight
        /\ ~raced
    <3>1. UNCHANGED <<handOut, deletion, update>> /\ \A d \in Calls : d # c => call'[d] = call[d]
      BY <1>1, <1>a
      DEF CallStepOf, Apply, FindVoucher, FindRow, CountUsed, InsertRow, SaveRow, RefundFind, RefundRow,
          Granted, CallUnchanged
    <3>2. CASE Apply(c) \/ RefundFind(c)
      BY <3>1, <3>2 DEF Apply, RefundFind
    <3>3. CASE ~Apply(c) /\ ~RefundFind(c)
      BY <1>1, <3>1, <3>3
      DEF CallStepOf, FindVoucher, FindRow, CountUsed, InsertRow, SaveRow, RefundRow, Calling
    <3>4. QED
      BY <3>2, <3>3
  <2>2. /\ ~handOut /\ ~Deleting /\ \A a \in Updates : ~Updating(a)
        /\ \A d \in Calls : d # c => ~Calling(d)
    BY <2>1, InFlightIs DEF AloneInv
  <2>3. QED
    BY <2>1, <2>2 DEF AloneInv, Calling, Updating, Deleting
<1>2. ASSUME NEW a \in Updates, UpdateStepOf(a) PROVE AloneInv'
  <2>1. /\ UNCHANGED <<handOut, deletion, call>>
        /\ \A b \in Updates : b # a => update'[b] = update[b]
        /\ Updating(a) \/ ~InFlight
        /\ ~raced
    <3>1. CASE UpdateFind(a)
      BY <3>1, <1>a DEF UpdateFind, UpdateUnchanged
    <3>2. CASE UpdateCount(a) \/ FindUnused(a)
      BY <3>2, <1>a DEF UpdateCount, FindUnused, UpdateUnchanged, Updating
    <3>3. CASE RemoveExcess(a) \/ SaveVoucher(a)
      BY <3>3, <1>a DEF RemoveExcess, SaveVoucher, UpdateUnchanged, Updating
    <3>4. QED
      BY <1>2, <3>1, <3>2, <3>3 DEF UpdateStepOf
  <2>2. /\ ~handOut /\ ~Deleting /\ \A c \in Calls : ~Calling(c)
        /\ \A b \in Updates : b # a => ~Updating(b)
    BY <2>1, InFlightIs DEF AloneInv
  <2>3. QED
    BY <2>1, <2>2 DEF AloneInv, Calling, Updating, Deleting
<1>3. CASE CreateVoucher \/ DeleteFind
  <2>1. /\ UNCHANGED <<call, update>>
        /\ ~InFlight
    BY <1>3 DEF CreateVoucher, DeleteFind, DeleteUnchanged
  <2>2. QED
    BY <2>1, InFlightIs DEF AloneInv, Calling, Updating
<1>4. CASE HandOut \/ DeleteRows \/ DeleteVoucher \/ UNCHANGED vars
  <2>1. /\ UNCHANGED <<call, update, raced>>
        /\ handOut' => handOut
        /\ Deleting' => Deleting
    BY <1>4 DEF HandOut, DeleteRows, DeleteVoucher, DeleteUnchanged, vars, history, Deleting, TypeOK
  <2>2. QED
    BY <2>1 DEF AloneInv, Calling, Updating
<1>5. QED
  BY <1>1, <1>2, <1>3, <1>4 DEF Next

LEMMA NoRaceBefore == [Next]_vars /\ ~raced' => ~raced
BY DEF Next, vars, history, CallStepOf, Apply, FindVoucher, FindRow, CountUsed, InsertRow, SaveRow,
   RefundFind, RefundRow, UpdateStepOf, UpdateFind, UpdateCount, FindUnused, RemoveExcess, SaveVoucher,
   CreateVoucher, HandOut, DeleteFind, DeleteRows, DeleteVoucher

\* While a call or an update is in flight without a race, only it goes on.
LEMMA OnlyTheCall ==
    ASSUME TypeOK, AloneInv, [Next]_vars, ~raced', NEW c \in Calls, Calling(c)
    PROVE  CallStepOf(c) \/ UNCHANGED vars
<1>0. ~raced /\ InFlight
  BY NoRaceBefore, InFlightIs
<1>1. /\ ~handOut /\ ~Deleting /\ \A a \in Updates : ~Updating(a)
      /\ \A d \in Calls : d # c => ~Calling(d)
  BY <1>0 DEF AloneInv
<1>2. ASSUME NEW d \in Calls, CallStepOf(d) PROVE d = c
  BY <1>0, <1>1, <1>2
  DEF CallStepOf, Apply, FindVoucher, FindRow, CountUsed, InsertRow, SaveRow, RefundFind, RefundRow, Calling
<1>3. ASSUME NEW a \in Updates, UpdateStepOf(a) PROVE FALSE
  BY <1>0, <1>1, <1>3
  DEF UpdateStepOf, UpdateFind, UpdateCount, FindUnused, RemoveExcess, SaveVoucher, Updating
<1>4. ~CreateVoucher /\ ~HandOut /\ ~DeleteFind /\ ~DeleteRows /\ ~DeleteVoucher
  BY <1>0, <1>1 DEF CreateVoucher, HandOut, DeleteFind, DeleteRows, DeleteVoucher, Deleting
<1>5. QED
  BY <1>2, <1>3, <1>4 DEF Next

LEMMA OnlyTheUpdate ==
    ASSUME TypeOK, AloneInv, [Next]_vars, ~raced', NEW a \in Updates, Updating(a)
    PROVE  UpdateStepOf(a) \/ UNCHANGED vars
<1>0. ~raced /\ InFlight
  BY NoRaceBefore, InFlightIs
<1>1. /\ ~handOut /\ ~Deleting /\ \A c \in Calls : ~Calling(c)
      /\ \A b \in Updates : b # a => ~Updating(b)
  BY <1>0 DEF AloneInv
<1>2. ASSUME NEW c \in Calls, CallStepOf(c) PROVE FALSE
  BY <1>0, <1>1, <1>2
  DEF CallStepOf, Apply, FindVoucher, FindRow, CountUsed, InsertRow, SaveRow, RefundFind, RefundRow, Calling
<1>3. ASSUME NEW b \in Updates, UpdateStepOf(b) PROVE b = a
  BY <1>0, <1>1, <1>3
  DEF UpdateStepOf, UpdateFind, UpdateCount, FindUnused, RemoveExcess, SaveVoucher, Updating
<1>4. ~CreateVoucher /\ ~HandOut /\ ~DeleteFind /\ ~DeleteRows /\ ~DeleteVoucher
  BY <1>0, <1>1 DEF CreateVoucher, HandOut, DeleteFind, DeleteRows, DeleteVoucher, Deleting
<1>5. QED
  BY <1>2, <1>3, <1>4 DEF Next

\* What a call or an update in flight has read, and decided, holds.
CallQuiet(c) ==
    LET u == UserOf[c] IN
    /\ call[c].pc \in {"findRow", "count", "saveRow", "insertRow"} =>
          voucher.state = "live" /\ call[c].quantity = voucher.quantity
    /\ call[c].pc = "count" => u \notin VisibleUsers /\ call[c].quantity > 0
    /\ call[c].pc = "saveRow" => u \in UnusedUsers
    /\ call[c].pc = "insertRow" =>
          u \notin VisibleUsers /\ (call[c].quantity = 0 \/ UsedCount < call[c].quantity)

UpdateQuiet(a) ==
    /\ update[a].pc \in {"findUnused", "remove"} =>
          /\ update[a].quantity # Unchanged /\ update[a].used = UsedCount
          /\ update[a].quantity > update[a].used
    /\ update[a].pc = "remove" =>
          update[a].excess \subseteq UnusedUsers /\ Cardinality(update[a].excess) = Surplus(a)
    /\ update[a].pc = "save" /\ update[a].quantity # Unchanged /\ update[a].quantity > update[a].used =>
          Cardinality(VisibleUsers) <= update[a].quantity

QuietInv == ~raced => (\A c \in Calls : CallQuiet(c)) /\ (\A a \in Updates : UpdateQuiet(a))

LEMMA InitQuiet == Init => QuietInv
BY DEF Init, QuietInv, CallQuiet, UpdateQuiet

LEMMA CallStaysQuiet ==
    ASSUME TypeOK, NEW c \in Calls, CallQuiet(c), CallStepOf(c)
    PROVE  CallQuiet(c)'
<1>a. call \in [Calls -> Call] /\ call[c] \in Call /\ call[c].quantity \in Nat
  BY DEF TypeOK, Call
<1>1. CASE Apply(c) \/ InsertRow(c) \/ SaveRow(c) \/ RefundFind(c) \/ RefundRow(c)
  <2>1. call'[c].pc \notin {"findRow", "count", "saveRow", "insertRow"}
    BY <1>1, <1>a DEF Apply, InsertRow, SaveRow, RefundFind, RefundRow, Call
  <2>2. QED
    BY <2>1 DEF CallQuiet
<1>2. CASE FindVoucher(c)
  <2>1. /\ voucher' = voucher
        /\ \/ call'[c].pc = "rejected"
           \/ call'[c].pc = "findRow" /\ call'[c].quantity = voucher.quantity /\ voucher.state = "live"
    BY <1>2, <1>a DEF FindVoucher, CallUnchanged, Call
  <2>2. QED
    BY <2>1 DEF CallQuiet
<1>3. CASE FindRow(c)
  <2>1. /\ UNCHANGED <<voucher, rowOf, removed>> /\ call[c].pc = "findRow"
        /\ call'[c].quantity = call[c].quantity
    BY <1>3, <1>a DEF FindRow, Granted, CallUnchanged, Call
  <2>2. \/ call'[c].pc \in {"rejected", "find"}
        \/ call'[c].pc = "saveRow" /\ UserOf[c] \in UnusedUsers
        \/ call'[c].pc = "count" /\ UserOf[c] \notin VisibleUsers /\ call[c].quantity > 0
        \/ call'[c].pc = "insertRow" /\ UserOf[c] \notin VisibleUsers /\ ~(call[c].quantity > 0)
    BY <1>3, <1>a DEF FindRow, Granted, Call
  <2>3. /\ VisibleUsers' = VisibleUsers /\ UnusedUsers' = UnusedUsers
    BY <2>1 DEF VisibleUsers, Visible, UnusedUsers
  <2>4. QED
    BY <1>a, <2>1, <2>2, <2>3 DEF CallQuiet
<1>4. CASE CountUsed(c)
  <2>1. /\ UNCHANGED <<voucher, rowOf, removed>> /\ call[c].pc = "count"
        /\ call'[c].quantity = call[c].quantity
    BY <1>4, <1>a DEF CountUsed, Granted, CallUnchanged, Call
  <2>2. \/ call'[c].pc \in {"rejected", "find"}
        \/ call'[c].pc = "insertRow" /\ ~(UsedCount >= call[c].quantity)
    BY <1>4, <1>a DEF CountUsed, Granted, Call
  <2>3. VisibleUsers' = VisibleUsers /\ UsedCount' = UsedCount
    BY <2>1 DEF VisibleUsers, Visible, UsedUsers, UsedCount
  <2>4. QED
    BY <1>a, <2>1, <2>2, <2>3, UsedIsNat DEF CallQuiet
<1>5. QED
  BY <1>1, <1>2, <1>3, <1>4 DEF CallStepOf

\* The visible rows are the used and the unused ones.
LEMMA RowsSplit ==
    ASSUME TypeOK
    PROVE  /\ Cardinality(UnusedUsers) \in Nat /\ IsFiniteSet(UnusedUsers) /\ IsFiniteSet(UsedUsers)
           /\ Cardinality(VisibleUsers) = UsedCount + Cardinality(UnusedUsers)
<1>1. VisibleUsers = UsedUsers \cup UnusedUsers /\ UsedUsers \cap UnusedUsers = {}
  BY DEF TypeOK, RowState, VisibleUsers, Visible, UsedUsers, UnusedUsers
<1>2. UsedUsers \in SUBSET Users /\ UnusedUsers \in SUBSET Users
  BY DEF VisibleUsers, UsedUsers, UnusedUsers
<1>3. /\ IsFiniteSet(UsedUsers) /\ IsFiniteSet(UnusedUsers)
      /\ Cardinality(UsedUsers) \in Nat /\ Cardinality(UnusedUsers) \in Nat
  BY <1>2, Counts
<1>4. Cardinality(UsedUsers \cup UnusedUsers) =
         Cardinality(UsedUsers) + Cardinality(UnusedUsers) - Cardinality(UsedUsers \cap UnusedUsers)
  BY <1>3, FS_Union
<1>5. QED
  BY <1>1, <1>3, <1>4, FS_EmptySet DEF UsedCount

LEMMA UpdateReads ==
    ASSUME TypeOK, NEW a \in Updates, NEW pc
    PROVE  /\ [update EXCEPT ![a].pc = pc][a].pc = pc
           /\ [update EXCEPT ![a].pc = pc][a].quantity = update[a].quantity
           /\ [update EXCEPT ![a].pc = pc][a].used = update[a].used
           /\ \A quantity, known :
                 [update EXCEPT ![a].pc = pc, ![a].quantity = quantity, ![a].known = known][a].pc = pc
           /\ \A excess :
                 LET then == [update EXCEPT ![a].pc = pc, ![a].excess = excess][a] IN
                 /\ then.pc = pc /\ then.excess = excess
                 /\ then.quantity = update[a].quantity /\ then.used = update[a].used
           /\ \A known, used :
                 [update EXCEPT ![a].pc = pc, ![a].known = known, ![a].used = used][a].pc = pc
<1> DEFINE Quantity == Nat \cup {Unchanged}
           Uses == Nat
           Known == SUBSET Users
           Step == UpdateStep
<1>0. update \in [Updates -> [pc : Step, quantity : Quantity, known : Known, used : Uses, excess : Known]]
  BY DEF TypeOK, Update
<1> HIDE DEF Quantity, Uses, Known, Step
<1>1. /\ [update EXCEPT ![a].pc = pc][a].pc = pc
      /\ [update EXCEPT ![a].pc = pc][a].quantity = update[a].quantity
      /\ [update EXCEPT ![a].pc = pc][a].used = update[a].used
  BY <1>0
<1>2. ASSUME NEW quantity, NEW known
      PROVE  [update EXCEPT ![a].pc = pc, ![a].quantity = quantity, ![a].known = known][a].pc = pc
  BY <1>0
<1>3. ASSUME NEW excess
      PROVE  LET then == [update EXCEPT ![a].pc = pc, ![a].excess = excess][a] IN
             /\ then.pc = pc /\ then.excess = excess
             /\ then.quantity = update[a].quantity /\ then.used = update[a].used
  BY <1>0
<1>4. ASSUME NEW known, NEW used
      PROVE  [update EXCEPT ![a].pc = pc, ![a].known = known, ![a].used = used][a].pc = pc
  BY <1>0
<1>5. QED
  BY <1>1, <1>2, <1>3, <1>4, Zenon

\* A step moves the call or the update that takes it, and no other.
LEMMA CallFrame ==
    ASSUME TypeOK, [Next]_vars, NEW c \in Calls, ~CallStepOf(c)
    PROVE  call'[c] = call[c]
<1>1. ASSUME NEW d \in Calls, CallStepOf(d) PROVE call'[c] = call[c]
  BY <1>1
  DEF CallStepOf, Apply, FindVoucher, FindRow, CountUsed, InsertRow, SaveRow, RefundFind, RefundRow, Granted,
      TypeOK
<1>2. ASSUME NEW a \in Updates, UpdateStepOf(a) PROVE call' = call
  BY <1>2
  DEF UpdateStepOf, UpdateFind, UpdateCount, FindUnused, RemoveExcess, SaveVoucher, UpdateUnchanged
<1>3. CreateVoucher \/ HandOut \/ DeleteFind \/ DeleteRows \/ DeleteVoucher \/ UNCHANGED vars => call' = call
  BY DEF CreateVoucher, HandOut, DeleteFind, DeleteRows, DeleteVoucher, DeleteUnchanged, vars
<1>4. QED
  BY <1>1, <1>2, <1>3 DEF Next

LEMMA UpdateFrame ==
    ASSUME TypeOK, [Next]_vars, NEW a \in Updates, ~UpdateStepOf(a)
    PROVE  update'[a] = update[a]
<1>1. ASSUME NEW c \in Calls, CallStepOf(c) PROVE update' = update
  BY <1>1
  DEF CallStepOf, Apply, FindVoucher, FindRow, CountUsed, InsertRow, SaveRow, RefundFind, RefundRow,
      CallUnchanged
<1>2. ASSUME NEW b \in Updates, UpdateStepOf(b) PROVE update'[a] = update[a]
  BY <1>2 DEF UpdateStepOf, UpdateFind, UpdateCount, FindUnused, RemoveExcess, SaveVoucher, TypeOK
<1>3. CreateVoucher \/ HandOut \/ DeleteFind \/ DeleteRows \/ DeleteVoucher \/ UNCHANGED vars => update' = update
  BY DEF CreateVoucher, HandOut, DeleteFind, DeleteRows, DeleteVoucher, DeleteUnchanged, vars
<1>4. QED
  BY <1>1, <1>2, <1>3 DEF Next

LEMMA UpdateStaysQuiet ==
    ASSUME TypeOK, NEW a \in Updates, UpdateQuiet(a), UpdateStepOf(a)
    PROVE  UpdateQuiet(a)'
<1>a. /\ update \in [Updates -> Update] /\ update[a] \in Update /\ update[a].used \in Nat
      /\ update[a].quantity \in Nat \cup {Unchanged}
  BY DEF TypeOK, Update
<1>1. CASE UpdateFind(a) \/ SaveVoucher(a)
  <2>1. CASE UpdateFind(a)
    <3>1. PICK quantity \in NewQuantities :
             update' = [update EXCEPT ![a].pc = "count", ![a].quantity = quantity, ![a].known = VisibleUsers]
      BY <2>1 DEF UpdateFind
    <3>2. update'[a].pc = "count"
      BY <3>1, UpdateReads
    <3>3. QED
      BY <3>2 DEF UpdateQuiet
  <2>2. CASE SaveVoucher(a)
    <3>1. update' = [update EXCEPT ![a].pc = "done", ![a].known = {}, ![a].used = 0]
      BY <2>2 DEF SaveVoucher
    <3>2. update'[a].pc = "done"
      BY <3>1, UpdateReads
    <3>3. QED
      BY <3>2 DEF UpdateQuiet
  <2>3. QED
    BY <1>1, <2>1, <2>2
<1>2. CASE UpdateCount(a)
  <2>1. /\ UNCHANGED <<rowOf, removed>>
        /\ update'[a].quantity = update[a].quantity /\ update'[a].used = UsedCount
        /\ update'[a].pc = (IF update[a].quantity \in {Unchanged, UsedCount} THEN "save"
                            ELSE IF update[a].quantity < UsedCount THEN "rejected" ELSE "findUnused")
    BY <1>2, <1>a DEF UpdateCount
  <2>2. UsedCount' = UsedCount
    BY <2>1 DEF VisibleUsers, Visible, UsedUsers, UsedCount
  <2>3. CASE update'[a].pc = "save"
    <3>1. update'[a].quantity # Unchanged => update'[a].quantity = update'[a].used
      BY <2>1, <2>3
    <3>2. QED
      BY <1>a, <2>1, <2>3, <3>1, UsedIsNat DEF UpdateQuiet
  <2>4. CASE update'[a].pc = "rejected"
    BY <2>4 DEF UpdateQuiet
  <2>5. CASE update'[a].pc = "findUnused"
    <3>1. update[a].quantity \in Nat /\ update[a].quantity > UsedCount /\ update[a].quantity # Unchanged
      BY <1>a, <2>1, <2>5, UsedIsNat
    <3>2. QED
      BY <2>1, <2>2, <2>5, <3>1 DEF UpdateQuiet
  <2>6. QED
    BY <2>1, <2>3, <2>4, <2>5
<1>3. CASE FindUnused(a)
  <2>1. UNCHANGED <<rowOf, removed>> /\ update[a].pc = "findUnused"
    BY <1>3 DEF FindUnused
  <2>2. /\ update[a].quantity # Unchanged /\ update[a].used = UsedCount
        /\ update[a].quantity > update[a].used /\ update[a].quantity \in Nat
    BY <1>a, <2>1 DEF UpdateQuiet
  <2>3. /\ UsedCount' = UsedCount /\ UnusedUsers' = UnusedUsers /\ VisibleUsers' = VisibleUsers
    BY <2>1 DEF VisibleUsers, Visible, UsedUsers, UnusedUsers, UsedCount
  <2>4. CASE Surplus(a) > 0
    <3>1. PICK excess \in SUBSET UnusedUsers :
             /\ Cardinality(excess) = Surplus(a)
             /\ update' = [update EXCEPT ![a].pc = "remove", ![a].excess = excess]
      BY <1>3, <2>4 DEF FindUnused
    <3>2. /\ update'[a].pc = "remove" /\ update'[a].excess = excess
          /\ update'[a].quantity = update[a].quantity /\ update'[a].used = update[a].used
      BY <3>1, UpdateReads
    <3>3. Surplus(a)' = Surplus(a)
      BY <2>3, <3>2 DEF Surplus
    <3>4. QED
      BY <2>1, <2>2, <2>3, <3>1, <3>2, <3>3 DEF UpdateQuiet
  <2>5. CASE ~(Surplus(a) > 0)
    <3>0. update' = [update EXCEPT ![a].pc = "save"]
      BY <1>3, <2>5 DEF FindUnused
    <3>1. /\ update'[a].pc = "save"
          /\ update'[a].quantity = update[a].quantity /\ update'[a].used = update[a].used
      BY <3>0, UpdateReads, Zenon
    <3>2. Cardinality(VisibleUsers) <= update[a].quantity
      BY <2>2, <2>5, RowsSplit, UsedIsNat DEF Surplus
    <3>3. QED
      BY <2>1, <2>3, <3>1, <3>2 DEF UpdateQuiet
  <2>6. QED
    BY <2>4, <2>5
<1>4. CASE RemoveExcess(a)
  <2>1. /\ rowOf' = rowOf /\ update[a].pc = "remove" /\ update'[a].pc = "save"
        /\ update'[a].quantity = update[a].quantity /\ update'[a].used = update[a].used
        /\ removed' = removed \cup {u \in update[a].excess : rowOf[u] # "none"}
    BY <1>4, <1>a DEF RemoveExcess
  <2>2. /\ update[a].quantity \in Nat /\ update[a].used = UsedCount
        /\ update[a].excess \subseteq UnusedUsers /\ Cardinality(update[a].excess) = Surplus(a)
    BY <1>a, <2>1 DEF UpdateQuiet
  <2>3. VisibleUsers' = VisibleUsers \ update[a].excess /\ update[a].excess \subseteq VisibleUsers
    BY <2>1, <2>2 DEF VisibleUsers, Visible, UnusedUsers
  <2>4. IsFiniteSet(VisibleUsers) /\ Cardinality(VisibleUsers) \in Nat
    BY Counts DEF VisibleUsers
  <2>5. Cardinality(VisibleUsers \ update[a].excess) =
           Cardinality(VisibleUsers) - Cardinality(VisibleUsers \cap update[a].excess)
    BY <2>4, FS_Difference
  <2>6. VisibleUsers \cap update[a].excess = update[a].excess
    BY <2>3
  <2>7. Cardinality(VisibleUsers') = Cardinality(VisibleUsers) - Cardinality(update[a].excess)
    BY <2>3, <2>5, <2>6
  <2>8. Cardinality(VisibleUsers') <= update[a].quantity
    BY <2>2, <2>7, RowsSplit, UsedIsNat DEF Surplus
  <2>9. QED
    BY <2>1, <2>8 DEF UpdateQuiet
<1>5. QED
  BY <1>1, <1>2, <1>3, <1>4 DEF UpdateStepOf

LEMMA StepQuiet == TypeOK /\ AloneInv /\ AloneInv' /\ QuietInv /\ [Next]_vars => QuietInv'
<1> SUFFICES ASSUME TypeOK, AloneInv, AloneInv', QuietInv, [Next]_vars, ~raced'
             PROVE  (\A c \in Calls : CallQuiet(c)') /\ (\A a \in Updates : UpdateQuiet(a)')
  BY DEF QuietInv
<1>0. (\A c \in Calls : CallQuiet(c)) /\ (\A a \in Updates : UpdateQuiet(a))
  BY NoRaceBefore DEF QuietInv
<1>1. ASSUME NEW c \in Calls PROVE CallQuiet(c)'
  <2>1. CASE CallStepOf(c)
    BY <1>0, <2>1, CallStaysQuiet
  <2>2. CASE ~CallStepOf(c) /\ Calling(c)
    <3>1. UNCHANGED vars
      BY <2>2, OnlyTheCall
    <3>2. QED
      BY <1>0, <3>1 DEF vars, CallQuiet, VisibleUsers, Visible, UnusedUsers, UsedUsers, UsedCount
  <2>3. CASE ~CallStepOf(c) /\ ~Calling(c)
    <3>1. call'[c] = call[c]
      BY <2>3, CallFrame
    <3>2. QED
      BY <2>3, <3>1 DEF Calling, CallQuiet
  <2>4. QED
    BY <2>1, <2>2, <2>3
<1>2. ASSUME NEW a \in Updates PROVE UpdateQuiet(a)'
  <2>1. CASE UpdateStepOf(a)
    BY <1>0, <2>1, UpdateStaysQuiet
  <2>2. CASE ~UpdateStepOf(a) /\ Updating(a)
    <3>1. UNCHANGED vars
      BY <2>2, OnlyTheUpdate
    <3>2. QED
      BY <1>0, <3>1
      DEF vars, UpdateQuiet, VisibleUsers, Visible, UnusedUsers, UsedUsers, UsedCount, Surplus
  <2>3. CASE ~UpdateStepOf(a) /\ ~Updating(a)
    <3>1. update'[a] = update[a]
      BY <2>3, UpdateFrame
    <3>2. QED
      BY <2>3, <3>1 DEF Updating, UpdateQuiet
  <2>4. QED
    BY <2>1, <2>2, <2>3
<1>3. QED
  BY <1>1, <1>2

LEMMA VoucherQuiet == Spec => [](TypeOK /\ AloneInv /\ QuietInv)
<1>1. QED
  BY InitType, StepType, InitAlone, StepAlone, InitQuiet, StepQuiet, PTL DEF Spec

(* Where no operations overlap, an update to a larger number than the uses  *)
(* so far leaves no more rows than that number, whoever has them.           *)
THEOREM VoucherRowsFit == Spec => RowsFitQuantity
<1>1. ASSUME TypeOK, QuietInv, NEW a \in Updates, SaveVoucher(a), ~raced,
             update[a].quantity # Unchanged, update[a].quantity > update[a].used
      PROVE  Cardinality(VisibleUsers') <= update[a].quantity
  <2>1. VisibleUsers' \subseteq VisibleUsers
    BY <1>1 DEF SaveVoucher, VisibleUsers, Visible
  <2>2. Cardinality(VisibleUsers) <= update[a].quantity
    BY <1>1 DEF QuietInv, UpdateQuiet, SaveVoucher
  <2>3. IsFiniteSet(VisibleUsers) /\ Cardinality(VisibleUsers) \in Nat
    BY Counts DEF VisibleUsers
  <2>4. Cardinality(VisibleUsers') <= Cardinality(VisibleUsers) /\ Cardinality(VisibleUsers') \in Nat
    BY <2>1, <2>3, FS_Subset, FS_CardinalityType
  <2>5. update[a].quantity \in Nat
    BY <1>1 DEF TypeOK, Update
  <2>6. QED
    BY <2>2, <2>3, <2>4, <2>5
<1>2. TypeOK /\ AloneInv /\ QuietInv /\ [Next]_vars =>
         [\A a \in Updates :
            SaveVoucher(a) /\ ~raced /\ update[a].quantity # Unchanged
                           /\ update[a].quantity > update[a].used
            => Cardinality(VisibleUsers') <= update[a].quantity]_vars
  BY <1>1
<1>3. QED
  BY <1>2, VoucherQuiet, PTL DEF Spec, RowsFitQuantity

(* Where no operations overlap, the checkout's answer about the voucher is  *)
(* the one the customer was given before it.                                *)
THEOREM VoucherPreviewHonoured == Spec => PreviewHonoured
<1>1. ASSUME TypeOK, AloneInv, QuietInv, [Next]_vars, ~raced', NEW c \in Calls
      PROVE  /\ call[c].pc # "rejected" /\ call'[c].pc = "rejected" /\ UserOf[c] \notin removed
                   => ~getVoucherByCode(UserOf[c])
             /\ call[c].pc # "used" /\ call'[c].pc = "used" => getVoucherByCode(UserOf[c])
  <2>a. CallQuiet(c)
    BY <1>1, NoRaceBefore DEF QuietInv
  <2>b. call \in [Calls -> Call] /\ call[c] \in Call /\ UserOf[c] \in Users /\ call[c].quantity \in Nat
    BY <1>1, VoucherAssumption DEF TypeOK, Call
  <2>1. CASE ~CallStepOf(c)
    <3>1. call'[c] = call[c]
      BY <1>1, <2>1, CallFrame
    <3>2. QED
      BY <3>1
  <2>2. CASE Apply(c) \/ RefundFind(c) \/ RefundRow(c)
    <3>1. call'[c].pc \in {"find", "refundRow", "refunded"}
      BY <2>2, <2>b DEF Apply, RefundFind, RefundRow, Call
    <3>2. QED
      BY <3>1
  <2>3. CASE FindVoucher(c)
    <3>1. call'[c].pc = "findRow" \/ (call'[c].pc = "rejected" /\ voucher.state # "live")
      BY <2>3, <2>b DEF FindVoucher, Call
    <3>2. QED
      BY <3>1 DEF getVoucherByCode
  <2>4. CASE FindRow(c)
    <3>1. \/ call'[c].pc \in {"find", "saveRow", "count", "insertRow"}
          \/ call'[c].pc = "rejected" /\ UserOf[c] \in UsedUsers
      BY <2>4, <2>b DEF FindRow, Granted, Call
    <3>2. QED
      BY <3>1 DEF getVoucherByCode
  <2>5. CASE CountUsed(c)
    <3>1. /\ call[c].pc = "count"
          /\ call'[c].pc \in {"find", "insertRow"} \/ (call'[c].pc = "rejected" /\ UsedCount >= call[c].quantity)
      BY <2>5, <2>b DEF CountUsed, Granted, Call
    <3>2. /\ UserOf[c] \notin UnusedUsers /\ voucher.quantity = call[c].quantity /\ call[c].quantity > 0
      BY <2>a, <3>1 DEF CallQuiet, UnusedUsers
    <3>3. QED
      BY <2>b, <3>1, <3>2, UsedIsNat DEF getVoucherByCode
  <2>6. CASE InsertRow(c)
    <3>1. /\ call[c].pc = "insertRow"
          /\ IF rowOf[UserOf[c]] = "none" THEN call'[c].pc = "used" ELSE call'[c].pc = "rejected"
      BY <2>6, <2>b DEF InsertRow, Call
    <3>2. /\ UserOf[c] \notin VisibleUsers /\ voucher.state = "live"
          /\ voucher.quantity = 0 \/ UsedCount < voucher.quantity
      BY <2>a, <3>1 DEF CallQuiet
    <3>3. getVoucherByCode(UserOf[c])
      BY <3>2 DEF getVoucherByCode, UsedUsers
    <3>4. rowOf[UserOf[c]] # "none" => UserOf[c] \in removed
      BY <2>b, <3>2 DEF VisibleUsers, Visible
    <3>5. QED
      BY <3>1, <3>3, <3>4
  <2>7. CASE SaveRow(c)
    <3>1. call[c].pc = "saveRow" /\ call'[c].pc = "used"
      BY <2>7, <2>b DEF SaveRow, Call
    <3>2. UserOf[c] \in UnusedUsers /\ voucher.state = "live"
      BY <2>a, <3>1 DEF CallQuiet
    <3>3. getVoucherByCode(UserOf[c])
      BY <3>2 DEF getVoucherByCode, UsedUsers, UnusedUsers
    <3>4. QED
      BY <3>1, <3>3
  <2>8. QED
    BY <2>1, <2>2, <2>3, <2>4, <2>5, <2>6, <2>7 DEF CallStepOf
<1>2. TypeOK /\ AloneInv /\ QuietInv /\ [Next]_vars =>
         [~raced' => \A c \in Calls :
            LET u == UserOf[c] IN
            /\ call[c].pc # "rejected" /\ call'[c].pc = "rejected" /\ u \notin removed
                  => ~getVoucherByCode(u)
            /\ call[c].pc # "used" /\ call'[c].pc = "used" => getVoucherByCode(u)]_vars
  BY <1>1
<1>3. QED
  BY <1>2, VoucherQuiet, PTL DEF Spec, PreviewHonoured
=============================================================================
