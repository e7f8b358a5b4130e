-------------------------- MODULE InventoryProofs ---------------------------
(***************************************************************************)
(* Inventory's safety for any number of jobs, sizes and products and any   *)
(* item lists.  The rows alone are not inductive: a job carries values it  *)
(* has read and will write, so the invariant also speaks of the entities   *)
(* the jobs hold (HeldOK) and, while undisturbed, says that the one        *)
(* running job holds what the rows still are (Fresh).                      *)
(***************************************************************************)
EXTENDS Inventory, TLAPS, FiniteSetTheorems, WellFoundedInduction

SizeLedger(j) == Stocked(job[j].size) = Stocked(SizeAtStart[Current(j).size])
ProductLedger(j) == Stocked(job[j].product) = Stocked(ProductAtStart[CurrentProduct(j)])

\* What job j holds in memory and may still write.
HeldOK(j) ==
    /\ job[j].pc = "idle" => job[j].item = 1
    /\ job[j].pc \in {"readProduct", "saveSize"} => SizeLedger(j)
    /\ job[j].pc = "saveSize" => job[j].size.inventory >= 0
    /\ job[j].pc \in {"saveSize", "saveProduct"} =>
          ProductLedger(j) /\ job[j].product.inventory >= 0

StockInv ==
    /\ TypeOK
    /\ NonNegative
    /\ RowLedger
    /\ \A j \in Jobs : HeldOK(j)

LEMMA ItemType ==
    ASSUME NEW j \in Jobs, TypeOK, Running(j)
    PROVE  /\ Current(j) \in Item
           /\ Current(j).size \in Sizes
           /\ Current(j).quantity \in Nat
           /\ CurrentProduct(j) \in Products
<1>1. Items[j] \in Seq(Item) /\ job[j].item \in DOMAIN Items[j]
  BY InventoryAssumption DEF TypeOK
<1>2. Current(j) \in Item
  BY <1>1 DEF Current
<1>3. QED
  BY <1>2, InventoryAssumption DEF Item, CurrentProduct

LEMMA ChangeKeepsStocked ==
    ASSUME NEW j \in Jobs, TypeOK, Running(j), NEW r \in Row
    PROVE  /\ Change(j, r) \in Row
           /\ Stocked(Change(j, r)) = Stocked(r)
BY ItemType DEF Change, Row, Stocked

LEMMA NextItem ==
    ASSUME NEW j \in Jobs, NEW i \in Nat \ {0}
    PROVE  /\ AtItem(j, i) \in {"readSize", "done"}
           /\ AtItem(j, i) = "readSize" => i \in DOMAIN Items[j]
<1>1. Items[j] \in Seq(Item)
  BY InventoryAssumption
<1>2. DOMAIN Items[j] = 1..Len(Items[j]) /\ Len(Items[j]) \in Nat
  BY <1>1
<1>3. QED
  BY <1>2 DEF AtItem

THEOREM InitStock == Init => StockInv
<1> SUFFICES ASSUME Init PROVE StockInv
  OBVIOUS
<1>1. TypeOK
  <2>1. job \in [Jobs -> Job]
    BY DEF Init, Job, Step, Row, NoRow
  <2>2. \A j \in Jobs : ~Running(j)
    BY DEF Init, Running, Busy
  <2>3. QED
    BY <2>1, <2>2, InventoryAssumption DEF Init, TypeOK
<1>2. NonNegative /\ RowLedger
  BY InventoryAssumption DEF Init, NonNegative, RowLedger
<1>3. \A j \in Jobs : HeldOK(j)
  BY DEF Init, HeldOK
<1>4. QED
  BY <1>1, <1>2, <1>3 DEF StockInv

\* A job other than the one that steps keeps its fields, so it stays HeldOK.
LEMMA OthersHeld ==
    ASSUME NEW j \in Jobs, HeldOK(j), job'[j] = job[j]
    PROVE  HeldOK(j)'
BY DEF HeldOK, SizeLedger, ProductLedger, Current, CurrentProduct

\* One step per action; each says what the action can disturb.
THEOREM StepStock == StockInv /\ [Next]_vars => StockInv'
<1> SUFFICES ASSUME StockInv, [Next]_vars PROVE StockInv'
  OBVIOUS
<1> USE DEF StockInv
<1>1. ASSUME NEW j \in Jobs, Start(j) PROVE StockInv'
  <2>1. job' = [job EXCEPT ![j].pc = AtItem(j, 1)] /\ job[j].pc = "idle"
    BY <1>1 DEF Start
  <2>2. job' \in [Jobs -> Job]
    BY <2>1, NextItem DEF TypeOK, Job, Step
  <2>3. \A i \in Jobs : Running(i)' => job'[i].item \in DOMAIN Items[i]
    <3> TAKE i \in Jobs
    <3>1. CASE i = j
      BY <3>1, <2>1, NextItem DEF TypeOK, Job, Running, Busy, HeldOK
    <3>2. CASE i # j
      BY <3>2, <2>1 DEF TypeOK, Running
    <3> QED BY <3>1, <3>2
  <2>4. HeldOK(j)'
    BY <2>1, NextItem DEF HeldOK, TypeOK, Job
  <2>5. \A i \in Jobs : HeldOK(i)'
    BY <2>1, <2>4, OthersHeld DEF TypeOK
  <2>6. QED
    BY <1>1, <2>2, <2>3, <2>5 DEF Start, TypeOK, NonNegative, RowLedger, Quiet, Running
<1>2. ASSUME NEW j \in Jobs, ReadSize(j) PROVE StockInv'
  <2> DEFINE s == Current(j).size
  <2>1. Running(j) /\ job' = [job EXCEPT ![j].pc = "readProduct", ![j].size = sizeRow[s]]
    BY <1>2 DEF ReadSize, Running, Busy
  <2>2. s \in Sizes /\ sizeRow[s] \in Row
    BY <2>1, ItemType DEF TypeOK
  <2>3. job' \in [Jobs -> Job]
    BY <2>1, <2>2 DEF TypeOK, Job, Step
  <2>4. \A i \in Jobs : Running(i)' => job'[i].item \in DOMAIN Items[i]
    BY <2>1 DEF TypeOK, Running, Job
  <2>5. HeldOK(j)'
    <3>1. job'[j].pc = "readProduct" /\ job'[j].size = sizeRow[s] /\ job'[j].item = job[j].item
      BY <2>1 DEF TypeOK, Job
    <3>2. Stocked(sizeRow[s]) = Stocked(SizeAtStart[s])
      BY <2>2 DEF RowLedger
    <3>3. QED
      BY <3>1, <3>2 DEF HeldOK, SizeLedger, Current
  <2>6. \A i \in Jobs : HeldOK(i)'
    BY <2>1, <2>5, OthersHeld DEF TypeOK
  <2>7. QED
    BY <1>2, <2>3, <2>4, <2>6 DEF ReadSize, TypeOK, NonNegative, RowLedger
<1>3. ASSUME NEW j \in Jobs, ReadProduct(j) PROVE StockInv'
  <2> DEFINE p == CurrentProduct(j)
             newSize == Change(j, job[j].size)
             newProduct == Change(j, productRow[p])
  <2>1. Running(j) /\ job[j].pc = "readProduct"
    BY <1>3 DEF ReadProduct, Running, Busy
  <2>2. job[j].size \in Row /\ p \in Products /\ productRow[p] \in Row
    BY <2>1, ItemType DEF TypeOK, Job
  <2>3. /\ newSize \in Row /\ Stocked(newSize) = Stocked(job[j].size)
        /\ newProduct \in Row /\ Stocked(newProduct) = Stocked(productRow[p])
    BY <2>1, <2>2, ChangeKeepsStocked
  <2>4. CASE Accepted(j)
    <3>1. job' = [job EXCEPT ![j].pc = "saveSize", ![j].size = newSize, ![j].product = newProduct]
      BY <1>3, <2>4 DEF ReadProduct
    <3>2. job' \in [Jobs -> Job]
      BY <3>1, <2>3 DEF TypeOK, Job, Step
    <3>3. \A i \in Jobs : Running(i)' => job'[i].item \in DOMAIN Items[i]
      BY <3>1, <2>1 DEF TypeOK, Running, Job
    <3>4. HeldOK(j)'
      <4>1. /\ job'[j].pc = "saveSize" /\ job'[j].item = job[j].item
            /\ job'[j].size = newSize /\ job'[j].product = newProduct
        BY <3>1 DEF TypeOK, Job
      <4>2. newSize.inventory >= 0 /\ newProduct.inventory >= 0
        BY <2>4 DEF Accepted
      <4>3. Stocked(newSize) = Stocked(SizeAtStart[Current(j).size])
        BY <2>1, <2>3 DEF HeldOK, SizeLedger
      <4>4. Stocked(newProduct) = Stocked(ProductAtStart[p])
        BY <2>2, <2>3 DEF RowLedger
      <4>5. Current(j)' = Current(j) /\ CurrentProduct(j)' = p
        BY <4>1 DEF Current, CurrentProduct
      <4>6. QED
        BY <4>1, <4>2, <4>3, <4>4, <4>5 DEF HeldOK, SizeLedger, ProductLedger
    <3>5. \A i \in Jobs : HeldOK(i)'
      BY <3>1, <3>4, OthersHeld DEF TypeOK
    <3>6. QED
      BY <1>3, <3>2, <3>3, <3>5 DEF ReadProduct, TypeOK, NonNegative, RowLedger
  <2>5. CASE ~Accepted(j)
    <3>1. job' = [job EXCEPT ![j].pc = "failed"]
      BY <1>3, <2>5 DEF ReadProduct
    <3>2. job' \in [Jobs -> Job]
      BY <3>1 DEF TypeOK, Job, Step
    <3>3. \A i \in Jobs : Running(i)' => job'[i].item \in DOMAIN Items[i]
      BY <3>1, <2>1 DEF TypeOK, Running, Job
    <3>4. HeldOK(j)'
      BY <3>1 DEF TypeOK, Job, HeldOK
    <3>5. \A i \in Jobs : HeldOK(i)'
      BY <3>1, <3>4, OthersHeld DEF TypeOK
    <3>6. QED
      BY <1>3, <3>2, <3>3, <3>5 DEF ReadProduct, TypeOK, NonNegative, RowLedger
  <2>6. QED
    BY <2>4, <2>5
<1>4. ASSUME NEW j \in Jobs, SaveSize(j) PROVE StockInv'
  <2> DEFINE s == Current(j).size
  <2>1. /\ Running(j) /\ job[j].pc = "saveSize"
        /\ sizeRow' = [sizeRow EXCEPT ![s] = job[j].size]
        /\ job' = [job EXCEPT ![j].pc = "saveProduct"]
    BY <1>4 DEF SaveSize, Running, Busy
  <2>2. s \in Sizes /\ job[j].size \in Row
    BY <2>1, ItemType DEF TypeOK, Job
  <2>3. Stocked(job[j].size) = Stocked(SizeAtStart[s]) /\ job[j].size.inventory >= 0
    BY <2>1 DEF HeldOK, SizeLedger
  <2>4. sizeRow' \in [Sizes -> Row]
    BY <2>1, <2>2 DEF TypeOK
  <2>5. \A t \in Sizes : sizeRow'[t].inventory >= 0 /\ Stocked(sizeRow'[t]) = Stocked(SizeAtStart[t])
    BY <2>1, <2>2, <2>3 DEF TypeOK, NonNegative, RowLedger
  <2>6. job' \in [Jobs -> Job]
    BY <2>1 DEF TypeOK, Job, Step
  <2>7. \A i \in Jobs : Running(i)' => job'[i].item \in DOMAIN Items[i]
    BY <2>1 DEF TypeOK, Running, Job
  <2>8. HeldOK(j)'
    <3>1. job'[j].pc = "saveProduct" /\ job'[j].item = job[j].item /\ job'[j].product = job[j].product
      BY <2>1 DEF TypeOK, Job
    <3>2. QED
      BY <2>1, <3>1 DEF HeldOK, ProductLedger, CurrentProduct, Current
  <2>9. \A i \in Jobs : HeldOK(i)'
    BY <2>1, <2>8, OthersHeld DEF TypeOK
  <2>10. QED
    BY <1>4, <2>4, <2>5, <2>6, <2>7, <2>9 DEF SaveSize, TypeOK, NonNegative, RowLedger
<1>5. ASSUME NEW j \in Jobs, SaveProduct(j) PROVE StockInv'
  <2> DEFINE p == CurrentProduct(j)
             i1 == job[j].item + 1
  <2>1. /\ Running(j) /\ job[j].pc = "saveProduct"
        /\ productRow' = [productRow EXCEPT ![p] = job[j].product]
        /\ job' = [job EXCEPT ![j].pc = AtItem(j, i1), ![j].item = i1]
    BY <1>5 DEF SaveProduct, Running, Busy
  <2>2. p \in Products /\ job[j].product \in Row /\ i1 \in Nat \ {0}
    BY <2>1, ItemType DEF TypeOK, Job
  <2>3. Stocked(job[j].product) = Stocked(ProductAtStart[p]) /\ job[j].product.inventory >= 0
    BY <2>1 DEF HeldOK, ProductLedger
  <2>4. productRow' \in [Products -> Row]
    BY <2>1, <2>2 DEF TypeOK
  <2>5. \A q \in Products :
           productRow'[q].inventory >= 0 /\ Stocked(productRow'[q]) = Stocked(ProductAtStart[q])
    BY <2>1, <2>2, <2>3 DEF TypeOK, NonNegative, RowLedger
  <2>6. AtItem(j, i1) \in {"readSize", "done"} /\ (AtItem(j, i1) = "readSize" => i1 \in DOMAIN Items[j])
    BY <2>2, NextItem
  <2>7. job' \in [Jobs -> Job]
    BY <2>1, <2>2, <2>6 DEF TypeOK, Job, Step
  <2>8. \A i \in Jobs : Running(i)' => job'[i].item \in DOMAIN Items[i]
    <3> TAKE i \in Jobs
    <3>1. CASE i = j
      BY <3>1, <2>1, <2>6 DEF TypeOK, Job, Running, Busy
    <3>2. CASE i # j
      BY <3>2, <2>1 DEF TypeOK, Running
    <3> QED BY <3>1, <3>2
  <2>9. HeldOK(j)'
    BY <2>1, <2>6 DEF HeldOK, TypeOK, Job
  <2>10. \A i \in Jobs : HeldOK(i)'
    BY <2>1, <2>9, OthersHeld DEF TypeOK
  <2>11. QED
    BY <1>5, <2>4, <2>5, <2>7, <2>8, <2>10 DEF SaveProduct, TypeOK, NonNegative, RowLedger
<1>6. ASSUME NEW p \in Products, RemoveProduct(p) PROVE StockInv'
  <2>1. job' = job /\ sizeRow' = sizeRow /\ productRow' = productRow
    BY <1>6 DEF RemoveProduct
  <2>2. \A i \in Jobs : HeldOK(i)'
    BY <2>1, OthersHeld
  <2>3. QED
    BY <1>6, <2>1, <2>2 DEF RemoveProduct, TypeOK, Running, NonNegative, RowLedger
<1>7. ASSUME Crash PROVE StockInv'
  <2>1. job' = [j \in Jobs |-> IF Running(j) THEN [job[j] EXCEPT !.pc = "aborted"] ELSE job[j]]
    BY <1>7 DEF Crash
  <2>2. job' \in [Jobs -> Job]
    BY <2>1 DEF TypeOK, Job, Step
  <2>3. \A j \in Jobs : ~Running(j)' /\ HeldOK(j)'
    BY <2>1 DEF TypeOK, Job, Running, Busy, HeldOK
  <2>4. QED
    BY <1>7, <2>2, <2>3 DEF Crash, TypeOK, NonNegative, RowLedger
<1>8. CASE UNCHANGED vars
  <2>1. \A i \in Jobs : HeldOK(i)'
    BY <1>8, OthersHeld DEF vars
  <2>2. QED
    BY <1>8, <2>1 DEF vars, TypeOK, Running, NonNegative, RowLedger
<1>9. QED
  BY <1>1, <1>2, <1>3, <1>4, <1>5, <1>6, <1>7, <1>8 DEF Next, JobStep

(* In every reachable state the rows and the progress of the calls are well *)
(* typed and no call stands past its item list.                             *)
THEOREM InventoryTypeCorrect == Spec => []TypeOK
<1>1. StockInv => TypeOK
  BY DEF StockInv
<1>2. QED
  BY <1>1, InitStock, StepStock, PTL DEF Spec

(* updateInventoryQuantities never leaves a size or a product overdrawn,    *)
(* whatever overlaps and wherever the process dies.                         *)
THEOREM NeverOverdrawn == Spec => []NonNegative
<1>1. StockInv => NonNegative
  BY DEF StockInv
<1>2. QED
  BY <1>1, InitStock, StepStock, PTL DEF Spec

(* inventory + soldQuantity of every row is what it was at the start.       *)
THEOREM LedgerKept == Spec => []RowLedger
<1>1. StockInv => RowLedger
  BY DEF StockInv
<1>2. QED
  BY <1>1, InitStock, StepStock, PTL DEF Spec
-----------------------------------------------------------------------------
(* The refinement.  While undisturbed one job runs at most, and what it     *)
(* holds is the current row, moved once it has passed the checks.           *)
FreshJob(j) ==
    /\ job[j].pc = "readProduct" => job[j].size = sizeRow[Current(j).size]
    /\ job[j].pc = "saveSize" => job[j].size = Change(j, sizeRow[Current(j).size])
    /\ job[j].pc \in {"saveSize", "saveProduct"} =>
          job[j].product = Change(j, productRow[CurrentProduct(j)])

Alone == \A i, k \in Jobs : Running(i) /\ Running(k) => i = k

FreshInv == ~disturbed => Alone /\ \A j \in Jobs : FreshJob(j)

THEOREM InitFresh == Init => FreshInv
BY DEF Init, FreshInv, Alone, FreshJob, Running, Busy

LEMMA OthersFresh ==
    ASSUME NEW j \in Jobs, FreshJob(j), job'[j] = job[j], sizeRow' = sizeRow, productRow' = productRow
    PROVE  FreshJob(j)'
BY DEF FreshJob, Current, CurrentProduct, Change

THEOREM StepFresh == StockInv /\ FreshInv /\ [Next]_vars => FreshInv'
<1> SUFFICES ASSUME StockInv, FreshInv, [Next]_vars, ~disturbed'
             PROVE  Alone' /\ \A j \in Jobs : FreshJob(j)'
  BY DEF FreshInv
<1> USE DEF StockInv
<1>0. ~disturbed
  BY DEF Next, JobStep, Start, ReadSize, ReadProduct, SaveSize, SaveProduct, RemoveProduct, Crash, vars, TypeOK
<1>a. Alone /\ \A j \in Jobs : FreshJob(j)
  BY <1>0 DEF FreshInv
<1>1. ASSUME NEW j \in Jobs, Start(j) PROVE Alone' /\ \A i \in Jobs : FreshJob(i)'
  <2>1. /\ job' = [job EXCEPT ![j].pc = AtItem(j, 1)] /\ Quiet
        /\ sizeRow' = sizeRow /\ productRow' = productRow
    BY <1>1 DEF Start
  <2>2. Alone'
    BY <2>1 DEF Alone, Quiet, Running, TypeOK
  <2>3. FreshJob(j)'
    BY <2>1, NextItem DEF FreshJob, TypeOK, Job
  <2>4. \A i \in Jobs : FreshJob(i)'
    BY <1>a, <2>1, <2>3, OthersFresh DEF TypeOK
  <2>5. QED
    BY <2>2, <2>4
<1>2. ASSUME NEW j \in Jobs, ReadSize(j) PROVE Alone' /\ \A i \in Jobs : FreshJob(i)'
  <2>1. /\ job' = [job EXCEPT ![j].pc = "readProduct", ![j].size = sizeRow[Current(j).size]]
        /\ job[j].pc = "readSize" /\ sizeRow' = sizeRow /\ productRow' = productRow
    BY <1>2 DEF ReadSize
  <2>2. Alone'
    BY <1>a, <2>1 DEF Alone, Running, Busy, TypeOK
  <2>3. FreshJob(j)'
    BY <2>1 DEF FreshJob, TypeOK, Job, Current
  <2>4. \A i \in Jobs : FreshJob(i)'
    BY <1>a, <2>1, <2>3, OthersFresh DEF TypeOK
  <2>5. QED
    BY <2>2, <2>4
<1>3. ASSUME NEW j \in Jobs, ReadProduct(j) PROVE Alone' /\ \A i \in Jobs : FreshJob(i)'
  <2>1. job[j].pc = "readProduct" /\ sizeRow' = sizeRow /\ productRow' = productRow
    BY <1>3 DEF ReadProduct
  <2>2. CASE Accepted(j)
    <3>1. job' = [job EXCEPT ![j].pc = "saveSize", ![j].size = Change(j, job[j].size),
                             ![j].product = Change(j, productRow[CurrentProduct(j)])]
      BY <1>3, <2>2 DEF ReadProduct
    <3>2. Alone'
      BY <1>a, <2>1, <3>1 DEF Alone, Running, Busy, TypeOK
    <3>3. job[j].size = sizeRow[Current(j).size]
      BY <1>a, <2>1 DEF FreshJob
    <3>4. /\ job'[j].pc = "saveSize" /\ job'[j].item = job[j].item
          /\ job'[j].size = Change(j, job[j].size)
          /\ job'[j].product = Change(j, productRow[CurrentProduct(j)])
      BY <3>1 DEF TypeOK, Job
    <3>5. FreshJob(j)'
      BY <2>1, <3>3, <3>4 DEF FreshJob, Current, CurrentProduct, Change
    <3>6. \A i \in Jobs : FreshJob(i)'
      BY <1>a, <2>1, <3>1, <3>5, OthersFresh DEF TypeOK
    <3>7. QED
      BY <3>2, <3>6
  <2>3. CASE ~Accepted(j)
    <3>1. job' = [job EXCEPT ![j].pc = "failed"]
      BY <1>3, <2>3 DEF ReadProduct
    <3>2. Alone'
      BY <1>a, <3>1 DEF Alone, Running, Busy, TypeOK
    <3>3. FreshJob(j)'
      BY <3>1 DEF FreshJob, TypeOK, Job
    <3>4. \A i \in Jobs : FreshJob(i)'
      BY <1>a, <2>1, <3>1, <3>3, OthersFresh DEF TypeOK
    <3>5. QED
      BY <3>2, <3>4
  <2>4. QED
    BY <2>2, <2>3
<1>4. ASSUME NEW j \in Jobs, SaveSize(j) PROVE Alone' /\ \A i \in Jobs : FreshJob(i)'
  <2>1. /\ job[j].pc = "saveSize" /\ productRow' = productRow
        /\ job' = [job EXCEPT ![j].pc = "saveProduct"]
    BY <1>4 DEF SaveSize
  <2>2. \A i \in Jobs : i # j => ~Running(i) /\ job'[i] = job[i]
    BY <1>a, <2>1 DEF Alone, Running, Busy, TypeOK
  <2>3. Alone'
    BY <2>2 DEF Alone, Running
  <2>4. FreshJob(j)'
    BY <1>a, <2>1 DEF FreshJob, TypeOK, Job, Current, CurrentProduct, Change
  <2>5. \A i \in Jobs : i # j => FreshJob(i)'
    BY <2>2 DEF FreshJob, Running, Busy
  <2>6. QED
    BY <2>3, <2>4, <2>5
<1>5. ASSUME NEW j \in Jobs, SaveProduct(j) PROVE Alone' /\ \A i \in Jobs : FreshJob(i)'
  <2> DEFINE i1 == job[j].item + 1
  <2>1. /\ job[j].pc = "saveProduct"
        /\ job' = [job EXCEPT ![j].pc = AtItem(j, i1), ![j].item = i1]
    BY <1>5 DEF SaveProduct
  <2>2. \A i \in Jobs : i # j => ~Running(i) /\ job'[i] = job[i]
    BY <1>a, <2>1 DEF Alone, Running, Busy, TypeOK
  <2>3. Alone'
    BY <2>2 DEF Alone, Running
  <2>4. FreshJob(j)'
    BY <2>1, NextItem DEF FreshJob, TypeOK, Job
  <2>5. \A i \in Jobs : i # j => FreshJob(i)'
    BY <2>2 DEF FreshJob, Running, Busy
  <2>6. QED
    BY <2>3, <2>4, <2>5
<1>6. ASSUME NEW p \in Products, RemoveProduct(p) PROVE Alone' /\ \A i \in Jobs : FreshJob(i)'
  BY <1>6, <1>a, OthersFresh DEF RemoveProduct, Alone, Running
<1>7. ASSUME Crash PROVE Alone' /\ \A i \in Jobs : FreshJob(i)'
  <2>1. \A i \in Jobs : ~Running(i)'
    BY <1>7 DEF Crash, TypeOK, Job, Running, Busy
  <2>2. QED
    BY <2>1 DEF Alone, FreshJob, Running, Busy
<1>8. CASE UNCHANGED vars
  BY <1>8, <1>a, OthersFresh DEF vars, Alone, Running
<1>9. QED
  BY <1>1, <1>2, <1>3, <1>4, <1>5, <1>6, <1>7, <1>8 DEF Next, JobStep
-----------------------------------------------------------------------------
\* The abstract product rows, case by case, before and after a step.
LEMMA PromisedRaw ==
    ASSUME TypeOK, disturbed \/ \A j \in Jobs : job[j].pc # "saveProduct"
    PROVE  PromisedProductRow = productRow
BY DEF PromisedProductRow, Moving, TypeOK

LEMMA PromisedRawNext ==
    ASSUME TypeOK', disturbed' \/ \A j \in Jobs : job'[j].pc # "saveProduct"
    PROVE  PromisedProductRow' = productRow'
BY DEF PromisedProductRow, Moving, TypeOK

LEMMA PromisedMoving ==
    ASSUME TypeOK, ~disturbed, Alone, NEW j \in Jobs, job[j].pc = "saveProduct"
    PROVE  PromisedProductRow = [productRow EXCEPT ![CurrentProduct(j)] = job[j].product]
<1>1. \A i \in Jobs : job[i].pc = "saveProduct" => i = j
  BY DEF Alone, Running, Busy
<1>2. \A p \in Products : Moving(p) = IF p = CurrentProduct(j) THEN {j} ELSE {}
  BY <1>1 DEF Moving
<1>3. productRow \in [Products -> Row] /\ Running(j)
  BY DEF TypeOK, Running, Busy
<1>4. (CHOOSE i \in {j} : TRUE) = j
  OBVIOUS
<1>5. \A p \in Products : PromisedProductRow[p] =
         IF p = CurrentProduct(j) THEN job[j].product ELSE productRow[p]
  BY <1>2, <1>4 DEF PromisedProductRow
<1>6. QED
  BY <1>3, <1>5, ItemType DEF PromisedProductRow

LEMMA PromisedMovingNext ==
    ASSUME TypeOK', ~disturbed', Alone', NEW j \in Jobs, job'[j].pc = "saveProduct",
           CurrentProduct(j)' \in Products
    PROVE  PromisedProductRow' = [productRow' EXCEPT ![CurrentProduct(j)'] = job'[j].product]
<1>1. \A i \in Jobs : job'[i].pc = "saveProduct" => i = j
  BY DEF Alone, Running, Busy
<1>2. \A p \in Products : Moving(p)' = IF p = CurrentProduct(j)' THEN {j} ELSE {}
  BY <1>1 DEF Moving
<1>3. productRow' \in [Products -> Row]
  BY DEF TypeOK
<1>4. (CHOOSE i \in {j} : TRUE) = j
  OBVIOUS
<1>5. \A p \in Products : (PromisedProductRow[p])' =
         IF p = CurrentProduct(j)' THEN job'[j].product ELSE productRow'[p]
  BY <1>2, <1>4 DEF PromisedProductRow
<1>6. QED
  BY <1>3, <1>5 DEF PromisedProductRow

\* Whatever is pending, every abstract row is a move away from the real one.
LEMMA PromisedMoves ==
    ASSUME StockInv, NEW p \in Products
    PROVE  /\ Stocked(PromisedProductRow[p]) = Stocked(ProductAtStart[p])
           /\ PromisedProductRow[p].inventory >= 0
<1>1. CASE PromisedProductRow[p] = productRow[p]
  BY <1>1 DEF StockInv, RowLedger, NonNegative
<1>2. CASE ~disturbed /\ Moving(p) # {}
  <2>1. PICK j \in Jobs : /\ job[j].pc = "saveProduct" /\ CurrentProduct(j) = p
                          /\ PromisedProductRow[p] = job[j].product
    BY <1>2 DEF PromisedProductRow, Moving
  <2>2. QED
    BY <2>1 DEF StockInv, HeldOK, ProductLedger
<1>3. QED
  BY <1>1, <1>2 DEF PromisedProductRow

THEOREM InitPromise == Init => Promise!Init
<1> SUFFICES ASSUME Init PROVE Promise!Init
  OBVIOUS
<1>1. StockInv
  BY InitStock
<1>2. PromisedProductRow = productRow
  BY <1>1, PromisedRaw DEF StockInv, Init
<1>3. QED
  BY <1>1, <1>2 DEF Init, StockInv, TypeOK, Promise!Init, Promise!Row, Row

(* A disturbed step, or one that disturbs: real rows only move, and the     *)
(* abstract product rows fall back on the real ones.                        *)
LEMMA DisturbedStep ==
    ASSUME StockInv, StockInv', disturbed'
    PROVE  Promise!MoveDisturbed
<1>1. \A s \in Sizes : Promise!Moves(sizeRow[s], sizeRow'[s])
  BY DEF StockInv, RowLedger, NonNegative, Promise!Moves, Promise!Stocked, Stocked
<1>2. PromisedProductRow' = productRow'
  BY PromisedRawNext DEF StockInv
<1>3. \A p \in Products : Promise!Moves(PromisedProductRow[p], productRow'[p])
  BY PromisedMoves DEF StockInv, RowLedger, NonNegative, Promise!Moves, Promise!Stocked, Stocked
<1>4. disturbed' = TRUE
  BY DEF StockInv, TypeOK
<1>5. QED
  BY <1>1, <1>2, <1>3, <1>4 DEF Promise!MoveDisturbed

THEOREM StepPromise ==
    StockInv /\ FreshInv /\ StockInv' /\ FreshInv' /\ [Next]_vars => [Promise!Next]_(Promise!vars)
<1> SUFFICES ASSUME StockInv, FreshInv, StockInv', FreshInv', [Next]_vars
             PROVE  Promise!Next \/ UNCHANGED <<sizeRow, PromisedProductRow, disturbed>>
  BY DEF Promise!vars
<1>t. TypeOK /\ TypeOK'
  BY DEF StockInv
<1>1. CASE disturbed'
  BY <1>1, DisturbedStep DEF Promise!Next
<1>2. CASE ~disturbed'
  <2>0. ~disturbed
    BY <1>2, <1>t DEF Next, JobStep, Start, ReadSize, ReadProduct, SaveSize, SaveProduct,
                      RemoveProduct, Crash, vars, TypeOK
  <2>a. Alone /\ Alone' /\ \A j \in Jobs : FreshJob(j)
    BY <1>2, <2>0 DEF FreshInv
  <2>1. ASSUME NEW j \in Jobs, SaveSize(j) PROVE Promise!Next
    <3> DEFINE s == Current(j).size
               p == CurrentProduct(j)
    <3>1. /\ Running(j) /\ job[j].pc = "saveSize"
          /\ sizeRow' = [sizeRow EXCEPT ![s] = job[j].size] /\ productRow' = productRow
          /\ job' = [job EXCEPT ![j].pc = "saveProduct"]
      BY <2>1 DEF SaveSize, Running, Busy
    <3>2. s \in Sizes /\ p \in Products /\ p = ProductOf[s] /\ Current(j).quantity \in Nat
      BY <1>t, <3>1, ItemType DEF CurrentProduct
    <3>3. job'[j].pc = "saveProduct" /\ job'[j].product = job[j].product /\ CurrentProduct(j)' = p
      BY <1>t, <3>1 DEF TypeOK, Job, CurrentProduct, Current
    <3>4. PromisedProductRow' = [productRow EXCEPT ![p] = job[j].product]
      BY <1>t, <1>2, <2>a, <3>1, <3>2, <3>3, PromisedMovingNext
    <3>5. \A i \in Jobs : job[i].pc # "saveProduct"
      BY <2>a, <3>1 DEF Alone, Running, Busy
    <3>6. PromisedProductRow = productRow
      BY <1>t, <3>5, PromisedRaw
    <3>7. job[j].size = Change(j, sizeRow[s]) /\ job[j].product = Change(j, productRow[p])
      BY <2>a, <3>1 DEF FreshJob
    <3>8. sizeRow[s] \in Row /\ productRow[p] \in Row /\ sizeRow'[s] = job[j].size
          /\ PromisedProductRow'[p] = job[j].product
      BY <1>t, <3>1, <3>2, <3>4 DEF TypeOK
    <3>9. sizeRow'[s].sold - sizeRow[s].sold = PromisedProductRow'[p].sold - PromisedProductRow[p].sold
      BY <3>2, <3>6, <3>7, <3>8 DEF Change, Row
    <3>10. Promise!Moves(sizeRow[s], sizeRow'[s])
      BY <3>2 DEF StockInv, RowLedger, NonNegative, Promise!Moves, Promise!Stocked, Stocked
    <3>11. /\ Stocked(PromisedProductRow'[p]) = Stocked(PromisedProductRow[p])
           /\ PromisedProductRow'[p].inventory >= 0
      <4>1. Stocked(job[j].product) = Stocked(ProductAtStart[p]) /\ job[j].product.inventory >= 0
        BY <3>1 DEF StockInv, HeldOK, ProductLedger
      <4>2. Stocked(productRow[p]) = Stocked(ProductAtStart[p])
        BY <3>2 DEF StockInv, RowLedger
      <4>3. QED
        BY <4>1, <4>2, <3>6, <3>8
    <3>12. Promise!Moves(PromisedProductRow[p], PromisedProductRow'[p])
      BY <3>11 DEF Promise!Moves, Promise!Stocked, Stocked
    <3>13. sizeRow' = [sizeRow EXCEPT ![s] = sizeRow'[s]]
      BY <3>1, <3>8
    <3>14. PromisedProductRow' = [PromisedProductRow EXCEPT ![p] = PromisedProductRow'[p]]
      BY <3>4, <3>6, <3>8
    <3>15. Promise!MoveItem(s)
      BY <1>2, <1>t, <2>0, <3>2, <3>9, <3>10, <3>12, <3>13, <3>14 DEF Promise!MoveItem, TypeOK
    <3>16. QED
      BY <3>2, <3>15 DEF Promise!Next
  <2>2. ASSUME NEW j \in Jobs, SaveProduct(j)
        PROVE  UNCHANGED <<sizeRow, PromisedProductRow, disturbed>>
    <3>1. /\ job[j].pc = "saveProduct" /\ sizeRow' = sizeRow /\ disturbed' = disturbed
          /\ productRow' = [productRow EXCEPT ![CurrentProduct(j)] = job[j].product]
          /\ job' = [job EXCEPT ![j].pc = AtItem(j, job[j].item + 1), ![j].item = job[j].item + 1]
      BY <2>2 DEF SaveProduct
    <3>2. PromisedProductRow = productRow'
      BY <1>t, <2>0, <2>a, <3>1, PromisedMoving
    <3>3. \A i \in Jobs : job'[i].pc # "saveProduct"
      <4>1. \A i \in Jobs : i # j => job'[i] = job[i] /\ ~Running(i)
        BY <1>t, <2>a, <3>1 DEF Alone, Running, Busy, TypeOK
      <4>2. job'[j].pc # "saveProduct"
        BY <1>t, <3>1, NextItem DEF TypeOK, Job
      <4>3. QED
        BY <4>1, <4>2 DEF Running, Busy
    <3>4. QED
      BY <1>t, <3>1, <3>2, <3>3, PromisedRawNext
  <2>3. ASSUME UNCHANGED <<sizeRow, productRow, disturbed>>,
               \A i \in Jobs : job[i].pc # "saveProduct",
               \A i \in Jobs : job'[i].pc # "saveProduct"
        PROVE  UNCHANGED <<sizeRow, PromisedProductRow, disturbed>>
    BY <1>t, <2>3, PromisedRaw, PromisedRawNext
  <2>4. ASSUME NEW j \in Jobs, Start(j)
        PROVE  UNCHANGED <<sizeRow, PromisedProductRow, disturbed>>
    <3>0. AtItem(j, 1) # "saveProduct"
      BY NextItem
    <3>1. Quiet /\ job' = [job EXCEPT ![j].pc = AtItem(j, 1)] /\ AtItem(j, 1) # "saveProduct"
          /\ UNCHANGED <<sizeRow, productRow>>
      BY <1>2, <2>4, <3>0 DEF Start
    <3>2. \A i \in Jobs : job[i].pc # "saveProduct" /\ job'[i].pc # "saveProduct"
      BY <1>t, <3>1 DEF Quiet, Running, Busy, TypeOK, Job
    <3>3. QED
      BY <1>2, <2>0, <1>t, <2>3, <3>1, <3>2 DEF TypeOK
  <2>5. ASSUME NEW j \in Jobs, ReadSize(j) \/ ReadProduct(j)
        PROVE  UNCHANGED <<sizeRow, PromisedProductRow, disturbed>>
    <3>1. /\ UNCHANGED <<sizeRow, productRow, disturbed>>
          /\ job[j].pc \in {"readSize", "readProduct"}
          /\ job'[j].pc # "saveProduct"
          /\ \A i \in Jobs : i # j => job'[i] = job[i]
      BY <1>t, <2>5 DEF ReadSize, ReadProduct, TypeOK, Job
    <3>2. \A i \in Jobs : job[i].pc # "saveProduct"
      BY <2>a, <3>1 DEF Alone, Running, Busy
    <3>3. \A i \in Jobs : job'[i].pc # "saveProduct"
      BY <3>1, <3>2
    <3>4. QED
      BY <2>3, <3>1, <3>2, <3>3
  <2>6. ASSUME Crash PROVE UNCHANGED <<sizeRow, PromisedProductRow, disturbed>>
    <3>1. /\ UNCHANGED <<sizeRow, productRow>>
          /\ \A i \in Jobs : job[i].pc # "saveProduct"
      BY <1>2, <2>6 DEF Crash
    <3>2. \A i \in Jobs : job'[i].pc # "saveProduct"
      BY <1>t, <2>6, <3>1 DEF Crash, Running, Busy, TypeOK, Job
    <3>3. QED
      BY <1>2, <2>0, <1>t, <2>3, <3>1, <3>2 DEF TypeOK
  <2>7. ASSUME UNCHANGED <<sizeRow, productRow, job, disturbed>>
        PROVE  UNCHANGED <<sizeRow, PromisedProductRow, disturbed>>
    BY <2>7 DEF PromisedProductRow, Moving, CurrentProduct, Current
  <2>8. QED
    BY <2>1, <2>2, <2>4, <2>5, <2>6, <2>7 DEF Next, JobStep, RemoveProduct, vars
<1>3. QED
  BY <1>1, <1>2

(* The helper implements StockPromise, for every set of calls: undisturbed, *)
(* an item moves in its size and in its product at once; always, every row  *)
(* keeps its sum and stays non-negative.                                    *)
THEOREM HelperKeepsPromise == Spec => KeepsPromise
<1>1. Init => StockInv /\ FreshInv
  BY InitStock, InitFresh
<1>2. (StockInv /\ FreshInv) /\ [Next]_vars => (StockInv /\ FreshInv)'
  BY StepStock, StepFresh
<1>3. (StockInv /\ FreshInv) /\ (StockInv /\ FreshInv)' /\ [Next]_vars => [Promise!Next]_(Promise!vars)
  BY StepPromise
<1>4. QED
  BY <1>1, <1>2, <1>3, InitPromise, PTL DEF Spec, KeepsPromise, Promise!Spec
-----------------------------------------------------------------------------
(* Sums over the sizes of a product, as MapThenSumSet computes them.        *)
\* f is the recursive function that a sum over S stands for.
Chosen(t) == CHOOSE x \in t : TRUE
IsSum(f, w, S) == f = [t \in SUBSET S |-> IF t = {} THEN 0 ELSE w[Chosen(t)].inventory + f[t \ {Chosen(t)}]]

LEMMA AllNaturals ==
  ASSUME NEW S \in SUBSET Nat, 0 \in S, \A n \in S : n + 1 \in S
  PROVE  S = Nat
<1> SUFFICES ASSUME Nat \ S # {} PROVE FALSE
  OBVIOUS
<1> DEFINE Less == {p \in Nat \X Nat : p[1] < p[2]}
<1>1. PICK n \in Nat \ S : \A m \in Nat \ S : ~(m < n)
  <2>1. IsWellFoundedOn(Less, Nat)
    BY NatLessThanWellFounded DEF OpToRel
  <2>2. PICK n \in Nat \ S : \A m \in Nat \ S : ~(<<m, n>> \in Less)
    <3> HIDE DEF Less
    <3>1. Nat \ S \subseteq Nat
      OBVIOUS
    <3> QED
      BY <2>1, <3>1, WFMin, Zenon
  <2>3. \A m, k \in Nat : m < k => <<m, k>> \in Less
    <3> SUFFICES ASSUME NEW m \in Nat, NEW k \in Nat, m < k
                 PROVE  <<m, k>> \in Less
      OBVIOUS
    <3>1. <<m, k>> \in Nat \X Nat /\ <<m, k>>[1] = m /\ <<m, k>>[2] = k
      OBVIOUS
    <3> QED
      BY <3>1, Zenon
  <2> QED
    BY <2>2, <2>3, Zenon
<1>2. n # 0 /\ n - 1 \in Nat
  BY <1>1
<1>3. n - 1 \in S
  BY <1>1, <1>2
<1> QED
  BY <1>1, <1>2, <1>3

LEMMA ChosenFrom == ASSUME NEW t, t # {} PROVE Chosen(t) \in t
  BY DEF Chosen

LEMMA SumExists ==
  ASSUME NEW S, IsFiniteSet(S), NEW w
  PROVE  \E f : IsSum(f, w, S)
<1> DEFINE Small(n) == {t \in SUBSET S : Cardinality(t) <= n}
           IsPart(f, n) == f = [t \in Small(n) |-> IF t = {} THEN 0
                                  ELSE w[Chosen(t)].inventory + f[t \ {Chosen(t)}]]
           N == {n \in Nat : \E f : IsPart(f, n)}
<1>1. \A t \in SUBSET S : IsFiniteSet(t) /\ Cardinality(t) \in Nat
  BY FS_Subset, FS_CardinalityType
<1>2. 0 \in N
  <2>1. \A t \in Small(0) : t = {}
    BY <1>1, FS_EmptySet
  <2>2. IsPart([t \in Small(0) |-> 0], 0)
    BY <2>1
  <2> QED
    BY <2>2
<1>3. ASSUME NEW n \in N PROVE n + 1 \in N
  <2>1. PICK f : IsPart(f, n)
    OBVIOUS
  <2> DEFINE g == [t \in Small(n + 1) |-> IF t \in Small(n) THEN f[t]
                    ELSE w[Chosen(t)].inventory + f[t \ {Chosen(t)}]]
  <2>2. ASSUME NEW t \in Small(n + 1), t # {}
        PROVE  t \ {Chosen(t)} \in Small(n)
    <3>1. Chosen(t) \in t /\ t \in SUBSET S /\ Cardinality(t) <= n + 1
      BY <2>2, ChosenFrom
    <3>2. Cardinality(t \ {Chosen(t)}) = Cardinality(t) - 1
      BY <1>1, <3>1, FS_RemoveElement
    <3> QED
      BY <1>1, <3>1, <3>2
  <2>3. ASSUME NEW t \in Small(n + 1)
        PROVE  g[t] = IF t = {} THEN 0 ELSE w[Chosen(t)].inventory + g[t \ {Chosen(t)}]
    <3>1. CASE t \in Small(n)
      <4>1. Small(n) \subseteq Small(n + 1)
        BY <1>1
      <4>2. g[t] = f[t]
        BY <3>1
      <4>3. f[t] = IF t = {} THEN 0 ELSE w[Chosen(t)].inventory + f[t \ {Chosen(t)}]
        BY <2>1, <3>1
      <4>4. t # {} => t \ {Chosen(t)} \in Small(n) /\ t \ {Chosen(t)} \in Small(n + 1)
        BY <2>2, <4>1
      <4>5. t # {} => g[t \ {Chosen(t)}] = f[t \ {Chosen(t)}]
        BY <4>4
      <4> QED
        BY <4>2, <4>3, <4>5
    <3>2. CASE t \notin Small(n)
      <4>1. t # {}
        <5>1. Cardinality({}) = 0 /\ n \in Nat /\ 0 <= n
          BY FS_EmptySet
        <5>2. {} \in Small(n)
          BY <5>1
        <5> QED
          BY <3>2, <5>2
      <4>2. g[t] = w[Chosen(t)].inventory + f[t \ {Chosen(t)}]
        BY <3>2
      <4>3. g[t \ {Chosen(t)}] = f[t \ {Chosen(t)}]
        <5>1. t \ {Chosen(t)} \in Small(n) /\ t \ {Chosen(t)} \in Small(n + 1)
          BY <1>1, <2>2, <4>1
        <5> QED
          BY <5>1
      <4> QED
        BY <4>1, <4>2, <4>3
    <3> QED
      BY <3>1, <3>2
  <2>4. g = [t \in Small(n + 1) |-> g[t]]
    OBVIOUS
  <2>5. IsPart(g, n + 1)
    <3> HIDE DEF g, Small
    <3> QED
      BY <2>3, <2>4
  <2> HIDE DEF g, IsPart
  <2> QED
    BY <2>5
<1>4. N = Nat
  <2>1. N \subseteq Nat
    BY DEF N
  <2> HIDE DEF N
  <2> QED
    BY <1>2, <1>3, <2>1, AllNaturals
<1>5. Cardinality(S) \in N /\ Small(Cardinality(S)) = SUBSET S
  BY <1>1, <1>4, FS_Subset, FS_CardinalityType
<1> QED
  BY <1>5 DEF IsSum

\* Two sums whose rows differ at x only differ by what those do.
LEMMA SumChanges ==
  ASSUME NEW S, IsFiniteSet(S), NEW w, NEW v, NEW f, NEW g, IsSum(f, w, S), IsSum(g, v, S),
         NEW x, \A y \in S : w[y].inventory \in Int /\ v[y].inventory \in Int,
         \A y \in S \ {x} : v[y].inventory = w[y].inventory
  PROVE  /\ f[S] \in Int
         /\ g[S] = IF x \in S THEN f[S] + (v[x].inventory - w[x].inventory) ELSE f[S]
<1> DEFINE Differ(t) == /\ f[t] \in Int
                        /\ g[t] = IF x \in t THEN f[t] + (v[x].inventory - w[x].inventory) ELSE f[t]
           N == {n \in Nat : \A t \in SUBSET S : Cardinality(t) <= n => Differ(t)}
<1>1. \A t \in SUBSET S : IsFiniteSet(t) /\ Cardinality(t) \in Nat
  BY FS_Subset, FS_CardinalityType
<1>2. \A t \in SUBSET S : /\ f[t] = IF t = {} THEN 0 ELSE w[Chosen(t)].inventory + f[t \ {Chosen(t)}]
                          /\ g[t] = IF t = {} THEN 0 ELSE v[Chosen(t)].inventory + g[t \ {Chosen(t)}]
  BY DEF IsSum
<1>3. 0 \in N
  <2>1. ASSUME NEW t \in SUBSET S, Cardinality(t) <= 0 PROVE Differ(t)
    <3>1. t = {}
      BY <1>1, <2>1, FS_EmptySet
    <3>2. f[t] = 0 /\ g[t] = 0 /\ x \notin t
      BY <1>2, <3>1
    <3> QED
      BY <3>2
  <2> HIDE DEF Differ
  <2> QED
    BY <2>1
<1>4. ASSUME NEW n \in N PROVE n + 1 \in N
  <2>1. ASSUME NEW t \in SUBSET S, Cardinality(t) <= n + 1 PROVE Differ(t)
    <3>1. CASE t = {}
      <4>1. f[t] = 0 /\ g[t] = 0 /\ x \notin t
        BY <1>2, <3>1
      <4> QED
        BY <4>1
    <3>2. CASE t # {}
      <4> DEFINE y == Chosen(t)
                 u == t \ {y}
      <4>1. y \in t /\ u \in SUBSET S
        BY <3>2, ChosenFrom
      <4>2. Cardinality(u) <= n
        <5>1. Cardinality(u) = Cardinality(t) - 1
          BY <1>1, <4>1, FS_RemoveElement
        <5> QED
          BY <1>1, <2>1, <5>1
      <4>3. Differ(u)
        BY <4>1, <4>2
      <4>4. f[t] = w[y].inventory + f[u] /\ g[t] = v[y].inventory + g[u]
        BY <1>2, <3>2
      <4>5. y \in S /\ (x \in u <=> x \in t /\ x # y)
        BY <4>1
      <4> HIDE DEF y, u
      <4>6. CASE x = y
        BY <4>1, <4>3, <4>4, <4>5, <4>6
      <4>7. CASE x # y
        <5>1. v[y].inventory = w[y].inventory /\ w[y].inventory \in Int
          BY <4>5, <4>7
        <5> QED
          BY <4>3, <4>4, <4>5, <4>7, <5>1
      <4> QED
        BY <4>6, <4>7
    <3> QED
      BY <3>1, <3>2
  <2> HIDE DEF Differ
  <2>2. n + 1 \in Nat
    OBVIOUS
  <2> QED
    BY <2>1, <2>2
<1>5. Cardinality(S) \in N
  <2>1. N \subseteq Nat
    BY DEF N
  <2>2. N = Nat
    <3> HIDE DEF N
    <3> QED
      BY <1>3, <1>4, <2>1, AllNaturals
  <2> QED
    BY <1>1, <2>2
<1> QED
  BY <1>1, <1>5

\* TotalOf is such a sum.
LEMMA TotalIsSum ==
  ASSUME IsFiniteSet(Sizes), NEW p, NEW row
  PROVE  LET S == {s \in Sizes : ProductOf[s] = p}
         IN IsFiniteSet(S) /\ \E f : IsSum(f, row, S) /\ TotalOf(p, row) = f[S]
<1> DEFINE S == {s \in Sizes : ProductOf[s] = p}
<1>1. TotalOf(p, row) = (CHOOSE f : IsSum(f, row, S))[S]
  BY DEF TotalOf, MapThenSumSet, MapThenFoldSet, IsSum, Chosen
<1>2. IsFiniteSet(S)
  BY FS_Subset
<1> HIDE DEF S
<1>3. \E f : IsSum(f, row, S)
  BY <1>2, SumExists
<1>4. IsSum((CHOOSE f : IsSum(f, row, S)), row, S)
  BY <1>3
<1> QED
  BY <1>1, <1>2, <1>4 DEF S

\* A size that sells or gets back units changes the total of its product only,
\* and by as many.
LEMMA TotalFollows ==
  ASSUME IsFiniteSet(Sizes), NEW old \in [Sizes -> Row], NEW new \in [Sizes -> Row],
         NEW s \in Sizes, \A z \in Sizes \ {s} : new[z] = old[z], NEW p
  PROVE  /\ TotalOf(p, old) \in Int
         /\ TotalOf(p, new) = IF ProductOf[s] = p
                              THEN TotalOf(p, old) + (new[s].inventory - old[s].inventory)
                              ELSE TotalOf(p, old)
<1> DEFINE S == {z \in Sizes : ProductOf[z] = p}
<1>1. PICK f : IsSum(f, old, S) /\ TotalOf(p, old) = f[S]
  BY TotalIsSum
<1>2. PICK g : IsSum(g, new, S) /\ TotalOf(p, new) = g[S]
  BY TotalIsSum
<1>3. IsFiniteSet(S)
  BY FS_Subset
<1>4. \A z \in S : old[z].inventory \in Int /\ new[z].inventory \in Int
  BY DEF Row
<1>5. \A z \in S \ {s} : new[z].inventory = old[z].inventory
  OBVIOUS
<1>6. s \in S <=> ProductOf[s] = p
  OBVIOUS
<1> HIDE DEF S
<1> QED
  BY <1>1, <1>2, <1>3, <1>4, <1>5, <1>6, SumChanges

-----------------------------------------------------------------------------
\* The abstract product rows are rows.
LEMMA PromisedType == ASSUME StockInv PROVE PromisedProductRow \in [Products -> Row]
<1>1. \A p \in Products : PromisedProductRow[p] \in Row
  <2> SUFFICES ASSUME NEW p \in Products PROVE PromisedProductRow[p] \in Row
    OBVIOUS
  <2>1. CASE PromisedProductRow[p] = productRow[p]
    BY <2>1 DEF StockInv, TypeOK
  <2>2. CASE ~disturbed /\ Moving(p) # {}
    <3>1. PICK j \in Jobs : PromisedProductRow[p] = job[j].product
      BY <2>2 DEF PromisedProductRow, Moving
    <3> QED
      BY <3>1 DEF StockInv, TypeOK, Job
  <2> QED
    BY <2>1, <2>2 DEF PromisedProductRow
<1> QED
  BY <1>1 DEF PromisedProductRow

LEMMA PromisedTypeNext == ASSUME StockInv' PROVE PromisedProductRow' \in [Products -> Row]
<1>1. \A p \in Products : PromisedProductRow'[p] \in Row
  <2> SUFFICES ASSUME NEW p \in Products PROVE PromisedProductRow'[p] \in Row
    OBVIOUS
  <2>1. CASE PromisedProductRow'[p] = productRow'[p]
    BY <2>1 DEF StockInv, TypeOK
  <2>2. CASE ~disturbed' /\ Moving(p)' # {}
    <3>1. PICK j \in Jobs : PromisedProductRow'[p] = job'[j].product
      BY <2>2 DEF PromisedProductRow, Moving
    <3> QED
      BY <3>1 DEF StockInv, TypeOK, Job
  <2> QED
    BY <2>1, <2>2 DEF PromisedProductRow
<1> QED
  BY <1>1 DEF PromisedProductRow

\* While undisturbed, the totals as the pending save will leave them are right.
TotalsInv == ~disturbed => \A p \in Products : PromisedProductRow[p].inventory = TotalOf(p, sizeRow)

\* Rows that keep their sums and sell as many lose as many.
LEMMA MovedAlike ==
  ASSUME NEW a \in Row, NEW b \in Row, NEW c \in Row, NEW d \in Row,
         Stocked(b) = Stocked(a), Stocked(d) = Stocked(c), b.sold - a.sold = d.sold - c.sold
  PROVE  b.inventory - a.inventory = d.inventory - c.inventory
<1>1. \A r \in Row : r.inventory \in Int /\ r.sold \in Int
  BY DEF Row
<1>2. /\ a.inventory \in Int /\ a.sold \in Int /\ b.inventory \in Int /\ b.sold \in Int
      /\ c.inventory \in Int /\ c.sold \in Int /\ d.inventory \in Int /\ d.sold \in Int
  BY <1>1
<1>3. /\ b.inventory + b.sold = a.inventory + a.sold
      /\ d.inventory + d.sold = c.inventory + c.sold
  BY DEF Stocked
<1>4. /\ b.inventory = a.inventory - (b.sold - a.sold)
      /\ d.inventory = c.inventory - (d.sold - c.sold)
  BY <1>2, <1>3
<1>5. PICK n \in Int : n = b.sold - a.sold /\ n = d.sold - c.sold
  BY <1>2
<1>6. b.inventory = a.inventory - n /\ d.inventory = c.inventory - n
  BY <1>4, <1>5
<1> QED
  BY <1>2, <1>6

LEMMA StepTotals ==
  ASSUME IsFiniteSet(Sizes), StockInv, StockInv', TotalsInv, [Promise!Next]_(Promise!vars),
         ~disturbed'
  PROVE  TotalsInv'
<1>0. \A p : TotalOf(p, sizeRow)' = TotalOf(p, sizeRow')
  BY DEF TotalOf, MapThenSumSet, MapThenFoldSet
<1>1. CASE UNCHANGED Promise!vars
  <2>1. sizeRow' = sizeRow /\ PromisedProductRow' = PromisedProductRow /\ disturbed' = disturbed
    BY <1>1 DEF Promise!vars
  <2> QED
    BY <1>0, <2>1 DEF TotalsInv
<1>2. CASE Promise!MoveDisturbed
  BY <1>2 DEF Promise!MoveDisturbed
<1>3. ASSUME NEW s \in Sizes, Promise!MoveItem(s) PROVE TotalsInv'
  <2> DEFINE q == ProductOf[s]
             before == PromisedProductRow
             after == PromisedProductRow'
  <2>1. /\ ~disturbed
        /\ sizeRow' = [sizeRow EXCEPT ![s] = sizeRow'[s]]
        /\ after = [before EXCEPT ![q] = after[q]]
        /\ Stocked(sizeRow'[s]) = Stocked(sizeRow[s]) /\ Stocked(after[q]) = Stocked(before[q])
        /\ sizeRow'[s].sold - sizeRow[s].sold = after[q].sold - before[q].sold
    BY <1>3 DEF Promise!MoveItem, Promise!Moves, Promise!Stocked, Stocked
  <2>2. /\ q \in Products
        /\ sizeRow \in [Sizes -> Row] /\ sizeRow' \in [Sizes -> Row]
        /\ before \in [Products -> Row] /\ after \in [Products -> Row]
    <3>1. before \in [Products -> Row] /\ after \in [Products -> Row]
      BY PromisedType, PromisedTypeNext
    <3>2. sizeRow \in [Sizes -> Row] /\ sizeRow' \in [Sizes -> Row]
      BY DEF StockInv, TypeOK
    <3> HIDE DEF before, after
    <3> QED
      BY <3>1, <3>2, InventoryAssumption
  <2>3. sizeRow'[s].inventory - sizeRow[s].inventory = after[q].inventory - before[q].inventory
    <3>1. /\ sizeRow[s] \in Row /\ sizeRow'[s] \in Row
          /\ before[q] \in Row /\ after[q] \in Row
      BY <2>2
    <3>2. /\ Stocked(sizeRow'[s]) = Stocked(sizeRow[s]) /\ Stocked(after[q]) = Stocked(before[q])
          /\ sizeRow'[s].sold - sizeRow[s].sold = after[q].sold - before[q].sold
      BY <2>1
    <3> HIDE DEF before, after, q
    <3> QED
      BY <3>1, <3>2, MovedAlike
  <2>4. \A z \in Sizes \ {s} : sizeRow'[z] = sizeRow[z]
    BY <2>1, <2>2
  <2>5. \A p \in Products : before[p].inventory = TotalOf(p, sizeRow)
    BY <2>1 DEF TotalsInv
  <2>6. ASSUME NEW p \in Products PROVE after[p].inventory = TotalOf(p, sizeRow')
    <3>1. /\ TotalOf(p, sizeRow) \in Int
          /\ TotalOf(p, sizeRow') = IF q = p
                THEN TotalOf(p, sizeRow) + (sizeRow'[s].inventory - sizeRow[s].inventory)
                ELSE TotalOf(p, sizeRow)
      BY <2>2, <2>4, TotalFollows
    <3>2. p # q => after[p] = before[p]
      BY <2>1, <2>2
    <3>3. before[p] \in Row /\ after[p] \in Row
      BY <2>2
    <3> HIDE DEF before, after
    <3> QED
      BY <2>3, <2>5, <3>1, <3>2, <3>3 DEF Row
  <2> QED
    BY <1>0, <2>6 DEF TotalsInv
<1> QED
  BY <1>1, <1>2, <1>3 DEF Promise!Next

(* If the totals are right at the start, they are right whenever no call is *)
(* at work and none has overlapped or been torn: the two saves of an item   *)
(* move the size and its product's total by the same quantity.              *)
THEOREM TotalsStayInStep ==
  ASSUME IsFiniteSet(Sizes),
         \A p \in Products : ProductAtStart[p].inventory = TotalOf(p, SizeAtStart)
  PROVE  Spec => []TotalsAgree
<1> DEFINE Inv == StockInv /\ FreshInv
<1>1. Init => Inv /\ TotalsInv
  <2> SUFFICES ASSUME Init PROVE TotalsInv
    BY InitStock, InitFresh
  <2>1. PromisedProductRow = productRow
    BY InitStock, PromisedRaw DEF StockInv, Init
  <2> QED
    BY <2>1 DEF Init, TotalsInv
<1>2. Inv /\ [Next]_vars => Inv'
  BY StepStock, StepFresh
<1>3. Inv /\ Inv' /\ TotalsInv /\ [Next]_vars => TotalsInv'
  <2> SUFFICES ASSUME Inv, Inv', TotalsInv, [Next]_vars, ~disturbed' PROVE TotalsInv'
    BY DEF TotalsInv
  <2> QED
    BY StepPromise, StepTotals DEF StockInv
<1>4. Inv /\ TotalsInv => TotalsAgree
  <2> SUFFICES ASSUME Inv, TotalsInv, Quiet, ~disturbed
               PROVE  \A p \in Products : productRow[p].inventory = TotalOf(p, sizeRow)
    BY DEF TotalsAgree
  <2>1. \A j \in Jobs : job[j].pc # "saveProduct"
    BY DEF Quiet, Running, Busy
  <2>2. PromisedProductRow = productRow
    BY <2>1, PromisedRaw DEF StockInv
  <2> QED
    BY <2>2 DEF TotalsInv
<1> QED
  BY <1>1, <1>2, <1>3, <1>4, PTL DEF Spec
=============================================================================
