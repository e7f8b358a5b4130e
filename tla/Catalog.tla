------------------------------- MODULE Catalog -------------------------------
(***************************************************************************)
(* One product with its variants and sizes: the admin's create, update,    *)
(* archive and delete (src/modules/products/products.service.ts), beside   *)
(* the checkouts' stock updates (inventory.helper.ts).                     *)
(*                                                                         *)
(* A call of the admin loads the product with its variants and sizes and   *)
(* then saves them one after the other.  A save writes whatever differs    *)
(* from the entity, so it writes the columns as they were loaded, too;     *)
(* what is undefined is not written.  Saving a variant saves the sizes     *)
(* loaded with it (cascade), and fails if it has one more by now, which it *)
(* would detach (variantId is NOT NULL); a product likewise.               *)
(*                                                                         *)
(* The select and the update of a save are one step here, and so are the   *)
(* two reads of a stock update: Inventory has them apart, and the          *)
(* properties are of calls nothing else ran beside.  Images, texts and the *)
(* lookups of the category are left out: they fail before any write.       *)
(***************************************************************************)
EXTENDS Integers, SequencesExt, FiniteSetsExt

CONSTANTS
    AdminCalls,  \* of the admin, numbered as they begin; a variant or size is named
                 \* by the call that inserts it
    Movers,      \* stock updates of one unit each, out or back
    Names,       \* of sizes
    Creations,   \* bodies of create: per variant, its sizes
    Edits,       \* bodies of update
    Unset,       \* what a body leaves out
    NoEdit

VARIABLES
    product,      \* its row of products
    variant,      \* variants
    size,         \* variant-sizes
    edit,         \* the admin's calls
    mover,        \* the stock updates
    \* history
    editLone,     \* the call in flight, if nothing ran beside it yet
    editSettled,  \* since an edit ran alone to its end, calls have come one by one, whole
    counted,      \* the sizes that the product's totals were computed from
    fitted,       \* the sizes that this edit has written
    closed        \* the product was archived or deleted, and not edited since

productRows == <<product, variant, size>>
editHistory == <<editLone, editSettled, counted, fitted, closed>>
catalogVars == <<productRows, edit, mover, editHistory>>

ProductRow == [there : BOOLEAN, deleted : BOOLEAN, active : BOOLEAN, archived : BOOLEAN,
               quantity : Int, sold : Int, inventory : Int]
NoProduct == [there |-> FALSE, deleted |-> FALSE, active |-> FALSE, archived |-> FALSE,
              quantity |-> 0, sold |-> 0, inventory |-> 0]

VariantRow == [there : BOOLEAN, active : BOOLEAN]
NoVariant == [there |-> FALSE, active |-> FALSE]

\* A size: its variant, its name, and the call that inserted it.
SizeIds == AdminCalls \X Names \X AdminCalls
SizeRow == [there : BOOLEAN, quantity : Int, sold : Int, inventory : Int, active : BOOLEAN]
NoSize == [there |-> FALSE, quantity |-> 0, sold |-> 0, inventory |-> 0, active |-> FALSE]

Optional(S) == S \cup {Unset}
OrElse(value, default) == IF value = Unset THEN default ELSE value

\* The sizes in a body of create; of update they bring no soldQuantity and no inventory.
CreateVariantSizeDto == [name : Names, quantity : Nat, sold : Optional(Nat),
                         inventory : Optional(Nat), active : Optional(BOOLEAN)]
CreateVariantDto == [active : Optional(BOOLEAN), sizes : Seq(CreateVariantSizeDto)]
CreateProductDto == [active : Optional(BOOLEAN), variants : Seq(CreateVariantDto)]

\* A variant that the body gives no known id is a new one; it is named NoEdit here.
UpdateVariantSizeDto == [name : Names, quantity : Nat, active : Optional(BOOLEAN)]
UpdateVariantDto == [id : AdminCalls \cup {NoEdit}, active : Optional(BOOLEAN), sizes : Seq(UpdateVariantSizeDto)]
UpdateProductDto == [active : Optional(BOOLEAN), archived : Optional(BOOLEAN), variants : Seq(UpdateVariantDto)]

ASSUME CatalogAssumption ==
    /\ AdminCalls \subseteq Nat /\ AdminCalls \cap Movers = {} /\ NoEdit \notin AdminCalls \cup Movers
    /\ Unset \notin BOOLEAN /\ Unset \notin Int
    /\ Creations \subseteq CreateProductDto
    /\ Edits \subseteq UpdateProductDto

\* A call's entity is the product as loaded; todo is what it has to save.
FreshEdit == [pc |-> "idle", op |-> "none", dto |-> Unset, todo |-> <<>>, entity |-> Unset]
EditEnded == [FreshEdit EXCEPT !.pc = "ended"]
Resting == [pc |-> "idle", id |-> NoEdit, row |-> NoSize, product |-> NoProduct]

EditsInFlight == {c \in AdminCalls : edit[c].pc = "save"} \cup {m \in Movers : mover[m].pc \in {"size", "product"}}
CatalogQuiet == EditsInFlight = {}

Turn(c) == edit[c].pc = "idle" /\ \A b \in AdminCalls : b < c => edit[b].pc # "idle"

Here(table) == {k \in DOMAIN table : table[k].there}
ProductFound == product.there /\ ~product.deleted

CatalogInit ==
    /\ product = NoProduct
    /\ variant = [v \in AdminCalls |-> NoVariant]
    /\ size = [s \in SizeIds |-> NoSize]
    /\ edit = [c \in AdminCalls |-> FreshEdit]
    /\ mover = [m \in Movers |-> Resting]
    /\ editLone = NoEdit
    /\ editSettled = FALSE
    /\ counted = {}
    /\ fitted = {}
    /\ closed = FALSE

\* A call begins; what was settled stays so only if nothing else is under way.
EditBegins(who, disturbs) ==
    /\ editLone' = IF CatalogQuiet THEN who ELSE NoEdit
    /\ editSettled' = (editSettled /\ CatalogQuiet /\ ~disturbs)

-----------------------------------------------------------------------------
(* What a body asks for, query by query *)

Total(of(_), S) == MapThenSumSet(of, S)

\* The loops of create: each variant, then its sizes.
CreateTasks(dto) ==
    FlattenSeq([i \in 1..Len(dto.variants) |->
        <<[do |-> "newVariant", active |-> OrElse(dto.variants[i].active, TRUE)]>> \o
        [j \in 1..Len(dto.variants[i].sizes) |->
            LET s == dto.variants[i].sizes[j]
            IN [do |-> "newSize", name |-> s.name, row |->
                   [there |-> TRUE, quantity |-> s.quantity, sold |-> OrElse(s.sold, 0),
                    inventory |-> OrElse(s.inventory, s.quantity), active |-> OrElse(s.active, TRUE)]]]])

NewSizeRow(s) == [there |-> TRUE, quantity |-> s.quantity, sold |-> 0,
                  inventory |-> s.quantity, active |-> OrElse(s.active, TRUE)]

\* A size is found by its id or by its name.
FoundSize(entity, v, name) == {s \in Here(entity.size) : s[1] = v /\ s[2] = name}

\* The loops of update, over the product as it was loaded.
UpdateTasks(dto, entity) ==
    FlattenSeq([i \in 1..Len(dto.variants) |->
        LET v == dto.variants[i]
        IN IF v.id \in Here(entity.variant)
           THEN <<[do |-> "variant", id |-> v.id, active |-> v.active]>> \o
                [j \in 1..Len(v.sizes) |->
                    IF FoundSize(entity, v.id, v.sizes[j].name) # {}
                    THEN [do |-> "size", id |-> v.id, name |-> v.sizes[j].name,
                          quantity |-> v.sizes[j].quantity, active |-> v.sizes[j].active]
                    ELSE [do |-> "addSize", id |-> v.id, name |-> v.sizes[j].name, row |-> NewSizeRow(v.sizes[j])]]
           ELSE <<[do |-> "newVariant", active |-> OrElse(v.active, TRUE)]>> \o
                [j \in 1..Len(v.sizes) |-> [do |-> "newSize", name |-> v.sizes[j].name, row |-> NewSizeRow(v.sizes[j])]]])

\* archive saves every variant it has loaded, in no order that it asks for.
ArchiveTasks(entity) ==
    LET ids == SetToSeq(Here(entity.variant))
    IN [i \in 1..Len(ids) |-> [do |-> "archiveVariant", id |-> ids[i]]]

\* prepareProductToCreate: the totals of the body.
CreateTotals(dto) ==
    LET sizes == FlattenSeq([i \in 1..Len(dto.variants) |-> dto.variants[i].sizes])
        quantity == Total(LAMBDA i : sizes[i].quantity, 1..Len(sizes))
        sold == Total(LAMBDA i : OrElse(sizes[i].sold, 0), 1..Len(sizes))
    IN [quantity |-> quantity, sold |-> sold, inventory |-> quantity - sold]

\* The totals of the product in memory, which has none of the sizes inserted since.
calculateProductInventory(entity) ==
    LET quantity == Total(LAMBDA s : entity.size[s].quantity, Here(entity.size))
        sold == Total(LAMBDA s : entity.size[s].sold, Here(entity.size))
    IN [quantity |-> quantity, sold |-> sold, inventory |-> quantity - sold]

WithTotals(p, totals) ==
    [p EXCEPT !.quantity = totals.quantity, !.sold = totals.sold, !.inventory = totals.inventory]
-----------------------------------------------------------------------------
(* The admin's calls begin *)

Snapshot == [product |-> product, variant |-> variant, size |-> size]

\* The product is saved with its totals before any of its variants.
CreateProduct(c) ==
    /\ Turn(c)
    /\ ~product.there       \* one product is modelled
    /\ \E dto \in Creations :
          /\ product' = WithTotals([NoProduct EXCEPT !.there = TRUE, !.active = OrElse(dto.active, FALSE)],
                                   CreateTotals(dto))
          /\ edit' = [edit EXCEPT ![c] = [FreshEdit EXCEPT !.pc = "save", !.op = "create", !.dto = dto,
                                                           !.todo = CreateTasks(dto)]]
    /\ EditBegins(c, TRUE)
    /\ fitted' = {}
    /\ UNCHANGED <<variant, size, mover, counted, closed>>

LoadToUpdate(c) ==
    /\ Turn(c)
    /\ ProductFound
    /\ \E dto \in Edits :
          edit' = [edit EXCEPT ![c] = [FreshEdit EXCEPT !.pc = "save", !.op = "update", !.dto = dto,
                                          !.todo = UpdateTasks(dto, Snapshot), !.entity = Snapshot]]
    /\ EditBegins(c, TRUE)
    /\ fitted' = {}
    /\ closed' = FALSE
    /\ UNCHANGED <<productRows, mover, counted>>

LoadToArchive(c) ==
    /\ Turn(c)
    /\ ProductFound
    /\ edit' = [edit EXCEPT ![c] = [FreshEdit EXCEPT !.pc = "save", !.op = "archive",
                                        !.todo = ArchiveTasks(Snapshot), !.entity = Snapshot]]
    /\ EditBegins(c, FALSE)
    /\ UNCHANGED <<productRows, mover, counted, fitted, closed>>

\* softDelete, whatever goes on.
DeleteProduct(c) ==
    /\ Turn(c)
    /\ edit' = [edit EXCEPT ![c] = EditEnded]
    /\ product' = IF ProductFound THEN [product EXCEPT !.deleted = TRUE] ELSE product
    /\ closed' = (closed \/ (CatalogQuiet /\ product.there))
    /\ UNCHANGED <<variant, size, mover, editLone, editSettled, counted, fitted>>
-----------------------------------------------------------------------------
(* One save after the other *)

Task(c) == Head(edit[c].todo)
Doing(c, do) == edit[c].pc = "save" /\ edit[c].todo # <<>> /\ Task(c).do = do

InsertVariant(c) ==
    /\ Doing(c, "newVariant")
    /\ variant' = [variant EXCEPT ![c] = [there |-> TRUE, active |-> Task(c).active]]
    /\ edit' = [edit EXCEPT ![c].todo = Tail(@)]
    /\ UNCHANGED <<product, size, mover, editHistory>>

\* The size of a variant just inserted, or one more of a variant that was there.
InsertSize(c) ==
    /\ Doing(c, "newSize") \/ Doing(c, "addSize")
    /\ LET id == <<IF Task(c).do = "newSize" THEN c ELSE Task(c).id, Task(c).name, c>>
       IN /\ size' = [size EXCEPT ![id] = Task(c).row]
          /\ fitted' = fitted \cup {id}
    /\ edit' = [edit EXCEPT ![c].todo = Tail(@)]
    /\ UNCHANGED <<product, variant, mover, editLone, editSettled, counted, closed>>

\* What a save makes of a row: an undefined column stays.
SavedRow(row, entity) == [col \in DOMAIN row |-> OrElse(entity[col], row[col])]

SizesOf(v, table) == {s \in Here(table) : s[1] = v}

Fail(c) ==
    /\ edit' = [edit EXCEPT ![c] = EditEnded]
    /\ editSettled' = FALSE
    /\ UNCHANGED <<productRows, mover, editLone, counted, fitted, closed>>

\* The entity with one variant changed: archive marks its sizes, too.
EntityWithVariant(entity, task) ==
    LET archive == task.do = "archiveVariant"
    IN [entity EXCEPT
           !.variant = [@ EXCEPT ![task.id].active = IF archive THEN FALSE ELSE task.active],
           !.size = [s \in SizeIds |-> IF archive /\ s[1] = task.id
                                       THEN [entity.size[s] EXCEPT !.active = FALSE] ELSE entity.size[s]]]

\* A variant is saved with the sizes loaded with it.
SaveVariant(c) ==
    /\ Doing(c, "variant") \/ Doing(c, "archiveVariant")
    /\ LET v == Task(c).id
           entity == EntityWithVariant(edit[c].entity, Task(c))
           loaded == SizesOf(v, entity.size)
       IN IF SizesOf(v, size) # loaded THEN Fail(c)
          ELSE /\ variant' = [variant EXCEPT ![v] = SavedRow(@, entity.variant[v])]
               /\ size' = [s \in SizeIds |-> IF s \in loaded THEN SavedRow(size[s], entity.size[s]) ELSE size[s]]
               /\ edit' = [edit EXCEPT ![c] = [edit[c] EXCEPT !.todo = Tail(@), !.entity = entity]]
               /\ UNCHANGED <<product, mover, editHistory>>

\* Mutant: the inventory becomes the new quantity.
EditedSize_NothingSold(s, task) ==
    [s EXCEPT !.quantity = task.quantity, !.active = task.active, !.inventory = task.quantity]

\* The inventory is what the loaded soldQuantity leaves of the new quantity.
EditedSize(s, task) ==
    [s EXCEPT !.quantity = task.quantity, !.active = task.active, !.inventory = task.quantity - s.sold]

EntityWithSize(entity, s, task) ==
    [entity EXCEPT !.size = [@ EXCEPT ![s] = EditedSize(entity.size[s], task)]]

SaveSize(c) ==
    /\ Doing(c, "size")
    /\ \E s \in FoundSize(edit[c].entity, Task(c).id, Task(c).name) :
          LET entity == EntityWithSize(edit[c].entity, s, Task(c))
          IN /\ size' = [size EXCEPT ![s] = SavedRow(@, entity.size[s])]
             /\ edit' = [edit EXCEPT ![c] = [edit[c] EXCEPT !.todo = Tail(@), !.entity = entity]]
             /\ fitted' = fitted \cup {s}
    /\ UNCHANGED <<product, variant, mover, editLone, editSettled, counted, closed>>

\* Mutant: archive marks the variants and sizes only.
Archived_NotMarked(p) == p

Archived(p) == [p EXCEPT !.archived = TRUE, !.active = FALSE]

\* The product as update saves it.
UpdatedProduct(entity, dto) ==
    WithTotals([entity.product EXCEPT !.active = dto.active, !.archived = dto.archived],
               calculateProductInventory(entity))

\* The last save of update and of archive.  It fails when the product has a
\* variant that was not loaded, also one that this call has inserted.  A
\* product deleted since is saved as it was loaded: not deleted.
SaveProduct(c) ==
    /\ edit[c].pc = "save" /\ edit[c].todo = <<>> /\ edit[c].op # "create"
    /\ LET entity == edit[c].entity
           update == edit[c].op = "update"
       IN IF Here(variant) # Here(entity.variant) THEN Fail(c)
          ELSE /\ product' = SavedRow(product, IF update THEN UpdatedProduct(entity, edit[c].dto)
                                            ELSE Archived(entity.product))
               /\ edit' = [edit EXCEPT ![c] = EditEnded]
               /\ editSettled' = IF update THEN editLone = c ELSE editSettled
               /\ counted' = IF update THEN Here(entity.size) ELSE counted
               /\ closed' = (closed \/ (~update /\ editLone = c))
               /\ UNCHANGED <<variant, size, mover, editLone, fitted>>

CreateEnds(c) ==
    /\ edit[c].pc = "save" /\ edit[c].todo = <<>> /\ edit[c].op = "create"
    /\ edit' = [edit EXCEPT ![c] = EditEnded]
    /\ UNCHANGED <<productRows, mover, editHistory>>
-----------------------------------------------------------------------------
(* updateInventoryQuantities, of one unit: DECREASE or INCREASE *)

ReadStock(m) ==
    /\ mover[m].pc = "idle"
    /\ ProductFound
    /\ \E s \in Here(size), change \in {-1, 1} :
          /\ size[s].inventory + change >= 0 /\ product.inventory + change >= 0
          /\ mover' = [mover EXCEPT ![m] = [pc |-> "size", id |-> s,
                row |-> [size[s] EXCEPT !.inventory = @ + change, !.sold = @ - change],
                product |-> [product EXCEPT !.inventory = @ + change, !.sold = @ - change]]]
    /\ EditBegins(m, FALSE)
    /\ UNCHANGED <<productRows, edit, counted, fitted, closed>>

SaveStock(m) ==
    /\ mover[m].pc = "size"
    /\ size' = [size EXCEPT ![mover[m].id] = mover[m].row]
    /\ mover' = [mover EXCEPT ![m].pc = "product"]
    /\ UNCHANGED <<product, variant, edit, editHistory>>

\* The whole product is saved, as it was read.
SaveTotals(m) ==
    /\ mover[m].pc = "product"
    /\ product' = mover[m].product
    /\ mover' = [mover EXCEPT ![m] = [Resting EXCEPT !.pc = "ended"]]
    /\ UNCHANGED <<variant, size, edit, editHistory>>

\* The process ends in the middle of a call.
EditDies(who) ==
    /\ who \in EditsInFlight
    /\ IF who \in AdminCalls
       THEN edit' = [edit EXCEPT ![who] = EditEnded] /\ UNCHANGED mover
       ELSE mover' = [mover EXCEPT ![who] = [Resting EXCEPT !.pc = "ended"]] /\ UNCHANGED edit
    /\ editSettled' = FALSE
    /\ UNCHANGED <<productRows, editLone, counted, fitted, closed>>

CatalogNext ==
    \/ \E c \in AdminCalls :
          \/ CreateProduct(c) \/ LoadToUpdate(c) \/ LoadToArchive(c) \/ DeleteProduct(c) \/ InsertVariant(c)
          \/ InsertSize(c) \/ SaveVariant(c) \/ SaveSize(c) \/ SaveProduct(c) \/ CreateEnds(c)
    \/ \E m \in Movers : ReadStock(m) \/ SaveStock(m) \/ SaveTotals(m)
    \/ \E who \in AdminCalls \cup Movers : EditDies(who)

CatalogSpec == CatalogInit /\ [][CatalogNext]_catalogVars
-----------------------------------------------------------------------------
CatalogTypeOK ==
    /\ product \in ProductRow
    /\ variant \in [AdminCalls -> VariantRow]
    /\ size \in [SizeIds -> SizeRow]
    /\ \A c \in AdminCalls : edit[c].pc \in {"idle", "save", "ended"}
    /\ \A m \in Movers : mover[m].row \in SizeRow /\ mover[m].product \in ProductRow
    /\ editLone \in AdminCalls \cup Movers \cup {NoEdit}
    /\ editSettled \in BOOLEAN /\ closed \in BOOLEAN
    /\ counted \subseteq SizeIds /\ fitted \subseteq SizeIds

(* An update that ran alone and to its end sets the product right, whatever *)
(* overlapped or died before it, and whole stock updates and archivings     *)
(* keep it so: what is sold is what the sizes have sold, the quantity is    *)
(* that of the sizes it had loaded (one added by the update itself is not   *)
(* in it), and each row that it wrote has what it has not sold.             *)
EditSettlesTotals ==
    CatalogQuiet /\ editSettled =>
        /\ product.sold = Total(LAMBDA s : size[s].sold, Here(size))
        /\ product.quantity = Total(LAMBDA s : size[s].quantity, counted)
        /\ product.inventory = product.quantity - product.sold
        /\ \A s \in fitted : size[s].inventory = size[s].quantity - size[s].sold

\* findProductsWithCondition has it, and the other lists at most those.
ProductListed == ProductFound /\ ~product.archived /\ product.active

\* The admin's list, by two of its filters: archived ones come only when asked for.
findAllProductCms(isArchived, isActive) ==
    /\ ProductFound
    /\ product.archived = OrElse(isArchived, FALSE)
    /\ isActive = Unset \/ product.active = isActive

\* validateProduct, validateVariant and validateSize, before a size goes into a
\* cart.  A checkout of what is in a cart already asks for none of these:
\* ReadStock takes the stock of a closed product, too.
CartTakes(s) == ProductFound /\ product.active /\ size[s].active /\ variant[s[1]].active

(* A product that was archived or deleted while no other call was under way *)
(* is neither listed nor let into a cart until it is edited, and the        *)
(* admin's list does not show it unasked, whichever stock updates,          *)
(* archivings and deletions follow and wherever they die.  (That it is not  *)
(* sold is not said: a cart that has it is still checked out.)              *)
ClosedStaysClosed ==
    closed => /\ ~ProductListed /\ ~findAllProductCms(Unset, Unset)
              /\ \A s \in Here(size) : ~CartTakes(s)
=============================================================================
