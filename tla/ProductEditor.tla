--------------------------- MODULE ProductEditor ---------------------------
(***************************************************************************)
(* One product and its variants under the administrators' form, the bulk   *)
(* change of status and the shop's orders.  A save is one transaction that *)
(* begins with the product's row and so keeps other saves out; what it     *)
(* writes comes from a form shown some time before, the stock included.    *)
(***************************************************************************)
EXTENDS Integers, Sequences, FiniteSets

CONSTANTS
    Products,       \* the product to begin with: none yet, or one of these
    FormIds,        \* administrators who have a form open at a time
    Options,        \* values of the product's one dimension
    MaxRows,        \* bound: variants in a form
    MaxVariants,    \* bound: variants ever inserted
    MaxStock,       \* bound: units of a variant
    MaxSaves        \* bound: saves

ASSUME EditorAssumption ==
    /\ FormIds # {} /\ 0 \notin Options
    /\ {MaxRows, MaxVariants, MaxStock, MaxSaves} \subseteq Nat

\* As a first save leaves a product.
ASSUME ProductsAssumption ==
    \A p \in Products :
        /\ p.status \in {"ACTIVE", "INACTIVE"}
        /\ p.variant \in Seq([status : {"ACTIVE", "INACTIVE"}, primary : BOOLEAN, stock : Nat, shelf : Nat,
                              option : Options \cup {0}, snapshot : Options \cup {0},
                              taken : {0}, guessed : {FALSE}])
        /\ \E v \in DOMAIN p.variant :
            /\ \A w \in DOMAIN p.variant : p.variant[w].primary <=> w = v
            /\ p.status = "ACTIVE" => p.variant[v].status = "ACTIVE"
        /\ \A v \in DOMAIN p.variant :
            /\ p.variant[v].option = 0 <=> Len(p.variant) = 1
            /\ p.variant[v].snapshot = p.variant[v].option
            /\ p.variant[v].shelf = p.variant[v].stock

NoOption == 0       \* no row of product_variant_option_values
Closed == [at |-> "closed"]

VARIABLES
    product,        \* products: status, or none yet; is_variant
    variant,        \* product_variants, by id, with pivot and snapshot; shelf, taken and guessed are history
    form,           \* what each administrator sees
    saves           \* saves so far

editorVars == <<product, variant, form, saves>>

\* INACTIVE and ARCHIVED products are the same to everything below.
ProductStatus == {"ACTIVE", "INACTIVE"}

Exists == product.status # "none"
Shown(v) == variant[v].status # "ARCHIVED"
Live == {v \in DOMAIN variant : Shown(v)}

NoProduct == [status |-> "none", variant |-> <<>>]

InitEditor ==
    /\ \E p \in Products \cup {NoProduct} :
        /\ product = [status |-> p.status, multi |-> Len(p.variant) > 1]
        /\ variant = p.variant
    /\ form = [e \in FormIds |-> Closed]
    /\ saves = 0

-----------------------------------------------------------------------------
(* The form.                                                               *)

\* getDetailById shows the product and its variants.  Whatever it shows can be
\* changed but the ids; of the stock the save only knows what is sent.
OpenForm(e) ==
    /\ form[e] = Closed
    /\ form' = [form EXCEPT ![e] = [at |-> "shown", new |-> ~Exists, stock |-> [v \in Live |-> variant[v].stock]]]
    /\ UNCHANGED <<product, variant, saves>>

\* productUpsertSchema and validateVariantRules: several variants have an option
\* each, what is for sale is there, and so is the primary of what is for sale.
Accepted(status, rows, primary) ==
    /\ \A v \in DOMAIN rows :
        /\ rows[v].option = NoOption <=> Cardinality(DOMAIN rows) = 1
        /\ rows[v].status = "ACTIVE" => rows[v].stock > 0
    /\ status = "ACTIVE" => rows[primary].status = "ACTIVE"

-----------------------------------------------------------------------------
(* create and update.                                                      *)

\* Slip: variants that the form no longer has are left as they are.
LeaveMissing(kept, v) == variant[v]

\* archiveMissingVariants, and the pivot, which is built anew for what was sent.
ArchiveMissing(kept, v) ==
    IF Shown(v) THEN [variant[v] EXCEPT !.status = "ARCHIVED", !.option = NoOption] ELSE variant[v]

\* updateExistingVariants: the stock is what the form says.
UpdateExisting(v, row, was, primary) ==
    [variant[v] EXCEPT
        !.status = row.status, !.primary = (v = primary), !.stock = row.stock,
        !.option = row.option, !.snapshot = row.option,
        !.shelf = @ + row.stock - was,
        !.guessed = @ \/ variant[v].stock # was]

\* insertNewVariants
InsertNew(v, row, primary) ==
    [status |-> row.status, primary |-> v = primary, stock |-> row.stock,
     option |-> row.option, snapshot |-> row.option,
     shelf |-> row.stock, taken |-> 0, guessed |-> FALSE]

\* The whole transaction, which refuses a variant that was archived since.
Write(status, rows, primary, was) ==
    LET kept == DOMAIN rows \cap DOMAIN was IN
    /\ kept \subseteq Live
    /\ Accepted(status, rows, primary)
    /\ product' = [status |-> status, multi |-> Cardinality(DOMAIN rows) > 1]
    /\ variant' = [v \in DOMAIN variant \cup DOMAIN rows |->
            IF v \in kept THEN UpdateExisting(v, rows[v], was[v], primary)
            ELSE IF v \in DOMAIN rows THEN InsertNew(v, rows[v], primary)
            ELSE ArchiveMissing(kept, v)]

\* What is sent: rows that were kept, with a unit more if one has arrived, and
\* new ones with one unit.
SaveForm(e) ==
    LET was == form[e].stock IN
    /\ form[e].at = "shown" /\ form[e].new = ~Exists
    /\ saves < MaxSaves
    /\ \E status \in ProductStatus, S \in SUBSET DOMAIN was, n \in 0 .. MaxRows :
        LET ids == S \cup {Len(variant) + i : i \in 1 .. n} IN
        /\ Cardinality(ids) \in 1 .. MaxRows
        /\ Len(variant) + n <= MaxVariants
        /\ \E primary \in ids, arrived \in SUBSET S,
              sent \in [ids -> [status : {"ACTIVE", "INACTIVE"}, option : IF Cardinality(ids) = 1 THEN {NoOption} ELSE Options]] :
            /\ \A v \in arrived : was[v] < MaxStock
            /\ \A v, w \in ids : sent[v].option = sent[w].option => v = w
            /\ Write(status,
                    [v \in ids |-> [status |-> sent[v].status, option |-> sent[v].option,
                        stock |-> IF v \in S \ arrived THEN was[v] ELSE IF v \in S THEN was[v] + 1 ELSE 1]],
                    primary, was)
    /\ saves' = saves + 1
    /\ form' = [form EXCEPT ![e] = Closed]

\* The form is left, or the request breaks.
LeaveForm(e) ==
    /\ form[e] # Closed
    /\ form' = [form EXCEPT ![e] = Closed]
    /\ UNCHANGED <<product, variant, saves>>

-----------------------------------------------------------------------------
(* updateStatus, for one product of those selected.                        *)

\* Slip: the variants keep their status.
ProductStatusOnly(status) ==
    /\ Exists
    /\ product' = [product EXCEPT !.status = status]
    /\ UNCHANGED <<variant, form, saves>>

UpdateStatus(status) ==
    /\ Exists
    /\ product' = [product EXCEPT !.status = status]
    /\ variant' = [v \in DOMAIN variant |->
            IF Shown(v) THEN [variant[v] EXCEPT !.status = IF status = "ACTIVE" THEN "ACTIVE" ELSE "INACTIVE"]
            ELSE variant[v]]
    /\ UNCHANGED <<form, saves>>

-----------------------------------------------------------------------------
(* The shop.                                                               *)

\* reduceStock asks for nothing but the stock; a cancelled or expired order
\* gives it back.
TakeUnit(v) ==
    /\ variant[v].stock > 0 /\ \A w \in DOMAIN variant : variant[w].taken = 0
    /\ variant' = [variant EXCEPT ![v].stock = @ - 1, ![v].shelf = @ - 1, ![v].taken = @ + 1]
    /\ UNCHANGED <<product, form, saves>>

ReturnUnit(v) ==
    /\ variant[v].taken > 0
    /\ variant' = [variant EXCEPT ![v].stock = @ + 1, ![v].shelf = @ + 1, ![v].taken = @ - 1]
    /\ UNCHANGED <<product, form, saves>>

NextEditor ==
    \/ \E e \in FormIds : OpenForm(e) \/ SaveForm(e) \/ LeaveForm(e)
    \/ \E status \in ProductStatus : UpdateStatus(status)
    \/ \E v \in DOMAIN variant : TakeUnit(v) \/ ReturnUnit(v)

EditorSpec == InitEditor /\ [][NextEditor]_editorVars

-----------------------------------------------------------------------------
(* Properties.                                                             *)

\* The shop's pages take it for granted that a product has a variant they may
\* show, one of them the primary, which is for sale when the product is; that
\* variants are told apart by an option exactly when there are several; and
\* that the option an order keeps, the snapshot, is the one the pages offer.
ShopCanShow ==
    Exists =>
        /\ \E p \in Live :
            /\ variant[p].primary /\ \A v \in Live \ {p} : ~variant[v].primary
            /\ product.status = "ACTIVE" => variant[p].status = "ACTIVE"
        /\ product.multi = (Cardinality(Live) > 1)
        /\ \A v \in DOMAIN variant :
            /\ variant[v].option # NoOption <=> v \in Live /\ product.multi
            /\ v \in Live => variant[v].snapshot = variant[v].option

\* The shop sells what is on the shelf, but for variants whose stock moved
\* between the showing and the saving of a form: those the save resets.
StockIsOnTheShelf ==
    \A v \in DOMAIN variant : ~variant[v].guessed => variant[v].stock = variant[v].shelf

\* What orders and pages may rely on, whatever the administrators save.
EditorHolds == ShopCanShow /\ StockIsOnTheShelf
=============================================================================
