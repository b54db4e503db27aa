---------------------------- MODULE ProductPage ----------------------------
(***************************************************************************)
(* The shop's page of a product and the detail of a variant, each of which *)
(* a client keeps as long as its tag is the same.  The page is read in     *)
(* four queries and its tag made of the first two; updated_at is when the  *)
(* transaction that wrote a row began, so a row may get an older one.      *)
(***************************************************************************)
EXTENDS Naturals, FiniteSets, FiniteSetsExt

CONSTANTS
    PageVariants,   \* variants of the product
    Writers,        \* transactions that are open
    LowStock,       \* PRODUCT_LOW_STOCK_THRESHOLD
    MostStock,      \* bound on the units a form gives a variant
    MaxContents,    \* bound on the forms that are saved
    MaxBegun        \* bound on the transactions

ASSUME PageAssumption ==
    /\ IsFiniteSet(PageVariants) /\ PageVariants # {}
    /\ {LowStock, MostStock, MaxContents, MaxBegun} \subseteq Nat

VARIABLES
    onSale,         \* products: status and updated_at; the number of the form it was saved with
    sold,           \* product_variants: status, stock, updated_at, the form's number
    writer,         \* what each transaction is for, and when it began
    reading,        \* a request for the page: what it has read
    keptDetail,     \* the page a client keeps
    keptVariant,    \* the detail of a variant a client keeps
    moment          \* the time of a transaction that begins now

pageVars == <<onSale, sold, writer, reading, keptDetail, keptVariant, moment>>

Nobody == [op |-> "none"]
NotRead == [at |-> "none"]

InitPage ==
    /\ onSale = [status |-> "ACTIVE", stamp |-> 0, form |-> 1]
    /\ sold = [v \in PageVariants |-> [status |-> "ACTIVE", stock |-> MostStock, stamp |-> 0, form |-> 1]]
    /\ writer = [w \in Writers |-> Nobody]
    /\ reading = NotRead
    /\ keptDetail = NotRead
    /\ keptVariant = NotRead
    /\ moment = 1

-----------------------------------------------------------------------------
(* Transactions that write what the pages show.                            *)

\* No two begin in the same millisecond.
BeginWrite(w, op) ==
    /\ writer[w] = Nobody /\ moment <= MaxBegun
    /\ writer' = [writer EXCEPT ![w] = [op |-> op, since |-> moment]]
    /\ moment' = moment + 1
    /\ UNCHANGED <<onSale, sold, reading, keptDetail, keptVariant>>

EndWrite(w, op) == writer[w].op = op /\ writer' = [writer EXCEPT ![w] = Nobody]

\* update of a product: its row, every variant's, dimensions and images anew;
\* variants may be out of sale while their product is not.
SaveContent(w, status, offered, stock) ==
    /\ EndWrite(w, "save")
    /\ onSale.form < MaxContents
    /\ onSale' = [status |-> status, stamp |-> writer[w].since, form |-> onSale.form + 1]
    /\ sold' = [v \in PageVariants |->
           [status |-> offered, stock |-> stock, stamp |-> writer[w].since, form |-> onSale.form + 1]]
    /\ UNCHANGED <<reading, keptDetail, keptVariant, moment>>

\* Slip: the variants are not written.
SwitchProductOnly(w, status) ==
    /\ EndWrite(w, "switch")
    /\ onSale' = [onSale EXCEPT !.status = status, !.stamp = writer[w].since]
    /\ UNCHANGED <<sold, reading, keptDetail, keptVariant, moment>>

\* updateStatus writes the variants whatever their status was.
SwitchStatus(w, status) ==
    /\ EndWrite(w, "switch")
    /\ onSale' = [onSale EXCEPT !.status = status, !.stamp = writer[w].since]
    /\ sold' = [v \in PageVariants |-> [sold[v] EXCEPT !.status = status, !.stamp = writer[w].since]]
    /\ UNCHANGED <<reading, keptDetail, keptVariant, moment>>

\* An order takes a unit, or gives one back.
MoveStock(w, v, stock) ==
    /\ EndWrite(w, "order")
    /\ stock \in {sold[v].stock - 1, sold[v].stock + 1} \cap 0 .. MostStock
    /\ sold' = [sold EXCEPT ![v].stock = stock, ![v].stamp = writer[w].since]
    /\ UNCHANGED <<onSale, reading, keptDetail, keptVariant, moment>>

-----------------------------------------------------------------------------
(* getProductDetailById, one query after the other.                        *)

ReadProduct ==
    /\ reading = NotRead
    /\ reading' = [at |-> "variants", status |-> onSale.status, form |-> onSale.form,
                   stamp |-> onSale.stamp]
    /\ UNCHANGED <<onSale, sold, writer, keptDetail, keptVariant, moment>>

LatestVariant == Max({sold[v].stamp : v \in PageVariants})

\* Slip: the tag is made when the page is.
SeedAtTheEnd == <<onSale.stamp, LatestVariant>>

\* buildProductDetailETagSeed, of the rows that were read.
DetailSeed == <<reading.stamp, reading.latest>>

\* A save writes all variants, so that any of them tells which save it was.
ReadVariants ==
    /\ reading.at = "variants"
    /\ reading' = [at |-> "dimensions", status |-> reading.status, form |-> reading.form,
                   stamp |-> reading.stamp,
                   latest |-> LatestVariant, variants |-> {sold[v].form : v \in PageVariants}]
    /\ UNCHANGED <<onSale, sold, writer, keptDetail, keptVariant, moment>>

ReadDimensions ==
    /\ reading.at = "dimensions"
    /\ reading' = [at |-> "images", status |-> reading.status, form |-> reading.form,
                   stamp |-> reading.stamp,
                   latest |-> reading.latest, variants |-> reading.variants, dimensions |-> onSale.form]
    /\ UNCHANGED <<onSale, sold, writer, keptDetail, keptVariant, moment>>

\* The images and the answer, which is 304 if the client has this tag.
ReadImages ==
    /\ reading.at = "images"
    /\ keptDetail' =
        IF keptDetail # NotRead /\ keptDetail.tag = DetailSeed THEN keptDetail
        ELSE [at |-> "kept", tag |-> DetailSeed, status |-> reading.status,
              parts |-> {reading.form, reading.dimensions, onSale.form} \cup reading.variants]
    /\ reading' = NotRead
    /\ UNCHANGED <<onSale, sold, writer, keptVariant, moment>>

-----------------------------------------------------------------------------
(* getVariantDetail, which is one query.                                   *)

\* getVariantWarning
VariantWarning(v) ==
    IF onSale.status # "ACTIVE" \/ sold[v].status # "ACTIVE" THEN "UNAVAILABLE"
    ELSE IF sold[v].stock = 0 THEN "OUT_OF_STOCK"
    ELSE IF sold[v].stock <= LowStock THEN "LOW_STOCK"
    ELSE "none"

\* Price, weight and sku go by the form.
VariantView(v) == [form |-> sold[v].form, stock |-> sold[v].stock, warning |-> VariantWarning(v)]

\* Slip: price and stock are enough.
VariantSeedOfStock(v) == <<v, sold[v].stock>>

VariantSeed(v) == <<v, sold[v].stamp, sold[v].stock>>

FetchVariant(v) ==
    /\ keptVariant # NotRead => keptVariant.tag # VariantSeed(v)
    /\ keptVariant' = [at |-> "kept", tag |-> VariantSeed(v), view |-> VariantView(v)]
    /\ UNCHANGED <<onSale, sold, writer, reading, keptDetail, moment>>

-----------------------------------------------------------------------------

NextProductPage ==
    \/ \E w \in Writers :
        \/ \E op \in {"save", "switch", "order"} : BeginWrite(w, op)
        \/ \E status \in {"ACTIVE", "INACTIVE"} :
            \/ \E offered \in {"ACTIVE", "INACTIVE"}, stock \in {1, MostStock} :
                   SaveContent(w, status, offered, stock)
            \/ SwitchStatus(w, status)
        \/ \E v \in PageVariants, stock \in 0 .. MostStock : MoveStock(w, v, stock)
    \/ ReadProduct \/ ReadVariants \/ ReadDimensions \/ ReadImages
    \/ \E v \in PageVariants : FetchVariant(v)

PageSpec == InitPage /\ [][NextProductPage]_pageVars

-----------------------------------------------------------------------------
(* Properties.                                                             *)

\* Although it is read in four parts, a page that a client is told to keep is
\* all of the product's present form.  (The name of its category, which the page
\* shows too, is in no tag.)
TagTellsProduct ==
    keptDetail # NotRead /\ keptDetail.tag = <<onSale.stamp, LatestVariant>> =>
        keptDetail.parts = {onSale.form} /\ keptDetail.status = onSale.status

\* The detail of a variant shows the product's status, which its tag does not
\* name: it is up to date as every change of it is a change of the variants.
TagTellsVariant ==
    keptVariant # NotRead =>
        \A v \in PageVariants : keptVariant.tag = VariantSeed(v) => keptVariant.view = VariantView(v)

PagesHold == TagTellsProduct /\ TagTellsVariant
=============================================================================
