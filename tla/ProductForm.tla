---------------------------- MODULE ProductForm ----------------------------
(***************************************************************************)
(* What a product's form says of dimensions and options, and the rows that *)
(* are made of it.  A form refers to dimensions, options and variants by   *)
(* ids of its own, which nothing makes distinct; the rows get ids of the   *)
(* database.                                                               *)
(* A variant's options are kept twice: as rows that refer to rows, for the *)
(* shop's filters, and as a snapshot of words, for orders.                 *)
(***************************************************************************)
EXTENDS Naturals, Sequences, FiniteSets, FiniteSetsExt, SequencesExt, Ordering

CONSTANT Forms      \* what a browser may send

\* The shape of a form, with options' ids of one kind; there is a variant at least.
\* A variant may have the id of a row (0: none); stored has the ids of the product's
\* variants that are not archived: none of a new product.
FormShape(ids) ==
    [stored : SUBSET Nat,
     dims : Seq([id : Nat, name : Nat, options : Seq([id : ids, value : Nat])]),
     variants : Seq([id : Nat, clientId : Nat, active : BOOLEAN, stock : Nat,
                     options : Seq([dim : Nat, opt : ids])]) \ {<<>>}]

ASSUME FormsAssumption == Forms \subseteq FormShape(Nat)

VARIABLES
    sentForm,       \* the form that is sent: dimensions and variants
    written,        \* rows of product_variant_dimensions, _values, _option_values; snapshots
    formState,      \* sent, refused, failed, written, shown (again)
    wasWritten,     \* history: what was there when the form was shown
    muddled         \* history: a form was written whose variants' keys say too little

formVars == <<sentForm, written, formState, wasWritten, muddled>>

Nothing == [dims |-> <<>>, values |-> <<>>, pivot |-> <<>>, snapshot |-> <<>>]

InitForm ==
    /\ sentForm \in Forms
    /\ written = Nothing
    /\ formState = "sent"
    /\ wasWritten = Nothing
    /\ muddled = FALSE

-----------------------------------------------------------------------------
(* productUpsertSchema and validateVariantRules.                           *)

Distinct(words) == \A i, j \in DOMAIN words : words[i] = words[j] => i = j

\* Slip: the options of a variant may be of one dimension.
DimensionsRepeat(f) ==
    LET dims == f.dims
    IN  /\ Distinct([i \in DOMAIN dims |-> dims[i].name])
        /\ \A i \in DOMAIN dims : Distinct([j \in DOMAIN dims[i].options |-> dims[i].options[j].value])
        /\ (Len(f.variants) = 1) = (dims = <<>>)
        /\ \A v \in DOMAIN f.variants :
            /\ Len(f.variants[v].options) = Len(dims)
            /\ f.variants[v].active => f.variants[v].stock > 0

\* Names are told apart regardless of case; ids are not compared with each other.
WellFormedForm(f) ==
    LET dims == f.dims
    IN  /\ Distinct([i \in DOMAIN dims |-> dims[i].name])
        /\ \A i \in DOMAIN dims : Distinct([j \in DOMAIN dims[i].options |-> dims[i].options[j].value])
        /\ (Len(f.variants) = 1) = (dims = <<>>)
        /\ \A v \in DOMAIN f.variants :
            LET options == f.variants[v].options
            IN  /\ Len(options) = Len(dims)
                /\ Distinct([n \in DOMAIN options |-> options[n].dim])
                /\ f.variants[v].active => f.variants[v].stock > 0

-----------------------------------------------------------------------------
(* The rows.  A Map keeps what was set last under an id.                   *)

\* Where the options of a form stand: a dimension and a place in it.
OptionPlaces(f) == UNION {{i} \X (DOMAIN f.dims[i].options) : i \in DOMAIN f.dims}
OptionAt(f, at) == f.dims[at[1]].options[at[2]]
NotAfter(a, b) == a[1] < b[1] \/ (a[1] = b[1] /\ a[2] <= b[2])

\* dimensionIdMap and valueIdMap: a row's id is its place.
DimensionIds(f) == {f.dims[i].id : i \in DOMAIN f.dims}
DimensionRow(f, id) == Max({i \in DOMAIN f.dims : f.dims[i].id = id})
OptionIds(f) == {OptionAt(f, at).id : at \in OptionPlaces(f)}
OptionRow(f, id) ==
    LET sought == {at \in OptionPlaces(f) : OptionAt(f, at).id = id}
    IN  CHOOSE last \in sought : \A at \in sought : NotAfter(at, last)

\* buildVariantSnapshotLookup: the words an option stands for.
SnapshotLookup(f, id) ==
    LET at == OptionRow(f, id)
    IN  [dimension |-> f.dims[at[1]].name, value |-> OptionAt(f, at).value]

Before(a, b) ==
    IF a.dimension = b.dimension THEN a.value < b.value ELSE a.dimension < b.dimension

\* Slip: the words stay in the order of the form.
SnapshotAsSent(f, v) ==
    LET options == f.variants[v].options
    IN  [n \in DOMAIN options |-> SnapshotLookup(f, options[n].opt)]

\* buildVariantSnapshot: sorted, as the order of the form is nobody's choice.
InWordOrder(words) ==
    LET order == SortedBy(DOMAIN words,
                    {mn \in (DOMAIN words) \X (DOMAIN words) :
                        \/ Before(words[mn[1]], words[mn[2]])
                        \/ words[mn[1]] = words[mn[2]] /\ mn[1] < mn[2]})
    IN  [n \in DOMAIN words |-> words[order[n]]]

VariantSnapshot(f, v) ==
    LET options == f.variants[v].options
    IN  InWordOrder([n \in DOMAIN options |-> SnapshotLookup(f, options[n].opt)])

\* A saved product's variants are updated where they have an id; all others, and
\* all of a new product's, are inserted.
Existing(f, v) == f.stored # {} /\ f.variants[v].id # 0

\* A row is called by the place of the variant that wrote it last.
RowNamed(f, v) ==
    IF ~Existing(f, v) THEN v
    ELSE Max({w \in DOMAIN f.variants : Existing(f, w) /\ f.variants[w].id = f.variants[v].id})

\* variantIdMap has the updated rows under their ids, and the inserted ones, which
\* win, under their clientIds.
KnownAs(f, v) == IF Existing(f, v) THEN f.variants[v].id ELSE f.variants[v].clientId

resolveVariantKey(f, v) == IF f.variants[v].id # 0 THEN f.variants[v].id ELSE f.variants[v].clientId

\* The row that a variant's options are given to: 0 is none, and they are dropped.
Lands(f, v) ==
    LET known    == {w \in DOMAIN f.variants : KnownAs(f, w) = resolveVariantKey(f, v)}
        inserted == {w \in known : ~Existing(f, w)}
    IN  Max({0} \cup (IF inserted # {} THEN inserted ELSE known))

\* updateExistingVariants takes no id but those of the product's variants.
IdsKnown(f) == \A v \in DOMAIN f.variants : Existing(f, v) => f.variants[v].id \in f.stored

\* An id that stands for nothing is an internal error, and all is rolled back.
Resolved(f) ==
    \A v \in DOMAIN f.variants : \A n \in DOMAIN f.variants[v].options :
        LET option == f.variants[v].options[n]
        IN  /\ option.opt \in OptionIds(f)
            /\ Lands(f, v) # 0 => option.dim \in DimensionIds(f)

\* The rows of a variant's options; "by" tells two rows that say the same apart.
PicksOf(f, v) ==
    LET options == f.variants[v].options
    IN  {[dim |-> DimensionRow(f, options[n].dim), value |-> OptionRow(f, options[n].opt), by |-> <<v, n>>] :
            n \in DOMAIN options}

\* rebuildDimensionsAndPivot, and the snapshots of updateExistingVariants and
\* insertNewVariants.
RowsOf(f) ==
    [dims |-> [i \in DOMAIN f.dims |-> f.dims[i].name],
     values |-> [at \in OptionPlaces(f) |->
        [dim |-> DimensionRow(f, f.dims[at[1]].id), value |-> OptionAt(f, at).value]],
     pivot |-> [r \in {RowNamed(f, v) : v \in DOMAIN f.variants} |->
        UNION {PicksOf(f, w) : w \in {u \in DOMAIN f.variants : Lands(f, u) = r}}],
     snapshot |-> [r \in {RowNamed(f, v) : v \in DOMAIN f.variants} |-> VariantSnapshot(f, r)]]

\* Each variant with options finds the row it wrote, and no other does.
KeysTold(f) ==
    \A v \in DOMAIN f.variants : f.variants[v].options # <<>> => Lands(f, v) = v

SubmitForm ==
    /\ formState \in {"sent", "shown"}
    /\ IF ~(WellFormedForm(sentForm) /\ IdsKnown(sentForm))
       THEN formState' = "refused" /\ UNCHANGED <<written, muddled>>
       ELSE IF ~Resolved(sentForm)
       THEN formState' = "failed" /\ UNCHANGED <<written, muddled>>
       ELSE /\ formState' = "written" /\ written' = RowsOf(sentForm)
            /\ muddled' = (muddled \/ ~KeysTold(sentForm))
    /\ UNCHANGED <<sentForm, wasWritten>>

-----------------------------------------------------------------------------
(* The form is shown again.                                                *)

\* An order for each of some sets: no query orders these rows.
Orders(sets) ==
    {orders \in [DOMAIN sets -> UNION {SetToSeqs(sets[i]) : i \in DOMAIN sets}] :
        \A i \in DOMAIN sets : orders[i] \in SetToSeqs(sets[i])}

\* mapProductDetail: ids of rows stand for what they are.
OptionsByDimension ==
    [i \in DOMAIN written.dims |-> {at \in DOMAIN written.values : written.values[at].dim = i}]

ShownDimension(i, options) ==
    [id |-> i, name |-> written.dims[i],
     options |-> [j \in DOMAIN options |-> [id |-> options[j], value |-> written.values[options[j]].value]]]

ShownVariant(r, picks) ==
    [id |-> r, clientId |-> r, active |-> sentForm.variants[r].active, stock |-> sentForm.variants[r].stock,
     options |-> [n \in DOMAIN picks |-> [dim |-> picks[n].dim, opt |-> picks[n].value]]]

\* The page may list the variants in another order; each has its id.
ShownRows == SortedBy(DOMAIN written.pivot, {qr \in (DOMAIN written.pivot) \X (DOMAIN written.pivot) : qr[1] < qr[2]})

\* A variant that is alone is shown without dimensions.
ShowForm ==
    /\ formState = "written" /\ wasWritten = Nothing
    /\ \E dims \in SetToSeqs(DOMAIN written.dims), options \in Orders(OptionsByDimension), picks \in Orders(written.pivot) :
        sentForm' =
            IF Len(ShownRows) = 1
            THEN [stored |-> DOMAIN written.pivot, dims |-> <<>>, variants |-> <<ShownVariant(ShownRows[1], <<>>)>>]
            ELSE [stored |-> DOMAIN written.pivot,
                  dims |-> [k \in DOMAIN dims |-> ShownDimension(dims[k], options[dims[k]])],
                  variants |-> [k \in DOMAIN ShownRows |-> ShownVariant(ShownRows[k], picks[ShownRows[k]])]]
    /\ wasWritten' = written
    /\ formState' = "shown"
    /\ UNCHANGED <<written, muddled>>

\* Orders take the last unit of a variant, which stays for sale.
SellOut(v) ==
    /\ formState = "written"
    /\ sentForm.variants[v].stock > 0
    /\ sentForm' = [sentForm EXCEPT !.variants[v].stock = 0]
    /\ UNCHANGED <<written, formState, wasWritten, muddled>>

NextForm ==
    \/ SubmitForm \/ ShowForm
    \/ \E v \in DOMAIN written.pivot : SellOut(v)

FormSpec == InitForm /\ [][NextForm]_formVars

-----------------------------------------------------------------------------
(* Properties.                                                             *)

\* The words a row of product_variant_option_values stands for.
InWords(rows, p) == [dimension |-> rows.dims[p.dim], value |-> rows.values[p.value].value]

\* A variant that is written has one value of each dimension, although a form may
\* use an option's id twice, or one that means nothing.  Only a form whose variants'
\* keys collide, which nobody refuses, leaves one variant without options and another
\* with too many: two clientIds are the same, one is the id of another variant, or an
\* id comes twice; and a new product's variant that comes with an id may get none, or
\* those of another.
OneValuePerDimension ==
    ~muddled =>
        \A v \in DOMAIN written.pivot : \A i \in DOMAIN written.dims :
            \E p \in written.pivot[v] : /\ p.dim = i
                                        /\ \A q \in written.pivot[v] : q.dim = i => q = p

\* The words that orders keep are those the filters find a variant by, but for
\* such a form, and for one that gave a variant an option of another dimension, which
\* nobody refuses either.
SnapshotTellsPivot ==
    ~muddled =>
        \A v \in DOMAIN written.pivot :
            (\A p \in written.pivot[v] : written.values[p.value].dim = p.dim) =>
                ToSet(written.snapshot[v]) = {InWords(written, p) : p \in written.pivot[v]}

\* A form that is shown and sent back untouched is taken, in whatever order the
\* rows came, and changes no words; only a variant that is for sale and has been
\* sold out meanwhile stands in its way.  Rows of colliding variants may be shown as
\* a form that is refused, or as one without dimensions.
UntouchedFormSaves ==
    LET soldOut == \E v \in DOMAIN sentForm.variants :
                       sentForm.variants[v].active /\ sentForm.variants[v].stock = 0
        words(rows) == [v \in DOMAIN rows.pivot |-> {InWords(rows, p) : p \in rows.pivot[v]}]
    IN  wasWritten # Nothing /\ ~muddled =>
            /\ formState = "refused" => soldOut
            /\ formState # "failed"
            /\ written.snapshot = wasWritten.snapshot
            /\ words(written) = words(wasWritten)

FormsHold == OneValuePerDimension /\ SnapshotTellsPivot /\ UntouchedFormSaves
=============================================================================
