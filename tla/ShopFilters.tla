----------------------------- MODULE ShopFilters -----------------------------
(***************************************************************************)
(* The filters that the shop offers beside a category or a search, and the *)
(* list that they lead to.  What is offered comes from one query, with the *)
(* number of products of each value; its tag from another; the list from a *)
(* third, whose conditions are written apart.  FilterCache says how far    *)
(* the check of a filter lags behind; here it knows every value.           *)
(***************************************************************************)
EXTENDS Naturals, SequencesExt, FiniteSetsExt

CONSTANTS
    ShelfIds,       \* products
    Shapes,         \* what a product can look like
    CategoryPaths,  \* id paths of categories, as text
    Reserved,       \* names of dimensions that a query string uses otherwise
    FloorPrices,    \* the lowest prices a shopper asks for
    ShelfTimes,     \* milliseconds at which a change may be stamped
    PerSecond,      \* how many of them make a second
    MaxShelfChanges \* bound on the changes of products

\* Rows as the form leaves them, written before the first change.
ShelfOptions == [name : STRING, value : Seq(STRING), look : Nat]
ShelfVariants ==
    [status : {"ACTIVE", "INACTIVE", "ARCHIVED"}, primary : BOOLEAN, price : Nat, options : SUBSET ShelfOptions, stamp : {0}]
ShelfProducts ==
    [status : {"ACTIVE", "INACTIVE"}, category : Seq(STRING), named : BOOLEAN, collected : BOOLEAN, variants : Seq(ShelfVariants)]

ASSUME ShopFilterAssumption ==
    /\ IsFiniteSet(ShelfIds) /\ MaxShelfChanges \in Nat
    /\ ShelfTimes \subseteq Nat /\ PerSecond \in Nat \ {0}
    /\ CategoryPaths \subseteq Seq(STRING)
    /\ \A p \in Shapes : p \in ShelfProducts /\ \A n \in DOMAIN p.variants : IsFiniteSet(p.variants[n].options)

NoMenu == [scope |-> "none"]

VARIABLES
    shelf,          \* the products and their variants, with updated_at of each
    askedMenu,      \* the filters that a request has read, before it asks for their tag
    keptMenu,       \* the filters that a client keeps, with their tag
    shelfChanges    \* changes so far

filterMenuVars == <<shelf, askedMenu, keptMenu, shelfChanges>>

-----------------------------------------------------------------------------
(* What a list is taken from.                                              *)

\* id_path LIKE '<path>%': the paths of the branch, and all that begin with the
\* same digits.
getByCategoryIdPath(p, path) == IsPrefix(path, p.category)

Scopes == [by : {"category"}, path : CategoryPaths] \cup {[by |-> "search"], [by |-> "collection"]}

InScope(p, scope) ==
    CASE scope.by = "category"   -> getByCategoryIdPath(p, scope.path)
      [] scope.by = "search"     -> p.named
      [] scope.by = "collection" -> p.collected

ActiveVariants(p) == {n \in DOMAIN p.variants : p.variants[n].status = "ACTIVE"}

\* The variant on the card: the primary one, or the first.
Card(p) ==
    LET primary == {n \in ActiveVariants(p) : p.variants[n].primary}
    IN  p.variants[Min(IF primary # {} THEN primary ELSE ActiveVariants(p))]

-----------------------------------------------------------------------------
(* getSearchFilters and getCategoryFilters.  An option is a dimension, a   *)
(* value, and how the two are written and coloured.                        *)

OptionsOnSale(p) == UNION {p.variants[n].options : n \in ActiveVariants(p)}

\* SELECT DISTINCT, before it is counted.
Counted(scope) ==
    UNION {{<<r, o>> : o \in OptionsOnSale(shelf[r])} :
           r \in {x \in ShelfIds : shelf[x].status = "ACTIVE" /\ InScope(shelf[x], scope)}}

\* GROUP BY, by all that is written of an option.
FilterRows(scope) ==
    LET counted == Counted(scope)
    IN  [o \in {c[2] : c \in counted} |-> Cardinality({c \in counted : c[2] = o})]

\* How a time is written in a tag: by getSearchFilters with its milliseconds, by
\* getCategoryFilters as a Date prints itself, with its seconds.  0 is "none".
Printed(scope, time) == 1 + (IF scope.by = "category" THEN time \div PerSecond ELSE time)

\* Slip: the number of rows alone.
TagOfRows(scope, rows) == [newest |-> 0, rows |-> rows]

\* The newest updated_at of what is on sale, and how many rows were read.
FiltersTag(scope, rows) ==
    [newest |-> Max({0} \cup UNION {
                    {Printed(scope, shelf[r].variants[n].stamp) : n \in ActiveVariants(shelf[r])} :
                        r \in {x \in ShelfIds : shelf[x].status = "ACTIVE" /\ InScope(shelf[x], scope)}}),
     rows   |-> rows]

TagToday(scope) == FiltersTag(scope, Cardinality(DOMAIN FilterRows(scope)))

\* mapProductFilters and mapCategoryFilters: a list of values for each dimension.
FilterMenu(rows) ==
    [n \in {o.name : o \in DOMAIN rows} |->
        {[value |-> o.value, look |-> o.look, count |-> rows[o]] : o \in {x \in DOMAIN rows : x.name = n}}]

-----------------------------------------------------------------------------
(* The list.  A shopper clicks on values; the client joins those of one    *)
(* dimension by commas.                                                    *)

\* A comma within a value splits it as one between two values does.
extractDimensionFilters(clicked) ==
    [n \in {c.name : c \in clicked} \ Reserved |->
        {<<t>> : t \in UNION {ToSet(c.value) : c \in {x \in clicked : x.name = n}}}]

\* The values of all products, on sale or not.
KnownValues ==
    UNION {UNION {{<<o.name, o.value>> : o \in shelf[r].variants[n].options} : n \in DOMAIN shelf[r].variants} :
           r \in ShelfIds}

validateDimensionFilters(filter) == \A n \in DOMAIN filter : \A v \in filter[n] : <<n, v>> \in KnownValues

\* Slip: a variant that is no longer on sale counts too.
DimensionConditionsOfAll(p, filter) ==
    \A n \in DOMAIN filter : \E k \in DOMAIN p.variants :
        \E o \in p.variants[k].options : o.name = n /\ o.value \in filter[n]

\* One EXISTS for each dimension: each may find a variant of its own.
buildDimensionConditions(p, filter) ==
    \A n \in DOMAIN filter : \E k \in ActiveVariants(p) :
        \E o \in p.variants[k].options : o.name = n /\ o.value \in filter[n]

\* A collection takes no filters.
Filters(scope, clicked) == IF scope.by = "collection" THEN <<>> ELSE extractDimensionFilters(clicked)

\* All pages of it.  A card needs a picture too, and every product has one.
ProductsShown(scope, clicked, priceMin) ==
    {r \in ShelfIds :
        /\ shelf[r].status = "ACTIVE" /\ InScope(shelf[r], scope)
        /\ ActiveVariants(shelf[r]) # {} /\ Card(shelf[r]).price >= priceMin
        /\ buildDimensionConditions(shelf[r], Filters(scope, clicked))}

-----------------------------------------------------------------------------
(* A client asks for the filters, and asks again with the tag it has.      *)

ReadFilterRows(scope) ==
    /\ askedMenu = NoMenu /\ scope.by # "collection"
    /\ askedMenu' = [scope |-> scope, menu |-> FilterMenu(FilterRows(scope)), counted |-> Counted(scope),
                     rows |-> Cardinality(DOMAIN FilterRows(scope))]
    /\ UNCHANGED <<shelf, keptMenu, shelfChanges>>

\* sendStoreResponse: "not modified", or what was read before the tag.
AnswerFilters ==
    LET tag == FiltersTag(askedMenu.scope, askedMenu.rows)
    IN  /\ askedMenu # NoMenu
        /\ keptMenu' = IF keptMenu # NoMenu /\ keptMenu.scope = askedMenu.scope /\ keptMenu.tag = tag THEN keptMenu
                       ELSE [scope |-> askedMenu.scope, tag |-> tag, menu |-> askedMenu.menu, counted |-> askedMenu.counted,
                             overtaken |-> askedMenu.counted # Counted(askedMenu.scope), late |-> FALSE]
        /\ askedMenu' = NoMenu
        /\ UNCHANGED <<shelf, shelfChanges>>

\* A change is late for the filters that are kept when their tag, as it is
\* written, has its time already, or a later one: updated_at is when the
\* transaction began.
ChangeShelf(r, p, time) ==
    /\ shelfChanges < MaxShelfChanges
    /\ shelf' = [shelf EXCEPT ![r] = p]
    /\ shelfChanges' = shelfChanges + 1
    /\ keptMenu' = IF keptMenu # NoMenu /\ Printed(keptMenu.scope, time) <= keptMenu.tag.newest
                   THEN [keptMenu EXCEPT !.late = TRUE] ELSE keptMenu
    /\ UNCHANGED askedMenu

Touched(p, variants, time) ==
    [p EXCEPT !.variants = [n \in DOMAIN p.variants |->
        IF n \in variants THEN [p.variants[n] EXCEPT !.stamp = time] ELSE p.variants[n]]]

\* The form writes every variant.
SaveShape(r, time) == \E p \in Shapes : ChangeShelf(r, Touched(p, DOMAIN p.variants, time), time)

\* updateStatus: a product and all of its variants that are not archived.
SwitchShape(r, status, time) ==
    LET p == shelf[r]
        kept == {n \in DOMAIN p.variants : p.variants[n].status # "ARCHIVED"}
    IN  ChangeShelf(r, Touched([p EXCEPT !.status = status, !.variants = [n \in DOMAIN p.variants |->
            IF n \in kept THEN [p.variants[n] EXCEPT !.status = status] ELSE p.variants[n]]], kept, time), time)

\* An order takes a unit of a variant.
SellVariant(r, time) == \E n \in ActiveVariants(shelf[r]) : ChangeShelf(r, Touched(shelf[r], {n}, time), time)

InitShopFilters ==
    /\ shelf \in [ShelfIds -> Shapes]
    /\ askedMenu = NoMenu /\ keptMenu = NoMenu
    /\ shelfChanges = 0

NextShopFilters ==
    \/ \E scope \in Scopes : ReadFilterRows(scope)
    \/ AnswerFilters
    \/ \E r \in ShelfIds, time \in ShelfTimes :
          \/ SaveShape(r, time) \/ SellVariant(r, time)
          \/ \E status \in {"ACTIVE", "INACTIVE"} : SwitchShape(r, status, time)

ShopFiltersSpec == InitShopFilters /\ [][NextShopFilters]_filterMenuVars

-----------------------------------------------------------------------------
(* Properties.                                                             *)

Clickable(scope) ==
    {o \in DOMAIN FilterRows(scope) : o.name \notin Reserved /\ Len(o.value) = 1}

\* A value that is offered is accepted and shows as many products as it says, or
\* more where a value is written in two ways.  A value with a comma in it, or of
\* a dimension called "limit", cannot be asked for.
OfferedIsShown ==
    \A scope \in Scopes : scope.by # "collection" =>
        LET rows == FilterRows(scope) IN
        \A o \in Clickable(scope) :
            LET alike == {x \in DOMAIN rows : x.name = o.name /\ x.value = o.value}
                shown == Cardinality(ProductsShown(scope, {o}, 0))
            IN  /\ validateDimensionFilters(extractDimensionFilters({o}))
                /\ shown >= rows[o]
                /\ alike = {o} => shown = rows[o]

HasAll(variant, clicked) ==
    \A n \in {c.name : c \in clicked} : \E o \in variant.options :
        \E c \in clicked : c.name = n /\ o.name = n /\ o.value = c.value

\* Whatever is clicked, a product with a variant on sale that has it all is in the
\* list, unless another variant is on its card and the price is judged by that
\* one.  Values of one dimension show only such products; those of two may show
\* one that has each in another variant.
ClickedIsFound ==
    \A scope \in Scopes, priceMin \in FloorPrices : scope.by # "collection" =>
        \A clicked \in SUBSET Clickable(scope) :
            LET shown   == ProductsShown(scope, clicked, priceMin)
                fits(p) == {n \in ActiveVariants(p) : HasAll(p.variants[n], clicked)}
            IN  \A r \in ShelfIds :
                    LET p == shelf[r] IN
                    /\ p.status = "ACTIVE" /\ InScope(p, scope) /\ fits(p) # {} /\ Card(p).price >= priceMin =>
                          r \in shown
                    /\ r \in shown /\ Cardinality({c.name : c \in clicked}) = 1 => fits(p) # {}

\* A category shows what is in its branch, and what is in a category whose path
\* begins with the same digits: 1 and 1/2, and 10.
BranchIsShown ==
    \A path \in CategoryPaths, r \in ShelfIds :
        LET p      == shelf[r]
            branch == p.category = path \/ IsPrefix(Append(path, "/"), p.category)
            shown  == r \in ProductsShown([by |-> "category", path |-> path], {}, 0)
        IN  /\ branch /\ p.status = "ACTIVE" /\ ActiveVariants(p) # {} => shown
            /\ shown => branch \/ (IsPrefix(path, p.category) /\ p.category[Len(path) + 1] # "/")

\* While the tag is the one a client keeps, so are its filters, but for a product
\* that left without having been the newest, for a change within the millisecond
\* of its tag, the second of a category's, or before, and for one that came
\* between the two queries.
KeptFiltersTell ==
    keptMenu # NoMenu /\ keptMenu.tag = TagToday(keptMenu.scope) =>
        \/ keptMenu.menu = FilterMenu(FilterRows(keptMenu.scope))
        \/ keptMenu.counted \ Counted(keptMenu.scope) # {}
        \/ keptMenu.late
        \/ keptMenu.overtaken

FiltersTell == OfferedIsShown /\ ClickedIsFound /\ BranchIsShown /\ KeptFiltersTell
=============================================================================
