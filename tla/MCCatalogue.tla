----------------------------- MODULE MCCatalogue -----------------------------
(* The parts of the catalogue for TLC.  The tree of categories, the form   *)
(* of one product, the shop's lists, the list of filters, a product's page *)
(* and the filters that the shop offers are explored each alone: focus     *)
(* says which.                                                             *)
EXTENDS CategoryTree, ProductEditor, StoreListing, ProductPage, ShopFilters, TLC

VARIABLE focus

At(parent, slug, ids, slugs) ==
    [parent |-> parent, slug |-> slug, status |-> "ACTIVE", stamp |-> 0, idPath |-> ids, slugPath |-> slugs]

A1 == <<"a", 1>>
B1 == <<"b", 1>>

\* Three categories, one below the other.
Chain == [c \in 1 .. 3 |-> At(c - 1, A1, [i \in 1 .. c |-> i], [i \in 1 .. c |-> A1])]

\* A category with two children.
Fork == <<At(Root, A1, <<1>>, <<A1>>), At(1, A1, <<1, 2>>, <<A1, A1>>), At(1, B1, <<1, 3>>, <<A1, B1>>)>>

\* Two roots, and a child below the second.
Pair == <<At(Root, A1, <<1>>, <<A1>>), At(Root, B1, <<2>>, <<B1>>), At(2, A1, <<2, 3>>, <<B1, A1>>)>>

SmallTrees == {Chain, Fork, Pair}

\* A product with one variant or with two, a unit of each.
Row(primary, option) ==
    [status |-> "ACTIVE", primary |-> primary, stock |-> 1, option |-> option, snapshot |-> option,
     shelf |-> 1, taken |-> 0, guessed |-> FALSE]
OneOrTwo ==
    {[status |-> "ACTIVE", variant |-> <<Row(TRUE, NoOption)>>],
     [status |-> "ACTIVE", variant |-> <<Row(TRUE, 1), Row(FALSE, 2)>>]}

\* Products in categories 1, 1/2 and 10.  One has two dimensions, one a variant
\* that is not for sale and a colour written in its own way, one a value with a
\* comma and a dimension called "limit", one is not for sale, and one has no
\* variants to choose from.
Has(name, value, look) == [name |-> name, value |-> value, look |-> look]
Variant(status, primary, price, options) ==
    [status |-> status, primary |-> primary, price |-> price, options |-> options, stamp |-> 0]
OnShelf(status, path, named, variants) ==
    [status |-> status, category |-> path, named |-> named, collected |-> named, variants |-> variants]

SomeShapes ==
    {OnShelf("ACTIVE", <<"1">>, TRUE,
        <<Variant("ACTIVE", FALSE, 1, {Has("color", <<"red">>, 1), Has("size", <<"s">>, 1)}),
          Variant("ACTIVE", TRUE, 2, {Has("color", <<"blue">>, 1), Has("size", <<"m">>, 1)})>>),
     OnShelf("ACTIVE", <<"1", "/", "2">>, TRUE,
        <<Variant("INACTIVE", FALSE, 1, {Has("color", <<"blue">>, 1)}),
          Variant("ACTIVE", TRUE, 2, {Has("color", <<"red">>, 2)}),
          Variant("ARCHIVED", FALSE, 1, {})>>),
     OnShelf("ACTIVE", <<"1", "0">>, FALSE,
        <<Variant("ACTIVE", TRUE, 1, {Has("color", <<"red", "blue">>, 1), Has("limit", <<"s">>, 1)}),
          Variant("ACTIVE", FALSE, 2, {Has("color", <<"blue">>, 1), Has("limit", <<"s">>, 1)})>>),
     OnShelf("INACTIVE", <<"1", "/", "2">>, TRUE,
        <<Variant("INACTIVE", TRUE, 1, {Has("color", <<"blue">>, 1)}),
          Variant("INACTIVE", FALSE, 2, {Has("color", <<"red">>, 1)})>>),
     OnShelf("ACTIVE", <<"1">>, FALSE, <<Variant("ACTIVE", TRUE, 1, {})>>)}
Paths == {<<"1">>, <<"1", "/", "2">>, <<"1", "0">>}

catalogueVars == <<treeVars, editorVars, listingVars, filterVars, pageVars, filterMenuVars, focus>>

\* A menu that is kept is met by one edit at a time.  The two roots, whose menu
\* nobody keeps, are edited three times, always renamed; the other trees twice.
TreeBounded ==
    IF 2 \in Ids /\ category[2].parent = Root
    THEN /\ Ids = 1 .. 3 /\ clock = 0 /\ ~menuCopy.kept
         /\ \A e \in Editors : edit[e] # Idle => edit[e].id # Root /\ edit[e].status = "ACTIVE"
    ELSE edits <= 2 /\ (menuCopy.kept => Cardinality({e \in Editors : edit[e] # Idle}) <= 1)

\* A list is sorted by one column: the products to begin with differ in one.
OneColumn ==
    \/ \A p, r \in Items : item[p].price = item[r].price
    \/ \A p, r \in Items : item[p].created = item[r].created

CatalogueInit ==
    /\ focus \in {"tree", "editor", "listing", "filters", "page", "shelf"}
    /\ InitTree /\ (focus # "tree" => category = Chain)
    /\ InitEditor /\ (focus # "editor" => product.status = "none")
    /\ InitListing /\ OneColumn
    /\ focus # "listing" => \A p \in Items : \A n \in ItemPrices : item[p].price <= n
    /\ focus # "listing" => \A p \in Items : \A n \in CreatedAt : item[p].created <= n
    /\ InitFilters /\ (focus # "filters" => offered = {})
    /\ InitPage
    /\ InitShopFilters /\ (focus # "shelf" => \A r \in ShelfIds : shelf[r].variants[1].options = {})

CatalogueNext ==
    /\ UNCHANGED focus
    /\ \/ focus = "tree" /\ NextTree /\ TreeBounded' /\ UNCHANGED <<editorVars, listingVars, filterVars, pageVars, filterMenuVars>>
       \/ focus = "editor" /\ NextEditor /\ UNCHANGED <<treeVars, listingVars, filterVars, pageVars, filterMenuVars>>
       \/ focus = "listing" /\ NextListing /\ UNCHANGED <<treeVars, editorVars, filterVars, pageVars, filterMenuVars>>
       \/ focus = "filters" /\ NextFilters /\ UNCHANGED <<treeVars, editorVars, listingVars, pageVars, filterMenuVars>>
       \/ focus = "page" /\ NextProductPage /\ UNCHANGED <<treeVars, editorVars, listingVars, filterVars, filterMenuVars>>
       \/ focus = "shelf" /\ NextShopFilters /\ UNCHANGED <<treeVars, editorVars, listingVars, filterVars, pageVars>>

CatalogueSpec == CatalogueInit /\ [][CatalogueNext]_catalogueVars

\* Nothing tells two editors apart, nor two forms, saves, requests or transactions.
AlikeInShop == Permutations(Editors)

\* Clients that walk and keep a list share nothing, nor do those that keep a
\* product's page and a variant's detail: one at a time.
OneClient ==
    /\ walk.at = "idle" \/ keptPage.at = "none"
    /\ keptVariant = NotRead \/ (reading = NotRead /\ keptDetail = NotRead)

\* A page is met by products whose variants are for sale as they are; a form that
\* can no longer be saved is not opened.
OneConcern ==
    /\ reading # NotRead \/ keptDetail # NotRead => \A v \in PageVariants : sold[v].status = onSale.status
    /\ saves = MaxSaves => \A e \in FormIds : form[e] = Closed

Followed == OneClient /\ OneConcern

\* What a client of the shop reads: lists page by page, the filters they take and
\* those that are offered, and what it keeps of the menu, of the filters and of a
\* product's page as long as the tag is the same.  The shelf stays as it is unless
\* it is the focus, and every shelf is met with nothing asked for or kept: what is
\* about the shelf alone is checked there.
ShelfTells == KeptFiltersTell /\ (askedMenu = NoMenu /\ keptMenu = NoMenu => FiltersTell)
ShopHolds == ListingHolds /\ TagTellsMenu /\ PagesHold /\ (focus = "shelf" => ShelfTells)
=============================================================================
