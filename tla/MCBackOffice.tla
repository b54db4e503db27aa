---------------------------- MODULE MCBackOffice ----------------------------
(* The back office for TLC.  Banners, collections, the warehouse, the      *)
(* dashboard, lists, the presets and the options of a product's form share *)
(* nothing and are explored each alone: focus says which.                  *)
EXTENDS Marketing, Collections, ShippingOrigin, Dashboard, NumberedLists, VariantPresets, ProductForm

VARIABLE focus

\* One or two options of a dimension; ids and words may repeat.
OptionsOf(ids, words) == UNION {[1 .. n -> [id : ids, value : words]] : n \in 1 .. 2}

OneDimension == {<<[id |-> 1, name |-> 1, options |-> o]>> : o \in OptionsOf(1 .. 2, 1 .. 2)}

OptionLists ==
    {<<[id |-> 1, value |-> 1]>>,
     <<[id |-> 1, value |-> 1], [id |-> 2, value |-> 2]>>,
     <<[id |-> 1, value |-> 1], [id |-> 2, value |-> 1]>>}

TwoDimensions ==
    {<<[id |-> 1, name |-> 1, options |-> o], d>> :
        o \in OptionLists, d \in [id : 1 .. 2, name : 1 .. 2, options : OptionsOf(1 .. 3, 1 .. 2)]}

\* What a variant can choose, and a second variant that chooses alike or the other way.
Choosable == UNION {[1 .. n -> [dim : 1 .. 2, opt : 1 .. 2]] : n \in 0 .. 2}
Offered(id, clientId, choice) ==
    [id |-> id, clientId |-> clientId, active |-> TRUE, stock |-> 1, options |-> choice]
OtherWay(choice) == [n \in DOMAIN choice |-> [choice[n] EXCEPT !.opt = 3 - @]]

\* New products whose variants are told apart.
NewForms ==
    {[stored |-> {}, dims |-> d, variants |-> v] :
        d \in {<<>>} \cup OneDimension \cup TwoDimensions,
        v \in UNION {{<<Offered(0, 1, c)>>, <<Offered(0, 1, c), Offered(0, 2, c)>>,
                      <<Offered(0, 1, c), Offered(0, 2, OtherWay(c))>>} : c \in Choosable}}

\* New products and old ones, whose variants come with any ids and clientIds.
Colours == <<[id |-> 1, name |-> 1, options |-> <<[id |-> 1, value |-> 1], [id |-> 2, value |-> 2]>>]>>

KeyedForms ==
    {[stored |-> s, dims |-> IF Len(v) = 1 THEN <<>> ELSE Colours, variants |-> v] :
        s \in {{}, {1, 2}},
        v \in {<<Offered(i, k, <<>>)>> : i \in 0 .. 3, k \in 1 .. 2}
              \cup {<<Offered(i, k, <<[dim |-> 1, opt |-> 1]>>), Offered(j, l, <<[dim |-> 1, opt |-> o]>>)>> :
                        i, j \in 0 .. 3, k, l \in 1 .. 2, o \in 1 .. 2}}

SmallForms == NewForms \cup KeyedForms

\* Products with one variant, with two, and an inactive one with one of two archived.
Variant(status, stock, price) == [status |-> status, stock |-> stock, price |-> price]

SmallProducts ==
    {[status |-> "ACTIVE", variants |-> <<Variant("ACTIVE", 1, 1)>>],
     [status |-> "ACTIVE", variants |-> <<Variant("ACTIVE", 1, 2), Variant("ACTIVE", 0, 1)>>],
     [status |-> "INACTIVE", variants |-> <<Variant("INACTIVE", 0, 2), Variant("ARCHIVED", 1, 1)>>]}

Everything ==
    [search |-> "none", stock |-> "any", status |-> "any", isVariant |-> FALSE, priceMin |-> 0, sortBy |-> "created_at"]

SmallQueries ==
    {[Everything EXCEPT !.stock = stock] : stock \in {"any", "IN_STOCK", "OUT_OF_STOCK", "LOW_STOCK"}}
    \cup {[Everything EXCEPT !.search = "sku", !.stock = "OUT_OF_STOCK"],
          [Everything EXCEPT !.status = "ACTIVE", !.isVariant = TRUE],
          [Everything EXCEPT !.priceMin = 2, !.sortBy = "stock"],
          [Everything EXCEPT !.sortBy = "price"]}

\* Before the first page is asked for, and after the last, changes show nothing.
WhileTurning ==
    TurnsOn /\ (listChanges > 0 => pages # <<>> \/ answered.rows # Unread \/ answered.total # Unread)

\* Two collections; "a-2" is also what a second "a" is called.
TwoCollections ==
    <<[slug |-> <<"a">>, status |-> "ACTIVE", place |-> 0], [slug |-> <<"b">>, status |-> "ACTIVE", place |-> 1]>>
AlikeSlugs == {<<"a">>, <<"a", 2>>}

officeVars == <<bannerVars, collectionVars, originVars, dashboardVars, listVars, presetVars, formVars, focus>>

OfficeInit ==
    /\ InitMarketing
    /\ InitOrigin
    /\ InitDashboard
    /\ InitPresets
    /\ focus \in {"banners", "collections", "warehouse", "dashboard", "lists", "presets", "form"}
    /\ InitCollections
    /\ focus # "collections" => \A p \in HomeProducts : onHome[p].status = "INACTIVE" /\ onHome[p].in = {}
    /\ IF focus = "lists" THEN InitLists
       ELSE /\ list = "images" /\ question = "any" /\ records = <<>> /\ pages = <<>>
            /\ answered = [rows |-> Unread, total |-> Unread] /\ listChanges = 0
    /\ IF focus = "form" THEN InitForm
       ELSE /\ sentForm = [stored |-> {}, dims |-> <<>>, variants |-> <<Offered(0, 1, <<>>)>>]
            /\ written = Nothing /\ formState = "sent" /\ wasWritten = Nothing /\ muddled = FALSE

OfficeNext ==
    /\ UNCHANGED focus
    /\ \/ /\ focus = "banners" /\ NextMarketing
          /\ UNCHANGED <<collectionVars, originVars, dashboardVars, listVars, presetVars, formVars>>
       \/ /\ focus = "collections" /\ NextCollections
          /\ UNCHANGED <<bannerVars, originVars, dashboardVars, listVars, presetVars, formVars>>
       \/ /\ focus = "warehouse" /\ NextOrigin
          /\ UNCHANGED <<bannerVars, collectionVars, dashboardVars, listVars, presetVars, formVars>>
       \/ /\ focus = "dashboard" /\ NextDashboard
          /\ UNCHANGED <<bannerVars, collectionVars, originVars, listVars, presetVars, formVars>>
       \/ /\ focus = "lists" /\ NextLists
          /\ UNCHANGED <<bannerVars, collectionVars, originVars, dashboardVars, presetVars, formVars>>
       \/ /\ focus = "presets" /\ NextPresets
          /\ UNCHANGED <<bannerVars, collectionVars, originVars, dashboardVars, listVars, formVars>>
       \/ /\ focus = "form" /\ NextForm
          /\ UNCHANGED <<bannerVars, collectionVars, originVars, dashboardVars, listVars, presetVars>>

OfficeSpec == OfficeInit /\ [][OfficeNext]_officeVars

\* Requests are alike, and so are the targets of banners and the orders.
AlikeInOffice == {f @@ g : f \in Permutations(Staff), g \in Permutations(Targets)}

\* What clients keep and what is removed have nothing to do with each other.
KeepOrRemove ==
    \/ keptBanners = NothingKept
    \/ targetRows = Targets /\ \A r \in Staff : office[r].op \in {"resting", "save"}

\* Nor have saves of collections and who reads the first page, for which one change
\* will do.
SaveOrRead ==
    IF \A w \in CollectionSavers : collectionSave[w] = NoSave THEN homeChanges <= 1
    ELSE /\ homeAnswer = NoHome /\ keptHome = NoHome
         /\ \A p \in HomeProducts : onHome[p] = [status |-> "INACTIVE", stamp |-> 0, card |-> 0, in |-> {}]

\* The queries of a report have nothing to do with each other: what comes after the
\* first answer, whichever it is, shows nothing more.
WhileReporting == report.asked => report.pending = Pending

Bounded == KeepOrRemove /\ SaveOrRead /\ WhileReporting /\ (focus = "lists" => WhileTurning)

\* What the back office is told of orders, products and people: charts and lists.
ReportsTell == ChartsTell /\ ListsTell

\* What the shop puts in the window: banners and collections.
WindowHolds == MarketingHolds /\ CollectionsHold

\* What the product form is offered and what is made of what it sends.
ProductFormsHold == PresetsHold /\ FormsHold
=============================================================================
