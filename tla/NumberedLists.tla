--------------------------- MODULE NumberedLists ---------------------------
(***************************************************************************)
(* Lists that are asked for by the number of a page: the administrator's   *)
(* products, orders, customers and banner images, the super user's         *)
(* accounts, a customer's own orders.  Each request runs two queries, one  *)
(* for the rows and one for their number, and neither sees what the other  *)
(* saw; a client turns pages as long as it is told that there is a next.   *)
(***************************************************************************)
EXTENDS Naturals, SequencesExt, FiniteSetsExt

LOCAL INSTANCE OrderRules

CONSTANTS
    ListRows,       \* ids of what can be listed; a larger one was created later
    ProductShapes,  \* what a product can look like
    Prices,         \* prices of variants
    ProductQueries, \* what the list of products is asked for
    PageLimit,      \* rows on a page
    LowStock,       \* PRODUCT_LOW_STOCK_THRESHOLD
    MaxListChanges  \* bound on the changes of what is listed

ProductStatuses == {"ACTIVE", "INACTIVE", "ARCHIVED"}
NotArchived == ProductStatuses \ {"ARCHIVED"}
VariantShapes == [status : ProductStatuses, stock : Nat, price : Nat]

ASSUME ListAssumption ==
    /\ ListRows \subseteq Nat /\ IsFiniteSet(ListRows)
    /\ PageLimit \in Nat \ {0}
    /\ Prices \cup {LowStock, MaxListChanges} \subseteq Nat
    /\ ProductShapes \subseteq [status : ProductStatuses, variants : Seq(VariantShapes)]
    /\ \A q \in ProductQueries : q.search \in {"none", "sku"} /\ q.priceMin \in Nat

Lists == {"products", "orders", "own orders", "customers", "accounts", "images"}
Unread == [read |-> FALSE]

VARIABLES
    list,           \* the list that is asked for
    question,       \* its filters and its order
    records,        \* the rows of its table, by id
    answered,       \* the two halves of the request in flight
    pages,          \* the pages the client was shown, with what they were taken from
    listChanges     \* changes so far

listVars == <<list, question, records, answered, pages, listChanges>>

-----------------------------------------------------------------------------
(* The list of products.                                                   *)

\* The variants that remain of a product when variants are joined and
\* searched; a search by "sku" finds the SKU of its first variant alone.
Joined(p, q, statuses) ==
    {n \in DOMAIN p.variants :
        p.variants[n].status \in statuses /\ (q.search = "sku" => n = 1)}

StockOf(p, variants) == SumFunctionOnSet([n \in DOMAIN p.variants |-> p.variants[n].stock], variants)
PricesOf(p, variants) == {p.variants[n].price : n \in variants}

\* WHERE, and HAVING over the variants that are left.  No request can ask for
\* products without variants: "false" is coerced to true.
buildProductFilter(p, q, variants) ==
    /\ variants # {}
    /\ q.status # "any" => p.status = q.status
    /\ q.isVariant => Cardinality({n \in DOMAIN p.variants : p.variants[n].status \in NotArchived}) > 1
    /\ q.stock = "IN_STOCK" => StockOf(p, variants) > 0
    /\ q.stock = "OUT_OF_STOCK" => StockOf(p, variants) = 0
    /\ q.stock = "LOW_STOCK" => StockOf(p, variants) < LowStock
    /\ Min(PricesOf(p, variants)) >= q.priceMin

\* Slip: the list joins archived variants as well.
GetAllArchived(recs, q) ==
    {r \in DOMAIN recs : buildProductFilter(recs[r], q, Joined(recs[r], q, ProductStatuses))}

\* The rows: archived variants are not joined.
GetAll(recs, q) == {r \in DOMAIN recs : buildProductFilter(recs[r], q, Joined(recs[r], q, NotArchived))}

\* Their number: the same filter over all variants.
GetCount(recs, q) ==
    {r \in DOMAIN recs : buildProductFilter(recs[r], q, Joined(recs[r], q, ProductStatuses))}

\* ORDER BY, without a second column.
AboveInProducts(recs, q, r, s) ==
    CASE q.sortBy = "created_at" -> r > s
      [] q.sortBy = "price" -> Min(PricesOf(recs[r], Joined(recs[r], q, NotArchived)))
                                 > Min(PricesOf(recs[s], Joined(recs[s], q, NotArchived)))
      [] q.sortBy = "stock" -> StockOf(recs[r], Joined(recs[r], q, NotArchived))
                                 > StockOf(recs[s], Joined(recs[s], q, NotArchived))

-----------------------------------------------------------------------------
(* The other lists.  The numbers are queries of their own, which filter    *)
(* as those of the rows do.                                                *)

GetOrders(recs, q) == {r \in DOMAIN recs : q = "any" \/ q \in AdminFilters(recs[r].s, recs[r].p, recs[r].sh)}
CountOrders(recs, q) == GetOrders(recs, q)

GetOwnOrders(recs, q) == {r \in DOMAIN recs : q = "any" \/ q \in TabsOf(recs[r].s, recs[r].p)}

\* Slip: the tab is forgotten in the number.
CountOwnOrdersAll(recs, q) == DOMAIN recs

CountOwnOrders(recs, q) == GetOwnOrders(recs, q)

GetCustomers(recs) == {r \in DOMAIN recs : recs[r].role = "USER"}
CountCustomers(recs) == GetCustomers(recs)

GetAccounts(recs, q) == {r \in DOMAIN recs : q = "any" \/ recs[r].role = q}
CountAccounts(recs, q) == GetAccounts(recs, q)

\* What is ready to ship comes first; then the newest.
AboveInAdminOrders(recs, r, s) ==
    LET Priority(x) == AdminPriority(recs[x].s, recs[x].p, recs[x].sh)
    IN  Priority(r) < Priority(s) \/ (Priority(r) = Priority(s) /\ r > s)

RoleRank(role) == CASE role = "SUPER" -> 1 [] role = "ADMIN" -> 2 [] role = "USER" -> 3

\* By role, unless a role was asked for.
AboveInAccounts(recs, q, r, s) ==
    LET Rank(x) == IF q = "any" THEN RoleRank(recs[x].role) ELSE 0
    IN  Rank(r) < Rank(s) \/ (Rank(r) = Rank(s) /\ r > s)

-----------------------------------------------------------------------------
(* What a query sees of a table.                                           *)

RowsFound(recs) ==
    CASE list = "products"   -> GetAll(recs, question)
      [] list = "orders"     -> GetOrders(recs, question)
      [] list = "own orders" -> GetOwnOrders(recs, question)
      [] list = "customers"  -> GetCustomers(recs)
      [] list = "accounts"   -> GetAccounts(recs, question)
      [] list = "images"     -> DOMAIN recs

RowsCounted(recs) ==
    CASE list = "products"   -> GetCount(recs, question)
      [] list = "orders"     -> CountOrders(recs, question)
      [] list = "own orders" -> CountOwnOrders(recs, question)
      [] list = "customers"  -> CountCustomers(recs)
      [] list = "accounts"   -> CountAccounts(recs, question)
      [] list = "images"     -> DOMAIN recs

RowAbove(recs, r, s) ==
    CASE list = "products" -> AboveInProducts(recs, question, r, s)
      [] list = "orders"   -> AboveInAdminOrders(recs, r, s)
      [] list = "accounts" -> AboveInAccounts(recs, question, r, s)
      [] OTHER             -> r > s

\* The orders in which the database may return a set of rows.
SortedRows(recs, rows) ==
    {o \in [1 .. Cardinality(rows) -> rows] :
        \A i, j \in DOMAIN o : i < j => o[i] # o[j] /\ ~RowAbove(recs, o[j], o[i])}

\* Slip: pages are numbered from nought.
PageFromNought(o, n) == SubSeq(o, n * PageLimit + 1, Min({(n + 1) * PageLimit, Len(o)}))

\* LIMIT and OFFSET.
PageOf(o, n) == SubSeq(o, (n - 1) * PageLimit + 1, Min({n * PageLimit, Len(o)}))

\* Slip: a full last page is followed by another.
HasNextFull(n, total) == n * PageLimit <= total

HasNext(n, total) == n * PageLimit < total

-----------------------------------------------------------------------------
PageNumber == Len(pages) + 1
TurnsOn == pages # <<>> => HasNext(Len(pages), Cardinality(pages[Len(pages)].counted))

ReadRows ==
    /\ answered.rows = Unread /\ TurnsOn
    /\ \E o \in SortedRows(records, RowsFound(records)) :
          answered' = [answered EXCEPT !.rows =
              [read |-> TRUE, shown |-> PageOf(o, PageNumber), listed |-> RowsFound(records),
               above |-> {e \in RowsFound(records) \X RowsFound(records) : RowAbove(records, e[1], e[2])}]]
    /\ UNCHANGED <<list, question, records, pages, listChanges>>

\* At the same time as the rows; for images, after them.
ReadTotal ==
    /\ answered.total = Unread /\ TurnsOn
    /\ list = "images" => answered.rows # Unread
    /\ answered' = [answered EXCEPT !.total = [read |-> TRUE, counted |-> RowsCounted(records)]]
    /\ UNCHANGED <<list, question, records, pages, listChanges>>

ShowPage ==
    /\ answered.rows # Unread /\ answered.total # Unread
    /\ pages' = Append(pages, [shown   |-> answered.rows.shown,
                               listed  |-> answered.rows.listed,
                               above   |-> answered.rows.above,
                               counted |-> answered.total.counted])
    /\ answered' = [rows |-> Unread, total |-> Unread]
    /\ UNCHANGED <<list, question, records, listChanges>>

-----------------------------------------------------------------------------
(* Meanwhile: the tables change.                                           *)

ChangeRow(r, record) ==
    /\ listChanges < MaxListChanges
    /\ listChanges' = listChanges + 1
    /\ records' = [x \in DOMAIN records \cup {r} |-> IF x = r THEN record ELSE records[x]]
    /\ UNCHANGED <<list, question, answered, pages>>

NewOrder == [s |-> "PENDING", p |-> "UNPAID", sh |-> "PENDING"]

NewRecords ==
    CASE list = "products" -> ProductShapes
      [] list \in {"orders", "own orders"} -> {NewOrder}
      [] list \in {"customers", "accounts"} -> {[role |-> role] : role \in {"USER", "ADMIN"}}
      [] list = "images" -> {[context |-> "BANNER"]}

CreateRow ==
    /\ ListRows \ DOMAIN records # {}
    /\ \E record \in NewRecords : ChangeRow(Min(ListRows \ DOMAIN records), record)

\* A bulk change of status: the variants follow, but for archived ones.
UpdateStatus(p, status) ==
    [p EXCEPT !.status = status,
              !.variants = [n \in DOMAIN p.variants |->
                  [p.variants[n] EXCEPT !.status = IF @ = "ARCHIVED" THEN @
                                                   ELSE IF status = "ACTIVE" THEN "ACTIVE" ELSE "INACTIVE"]]]

\* What the product form may say (productUpsertSchema, validateVariantRules);
\* archived variants are not in it.
FormAccepted(p) ==
    /\ \E n \in DOMAIN p.variants : p.variants[n].status \in NotArchived
    /\ \A n \in DOMAIN p.variants : p.variants[n].status = "ACTIVE" => p.variants[n].stock > 0
    /\ p.status = "ACTIVE" => \E n \in DOMAIN p.variants : p.variants[n].status = "ACTIVE"

Altered(v) ==
    IF v.status = "ARCHIVED" THEN {v}
    ELSE {[v EXCEPT !.status = status] : status \in ProductStatuses}
         \cup {[v EXCEPT !.price = price] : price \in Prices} \cup {[v EXCEPT !.stock = @ + 1]}

\* The form is saved with its status or one of its variants altered; a variant
\* that it no longer has is archived.
FormSaved(p) ==
    {q \in {[p EXCEPT !.status = status] : status \in ProductStatuses}
            \cup UNION {{[p EXCEPT !.variants[n] = v] : v \in Altered(p.variants[n])} : n \in DOMAIN p.variants} :
        FormAccepted(q)}

\* A unit of a variant is ordered.
UnitTaken(p) ==
    {[p EXCEPT !.variants[n].stock = @ - 1] :
        n \in {n \in DOMAIN p.variants : p.variants[n].status = "ACTIVE" /\ p.variants[n].stock > 0}}

EditProductRow(r) ==
    /\ list = "products"
    /\ \E p \in {UpdateStatus(records[r], status) : status \in ProductStatuses}
               \cup FormSaved(records[r]) \cup UnitTaken(records[r]) :
          p # records[r] /\ ChangeRow(r, p)

\* The commands on an order, as OrderRules allows them.
MoveOrderRow(r) ==
    /\ list \in {"orders", "own orders"}
    /\ LET o == records[r]
       IN  \/ CancelAccepted(o.s, o.p) /\ ChangeRow(r, [o EXCEPT !.s = "CANCELLED"])
           \/ o.p # "PAID" /\ ChangeRow(r, [o EXCEPT !.p = "PAID"])
           \/ CanPay(o.s, o.p, FALSE) /\ ChangeRow(r, [o EXCEPT !.p = "FAILED"])
           \/ ShipAccepted(o.s, o.p, o.sh) /\ ChangeRow(r, [o EXCEPT !.s = "PROCESSING", !.sh = "SHIPPED"])
           \/ DeliverAccepted(o.s, o.p, o.sh) /\ ChangeRow(r, [o EXCEPT !.s = "COMPLETED", !.sh = "DELIVERED"])

RemoveImageRow(r) ==
    /\ list = "images" /\ listChanges < MaxListChanges
    /\ listChanges' = listChanges + 1
    /\ records' = [x \in DOMAIN records \ {r} |-> records[x]]
    /\ UNCHANGED <<list, question, answered, pages>>

ListQuestions ==
    CASE list = "products" -> ProductQueries
      [] list = "orders" -> {"any", "WAITING_PAYMENT", "READY_TO_SHIP", "SHIPPED", "COMPLETED", "CANCELLED"}
      [] list = "own orders" -> {"any", "ongoing", "completed", "cancelled"}
      [] list = "accounts" -> {"any", "USER", "ADMIN"}
      [] OTHER -> {"any"}

FirstRecords ==
    CASE list = "products" -> ProductShapes
      [] list \in {"orders", "own orders"} ->
            {NewOrder, [NewOrder EXCEPT !.p = "PAID"], [s |-> "PROCESSING", p |-> "PAID", sh |-> "SHIPPED"]}
      [] OTHER -> NewRecords

InitLists ==
    /\ list \in Lists
    /\ question \in ListQuestions
    /\ \E n \in ListRows : records \in [{r \in ListRows : r <= n} -> FirstRecords]
    /\ answered = [rows |-> Unread, total |-> Unread]
    /\ pages = <<>>
    /\ listChanges = 0

NextLists ==
    \/ ReadRows \/ ReadTotal \/ ShowPage \/ CreateRow
    \/ \E r \in DOMAIN records : EditProductRow(r) \/ MoveOrderRow(r) \/ RemoveImageRow(r)

ListsSpec == InitLists /\ [][NextLists]_listVars

-----------------------------------------------------------------------------
(* Properties.                                                             *)

SurelyAbove(page, r, s) == <<r, s>> \in page.above
MayBeAbove(page, r, s)  == r \in page.listed \ {s} /\ ~SurelyAbove(page, s, r)

\* Turning pages shows a row twice only if another row came ahead of it in
\* between, or may stand on either side of it because the list's order does not
\* tell the two apart.
TwiceOnlyIfOvertaken ==
    \A i, j \in DOMAIN pages : i < j =>
        \A r \in ToSet(pages[i].shown) \cap ToSet(pages[j].shown) :
            \E s \in ListRows : MayBeAbove(pages[j], s, r) /\ ~SurelyAbove(pages[i], s, r)

\* A row that was in the list all the time is never shown only if another row
\* left its place ahead of it, or may stand on either side of it, or was not
\* counted when the client was told that there are no more pages.
MissedOnlyIfPassed ==
    LET last == Len(pages)
    IN  pages # <<>> /\ ~TurnsOn =>
            \A r \in UNION {pages[i].listed : i \in DOMAIN pages} :
                \/ \E i \in DOMAIN pages : r \notin pages[i].listed \/ r \in ToSet(pages[i].shown)
                \/ \E i \in 1 .. last - 1, s \in ListRows :
                      MayBeAbove(pages[i], s, r) /\ ~SurelyAbove(pages[i + 1], s, r)
                \/ pages[last].listed \ pages[last].counted # {}

\* An empty page follows another only if a row was counted that is not in the list.
EmptyOnlyIfLeft ==
    \A i \in 2 .. Len(pages) :
        pages[i].shown = <<>> => pages[i - 1].counted \ pages[i].listed # {}

\* The two queries of a request, asked at once, speak of the same rows, but for
\* products that have archived variants.
CountTells ==
    \A r \in (RowsFound(records) \ RowsCounted(records)) \cup (RowsCounted(records) \ RowsFound(records)) :
        /\ list = "products"
        /\ \E n \in DOMAIN records[r].variants : records[r].variants[n].status = "ARCHIVED"

\* What the list of products says of a product's stock and prices is so of the
\* variants that are not archived; a search that finds one variant tells only
\* of that one.
FilterTells ==
    list = "products" =>
        \A r \in RowsFound(records) :
            LET p    == records[r]
                live == {n \in DOMAIN p.variants : p.variants[n].status # "ARCHIVED"}
            IN  /\ question.stock = "IN_STOCK" => \E n \in live : p.variants[n].stock > 0
                /\ question.search = "none" =>
                      /\ question.stock = "OUT_OF_STOCK" => \A n \in live : p.variants[n].stock = 0
                      /\ question.stock = "LOW_STOCK" => \A n \in live : p.variants[n].stock < LowStock
                      /\ \A n \in live : p.variants[n].price >= question.priceMin

ListsTell == TwiceOnlyIfOvertaken /\ MissedOnlyIfPassed /\ EmptyOnlyIfLeft /\ CountTells /\ FilterTells
=============================================================================
