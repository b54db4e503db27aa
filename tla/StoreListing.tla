---------------------------- MODULE StoreListing ----------------------------
(***************************************************************************)
(* A list of the shop, page by page.  Each request is one query over the   *)
(* products as they are; the client carries the place where it left off,   *)
(* the cursor, and may keep a page as long as its tag is the same.  Times  *)
(* are microseconds in the tables and milliseconds in what leaves them.    *)
(***************************************************************************)
EXTENDS FilterCache, Ordering, Sequences, FiniteSets, SequencesExt

CONSTANTS
    Items,          \* products, by id
    ItemPrices,     \* prices, which are the ranks of a search too
    CreatedAt,      \* created_at, in microseconds
    Limit,          \* products on a page
    MaxPages,       \* bound: pages of a walk
    MaxChanges      \* bound: changes by administrators

ASSUME ListingAssumption ==
    /\ Limit \in Nat \ {0}
    /\ Items \subseteq Nat /\ IsFiniteSet(Items)
    /\ ItemPrices \subseteq Nat /\ CreatedAt \subseteq Nat

Millisecond == 10   \* in the microseconds of the model
NoCursor == [at |-> "first"]

VARIABLES
    item,           \* what the query sees of products and product_variants
    walk,           \* a client that goes from page to page
    keptPage,       \* the first page that a client keeps, with its tag
    changes,
    now             \* the time of a transaction that begins now

listingVars == <<item, walk, keptPage, changes, now>>

InitListing ==
    /\ item \in [Items -> [listed : {TRUE}, price : ItemPrices, created : CreatedAt, productStamp : {0}, variantStamp : {0}]]
    /\ walk = [at |-> "idle"]
    /\ keptPage = [at |-> "none"]
    /\ changes = 0
    /\ now = 1

-----------------------------------------------------------------------------
(* executeProductListing.                                                  *)

Listed == {p \in Items : item[p].listed}

\* The column a list is sorted by.
SortColumn(sort, p) == IF sort = "created_at" THEN item[p].created ELSE item[p].price

Before(q, p, r) ==
    LET a == SortColumn(q.sort, p)
        b == SortColumn(q.sort, r)
    IN  IF q.dir = "asc" THEN a < b \/ (a = b /\ p < r) ELSE a > b \/ (a = b /\ p > r)

\* Slip: the id is left out.
AfterValue(q, cursor, p) ==
    LET a == SortColumn(q.sort, p) IN
    cursor # NoCursor => IF q.dir = "asc" THEN a > cursor.value ELSE a < cursor.value

\* buildCursorCondition
AfterCursor(q, cursor, p) ==
    LET a == SortColumn(q.sort, p) IN
    cursor # NoCursor =>
        IF q.dir = "asc" THEN a > cursor.value \/ (a = cursor.value /\ p > cursor.id)
        ELSE a < cursor.value \/ (a = cursor.value /\ p < cursor.id)

\* ORDER BY, LIMIT limit + 1
Rows(q, cursor) ==
    LET found == {p \in Listed : AfterCursor(q, cursor, p)}
        sorted == SortedBy(found, {pair \in found \X found : Before(q, pair[1], pair[2])})
    IN  SubSeq(sorted, 1, IF Len(sorted) > Limit THEN Limit + 1 ELSE Len(sorted))

PageOf(rows) == SubSeq(rows, 1, IF Len(rows) > Limit THEN Limit ELSE Len(rows))

\* A price goes into the cursor as it is, a time as toISOString has it.
NextCursor(q, rows) ==
    LET last == PageOf(rows)[Len(PageOf(rows))]
        value == SortColumn(q.sort, last)
    IN  IF Len(rows) <= Limit THEN NoCursor
        ELSE [at |-> "after", id |-> last,
              value |-> IF q.sort = "created_at" THEN (value \div Millisecond) * Millisecond ELSE value]

\* A search is sorted by an alias of its SELECT, which a WHERE does not know:
\* its second page is an error.
Answers(q, cursor) == q.sort = "search_rank" => cursor = NoCursor

Queries == [sort : {"created_at", "price", "search_rank"}, dir : {"asc", "desc"}]

StartWalk ==
    /\ walk.at = "idle"
    /\ \E q \in Queries :
        LET rows == Rows(q, NoCursor) IN
        walk' = [at |-> IF Len(rows) > Limit THEN "going" ELSE "done",
                 query |-> q, cursor |-> NextCursor(q, rows), seen |-> PageOf(rows), pages |-> 1, moved |-> FALSE]
    /\ UNCHANGED <<item, keptPage, changes, now>>

NextPage ==
    /\ walk.at = "going" /\ walk.pages < MaxPages
    /\ LET q == walk.query
           rows == Rows(q, walk.cursor)
       IN
       walk' = IF ~Answers(q, walk.cursor) THEN [walk EXCEPT !.at = "failed"]
               ELSE [walk EXCEPT
                        !.at = IF Len(rows) > Limit THEN "going" ELSE "done",
                        !.cursor = NextCursor(q, rows), !.seen = @ \o PageOf(rows), !.pages = @ + 1]
    /\ UNCHANGED <<item, keptPage, changes, now>>

-----------------------------------------------------------------------------
(* buildProductListingETagSeed and sendStoreResponse.                      *)

Newest(stamps) == IF stamps = {} THEN 0 ELSE CHOOSE s \in stamps : \A r \in stamps : r <= s

ListingTag(q) ==
    [query |-> q,
     product |-> Newest({item[p].productStamp : p \in Listed}),
     variant |-> Newest({item[p].variantStamp : p \in Listed})]

Cards(q) ==
    LET page == PageOf(Rows(q, NoCursor))
    IN  [i \in DOMAIN page |-> <<page[i], item[page[i]].price>>]

\* The query and the tag's are two, one after the other; they are taken as one.
FetchPage(q) ==
    /\ keptPage.at = "kept" => keptPage.tag # ListingTag(q)
    /\ keptPage' = [at |-> "kept", tag |-> ListingTag(q), cards |-> Cards(q)]
    /\ UNCHANGED <<item, walk, changes, now>>

-----------------------------------------------------------------------------
(* Administrators and orders: updated_at is when the transaction began.    *)

Moved == walk' = IF walk.at # "idle" THEN [walk EXCEPT !.moved = TRUE] ELSE walk

ChangeProduct(p, listed) ==
    /\ changes < MaxChanges
    /\ item' = [item EXCEPT ![p].listed = listed, ![p].productStamp = now]
    /\ Moved
    /\ changes' = changes + 1
    /\ now' = now + 1
    /\ UNCHANGED keptPage

ChangePrice(p, price) ==
    /\ changes < MaxChanges
    /\ item' = [item EXCEPT ![p].price = price, ![p].variantStamp = now]
    /\ Moved
    /\ changes' = changes + 1
    /\ now' = now + 1
    /\ UNCHANGED keptPage

NextListing ==
    \/ StartWalk \/ NextPage
    \/ \E q \in Queries : FetchPage(q)
    \/ \E p \in Items : (\E listed \in BOOLEAN : ChangeProduct(p, listed)) \/ (\E price \in ItemPrices : ChangePrice(p, price))

ListingSpec == InitListing /\ [][NextListing]_listingVars

-----------------------------------------------------------------------------
(* Properties.                                                             *)

SameMillisecond(p, r) == item[p].created \div Millisecond = item[r].created \div Millisecond

\* While nothing changes, a walk by price shows every product of the list once,
\* in its order; newest first it repeats nothing, and misses at most products
\* made in the same millisecond as one that it showed; oldest first it misses
\* nothing (but shows the last of a page again on the next, or for ever).
WalkShowsEachOnce ==
    walk.at \in {"going", "done"} /\ ~walk.moved =>
        LET seen == walk.seen
            q == walk.query
            reached == {p \in Listed : walk.at = "done" \/ (seen # <<>> /\ Before(q, p, seen[Len(seen)]))}
        IN
        /\ (q.sort = "created_at" => q.dir = "desc") => \A i, j \in DOMAIN seen : i < j => Before(q, seen[i], seen[j])
        /\ \A p \in reached :
            \/ p \in ToSet(seen)
            \/ /\ q.sort = "created_at" /\ q.dir = "desc"
               /\ \E r \in ToSet(seen) : SameMillisecond(p, r)

\* Lists lose nothing and repeat nothing but for what their cursors cannot tell
\* apart, and refuse no filter but for what Redis still has.
ListingHolds == WalkShowsEachOnce /\ FiltersLagBehind

\* "Supports HTTP caching via ETag", "ETag for cache validation": while the tag
\* of a page is the one a client keeps, the page is the one it keeps.
TagTellsPage ==
    keptPage.at = "kept" =>
        LET q == keptPage.tag.query IN keptPage.tag = ListingTag(q) => keptPage.cards = Cards(q)
=============================================================================
