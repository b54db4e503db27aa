--------------------------- MODULE ShippingOrigin ---------------------------
(***************************************************************************)
(* Where parcels leave from.  The warehouse is meant to be one row; a save *)
(* reads it without a lock and then updates or inserts.  Its district is   *)
(* kept in Redis for the pricing of deliveries, while an order copies the  *)
(* address from the row itself when it is placed.                          *)
(***************************************************************************)
EXTENDS Naturals, FiniteSets

CONSTANTS
    Warehouses,     \* ids of rows of warehouses
    Districts,      \* districts parcels can leave from
    Officers,       \* saves of the warehouse in flight
    Pricings,       \* requests in flight that price a delivery
    MaxMoves        \* bound on the saves

Unknown == 0

ASSUME OriginAssumption ==
    /\ Unknown \notin Districts /\ Districts \subseteq Nat
    /\ Unknown \notin Warehouses
    /\ MaxMoves \in Nat

VARIABLES
    shipsFrom,      \* warehouses.shipping_district_id, by row
    originCache,    \* commerce:warehouse:origin in Redis
    officer,        \* what each save has done so far
    pricing,        \* what each pricing request has read
    chosen,         \* the checkout session's delivery: where its price is from
    placed,         \* the order: priced from, and said to leave from
    moves,
    rivals,         \* history: two first saves overlapped
    lateOrigin      \* history: why Redis may hold an old district

originVars == <<shipsFrom, originCache, officer, pricing, chosen, placed, moves, rivals, lateOrigin>>

Free == [op |-> "free"]
NotChosen == [from |-> Unknown]
NotPlaced == [to |-> Unknown]

WarehouseRows == {h \in Warehouses : shipsFrom[h] # Unknown}

InitOrigin ==
    /\ shipsFrom = [h \in Warehouses |-> Unknown]
    /\ originCache = Unknown
    /\ officer = [r \in Officers |-> Free]
    /\ pricing = [w \in Pricings |-> Free]
    /\ chosen = NotChosen
    /\ placed = NotPlaced
    /\ moves = 0
    /\ rivals = FALSE
    /\ lateOrigin = FALSE

-----------------------------------------------------------------------------
(* upsertWarehouse, after the courier's regions were asked for.            *)

\* SELECT * FROM warehouses LIMIT 1: any row, or none.
SelectWarehouse(h) == IF WarehouseRows = {} THEN h = Unknown ELSE h \in WarehouseRows

GetWarehouse(r, h) ==
    /\ officer[r] = Free /\ moves < MaxMoves
    /\ SelectWarehouse(h)
    /\ officer' = [officer EXCEPT ![r] = [op |-> "save", row |-> h]]
    /\ moves' = moves + 1
    /\ rivals' = (rivals \/ \E x \in Officers : officer[x] = [op |-> "save", row |-> Unknown])
    /\ UNCHANGED <<shipsFrom, originCache, pricing, chosen, placed, lateOrigin>>

\* What is priced or being priced is older than the commit.
AfterMove ==
    /\ pricing' = [w \in Pricings |->
                      IF pricing[w] = Free THEN Free ELSE [pricing[w] EXCEPT !.moved = TRUE]]
    /\ chosen' = IF chosen = NotChosen THEN NotChosen ELSE [chosen EXCEPT !.doubt = TRUE]

\* Slip: a warehouse that is moved keeps its place in Redis.
SaveWarehouseQuietly(r, h, d) ==
    /\ officer[r].op = "save"
    /\ IF officer[r].row = Unknown THEN h \notin WarehouseRows ELSE h = officer[r].row
    /\ shipsFrom' = [shipsFrom EXCEPT ![h] = d]
    /\ officer' = [officer EXCEPT ![r] =
           IF officer[r].row = Unknown THEN [op |-> "forget"] ELSE Free]
    /\ AfterMove
    /\ UNCHANGED <<originCache, placed, moves, rivals, lateOrigin>>

\* Slip: a save always inserts.
InsertWarehouse(r, h, d) ==
    /\ officer[r].op = "save"
    /\ h \notin WarehouseRows
    /\ shipsFrom' = [shipsFrom EXCEPT ![h] = d]
    /\ officer' = [officer EXCEPT ![r] = [op |-> "forget"]]
    /\ AfterMove
    /\ UNCHANGED <<originCache, placed, moves, rivals, lateOrigin>>

\* createWarehouse or updateWarehouse, and the commit.
SaveWarehouse(r, h, d) ==
    /\ officer[r].op = "save"
    /\ IF officer[r].row = Unknown THEN h \notin WarehouseRows ELSE h = officer[r].row
    /\ shipsFrom' = [shipsFrom EXCEPT ![h] = d]
    /\ officer' = [officer EXCEPT ![r] = [op |-> "forget"]]
    /\ AfterMove
    /\ UNCHANGED <<originCache, placed, moves, rivals, lateOrigin>>

\* The district is deleted from Redis.
ForgetOrigin(r) ==
    /\ officer[r].op = "forget"
    /\ originCache' = Unknown
    /\ lateOrigin' = FALSE
    /\ officer' = [officer EXCEPT ![r] = Free]
    /\ UNCHANGED <<shipsFrom, pricing, chosen, placed, moves, rivals>>

\* Redis does not answer, or the process stops: before the commit nothing is
\* saved, after it nothing is deleted.
StopSaving(r) ==
    /\ officer[r] # Free
    /\ lateOrigin' = (lateOrigin \/ officer[r].op = "forget")
    /\ officer' = [officer EXCEPT ![r] = Free]
    /\ UNCHANGED <<shipsFrom, originCache, pricing, chosen, placed, moves, rivals>>

-----------------------------------------------------------------------------
(* getWarehouseOriginDistrictId and the pricing that calls it.             *)

\* Redis may hold an old district for a while.
InDoubt == lateOrigin \/ \E r \in Officers : officer[r].op = "forget"

\* The district in Redis, or else the row's.
ReadOrigin(w, h) ==
    /\ pricing[w] = Free
    /\ IF originCache # Unknown THEN h = Unknown ELSE h \in WarehouseRows
    /\ pricing' = [pricing EXCEPT ![w] =
           IF h = Unknown
           THEN [op |-> "price", from |-> originCache, moved |-> FALSE, doubt |-> InDoubt]
           ELSE [op |-> "fill", from |-> shipsFrom[h], moved |-> FALSE, doubt |-> FALSE]]
    /\ UNCHANGED <<shipsFrom, originCache, officer, chosen, placed, moves, rivals, lateOrigin>>

FillOrigin(w) ==
    /\ pricing[w].op = "fill"
    /\ originCache' = pricing[w].from
    /\ lateOrigin' = pricing[w].moved
    /\ pricing' = [pricing EXCEPT ![w].op = "price"]
    /\ UNCHANGED <<shipsFrom, officer, chosen, placed, moves, rivals>>

\* The courier was asked, or its answer was still in Redis under this origin, and
\* setShippingMethod stores the price.
ChooseDelivery(w) ==
    /\ pricing[w].op = "price"
    /\ placed = NotPlaced
    /\ chosen' = [from |-> pricing[w].from, doubt |-> pricing[w].moved \/ pricing[w].doubt]
    /\ pricing' = [pricing EXCEPT ![w] = Free]
    /\ UNCHANGED <<shipsFrom, originCache, officer, placed, moves, rivals, lateOrigin>>

\* The courier does not answer, or its price was only asked for.
LeavePricing(w) ==
    /\ pricing[w] # Free
    /\ pricing' = [pricing EXCEPT ![w] = Free]
    /\ UNCHANGED <<shipsFrom, originCache, officer, chosen, placed, moves, rivals, lateOrigin>>

\* confirmCheckout reads the warehouse once more.
PlaceFrom(h) ==
    /\ chosen # NotChosen /\ placed = NotPlaced
    /\ h \in WarehouseRows
    /\ placed' = [to |-> shipsFrom[h], from |-> chosen.from, doubt |-> chosen.doubt]
    /\ chosen' = NotChosen
    /\ UNCHANGED <<shipsFrom, originCache, officer, pricing, moves, rivals, lateOrigin>>

\* After seven days.
ExpireOrigin ==
    /\ originCache # Unknown
    /\ originCache' = Unknown
    /\ lateOrigin' = FALSE
    /\ UNCHANGED <<shipsFrom, officer, pricing, chosen, placed, moves, rivals>>

-----------------------------------------------------------------------------

MoveWarehouse(r) ==
    \/ \E h \in Warehouses \cup {Unknown} : GetWarehouse(r, h)
    \/ \E h \in Warehouses, d \in Districts : SaveWarehouse(r, h, d)
    \/ ForgetOrigin(r) \/ StopSaving(r)

PriceDelivery(w) ==
    \/ \E h \in Warehouses \cup {Unknown} : ReadOrigin(w, h)
    \/ FillOrigin(w) \/ ChooseDelivery(w) \/ LeavePricing(w)

NextOrigin ==
    \/ \E r \in Officers : MoveWarehouse(r)
    \/ \E w \in Pricings : PriceDelivery(w)
    \/ \E h \in Warehouses : PlaceFrom(h)
    \/ ExpireOrigin

OriginSpec == InitOrigin /\ [][NextOrigin]_originVars

-----------------------------------------------------------------------------
(* Properties.                                                             *)

\* There is one warehouse, although no index says so, unless two first saves
\* overlapped.
OneWarehouse == ~rivals => Cardinality(WarehouseRows) <= 1

\* What Redis holds is where a warehouse is, unless a save is about to delete it,
\* could not, or was overtaken by a request that had read the row before.
CacheTellsOrigin ==
    originCache # Unknown /\ ~InDoubt => \E h \in WarehouseRows : shipsFrom[h] = originCache

\* An order leaves from where its delivery was priced, though it reads the
\* warehouse again: it differs only if the warehouse moved in between, if the price
\* was made of an old district, or if there are two.
PricedFromOrigin ==
    placed # NotPlaced /\ ~placed.doubt /\ ~rivals => placed.from = placed.to

OriginHolds == OneWarehouse /\ CacheTellsOrigin /\ PricedFromOrigin
=============================================================================
