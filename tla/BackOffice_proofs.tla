------------------------- MODULE BackOffice_proofs -------------------------
(***************************************************************************)
(* Proofs about what administrators keep: ShippingOrigin, for any number   *)
(* of warehouses, districts, saves and pricing requests; Marketing, for    *)
(* any number of banners, images and saves; Collections, for any slugs,    *)
(* products and saves; VariantPresets, for any names and forms;            *)
(* ProductForm, for any forms; Dashboard, for any orders and hours;        *)
(* NumberedLists, for any rows; and the composition that the runs explore. *)
(***************************************************************************)
EXTENDS MCBackOffice, DataTheorems

-----------------------------------------------------------------------------
(* Where parcels leave from.                                               *)
-----------------------------------------------------------------------------

OriginTypeOK ==
    /\ shipsFrom \in [Warehouses -> Districts \cup {Unknown}]
    /\ originCache \in Districts \cup {Unknown}
    /\ officer \in [Officers -> {Free} \cup [op : {"save"}, row : Warehouses \cup {Unknown}] \cup [op : {"forget"}]]
    /\ pricing \in [Pricings -> {Free} \cup [op : {"price", "fill"}, from : Districts, moved : BOOLEAN, doubt : BOOLEAN]]
    /\ chosen \in {NotChosen} \cup [from : Districts, doubt : BOOLEAN]
    /\ placed \in {NotPlaced} \cup [to : Districts, from : Districts, doubt : BOOLEAN]
    /\ rivals \in BOOLEAN /\ lateOrigin \in BOOLEAN

\* A save that found no row.
SavesFirst(r) == officer[r] = [op |-> "save", row |-> Unknown]

\* A save that found a row still finds it.  Unless two first saves overlapped,
\* one that is under way is alone, and before every row.
SavesApart ==
    /\ \A r \in Officers : officer[r].op = "save" /\ ~SavesFirst(r) => officer[r].row \in WarehouseRows
    /\ ~rivals =>
        /\ \A h, k \in WarehouseRows : h = k
        /\ \A r \in Officers : SavesFirst(r) => WarehouseRows = {}
        /\ \A r, x \in Officers : SavesFirst(r) /\ SavesFirst(x) => r = x

\* Where a warehouse is now.
IsOrigin(d) == \E h \in WarehouseRows : shipsFrom[h] = d

\* What was read, priced and chosen is where a warehouse is, if it is not in
\* doubt.
PricesTell ==
    /\ CacheTellsOrigin
    /\ \A w \in Pricings :
        /\ pricing[w].op = "fill" => ~pricing[w].doubt
        /\ pricing[w] # Free /\ ~pricing[w].moved /\ ~pricing[w].doubt => IsOrigin(pricing[w].from)
    /\ chosen # NotChosen /\ ~chosen.doubt => IsOrigin(chosen.from)

OriginInv == OriginTypeOK /\ SavesApart /\ PricesTell /\ PricedFromOrigin

-----------------------------------------------------------------------------

\* A step that moves no warehouse, and begins no save.
LEMMA RowsStay ==
    ASSUME OriginTypeOK, SavesApart, UNCHANGED <<shipsFrom, rivals>>,
           \A r \in Officers : officer'[r] = officer[r] \/ officer'[r] = Free \/ officer'[r].op = "forget"
    PROVE  SavesApart' /\ WarehouseRows' = WarehouseRows /\ \A d : IsOrigin(d)' <=> IsOrigin(d)
PROOF
<1>1. WarehouseRows' = WarehouseRows
  BY DEF WarehouseRows
<1>2. \A d : IsOrigin(d)' <=> IsOrigin(d)
  BY <1>1 DEF IsOrigin
<1>3. \A r \in Officers : SavesFirst(r)' => SavesFirst(r)
  BY DEF SavesFirst, Free
<1>4. \A r \in Officers : officer'[r].op = "save" => officer'[r] = officer[r]
  BY DEF Free
<1>5. SavesApart'
  BY <1>1, <1>3, <1>4 DEF SavesApart, SavesFirst
<1> QED BY <1>1, <1>2, <1>5

LEMMA GetKeeps ==
    ASSUME OriginInv, NEW r \in Officers, NEW h \in Warehouses \cup {Unknown}, GetWarehouse(r, h)
    PROVE  OriginInv'
PROOF
<1>1. /\ UNCHANGED <<shipsFrom, originCache, pricing, chosen, placed, lateOrigin>>
      /\ officer[r] = Free /\ SelectWarehouse(h)
      /\ officer' = [officer EXCEPT ![r] = [op |-> "save", row |-> h]]
      /\ rivals' = (rivals \/ \E x \in Officers : SavesFirst(x))
  BY DEF GetWarehouse, SavesFirst
<1>2. OriginTypeOK'
  BY <1>1 DEF OriginInv, OriginTypeOK
<1>3. officer'[r] = [op |-> "save", row |-> h] /\ \A x \in Officers \ {r} : officer'[x] = officer[x]
  BY <1>1 DEF OriginInv, OriginTypeOK
<1>4. WarehouseRows' = WarehouseRows
  BY <1>1 DEF WarehouseRows
<1>5. /\ SavesFirst(r)' <=> h = Unknown
      /\ \A x \in Officers \ {r} : SavesFirst(x)' <=> SavesFirst(x)
  BY <1>3 DEF SavesFirst
<1>6. Unknown \notin WarehouseRows
  BY OriginAssumption DEF WarehouseRows
<1>7. SavesApart'
  <2>1. \A x \in Officers : officer'[x].op = "save" /\ ~SavesFirst(x)' => officer'[x].row \in WarehouseRows'
    BY <1>1, <1>3, <1>4, <1>5 DEF OriginInv, SavesApart, SelectWarehouse
  <2>2. ~rivals' => ~rivals /\ \A x \in Officers \ {r} : ~SavesFirst(x)'
    BY <1>1, <1>5
  <2>3. SavesFirst(r)' => WarehouseRows = {}
    BY <1>1, <1>5, <1>6 DEF SelectWarehouse
  <2> QED BY <1>4, <2>1, <2>2, <2>3 DEF OriginInv, SavesApart
<1>8. InDoubt' <=> InDoubt
  BY <1>1, <1>3 DEF InDoubt, Free
<1>9. PricesTell'
  BY <1>1, <1>4, <1>8 DEF OriginInv, PricesTell, CacheTellsOrigin, IsOrigin
<1>10. PricedFromOrigin'
  BY <1>1 DEF OriginInv, PricedFromOrigin
<1> QED BY <1>2, <1>7, <1>9, <1>10 DEF OriginInv

LEMMA SaveKeeps ==
    ASSUME OriginInv, NEW r \in Officers, NEW h \in Warehouses, NEW d \in Districts, SaveWarehouse(r, h, d)
    PROVE  OriginInv'
PROOF
<1>1. /\ UNCHANGED <<originCache, placed, rivals, lateOrigin>>
      /\ shipsFrom' = [shipsFrom EXCEPT ![h] = d]
      /\ officer' = [officer EXCEPT ![r] = [op |-> "forget"]]
      /\ officer[r].op = "save"
      /\ IF officer[r].row = Unknown THEN h \notin WarehouseRows ELSE h = officer[r].row
  BY DEF SaveWarehouse
<1>2. /\ pricing' = [w \in Pricings |-> IF pricing[w] = Free THEN Free ELSE [pricing[w] EXCEPT !.moved = TRUE]]
      /\ chosen' = IF chosen = NotChosen THEN NotChosen ELSE [chosen EXCEPT !.doubt = TRUE]
  BY DEF SaveWarehouse, AfterMove
<1>3. \A w \in Pricings :
        /\ pricing[w] = Free => pricing'[w] = Free
        /\ pricing[w] # Free =>
             /\ pricing[w] \in [op : {"price", "fill"}, from : Districts, moved : BOOLEAN, doubt : BOOLEAN]
             /\ pricing'[w] = [pricing[w] EXCEPT !.moved = TRUE]
  BY <1>2 DEF OriginInv, OriginTypeOK
<1>4. /\ pricing' \in [Pricings -> {Free} \cup [op : {"price", "fill"}, from : Districts, moved : BOOLEAN, doubt : BOOLEAN]]
      /\ \A w \in Pricings : pricing'[w] # Free =>
            pricing'[w].moved /\ pricing'[w].op = pricing[w].op /\ pricing'[w].doubt = pricing[w].doubt /\ pricing[w] # Free
  BY <1>2, <1>3, ZenonT(60)
<1>5. /\ chosen' \in {NotChosen} \cup [from : Districts, doubt : BOOLEAN]
      /\ chosen' # NotChosen => chosen'.doubt
  BY <1>2 DEF OriginInv, OriginTypeOK
<1>6. OriginTypeOK'
  BY <1>1, <1>4, <1>5 DEF OriginInv, OriginTypeOK
<1>7. officer'[r] = [op |-> "forget"] /\ \A x \in Officers \ {r} : officer'[x] = officer[x]
  BY <1>1 DEF OriginInv, OriginTypeOK
<1>8. WarehouseRows' = WarehouseRows \cup {h}
  BY <1>1, OriginAssumption DEF OriginInv, OriginTypeOK, WarehouseRows
<1>9. SavesApart'
  <2>1. ~SavesFirst(r)' /\ \A x \in Officers \ {r} : SavesFirst(x)' <=> SavesFirst(x)
    BY <1>7 DEF SavesFirst
  <2>2. officer[r] \in [op : {"save"}, row : Warehouses \cup {Unknown}]
    BY <1>1 DEF OriginInv, OriginTypeOK, Free
  <2>3. SavesFirst(r) <=> officer[r].row = Unknown
    BY <2>2 DEF SavesFirst
  <2>4. \A x \in Officers : officer'[x].op = "save" /\ ~SavesFirst(x)' => officer'[x].row \in WarehouseRows'
    BY <1>7, <1>8, <2>1 DEF OriginInv, SavesApart
  <2>5. CASE SavesFirst(r)
    BY <1>1, <1>8, <2>1, <2>4, <2>5 DEF OriginInv, SavesApart
  <2>6. CASE ~SavesFirst(r)
    <3>1. h \in WarehouseRows
      BY <1>1, <2>3, <2>6 DEF OriginInv, SavesApart
    <3>2. WarehouseRows' = WarehouseRows
      BY <1>8, <3>1
    <3> QED BY <1>1, <2>1, <2>4, <3>2 DEF OriginInv, SavesApart
  <2> QED BY <2>5, <2>6
<1>10. PricesTell'
  <2>1. InDoubt'
    BY <1>7 DEF InDoubt
  <2>2. \A w \in Pricings : pricing'[w].op = "fill" => ~pricing'[w].doubt
    BY <1>3, <1>4 DEF OriginInv, PricesTell, Free
  <2> QED BY <1>4, <1>5, <2>1, <2>2 DEF PricesTell, CacheTellsOrigin
<1>11. PricedFromOrigin'
  BY <1>1 DEF OriginInv, PricedFromOrigin
<1> QED BY <1>6, <1>9, <1>10, <1>11 DEF OriginInv

LEMMA ForgetKeeps ==
    ASSUME OriginInv, NEW r \in Officers, ForgetOrigin(r) \/ StopSaving(r)
    PROVE  OriginInv'
PROOF
<1>1. /\ UNCHANGED <<shipsFrom, pricing, chosen, placed, rivals>>
      /\ officer' = [officer EXCEPT ![r] = Free]
  BY DEF ForgetOrigin, StopSaving
<1>2. \/ originCache' = Unknown /\ lateOrigin' = FALSE
      \/ originCache' = originCache /\ lateOrigin' = (lateOrigin \/ officer[r].op = "forget")
  BY DEF ForgetOrigin, StopSaving
<1>3. OriginTypeOK'
  <2>1. (lateOrigin \/ officer[r].op = "forget") \in BOOLEAN
    OBVIOUS
  <2> QED BY <1>1, <1>2, <2>1 DEF OriginInv, OriginTypeOK
<1>4. officer'[r] = Free /\ \A x \in Officers \ {r} : officer'[x] = officer[x]
  BY <1>1 DEF OriginInv, OriginTypeOK
<1>5. SavesApart' /\ WarehouseRows' = WarehouseRows /\ \A d : IsOrigin(d)' <=> IsOrigin(d)
  BY <1>1, <1>4, RowsStay DEF OriginInv
<1>6. CacheTellsOrigin'
  <2>1. originCache' # Unknown /\ ~InDoubt' => originCache' = originCache /\ ~InDoubt
    BY <1>2, <1>4 DEF InDoubt, Free
  <2> QED BY <1>1, <1>5, <2>1 DEF OriginInv, PricesTell, CacheTellsOrigin
<1>7. PricesTell'
  BY <1>1, <1>5, <1>6 DEF OriginInv, PricesTell
<1>8. PricedFromOrigin'
  BY <1>1 DEF OriginInv, PricedFromOrigin
<1> QED BY <1>3, <1>5, <1>7, <1>8 DEF OriginInv

\* The pricing requests: they read, and write Redis.
LEMMA PricingKeeps ==
    ASSUME OriginInv, NEW w \in Pricings, PriceDelivery(w)
    PROVE  OriginInv'
PROOF
<1>1. UNCHANGED <<shipsFrom, officer, placed, rivals>>
  BY DEF PriceDelivery, ReadOrigin, FillOrigin, ChooseDelivery, LeavePricing
<1>2. SavesApart' /\ WarehouseRows' = WarehouseRows /\ \A d : IsOrigin(d)' <=> IsOrigin(d)
  BY <1>1, RowsStay DEF OriginInv
<1>3. PricedFromOrigin'
  BY <1>1 DEF OriginInv, PricedFromOrigin
<1> DEFINE Priced == [op : {"price", "fill"}, from : Districts, moved : BOOLEAN, doubt : BOOLEAN]
<1>4. ASSUME NEW h \in Warehouses \cup {Unknown}, ReadOrigin(w, h)
      PROVE  OriginTypeOK' /\ PricesTell'
  <2>1. UNCHANGED <<originCache, chosen, lateOrigin>> /\ pricing[w] = Free
    BY <1>4 DEF ReadOrigin
  <2>2. InDoubt \in BOOLEAN /\ InDoubt' = InDoubt
    BY <1>1, <2>1 DEF InDoubt, OriginInv, OriginTypeOK
  <2>3. PICK p : /\ pricing' = [pricing EXCEPT ![w] = p]
                 /\ p = IF h = Unknown
                        THEN [op |-> "price", from |-> originCache, moved |-> FALSE, doubt |-> InDoubt]
                        ELSE [op |-> "fill", from |-> shipsFrom[h], moved |-> FALSE, doubt |-> FALSE]
    BY <1>4 DEF ReadOrigin
  <2>4. Unknown \notin WarehouseRows
    BY OriginAssumption DEF WarehouseRows
  <2>5. CASE h = Unknown
    <3>1. originCache # Unknown /\ originCache \in Districts
      BY <1>4, <2>4, <2>5 DEF ReadOrigin, OriginInv, OriginTypeOK
    <3>2. p = [op |-> "price", from |-> originCache, moved |-> FALSE, doubt |-> InDoubt]
      BY <2>3, <2>5
    <3>3. p \in Priced
      BY <2>2, <3>1, <3>2
    <3>4. p.op # "fill" /\ (~p.doubt => IsOrigin(p.from))
      BY <3>1, <3>2 DEF OriginInv, PricesTell, CacheTellsOrigin, IsOrigin
    <3> HIDE DEF Priced
    <3>5. /\ pricing'[w] = p /\ \A x \in Pricings \ {w} : pricing'[x] = pricing[x]
      BY <2>3 DEF OriginInv, OriginTypeOK
    <3>6. OriginTypeOK'
      BY <1>1, <2>1, <2>3, <3>3 DEF OriginInv, OriginTypeOK, Priced
    <3>7. PricesTell'
      BY <1>2, <1>1, <2>1, <2>2, <3>4, <3>5 DEF OriginInv, PricesTell, CacheTellsOrigin
    <3> QED BY <3>6, <3>7
  <2>6. CASE h # Unknown
    <3>1. h \in WarehouseRows /\ shipsFrom[h] \in Districts
      BY <1>4, <2>6 DEF ReadOrigin, OriginInv, OriginTypeOK, WarehouseRows
    <3>2. p = [op |-> "fill", from |-> shipsFrom[h], moved |-> FALSE, doubt |-> FALSE]
      BY <2>3, <2>6
    <3>3. p \in Priced
      BY <3>1, <3>2
    <3>4. ~p.doubt /\ IsOrigin(p.from)
      BY <3>1, <3>2 DEF IsOrigin
    <3> HIDE DEF Priced
    <3>5. /\ pricing'[w] = p /\ \A x \in Pricings \ {w} : pricing'[x] = pricing[x]
      BY <2>3 DEF OriginInv, OriginTypeOK
    <3>6. OriginTypeOK'
      BY <1>1, <2>1, <2>3, <3>3 DEF OriginInv, OriginTypeOK, Priced
    <3>7. PricesTell'
      BY <1>2, <1>1, <2>1, <2>2, <3>4, <3>5 DEF OriginInv, PricesTell, CacheTellsOrigin
    <3> QED BY <3>6, <3>7
  <2> QED BY <2>5, <2>6
<1>5. CASE FillOrigin(w)
  <2>1. /\ pricing[w].op = "fill" /\ UNCHANGED chosen
        /\ originCache' = pricing[w].from /\ lateOrigin' = pricing[w].moved
        /\ pricing' = [pricing EXCEPT ![w].op = "price"]
    BY <1>5 DEF FillOrigin
  <2>2. pricing[w] \in Priced
    BY <2>1 DEF OriginInv, OriginTypeOK, Free
  <2>3. pricing'[w] = [pricing[w] EXCEPT !.op = "price"] /\ \A x \in Pricings \ {w} : pricing'[x] = pricing[x]
    BY <2>1 DEF OriginInv, OriginTypeOK
  <2>4. /\ pricing'[w] \in Priced /\ pricing'[w].op = "price" /\ pricing'[w].from = pricing[w].from
        /\ pricing'[w].moved = pricing[w].moved /\ pricing'[w].doubt = pricing[w].doubt
        /\ pricing[w].from \in Districts /\ pricing[w].moved \in BOOLEAN /\ pricing[w] # Free
    BY <2>2, <2>3 DEF Free
  <2> HIDE DEF Priced
  <2>5. pricing' \in [Pricings -> {Free} \cup Priced]
    BY <2>1, <2>3, <2>4 DEF OriginInv, OriginTypeOK, Priced
  <2>6. OriginTypeOK'
    BY <1>1, <2>1, <2>4, <2>5 DEF OriginInv, OriginTypeOK, Priced
  <2>7. CacheTellsOrigin'
    <3>1. ~lateOrigin' => IsOrigin(pricing[w].from)
      BY <2>1, <2>4 DEF OriginInv, PricesTell
    <3> QED BY <1>1, <1>2, <2>1, <3>1 DEF CacheTellsOrigin, InDoubt, IsOrigin
  <2>8. PricesTell'
    BY <1>2, <2>1, <2>3, <2>4, <2>7 DEF OriginInv, PricesTell
  <2> QED BY <1>2, <1>3, <2>6, <2>8 DEF OriginInv
<1>6. CASE ChooseDelivery(w)
  <2>1. /\ pricing[w].op = "price" /\ UNCHANGED <<originCache, lateOrigin>>
        /\ chosen' = [from |-> pricing[w].from, doubt |-> pricing[w].moved \/ pricing[w].doubt]
        /\ pricing' = [pricing EXCEPT ![w] = Free]
    BY <1>6 DEF ChooseDelivery
  <2>2. pricing[w] \in Priced /\ pricing[w] # Free
    BY <2>1 DEF OriginInv, OriginTypeOK, Free
  <2>3. chosen' \in [from : Districts, doubt : BOOLEAN] /\ chosen'.from = pricing[w].from
        /\ (chosen'.doubt <=> pricing[w].moved \/ pricing[w].doubt)
    BY <2>1, <2>2
  <2>4. pricing'[w] = Free /\ \A x \in Pricings \ {w} : pricing'[x] = pricing[x]
    BY <2>1 DEF OriginInv, OriginTypeOK
  <2> HIDE DEF Priced
  <2>5. OriginTypeOK'
    BY <1>1, <2>1, <2>3 DEF OriginInv, OriginTypeOK
  <2>6. PricesTell'
    BY <1>1, <1>2, <2>1, <2>2, <2>3, <2>4 DEF OriginInv, PricesTell, CacheTellsOrigin, InDoubt, Free
  <2> QED BY <1>2, <1>3, <2>5, <2>6 DEF OriginInv
<1>7. CASE LeavePricing(w)
  <2>1. UNCHANGED <<originCache, lateOrigin, chosen>> /\ pricing' = [pricing EXCEPT ![w] = Free]
    BY <1>7 DEF LeavePricing
  <2>2. pricing'[w] = Free /\ \A x \in Pricings \ {w} : pricing'[x] = pricing[x]
    BY <2>1 DEF OriginInv, OriginTypeOK
  <2>3. OriginTypeOK'
    BY <1>1, <2>1 DEF OriginInv, OriginTypeOK
  <2>4. PricesTell'
    BY <1>1, <1>2, <2>1, <2>2 DEF OriginInv, PricesTell, CacheTellsOrigin, InDoubt, Free
  <2> QED BY <1>2, <1>3, <2>3, <2>4 DEF OriginInv
<1> QED BY <1>2, <1>3, <1>4, <1>5, <1>6, <1>7 DEF PriceDelivery, OriginInv

LEMMA PlaceKeeps ==
    ASSUME OriginInv, NEW h \in Warehouses, PlaceFrom(h)
    PROVE  OriginInv'
PROOF
<1>1. /\ UNCHANGED <<shipsFrom, originCache, officer, pricing, rivals, lateOrigin>>
      /\ chosen # NotChosen /\ h \in WarehouseRows
      /\ placed' = [to |-> shipsFrom[h], from |-> chosen.from, doubt |-> chosen.doubt]
      /\ chosen' = NotChosen
  BY DEF PlaceFrom
<1>2. chosen \in [from : Districts, doubt : BOOLEAN]
  BY <1>1 DEF OriginInv, OriginTypeOK
<1>3. shipsFrom[h] \in Districts
  BY <1>1 DEF OriginInv, OriginTypeOK, WarehouseRows
<1>4. placed' \in [to : Districts, from : Districts, doubt : BOOLEAN]
  BY <1>1, <1>2, <1>3
<1>5. OriginTypeOK'
  BY <1>1, <1>4 DEF OriginInv, OriginTypeOK
<1>6. SavesApart' /\ WarehouseRows' = WarehouseRows /\ \A d : IsOrigin(d)' <=> IsOrigin(d)
  BY <1>1, RowsStay DEF OriginInv
<1>7. PricesTell'
  BY <1>1, <1>6 DEF OriginInv, PricesTell, CacheTellsOrigin, InDoubt
<1>8. PricedFromOrigin'
  <2> SUFFICES ASSUME ~placed'.doubt, ~rivals PROVE placed'.from = placed'.to
    BY <1>1 DEF PricedFromOrigin
  <2>1. IsOrigin(chosen.from)
    BY <1>1 DEF OriginInv, PricesTell
  <2>2. \A k \in WarehouseRows : k = h
    BY <1>1 DEF OriginInv, SavesApart
  <2> QED BY <1>1, <2>1, <2>2 DEF IsOrigin
<1> QED BY <1>5, <1>6, <1>7, <1>8 DEF OriginInv

LEMMA ExpireKeeps ==
    ASSUME OriginInv, ExpireOrigin
    PROVE  OriginInv'
PROOF
<1>1. /\ UNCHANGED <<shipsFrom, officer, pricing, chosen, placed, rivals>>
      /\ originCache' = Unknown /\ lateOrigin' = FALSE
  BY DEF ExpireOrigin
<1>2. OriginTypeOK' /\ PricedFromOrigin'
  BY <1>1 DEF OriginInv, OriginTypeOK, PricedFromOrigin
<1>3. SavesApart' /\ WarehouseRows' = WarehouseRows /\ \A d : IsOrigin(d)' <=> IsOrigin(d)
  BY <1>1, RowsStay DEF OriginInv
<1>4. PricesTell'
  BY <1>1, <1>3 DEF OriginInv, PricesTell, CacheTellsOrigin
<1> QED BY <1>2, <1>3, <1>4 DEF OriginInv

LEMMA OriginInvariant == OriginSpec => []OriginInv
PROOF
<1>1. ASSUME InitOrigin PROVE OriginInv
  <2>1. OriginTypeOK
    BY <1>1 DEF InitOrigin, OriginTypeOK
  <2>2. WarehouseRows = {}
    BY <1>1 DEF InitOrigin, WarehouseRows
  <2>3. \A r \in Officers : officer[r].op # "save" /\ ~SavesFirst(r)
    BY <1>1 DEF InitOrigin, SavesFirst, Free
  <2>4. \A w \in Pricings : pricing[w] = Free /\ pricing[w].op # "fill"
    BY <1>1 DEF InitOrigin, Free
  <2>5. SavesApart
    BY <2>2, <2>3 DEF SavesApart
  <2>6. PricesTell
    BY <1>1, <2>4 DEF InitOrigin, PricesTell, CacheTellsOrigin
  <2>7. PricedFromOrigin
    BY <1>1 DEF InitOrigin, PricedFromOrigin
  <2> QED BY <2>1, <2>5, <2>6, <2>7 DEF OriginInv
<1>2. ASSUME OriginInv, [NextOrigin]_originVars PROVE OriginInv'
  <2>1. ASSUME NEW r \in Officers, MoveWarehouse(r) PROVE OriginInv'
    BY <1>2, <2>1, GetKeeps, SaveKeeps, ForgetKeeps DEF MoveWarehouse
  <2>2. CASE UNCHANGED originVars
    <3>1. UNCHANGED <<shipsFrom, originCache, officer, pricing, chosen, placed, rivals, lateOrigin>>
      BY <2>2 DEF originVars
    <3>2. SavesApart' /\ WarehouseRows' = WarehouseRows /\ \A d : IsOrigin(d)' <=> IsOrigin(d)
      BY <1>2, <3>1, RowsStay DEF OriginInv
    <3>3. OriginTypeOK' /\ PricedFromOrigin'
      BY <1>2, <3>1 DEF OriginInv, OriginTypeOK, PricedFromOrigin
    <3>4. PricesTell'
      BY <1>2, <3>1, <3>2 DEF OriginInv, PricesTell, CacheTellsOrigin, InDoubt
    <3> QED BY <3>2, <3>3, <3>4 DEF OriginInv
  <2> QED BY <1>2, <2>1, <2>2, PricingKeeps, PlaceKeeps, ExpireKeeps DEF NextOrigin
<1> QED BY <1>1, <1>2, PTL DEF OriginSpec

\* There is one warehouse unless two first saves overlapped; Redis tells its
\* district unless a deletion is owed; and an order leaves from where its
\* delivery was priced, unless the warehouse moved in between.
THEOREM ParcelsLeaveFromOrigin == OriginSpec => []OriginHolds
PROOF
<1>1. ASSUME OriginInv PROVE OriginHolds
  <2>1. ASSUME ~rivals PROVE Cardinality(WarehouseRows) <= 1
    <3>1. \A h, k \in WarehouseRows : h = k
      BY <1>1, <2>1 DEF OriginInv, SavesApart
    <3>2. CASE WarehouseRows = {}
      BY <3>2, FS_EmptySet
    <3>3. CASE WarehouseRows # {}
      <4>1. PICK h : WarehouseRows = {h}
        BY <3>1, <3>3
      <4> QED BY <4>1, FS_Singleton
    <3> QED BY <3>2, <3>3
  <2> QED BY <1>1, <2>1 DEF OriginInv, PricesTell, OriginHolds, OneWarehouse
<1> QED BY <1>1, OriginInvariant, PTL

-----------------------------------------------------------------------------
(* Banners, their images and what they lead to.                            *)
-----------------------------------------------------------------------------

BannerRow ==
    [status : {"ACTIVE", "INACTIVE"}, image : Images, target : Targets, stamp : Nat, order : Nat, unseen : BOOLEAN]

OfficeWork ==
    {Resting}
    \cup [op : {"save"}, banner : Banners, image : Images, new : BOOLEAN, target : Targets, since : Nat]
    \cup [op : {"removeImage", "removeFile"}, image : Images]
    \cup [op : {"removeTarget"}, target : Targets]

MarketingTypeOK ==
    /\ banner \in [Banners -> BannerRow \cup {NoBanner, [status |-> "gone"]}]
    /\ imageRows \subseteq Images /\ imageFiles \subseteq Images /\ uploads \subseteq Images
    /\ targetRows \subseteq Targets
    /\ office \in [Staff -> OfficeWork]
    /\ second \in Nat
    /\ leaked \subseteq Images
    /\ passed \in BOOLEAN

\* A request saves an image that it has uploaded: nobody else knows of it.
Uploading(r) == office[r].op = "save" /\ office[r].new
Handles(r, i) == office[r].op \in {"save", "removeImage", "removeFile"} /\ office[r].image = i

FilesAccounted ==
    /\ \A b \in ExistingBanners : banner[b].image \in imageRows
    /\ imageRows \subseteq imageFiles /\ imageFiles \subseteq uploads
    /\ \A r \in Staff, i \in Images : Handles(r, i) => i \in uploads
    /\ \A r \in Staff : Uploading(r) =>
        /\ office[r].image \in imageFiles \ imageRows
        /\ \A q \in Staff \ {r} : ~Handles(q, office[r].image)
    /\ \A r \in Staff : office[r].op = "removeFile" => office[r].image \notin imageRows
    /\ \A i \in imageFiles \ (imageRows \cup leaked) :
        \E r \in Staff : (Uploading(r) \/ office[r].op = "removeFile") /\ office[r].image = i

\* Whoever removes a target has found no banner that leads there but those that
\* were saved since.
TargetsAccounted ==
    /\ BannersLeadSomewhere
    /\ \A r \in Staff : office[r].op = "removeTarget" =>
        \A b \in ExistingBanners : banner[b].target = office[r].target => banner[b].unseen

StampsPast ==
    /\ \A b \in ExistingBanners : banner[b].stamp <= second
    /\ \A r \in Staff : office[r].op = "save" => office[r].since <= second

\* The rows a client's banners were made of; what is shown now is as it was then,
\* or was stamped since.
TagOfRows(old) == <<Cardinality(DOMAIN old), Max({0} \cup {old[b].stamp : b \in DOMAIN old})>>

Remembered(old, at) ==
    /\ IsFiniteSet(DOMAIN old) /\ old = [b \in DOMAIN old |-> old[b]]
    /\ \A b \in DOMAIN old : old[b].stamp \in Nat /\ old[b].stamp <= at
    /\ \A b \in Active : (b \in DOMAIN old /\ banner[b] = old[b]) \/ at < banner[b].stamp

KeptAccounted ==
    keptBanners # NothingKept =>
        /\ keptBanners.at \in Nat /\ keptBanners.at <= second
        /\ passed \/ \E old : /\ keptBanners.tag = TagOfRows(old) /\ keptBanners.rows = BannerList(old)
                              /\ Remembered(old, keptBanners.at)

MarketingInv == MarketingTypeOK /\ FilesAccounted /\ TargetsAccounted /\ StampsPast /\ KeptAccounted

LEMMA ExistingRow ==
    ASSUME MarketingTypeOK
    PROVE  /\ ExistingBanners \subseteq Banners
           /\ \A b \in Banners : b \in ExistingBanners <=> banner[b] \in BannerRow
           /\ Active \subseteq ExistingBanners
BY DEF MarketingTypeOK, ExistingBanners, Exists, BannerRow, NoBanner, Active

LEMMA OneWorks ==
    ASSUME MarketingTypeOK, NEW r \in Staff, NEW x, office' = [office EXCEPT ![r] = x]
    PROVE  office'[r] = x /\ \A q \in Staff : q # r => office'[q] = office[q]
BY DEF MarketingTypeOK

\* What is said of the banners a client keeps does not depend on anything else.
LEMMA KeptStays ==
    ASSUME KeptAccounted, UNCHANGED <<banner, keptBanners, passed>>, second \in Nat, second' \in Nat, second <= second'
    PROVE  KeptAccounted'
<1>1. Active' = Active
  BY DEF Active, ExistingBanners, Exists
<1>2. \A old, at : Remembered(old, at) => Remembered(old, at)'
  BY <1>1 DEF Remembered
<1>3. QED
  BY <1>2 DEF KeptAccounted

LEMMA ResolveKeeps ==
    ASSUME MarketingInv, NEW r \in Staff, NEW b \in Banners, NEW i \in Images, NEW t \in Targets,
           ResolveImage(r, b, i, t)
    PROVE  MarketingInv'
<1> DEFINE work == [op |-> "save", banner |-> b, image |-> i, new |-> i \notin uploads, target |-> t, since |-> second]
<1>1. /\ office[r] = Resting /\ office' = [office EXCEPT ![r] = work]
      /\ uploads' = uploads \cup {i} /\ imageFiles' = imageFiles \cup {i}
      /\ i \notin uploads \/ i \in imageRows
      /\ UNCHANGED <<banner, imageRows, targetRows, second, keptBanners, leaked, passed>>
  BY DEF ResolveImage
<1>2. MarketingTypeOK /\ FilesAccounted /\ TargetsAccounted /\ StampsPast /\ KeptAccounted
  BY DEF MarketingInv
<1>3. /\ work \in OfficeWork /\ work.op = "save" /\ work.image = i /\ work.since = second
      /\ (work.new <=> i \notin uploads)
  BY <1>2 DEF OfficeWork, MarketingTypeOK
<1> HIDE DEF work
<1>4. office'[r] = work /\ \A q \in Staff : q # r => office'[q] = office[q]
  BY <1>1, <1>2, OneWorks
<1>r. office[r].op = "resting"
  BY <1>1 DEF Resting
<1>5. MarketingTypeOK'
  BY <1>1, <1>2, <1>3 DEF MarketingTypeOK
<1>6. ExistingBanners' = ExistingBanners
  BY <1>1 DEF ExistingBanners, Exists
<1>7. FilesAccounted'
  <2>1. \A q \in Staff, j \in Images : Handles(q, j)' => (q = r /\ j = i) \/ (q # r /\ Handles(q, j))
    BY <1>3, <1>4 DEF Handles
  <2>2. \A q \in Staff : Uploading(q)' => (q = r /\ i \notin uploads) \/ (q # r /\ Uploading(q))
    BY <1>3, <1>4 DEF Uploading
  <2>3. \A q \in Staff : Uploading(q) => q # r
    BY <1>r DEF Uploading
  <2>4. ASSUME NEW q \in Staff, Uploading(q)'
        PROVE  /\ office'[q].image \in imageFiles' \ imageRows'
               /\ \A p \in Staff \ {q} : ~Handles(p, office[q].image)'
    <3>1. CASE q = r
      <4>1. i \notin uploads /\ office'[q].image = i
        BY <2>2, <2>4, <3>1, <1>3, <1>4
      <4>2. \A p \in Staff \ {r} : ~Handles(p, i)
        BY <1>2, <4>1 DEF FilesAccounted
      <4>3. QED
        BY <1>1, <1>2, <2>1, <3>1, <4>1, <4>2 DEF FilesAccounted
    <3>2. CASE q # r
      <4>1. Uploading(q) /\ office'[q] = office[q] /\ office[q].image \in uploads /\ office[q].image \in Images
        BY <1>2, <1>4, <2>2, <2>4, <3>2 DEF FilesAccounted, MarketingTypeOK
      <4>2. office[q].image # i
        BY <1>1, <1>2, <4>1 DEF FilesAccounted
      <4>3. QED
        <5>1. office'[q].image \in imageFiles' \ imageRows'
          BY <1>1, <1>2, <4>1 DEF FilesAccounted
        <5>2. ASSUME NEW p \in Staff \ {q}, Handles(p, office[q].image)'
              PROVE  FALSE
          BY <1>2, <2>1, <4>1, <4>2, <5>2 DEF FilesAccounted
        <5>3. QED
          BY <5>1, <5>2
    <3>3. QED
      BY <3>1, <3>2
  <2>5. \A q \in Staff : office'[q].op = "removeFile" => q # r /\ office[q].op = "removeFile"
    BY <1>3, <1>4
  <2>6. ASSUME NEW j \in imageFiles' \ (imageRows' \cup leaked')
        PROVE  \E q \in Staff : (Uploading(q)' \/ office'[q].op = "removeFile") /\ office'[q].image = j
    <3>1. CASE j = i
      <4>1. i \notin uploads
        BY <1>1, <2>6, <3>1
      <4>2. QED
        BY <1>3, <1>4, <3>1, <4>1 DEF Uploading
    <3>2. CASE j # i
      <4>1. j \in imageFiles \ (imageRows \cup leaked)
        BY <1>1, <2>6, <3>2
      <4>2. PICK q \in Staff : (Uploading(q) \/ office[q].op = "removeFile") /\ office[q].image = j
        BY <1>2, <4>1 DEF FilesAccounted
      <4>3. q # r
        BY <1>r, <4>2 DEF Uploading
      <4>4. QED
        BY <1>4, <4>2, <4>3 DEF Uploading
    <3>3. QED
      BY <3>1, <3>2
  <2>7. QED
    BY <1>1, <1>2, <1>4, <1>6, <2>1, <2>4, <2>5, <2>6 DEF FilesAccounted
<1>8. TargetsAccounted'
  <2>1. BannersLeadSomewhere'
    BY <1>1, <1>2, <1>6 DEF TargetsAccounted, BannersLeadSomewhere
  <2>2. \A q \in Staff : office'[q].op = "removeTarget" => q # r
    BY <1>3, <1>4
  <2>3. QED
    BY <1>1, <1>2, <1>4, <1>6, <2>1, <2>2 DEF TargetsAccounted
<1>9. StampsPast'
  BY <1>1, <1>2, <1>3, <1>4, <1>6 DEF StampsPast, MarketingTypeOK
<1>10. KeptAccounted'
  BY <1>1, <1>2, KeptStays DEF MarketingTypeOK
<1>11. QED
  BY <1>5, <1>7, <1>8, <1>9, <1>10 DEF MarketingInv

\* What a request leaves when it is done.
LEMMA RestsThen ==
    ASSUME MarketingTypeOK, NEW r \in Staff, office' = [office EXCEPT ![r] = Resting]
    PROVE  /\ \A q \in Staff : office'[q].op # "resting" => q # r /\ office'[q] = office[q]
           /\ \A q \in Staff : q # r => office'[q] = office[q]
           /\ office' \in [Staff -> OfficeWork]
<1>1. Resting \in OfficeWork /\ Resting.op = "resting"
  BY DEF Resting, OfficeWork
<1>2. office'[r] = Resting /\ \A q \in Staff : q # r => office'[q] = office[q]
  BY OneWorks
<1>3. office' \in [Staff -> OfficeWork]
  BY <1>1 DEF MarketingTypeOK
<1>4. QED
  BY <1>1, <1>2, <1>3

LEMMA OrderIsNumber ==
    ASSUME MarketingTypeOK
    PROVE  NextSortOrder \in Nat
<1> DEFINE orders == {banner[b].order : b \in ExistingBanners}
<1>1. CASE ExistingBanners = {}
  BY <1>1 DEF NextSortOrder
<1>2. CASE ExistingBanners # {}
  <2>1. IsFiniteSet(ExistingBanners)
    BY ExistingRow, MarketingAssumption, FS_Subset
  <2>2. \A b \in ExistingBanners : banner[b].order \in Nat
    BY ExistingRow DEF BannerRow
  <2>3. IsFiniteSet(orders)
    <3> DEFINE f == [b \in ExistingBanners |-> banner[b].order]
    <3>1. orders = {f[b] : b \in ExistingBanners}
      OBVIOUS
    <3> HIDE DEF orders, f
    <3>2. QED
      BY <2>1, <3>1, ImageFinite
  <2>4. orders \in SUBSET Nat /\ orders # {}
    BY <1>2, <2>2
  <2> HIDE DEF orders
  <2>5. Max(orders) \in Nat
    BY <2>3, <2>4, MaxFacts
  <2>6. NextSortOrder = Max(orders) + 1
    BY <1>2 DEF NextSortOrder, orders
  <2>7. QED
    BY <2>5, <2>6
<1>3. QED
  BY <1>1, <1>2

\* What a saved banner becomes.
LEMMA SavedRow ==
    ASSUME MarketingTypeOK, NEW r \in Staff, NEW status \in {"ACTIVE", "INACTIVE"}, SaveBanner(r, status)
    PROVE  \E row \in BannerRow :
               /\ banner' = [banner EXCEPT ![office[r].banner] = row]
               /\ row.image = office[r].image /\ row.target = office[r].target /\ row.stamp = office[r].since
               /\ (row.unseen <=> LookedFor(office[r].target))
<1> DEFINE s == office[r]
           row == [status |-> status, image |-> s.image, target |-> s.target, stamp |-> s.since,
                   order |-> IF Exists(s.banner) THEN banner[s.banner].order ELSE NextSortOrder,
                   unseen |-> LookedFor(s.target)]
<1>1. s.banner \in Banners /\ s.image \in Images /\ s.target \in Targets /\ s.since \in Nat
  BY DEF SaveBanner, MarketingTypeOK, OfficeWork, Resting
<1>2. Exists(s.banner) => banner[s.banner].order \in Nat
  BY <1>1, ExistingRow DEF BannerRow, ExistingBanners
<1>3. (IF Exists(s.banner) THEN banner[s.banner].order ELSE NextSortOrder) \in Nat
  BY <1>2, OrderIsNumber
<1>4. LookedFor(s.target) \in BOOLEAN
  BY DEF LookedFor
<1>5. row \in BannerRow
  BY <1>1, <1>3, <1>4 DEF BannerRow
<1>6. banner' = [banner EXCEPT ![s.banner] = row]
  BY DEF SaveBanner
<1>7. row.image = s.image /\ row.target = s.target /\ row.stamp = s.since /\ (row.unseen <=> LookedFor(s.target))
  OBVIOUS
<1>8. QED
  BY <1>5, <1>6, <1>7

LEMMA SaveBannerKeeps ==
    ASSUME MarketingInv, NEW r \in Staff, NEW status \in {"ACTIVE", "INACTIVE"}, SaveBanner(r, status)
    PROVE  MarketingInv'
<1> DEFINE s == office[r]
<1>1. /\ s.op = "save" /\ (s.new \/ s.image \in imageRows)
      /\ imageRows' = imageRows \cup {s.image}
      /\ office' = [office EXCEPT ![r] = Resting]
      /\ passed' = (passed \/ Overtakes(s.since))
      /\ UNCHANGED <<imageFiles, uploads, targetRows, second, bannerSaves, keptBanners, leaked>>
  BY DEF SaveBanner
<1>2. MarketingTypeOK /\ FilesAccounted /\ TargetsAccounted /\ StampsPast /\ KeptAccounted
  BY DEF MarketingInv
<1>3. s.banner \in Banners /\ s.image \in Images /\ s.target \in Targets /\ s.since \in Nat /\ s.new \in BOOLEAN
  BY <1>1, <1>2 DEF MarketingTypeOK, OfficeWork, Resting
<1>4. PICK row \in BannerRow :
        /\ banner' = [banner EXCEPT ![s.banner] = row]
        /\ row.image = s.image /\ row.target = s.target /\ row.stamp = s.since
        /\ (row.unseen <=> LookedFor(s.target))
  BY <1>2, SavedRow
<1>5. /\ \A q \in Staff : office'[q].op # "resting" => q # r /\ office'[q] = office[q]
      /\ \A q \in Staff : q # r => office'[q] = office[q]
      /\ office' \in [Staff -> OfficeWork]
  BY <1>1, <1>2, RestsThen
<1>6. banner'[s.banner] = row /\ \A b \in Banners : b # s.banner => banner'[b] = banner[b]
  BY <1>2, <1>3, <1>4 DEF MarketingTypeOK
<1>7. MarketingTypeOK'
  <2>1. banner' \in [Banners -> BannerRow \cup {NoBanner, [status |-> "gone"]}]
    BY <1>2, <1>4 DEF MarketingTypeOK
  <2>2. passed' \in BOOLEAN
    BY <1>1, <1>2 DEF MarketingTypeOK, Overtakes
  <2>3. QED
    BY <1>1, <1>2, <1>3, <1>5, <2>1, <2>2 DEF MarketingTypeOK
<1>8. \A b \in ExistingBanners' : b = s.banner \/ (b # s.banner /\ b \in ExistingBanners /\ banner'[b] = banner[b])
  BY <1>6 DEF ExistingBanners, Exists
<1> HIDE DEF s
<1>9. FilesAccounted'
  <2>1. \A b \in ExistingBanners' : banner'[b].image \in imageRows'
    BY <1>1, <1>2, <1>4, <1>6, <1>8 DEF FilesAccounted
  <2>2. \A q \in Staff, i \in Images : Handles(q, i)' => q # r /\ Handles(q, i)
    BY <1>5 DEF Handles
  <2>3. \A q \in Staff : Uploading(q)' => q # r /\ Uploading(q) /\ office'[q] = office[q]
    BY <1>5 DEF Uploading
  <2>4. Handles(r, s.image) /\ (s.new <=> Uploading(r)) /\ (s.new => s.image \in imageFiles)
    BY <1>1, <1>2, <1>3 DEF Handles, Uploading, FilesAccounted, s
  <2>5. imageRows' \subseteq imageFiles' /\ imageFiles' \subseteq uploads'
    BY <1>1, <1>2, <2>4 DEF FilesAccounted
  <2>6. ASSUME NEW q \in Staff, Uploading(q)'
        PROVE  /\ office'[q].image \in imageFiles' \ imageRows'
               /\ \A p \in Staff \ {q} : ~Handles(p, office[q].image)'
    <3>1. q # r /\ Uploading(q) /\ office'[q] = office[q] /\ office[q].image \in Images
      BY <1>2, <2>3, <2>6 DEF MarketingTypeOK, OfficeWork, Resting, Uploading
    <3>2. office[q].image # s.image
      BY <1>2, <2>4, <3>1 DEF FilesAccounted
    <3>3. office[q].image \in imageFiles \ imageRows /\ \A p \in Staff \ {q} : ~Handles(p, office[q].image)
      BY <1>2, <3>1 DEF FilesAccounted
    <3>4. ASSUME NEW p \in Staff \ {q}, Handles(p, office[q].image)'
          PROVE  FALSE
      BY <2>2, <3>1, <3>3, <3>4
    <3>5. QED
      BY <1>1, <3>1, <3>2, <3>3, <3>4
  <2>7. ASSUME NEW q \in Staff, office'[q].op = "removeFile"
        PROVE  office'[q].image \notin imageRows'
    <3>1. q # r /\ office'[q] = office[q] /\ office[q].image \in Images
      BY <1>2, <1>5, <2>7 DEF MarketingTypeOK, OfficeWork, Resting
    <3>2. Handles(q, office[q].image) /\ office[q].image \notin imageRows
      BY <1>2, <2>7, <3>1 DEF Handles, FilesAccounted
    <3>3. office[q].image # s.image
      BY <1>1, <1>2, <1>3, <2>4, <3>1, <3>2 DEF FilesAccounted, s
    <3>4. QED
      BY <1>1, <3>1, <3>2, <3>3
  <2>8. ASSUME NEW i \in imageFiles' \ (imageRows' \cup leaked')
        PROVE  \E q \in Staff : (Uploading(q)' \/ office'[q].op = "removeFile") /\ office'[q].image = i
    <3>1. PICK q \in Staff : (Uploading(q) \/ office[q].op = "removeFile") /\ office[q].image = i
      BY <1>1, <1>2, <2>8 DEF FilesAccounted
    <3>2. q # r
      BY <1>1, <2>8, <3>1 DEF s
    <3>3. QED
      BY <1>5, <3>1, <3>2 DEF Uploading
  <2>9. \A q \in Staff, i \in Images : Handles(q, i)' => i \in uploads'
    BY <1>1, <1>2, <2>2 DEF FilesAccounted
  <2>10. QED
    BY <2>1, <2>5, <2>6, <2>7, <2>8, <2>9 DEF FilesAccounted
<1>10. TargetsAccounted'
  <2>1. ASSUME NEW b \in ExistingBanners'
        PROVE  banner'[b].target \in targetRows' \/ banner'[b].unseen
    BY <1>1, <1>2, <1>4, <1>6, <1>8 DEF TargetsAccounted, BannersLeadSomewhere, LookedFor
  <2>2. ASSUME NEW q \in Staff, office'[q].op = "removeTarget", NEW b \in ExistingBanners', banner'[b].target = office'[q].target
        PROVE  banner'[b].unseen
    <3>1. office'[q] = office[q]
      BY <1>5, <2>2
    <3>2. CASE b = s.banner
      BY <1>4, <1>6, <2>2, <3>1, <3>2 DEF LookedFor
    <3>3. CASE b # s.banner
      BY <1>2, <1>8, <2>2, <3>1, <3>3 DEF TargetsAccounted
    <3>4. QED
      BY <3>2, <3>3
  <2>3. QED
    BY <2>1, <2>2 DEF TargetsAccounted, BannersLeadSomewhere
<1>11. StampsPast'
  <2>1. s.since <= second
    BY <1>1, <1>2 DEF StampsPast, s
  <2>2. \A b \in ExistingBanners' : banner'[b].stamp <= second'
    BY <1>1, <1>2, <1>4, <1>6, <1>8, <2>1 DEF StampsPast
  <2>3. \A q \in Staff : office'[q].op = "save" => office'[q].since <= second'
    BY <1>1, <1>2, <1>5 DEF StampsPast
  <2>4. QED
    BY <2>2, <2>3 DEF StampsPast
<1>12. KeptAccounted'
  <2>1. SUFFICES ASSUME keptBanners # NothingKept, ~passed, ~Overtakes(s.since)
                 PROVE  \E old : /\ keptBanners.tag = TagOfRows(old) /\ keptBanners.rows = BannerList(old)
                                 /\ Remembered(old, keptBanners.at)'
    BY <1>1, <1>2 DEF KeptAccounted
  <2>2. PICK old : keptBanners.tag = TagOfRows(old) /\ keptBanners.rows = BannerList(old) /\ Remembered(old, keptBanners.at)
    BY <1>2, <2>1 DEF KeptAccounted
  <2>3. keptBanners.at \in Nat /\ keptBanners.at < s.since
    BY <1>2, <1>3, <2>1 DEF KeptAccounted, Overtakes
  <2>4. \A b \in Active' : b = s.banner \/ (b \in Active /\ banner'[b] = banner[b])
    BY <1>8 DEF Active
  <2>5. \A b \in Active' : (b \in DOMAIN old /\ banner'[b] = old[b]) \/ keptBanners.at < banner'[b].stamp
    BY <1>4, <1>6, <2>2, <2>3, <2>4 DEF Remembered
  <2>6. Remembered(old, keptBanners.at)'
    BY <1>1, <2>2, <2>5 DEF Remembered
  <2>7. QED
    BY <2>2, <2>6
<1>13. QED
  BY <1>7, <1>9, <1>10, <1>11, <1>12 DEF MarketingInv

\* What is said of images and requests while these stay as they are.
LEMMA FilesStay ==
    ASSUME FilesAccounted, ExistingBanners' \subseteq ExistingBanners,
           \A b \in ExistingBanners' : banner'[b].image = banner[b].image,
           UNCHANGED <<imageRows, imageFiles, uploads, office, leaked>>
    PROVE  FilesAccounted'
<1>1. /\ \A q \in Staff : Uploading(q)' <=> Uploading(q)
      /\ \A q \in Staff : \A i : Handles(q, i)' <=> Handles(q, i)
  BY DEF Uploading, Handles
<1>2. \A b \in ExistingBanners' : banner'[b].image \in imageRows'
  BY DEF FilesAccounted
<1>3. ASSUME NEW q \in Staff, Uploading(q)'
      PROVE  /\ office'[q].image \in imageFiles' \ imageRows'
             /\ \A p \in Staff \ {q} : ~Handles(p, office[q].image)'
  <2>1. /\ office[q].image \in imageFiles \ imageRows
        /\ \A p \in Staff \ {q} : ~Handles(p, office[q].image)
    BY <1>1, <1>3 DEF FilesAccounted
  <2>2. \A p \in Staff \ {q} : ~Handles(p, office[q].image)'
    BY <2>1 DEF Handles
  <2>3. QED
    BY <2>1, <2>2
<1>4. QED
  BY <1>1, <1>2, <1>3 DEF FilesAccounted

LEMMA RemoveBannerKeeps ==
    ASSUME MarketingInv, NEW b \in Banners, RemoveBanner(b)
    PROVE  MarketingInv'
<1>1. /\ banner' = [banner EXCEPT ![b] = [status |-> "gone"]]
      /\ UNCHANGED <<imageRows, imageFiles, uploads, targetRows, office, second, bannerSaves, keptBanners, leaked, passed>>
  BY DEF RemoveBanner
<1>2. MarketingTypeOK /\ FilesAccounted /\ TargetsAccounted /\ StampsPast /\ KeptAccounted
  BY DEF MarketingInv
<1>3. /\ banner' \in [Banners -> BannerRow \cup {NoBanner, [status |-> "gone"]}]
      /\ banner'[b].status = "gone"
      /\ \A c \in Banners : c # b => banner'[c] = banner[c]
  BY <1>1, <1>2 DEF MarketingTypeOK
<1>4. \A c \in ExistingBanners' : c \in ExistingBanners /\ banner'[c] = banner[c]
  BY <1>3 DEF ExistingBanners, Exists
<1>5. MarketingTypeOK'
  BY <1>1, <1>2, <1>3 DEF MarketingTypeOK
<1>6. FilesAccounted'
  BY <1>1, <1>2, <1>4, FilesStay
<1>7. TargetsAccounted'
  BY <1>1, <1>2, <1>4 DEF TargetsAccounted, BannersLeadSomewhere
<1>8. StampsPast'
  BY <1>1, <1>2, <1>4 DEF StampsPast
<1>9. KeptAccounted'
  <2>1. \A c \in Active' : c \in Active /\ banner'[c] = banner[c]
    BY <1>4 DEF Active
  <2>2. \A old, at : Remembered(old, at) => Remembered(old, at)'
    BY <2>1 DEF Remembered
  <2>3. QED
    BY <1>1, <1>2, <2>2 DEF KeptAccounted
<1>10. QED
  BY <1>5, <1>6, <1>7, <1>8, <1>9 DEF MarketingInv

LEMMA ReorderKeeps ==
    ASSUME MarketingInv, NEW form \in SetToSeqs(Banners), ReorderBanner(form)
    PROVE  MarketingInv'
<1> DEFINE place(b) == CHOOSE n \in DOMAIN form : form[n] = b
           listed == {b \in Banners : Exists(b) /\ b \in ToSet(form)}
<1>1. /\ banner' = [b \in Banners |-> IF Exists(b) /\ b \in ToSet(form)
                                      THEN [banner[b] EXCEPT !.order = place(b), !.stamp = second] ELSE banner[b]]
  BY DEF ReorderBanner
<1>u. /\ passed' = (passed \/ Overtakes(second))
      /\ UNCHANGED <<imageRows, imageFiles, uploads, targetRows, office, second, keptBanners, leaked>>
  BY DEF ReorderBanner
<1>l. \A b \in Banners : b \in listed <=> Exists(b) /\ b \in ToSet(form)
  OBVIOUS
<1>2. MarketingTypeOK /\ FilesAccounted /\ TargetsAccounted /\ StampsPast /\ KeptAccounted
  BY DEF MarketingInv
<1>3. \A b \in listed : place(b) \in Nat
  <2>1. DOMAIN form \subseteq Nat
    BY DEF SetToSeqs
  <2>2. \A b \in listed : \E n \in DOMAIN form : form[n] = b
    BY DEF ToSet
  <2>3. QED
    BY <2>1, <2>2
<1>4. listed \subseteq Banners /\ \A b \in listed : Exists(b)
  OBVIOUS
<1> HIDE DEF place, listed
<1>5. \A b \in listed : banner[b] \in BannerRow /\ second \in Nat
  BY <1>2, <1>4, ExistingRow DEF ExistingBanners, MarketingTypeOK
<1>e. \A b \in listed : banner'[b] = [banner[b] EXCEPT !.order = place(b), !.stamp = second]
  BY <1>1, <1>l, <1>4
<1>6. \A b \in listed : /\ banner'[b] \in BannerRow /\ banner'[b].status = banner[b].status
                        /\ banner'[b].image = banner[b].image /\ banner'[b].target = banner[b].target
                        /\ banner'[b].unseen = banner[b].unseen /\ banner'[b].stamp = second
  BY <1>e, <1>3, <1>5, ZenonT(60) DEF BannerRow
<1>7. \A b \in Banners : b \notin listed => banner'[b] = banner[b]
  BY <1>1, <1>l
<1>8. banner' \in [Banners -> BannerRow \cup {NoBanner, [status |-> "gone"]}]
  <2>1. \A b \in Banners : banner'[b] \in BannerRow \cup {NoBanner, [status |-> "gone"]}
    BY <1>2, <1>6, <1>7 DEF MarketingTypeOK
  <2>2. banner' = [b \in Banners |-> banner'[b]]
    BY <1>1
  <2>3. QED
    BY <2>1, <2>2
<1>9. ExistingBanners' = ExistingBanners /\ Active' = Active
  <2>1. \A b \in Banners : banner'[b].status = banner[b].status
    BY <1>6, <1>7
  <2>2. QED
    BY <2>1 DEF ExistingBanners, Exists, Active
<1>10. \A b \in ExistingBanners : banner'[b].image = banner[b].image /\ banner'[b].target = banner[b].target
                                  /\ (banner'[b].unseen <=> banner[b].unseen)
                                  /\ (banner'[b] = banner[b] \/ banner'[b].stamp = second)
  BY <1>6, <1>7 DEF ExistingBanners
<1>11. MarketingTypeOK'
  <2>1. passed' \in BOOLEAN
    BY <1>u, <1>2 DEF MarketingTypeOK, Overtakes
  <2>2. QED
    BY <1>u, <1>2, <1>8, <2>1 DEF MarketingTypeOK
<1>12. FilesAccounted'
  BY <1>u, <1>2, <1>9, <1>10, FilesStay
<1>13. TargetsAccounted'
  BY <1>u, <1>2, <1>9, <1>10 DEF TargetsAccounted, BannersLeadSomewhere
<1>14. StampsPast'
  BY <1>u, <1>2, <1>9, <1>10 DEF StampsPast, MarketingTypeOK
<1>15. KeptAccounted'
  <2>1. SUFFICES ASSUME keptBanners # NothingKept, ~passed, ~Overtakes(second)
                 PROVE  \E old : /\ keptBanners.tag = TagOfRows(old) /\ keptBanners.rows = BannerList(old)
                                 /\ Remembered(old, keptBanners.at)'
    BY <1>u, <1>2 DEF KeptAccounted
  <2>2. PICK old : keptBanners.tag = TagOfRows(old) /\ keptBanners.rows = BannerList(old) /\ Remembered(old, keptBanners.at)
    BY <1>2, <2>1 DEF KeptAccounted
  <2>3. keptBanners.at < second
    BY <1>2, <2>1 DEF KeptAccounted, Overtakes, MarketingTypeOK
  <2>4. \A b \in Active' : (b \in DOMAIN old /\ banner'[b] = old[b]) \/ keptBanners.at < banner'[b].stamp
    BY <1>9, <1>10, <2>2, <2>3 DEF Remembered, Active
  <2>5. Remembered(old, keptBanners.at)'
    BY <1>u, <2>2, <2>4 DEF Remembered
  <2>6. QED
    BY <2>2, <2>5
<1>16. QED
  BY <1>11, <1>12, <1>13, <1>14, <1>15 DEF MarketingInv

\* A request that was resting begins to remove an image or a target, or one that
\* has removed an image's row goes on to its file.
LEMMA BeginsOtherWork ==
    ASSUME MarketingTypeOK, NEW r \in Staff, NEW op \in {"removeImage", "removeFile", "removeTarget"}, NEW work,
           work \in OfficeWork, work.op = op, office' = [office EXCEPT ![r] = work]
    PROVE  /\ office' \in [Staff -> OfficeWork]
           /\ office'[r] = work /\ ~Uploading(r)'
           /\ \A q \in Staff : q # r => office'[q] = office[q]
           /\ \A q \in Staff : Uploading(q)' => q # r /\ Uploading(q)
<1>1. office' \in [Staff -> OfficeWork]
  BY DEF MarketingTypeOK
<1>2. office'[r] = work /\ \A q \in Staff : q # r => office'[q] = office[q]
  BY OneWorks
<1>3. QED
  BY <1>1, <1>2 DEF Uploading

LEMMA SnapShotKeeps ==
    ASSUME MarketingInv, NEW r \in Staff, NEW i \in Images, SnapShotBannerImage(r, i)
    PROVE  MarketingInv'
<1> DEFINE work == [op |-> "removeImage", image |-> i]
<1>1. /\ office[r] = Resting /\ i \in imageRows
      /\ office' = [office EXCEPT ![r] = work]
      /\ UNCHANGED <<banner, imageRows, imageFiles, uploads, targetRows, second, keptBanners, leaked, passed>>
  BY DEF SnapShotBannerImage
<1>2. MarketingTypeOK /\ FilesAccounted /\ TargetsAccounted /\ StampsPast /\ KeptAccounted
  BY DEF MarketingInv
<1>3. work \in OfficeWork /\ work.op = "removeImage" /\ work.image = i
  BY DEF OfficeWork
<1> HIDE DEF work
<1>4. /\ office' \in [Staff -> OfficeWork]
      /\ office'[r] = work /\ ~Uploading(r)'
      /\ \A q \in Staff : q # r => office'[q] = office[q]
      /\ \A q \in Staff : Uploading(q)' => q # r /\ Uploading(q)
  BY <1>1, <1>2, <1>3, BeginsOtherWork
<1>r. office[r].op = "resting"
  BY <1>1 DEF Resting
<1>5. MarketingTypeOK'
  BY <1>1, <1>2, <1>4 DEF MarketingTypeOK
<1>6. ExistingBanners' = ExistingBanners
  BY <1>1 DEF ExistingBanners, Exists
<1>7. FilesAccounted'
  <2>1. \A q \in Staff, j \in Images : Handles(q, j)' => (q = r /\ j = i) \/ (q # r /\ Handles(q, j))
    BY <1>3, <1>4 DEF Handles
  <2>2. ASSUME NEW q \in Staff, Uploading(q)'
        PROVE  /\ office'[q].image \in imageFiles' \ imageRows'
               /\ \A p \in Staff \ {q} : ~Handles(p, office[q].image)'
    <3>1. q # r /\ Uploading(q) /\ office'[q] = office[q] /\ office[q].image \in Images
      BY <1>2, <1>4, <2>2 DEF MarketingTypeOK, OfficeWork, Resting, Uploading
    <3>2. office[q].image \in imageFiles \ imageRows /\ \A p \in Staff \ {q} : ~Handles(p, office[q].image)
      BY <1>2, <3>1 DEF FilesAccounted
    <3>3. ASSUME NEW p \in Staff \ {q}, Handles(p, office[q].image)'
          PROVE  FALSE
      BY <1>1, <2>1, <3>1, <3>2, <3>3
    <3>4. QED
      BY <1>1, <3>1, <3>2, <3>3
  <2>3. \A q \in Staff : office'[q].op = "removeFile" => office[q].op = "removeFile" /\ office'[q] = office[q]
    BY <1>3, <1>4
  <2>4. ASSUME NEW j \in imageFiles \ (imageRows \cup leaked)
        PROVE  \E q \in Staff : (Uploading(q)' \/ office'[q].op = "removeFile") /\ office'[q].image = j
    <3>1. PICK q \in Staff : (Uploading(q) \/ office[q].op = "removeFile") /\ office[q].image = j
      BY <1>2 DEF FilesAccounted
    <3>2. q # r
      BY <1>r, <3>1 DEF Uploading
    <3>3. QED
      BY <1>4, <3>1, <3>2 DEF Uploading
  <2>5. \A q \in Staff, j \in Images : Handles(q, j)' => j \in uploads'
    BY <1>1, <1>2, <2>1 DEF FilesAccounted
  <2>6. /\ \A b \in ExistingBanners' : banner'[b].image \in imageRows'
        /\ imageRows' \subseteq imageFiles' /\ imageFiles' \subseteq uploads'
    BY <1>1, <1>2, <1>6 DEF FilesAccounted
  <2>7. QED
    BY <1>1, <1>2, <2>2, <2>3, <2>4, <2>5, <2>6 DEF FilesAccounted
<1>8. TargetsAccounted'
  <2>1. BannersLeadSomewhere'
    BY <1>1, <1>2, <1>6 DEF TargetsAccounted, BannersLeadSomewhere
  <2>2. \A q \in Staff : office'[q].op = "removeTarget" => q # r
    BY <1>3, <1>4
  <2>3. QED
    BY <1>1, <1>2, <1>4, <1>6, <2>1, <2>2 DEF TargetsAccounted
<1>9. StampsPast'
  BY <1>1, <1>2, <1>3, <1>4, <1>6 DEF StampsPast
<1>10. KeptAccounted'
  BY <1>1, <1>2, KeptStays DEF MarketingTypeOK
<1>11. QED
  BY <1>5, <1>7, <1>8, <1>9, <1>10 DEF MarketingInv

LEMMA RemoveMetadataKeeps ==
    ASSUME MarketingInv, NEW r \in Staff, RemoveMetadata(r)
    PROVE  MarketingInv'
<1> DEFINE i == office[r].image
           work == [op |-> "removeFile", image |-> i]
           free == \A b \in ExistingBanners : banner[b].image # i
<1>1. /\ office[r].op = "removeImage"
      /\ office' = [office EXCEPT ![r] = IF free THEN work ELSE Resting]
      /\ imageRows' = IF free THEN imageRows \ {i} ELSE imageRows
      /\ UNCHANGED <<banner, imageFiles, uploads, targetRows, second, keptBanners, leaked, passed>>
  BY DEF RemoveMetadata
<1>2. MarketingTypeOK /\ FilesAccounted /\ TargetsAccounted /\ StampsPast /\ KeptAccounted
  BY DEF MarketingInv
<1>3. i \in Images /\ work \in OfficeWork /\ work.op = "removeFile" /\ work.image = i
  BY <1>1, <1>2 DEF OfficeWork, MarketingTypeOK, Resting
<1>4. ExistingBanners' = ExistingBanners
  BY <1>1 DEF ExistingBanners, Exists
<1>f. free => \A b \in ExistingBanners : banner[b].image # i
  OBVIOUS
<1>h. Handles(r, i)
  BY <1>1 DEF Handles
<1>g. imageRows' \subseteq imageRows
  BY <1>1
<1> HIDE DEF work, free
<1>5. /\ office' \in [Staff -> OfficeWork]
      /\ \A q \in Staff : q # r => office'[q] = office[q]
      /\ \A q \in Staff : Uploading(q)' => q # r /\ Uploading(q)
      /\ ~free => office'[r].op = "resting"
      /\ free => office'[r] = work
  <2>1. CASE free
    BY <1>1, <1>2, <1>3, <2>1, BeginsOtherWork
  <2>2. CASE ~free
    <3>1. office' = [office EXCEPT ![r] = Resting]
      BY <1>1, <2>2
    <3>2. office'[r] = Resting
      BY <1>2, <3>1, OneWorks
    <3>3. QED
      BY <1>2, <2>2, <3>1, <3>2, RestsThen DEF Uploading, Resting
  <2>3. QED
    BY <2>1, <2>2
<1>6. MarketingTypeOK'
  BY <1>1, <1>2, <1>5, <1>g DEF MarketingTypeOK
<1> HIDE DEF i
<1>7. FilesAccounted'
  <2>1. \A q \in Staff, j \in Images : Handles(q, j)' => Handles(q, j)
    BY <1>3, <1>5, <1>h DEF Handles
  <2>2. ASSUME NEW q \in Staff, Uploading(q)'
        PROVE  /\ office'[q].image \in imageFiles' \ imageRows'
               /\ \A p \in Staff \ {q} : ~Handles(p, office[q].image)'
    <3>1. q # r /\ Uploading(q) /\ office'[q] = office[q] /\ office[q].image \in Images
      BY <1>2, <1>5, <2>2 DEF MarketingTypeOK, OfficeWork, Resting, Uploading
    <3>2. office[q].image \in imageFiles \ imageRows /\ \A p \in Staff \ {q} : ~Handles(p, office[q].image)
      BY <1>2, <3>1 DEF FilesAccounted
    <3>3. ASSUME NEW p \in Staff \ {q}, Handles(p, office[q].image)'
          PROVE  FALSE
      BY <2>1, <3>1, <3>2, <3>3
    <3>4. QED
      BY <1>1, <1>g, <3>1, <3>2, <3>3
  <2>3. ASSUME NEW q \in Staff, office'[q].op = "removeFile"
        PROVE  office'[q].image \notin imageRows'
    <3>1. CASE q = r
      BY <1>1, <1>3, <1>5, <2>3, <3>1
    <3>2. CASE q # r
      BY <1>2, <1>5, <1>g, <2>3, <3>2 DEF FilesAccounted
    <3>3. QED
      BY <3>1, <3>2
  <2>4. ASSUME NEW j \in imageFiles \ (imageRows' \cup leaked)
        PROVE  \E q \in Staff : (Uploading(q)' \/ office'[q].op = "removeFile") /\ office'[q].image = j
    <3>1. CASE j \in imageRows
      BY <1>1, <1>3, <1>5, <2>4, <3>1
    <3>2. CASE j \notin imageRows
      <4>1. PICK q \in Staff : (Uploading(q) \/ office[q].op = "removeFile") /\ office[q].image = j
        BY <1>2, <2>4, <3>2 DEF FilesAccounted
      <4>2. q # r
        BY <1>1, <4>1 DEF Uploading
      <4>3. QED
        BY <1>5, <4>1, <4>2 DEF Uploading
    <3>3. QED
      BY <3>1, <3>2
  <2>5. \A q \in Staff, j \in Images : Handles(q, j)' => j \in uploads'
    BY <1>1, <1>2, <2>1 DEF FilesAccounted
  <2>6. /\ \A b \in ExistingBanners' : banner'[b].image \in imageRows'
        /\ imageRows' \subseteq imageFiles' /\ imageFiles' \subseteq uploads'
    BY <1>1, <1>2, <1>4, <1>f, <1>g DEF FilesAccounted
  <2>7. QED
    BY <1>1, <2>2, <2>3, <2>4, <2>5, <2>6 DEF FilesAccounted
<1>8. TargetsAccounted'
  <2>1. BannersLeadSomewhere'
    BY <1>1, <1>2, <1>4 DEF TargetsAccounted, BannersLeadSomewhere
  <2>2. \A q \in Staff : office'[q].op = "removeTarget" => q # r
    BY <1>3, <1>5
  <2>3. QED
    BY <1>1, <1>2, <1>4, <1>5, <2>1, <2>2 DEF TargetsAccounted
<1>9. StampsPast'
  <2>1. \A q \in Staff : office'[q].op = "save" => q # r
    BY <1>3, <1>5
  <2>2. QED
    BY <1>1, <1>2, <1>4, <1>5, <2>1 DEF StampsPast
<1>10. KeptAccounted'
  BY <1>1, <1>2, KeptStays DEF MarketingTypeOK
<1>11. QED
  BY <1>6, <1>7, <1>8, <1>9, <1>10 DEF MarketingInv

\* A save that fails, and the end of a removal, well or not.
LEMMA EndsKeep ==
    ASSUME MarketingInv, NEW r \in Staff,
           SaveBannerFails(r) \/ DeleteBannerFile(r) \/ DeleteBannerFileFails(r) \/ DeleteTarget(r)
    PROVE  MarketingInv'
<1> DEFINE s == office[r]
<1>1. /\ office' = [office EXCEPT ![r] = Resting]
      /\ UNCHANGED <<banner, imageRows, uploads, second, keptBanners, passed>>
      /\ \/ s.op = "save" /\ imageFiles' = imageFiles /\ targetRows' = targetRows
            /\ leaked' = IF s.new THEN leaked \cup {s.image} ELSE leaked
         \/ s.op = "removeFile" /\ imageFiles' = imageFiles \ {s.image} /\ targetRows' = targetRows
            /\ leaked' = leaked \ {s.image}
         \/ s.op = "removeFile" /\ imageFiles' = imageFiles /\ targetRows' = targetRows
            /\ leaked' = leaked \cup {s.image}
         \/ s.op = "removeTarget" /\ imageFiles' = imageFiles /\ leaked' = leaked
            /\ targetRows' = targetRows \ {s.target}
  BY DEF SaveBannerFails, DeleteBannerFile, DeleteBannerFileFails, DeleteTarget
<1>2. MarketingTypeOK /\ FilesAccounted /\ TargetsAccounted /\ StampsPast /\ KeptAccounted
  BY DEF MarketingInv
<1>3. /\ \A q \in Staff : office'[q].op # "resting" => q # r /\ office'[q] = office[q]
      /\ \A q \in Staff : q # r => office'[q] = office[q]
      /\ office' \in [Staff -> OfficeWork]
  BY <1>1, <1>2, RestsThen
<1>4. /\ s.op \in {"save", "removeFile"} => s.image \in Images
      /\ s.op = "save" => s.new \in BOOLEAN
  BY <1>2 DEF MarketingTypeOK, OfficeWork, Resting
<1>5. ExistingBanners' = ExistingBanners
  BY <1>1 DEF ExistingBanners, Exists
<1>6. s.op \in {"save", "removeFile"} => Handles(r, s.image)
  BY DEF Handles
<1>7. Uploading(r) <=> s.op = "save" /\ s.new
  BY DEF Uploading
<1> HIDE DEF s
<1>8. /\ imageFiles' \subseteq imageFiles /\ (imageFiles \ imageFiles') \subseteq Images
      /\ leaked' \subseteq Images /\ targetRows' \subseteq targetRows
  BY <1>1, <1>2, <1>4 DEF MarketingTypeOK
<1>9. MarketingTypeOK'
  BY <1>1, <1>2, <1>3, <1>8 DEF MarketingTypeOK
<1>10. FilesAccounted'
  <2>1. \A q \in Staff, j \in Images : Handles(q, j)' => q # r /\ Handles(q, j) /\ office'[q] = office[q]
    BY <1>3 DEF Handles
  <2>2. \A q \in Staff : Uploading(q)' => q # r /\ Uploading(q) /\ office'[q] = office[q] /\ office[q].image \in Images
    BY <1>2, <1>3 DEF Uploading, MarketingTypeOK, OfficeWork, Resting
  \* A file that is deleted is nobody's.
  <2>3. \A j \in imageFiles \ imageFiles' : s.op = "removeFile" /\ j = s.image /\ j \notin imageRows
    BY <1>1, <1>2 DEF FilesAccounted, s
  <2>4. ASSUME NEW q \in Staff, Uploading(q)'
        PROVE  /\ office'[q].image \in imageFiles' \ imageRows'
               /\ \A p \in Staff \ {q} : ~Handles(p, office[q].image)'
    <3>1. office[q].image \in imageFiles \ imageRows /\ \A p \in Staff \ {q} : ~Handles(p, office[q].image)
      BY <1>2, <2>2, <2>4 DEF FilesAccounted
    <3>2. office[q].image \in imageFiles'
      BY <1>6, <2>2, <2>3, <2>4, <3>1
    <3>3. ASSUME NEW p \in Staff \ {q}, Handles(p, office[q].image)'
          PROVE  FALSE
      BY <2>1, <2>2, <2>4, <3>1, <3>3
    <3>4. QED
      BY <1>1, <2>2, <2>4, <3>1, <3>2, <3>3
  <2>5. \A q \in Staff : office'[q].op = "removeFile" => office'[q].image \notin imageRows'
    BY <1>1, <1>2, <1>3 DEF FilesAccounted
  <2>6. ASSUME NEW j \in imageFiles' \ (imageRows' \cup leaked')
        PROVE  \E q \in Staff : (Uploading(q)' \/ office'[q].op = "removeFile") /\ office'[q].image = j
    <3>1. j \in imageFiles \ (imageRows \cup leaked)
      BY <1>1, <2>6
    <3>2. PICK q \in Staff : (Uploading(q) \/ office[q].op = "removeFile") /\ office[q].image = j
      BY <1>2, <3>1 DEF FilesAccounted
    <3>3. q # r
      BY <1>1, <1>7, <2>6, <3>2 DEF s
    <3>4. QED
      BY <1>3, <3>2, <3>3 DEF Uploading
  <2>7. \A q \in Staff, j \in Images : Handles(q, j)' => j \in uploads'
    BY <1>1, <1>2, <2>1 DEF FilesAccounted
  <2>8. /\ \A b \in ExistingBanners' : banner'[b].image \in imageRows'
        /\ imageRows' \subseteq imageFiles' /\ imageFiles' \subseteq uploads'
    BY <1>1, <1>2, <1>5, <1>8, <2>3 DEF FilesAccounted
  <2>9. QED
    BY <2>4, <2>5, <2>6, <2>7, <2>8 DEF FilesAccounted
<1>11. TargetsAccounted'
  <2>1. \A t \in targetRows \ targetRows' : \A b \in ExistingBanners : banner[b].target = t => banner[b].unseen
    BY <1>1, <1>2 DEF TargetsAccounted, s
  <2>2. BannersLeadSomewhere'
    BY <1>1, <1>2, <1>5, <2>1 DEF TargetsAccounted, BannersLeadSomewhere
  <2>3. QED
    BY <1>1, <1>2, <1>3, <1>5, <2>2 DEF TargetsAccounted
<1>12. StampsPast'
  BY <1>1, <1>2, <1>3, <1>5 DEF StampsPast
<1>13. KeptAccounted'
  BY <1>1, <1>2, KeptStays DEF MarketingTypeOK
<1>14. QED
  BY <1>9, <1>10, <1>11, <1>12, <1>13 DEF MarketingInv

LEMMA LookForBannerKeeps ==
    ASSUME MarketingInv, NEW r \in Staff, NEW t \in Targets, LookForBanner(r, t)
    PROVE  MarketingInv'
<1> DEFINE work == [op |-> "removeTarget", target |-> t]
<1>1. /\ office[r] = Resting /\ office' = [office EXCEPT ![r] = work]
      /\ \A b \in ExistingBanners : banner[b].target # t
      /\ UNCHANGED <<banner, imageRows, imageFiles, uploads, targetRows, second, keptBanners, leaked, passed>>
  BY DEF LookForBanner
<1>2. MarketingTypeOK /\ FilesAccounted /\ TargetsAccounted /\ StampsPast /\ KeptAccounted
  BY DEF MarketingInv
<1>3. work \in OfficeWork /\ work.op = "removeTarget" /\ work.target = t
  BY DEF OfficeWork
<1> HIDE DEF work
<1>4. /\ office' \in [Staff -> OfficeWork]
      /\ office'[r] = work /\ ~Uploading(r)'
      /\ \A q \in Staff : q # r => office'[q] = office[q]
      /\ \A q \in Staff : Uploading(q)' => q # r /\ Uploading(q)
  BY <1>1, <1>2, <1>3, BeginsOtherWork
<1>r. office[r].op = "resting"
  BY <1>1 DEF Resting
<1>5. MarketingTypeOK'
  BY <1>1, <1>2, <1>4 DEF MarketingTypeOK
<1>6. ExistingBanners' = ExistingBanners
  BY <1>1 DEF ExistingBanners, Exists
<1>7. FilesAccounted'
  <2>1. \A q \in Staff, j \in Images : Handles(q, j)' => q # r /\ Handles(q, j)
    BY <1>3, <1>4 DEF Handles
  <2>2. ASSUME NEW q \in Staff, Uploading(q)'
        PROVE  /\ office'[q].image \in imageFiles' \ imageRows'
               /\ \A p \in Staff \ {q} : ~Handles(p, office[q].image)'
    <3>1. q # r /\ Uploading(q) /\ office'[q] = office[q] /\ office[q].image \in Images
      BY <1>2, <1>4, <2>2 DEF MarketingTypeOK, OfficeWork, Resting, Uploading
    <3>2. office[q].image \in imageFiles \ imageRows /\ \A p \in Staff \ {q} : ~Handles(p, office[q].image)
      BY <1>2, <3>1 DEF FilesAccounted
    <3>3. ASSUME NEW p \in Staff \ {q}, Handles(p, office[q].image)'
          PROVE  FALSE
      BY <2>1, <3>1, <3>2, <3>3
    <3>4. QED
      BY <1>1, <3>1, <3>2, <3>3
  <2>3. \A q \in Staff : office'[q].op = "removeFile" => office[q].op = "removeFile" /\ office'[q] = office[q]
    BY <1>3, <1>4
  <2>4. ASSUME NEW j \in imageFiles \ (imageRows \cup leaked)
        PROVE  \E q \in Staff : (Uploading(q)' \/ office'[q].op = "removeFile") /\ office'[q].image = j
    <3>1. PICK q \in Staff : (Uploading(q) \/ office[q].op = "removeFile") /\ office[q].image = j
      BY <1>2 DEF FilesAccounted
    <3>2. q # r
      BY <1>r, <3>1 DEF Uploading
    <3>3. QED
      BY <1>4, <3>1, <3>2 DEF Uploading
  <2>5. \A q \in Staff, j \in Images : Handles(q, j)' => j \in uploads'
    BY <1>1, <1>2, <2>1 DEF FilesAccounted
  <2>6. /\ \A b \in ExistingBanners' : banner'[b].image \in imageRows'
        /\ imageRows' \subseteq imageFiles' /\ imageFiles' \subseteq uploads'
    BY <1>1, <1>2, <1>6 DEF FilesAccounted
  <2>7. QED
    BY <1>1, <1>2, <2>2, <2>3, <2>4, <2>5, <2>6 DEF FilesAccounted
<1>8. TargetsAccounted'
  <2>1. BannersLeadSomewhere'
    BY <1>1, <1>2, <1>6 DEF TargetsAccounted, BannersLeadSomewhere
  <2>2. QED
    BY <1>1, <1>2, <1>3, <1>4, <1>6, <2>1 DEF TargetsAccounted
<1>9. StampsPast'
  BY <1>1, <1>2, <1>3, <1>4, <1>6 DEF StampsPast
<1>10. KeptAccounted'
  BY <1>1, <1>2, KeptStays DEF MarketingTypeOK
<1>11. QED
  BY <1>5, <1>7, <1>8, <1>9, <1>10 DEF MarketingInv

LEMMA ActiveFinite ==
    ASSUME MarketingTypeOK
    PROVE  IsFiniteSet(Active) /\ \A b \in Active : banner[b] \in BannerRow /\ banner[b].stamp \in Nat
<1>1. Active \subseteq Banners /\ \A b \in Active : banner[b] \in BannerRow
  BY ExistingRow
<1>2. IsFiniteSet(Active)
  BY <1>1, MarketingAssumption, FS_Subset
<1>3. QED
  BY <1>1, <1>2 DEF BannerRow

\* The tag is that of the rows that are shown now.
LEMMA TagNow ==
    /\ BannerTag = TagOfRows([b \in Active |-> banner[b]])
    /\ ActiveBanners = BannerList([b \in Active |-> banner[b]])
<1> DEFINE now == [b \in Active |-> banner[b]]
<1>1. DOMAIN now = Active /\ {now[b].stamp : b \in Active} = {banner[b].stamp : b \in Active}
  OBVIOUS
<1> HIDE DEF now
<1>2. BannerTag = TagOfRows(now)
  BY <1>1 DEF BannerTag, TagOfRows
<1>3. QED
  BY <1>2 DEF now, ActiveBanners

LEMMA FetchKeeps ==
    ASSUME MarketingInv, FetchBanners
    PROVE  MarketingInv'
<1>1. UNCHANGED <<banner, imageRows, imageFiles, uploads, targetRows, office, second, leaked>>
  BY DEF FetchBanners
<1>2. MarketingTypeOK /\ FilesAccounted /\ TargetsAccounted /\ StampsPast /\ KeptAccounted
  BY DEF MarketingInv
<1>3. ExistingBanners' = ExistingBanners /\ Active' = Active
  BY <1>1 DEF ExistingBanners, Exists, Active
<1>4. MarketingTypeOK'
  BY <1>1, <1>2 DEF MarketingTypeOK, FetchBanners
<1>5. FilesAccounted'
  BY <1>1, <1>2, <1>3, FilesStay
<1>6. TargetsAccounted'
  BY <1>1, <1>2, <1>3 DEF TargetsAccounted, BannersLeadSomewhere
<1>7. StampsPast'
  BY <1>1, <1>2, <1>3 DEF StampsPast
<1>8. KeptAccounted'
  <2>1. CASE keptBanners' = keptBanners /\ passed' = passed
    BY <1>1, <1>2, <2>1, KeptStays DEF MarketingTypeOK
  <2>2. CASE keptBanners' = [at |-> second, tag |-> BannerTag, rows |-> ActiveBanners]
    <3>0. PICK old : old = [b \in Active |-> banner[b]]
      OBVIOUS
    <3>1. keptBanners'.at = second /\ keptBanners'.tag = TagOfRows(old) /\ keptBanners'.rows = BannerList(old)
      BY <2>2, <3>0, TagNow
    <3>2. DOMAIN old = Active /\ IsFiniteSet(DOMAIN old) /\ old = [b \in DOMAIN old |-> old[b]]
      BY <1>2, <3>0, ActiveFinite
    <3>3. \A b \in Active : old[b] = banner[b] /\ old[b].stamp \in Nat /\ old[b].stamp <= second
      BY <1>2, <3>0, ActiveFinite DEF StampsPast, Active
    <3>4. Remembered(old, second)'
      BY <1>1, <1>3, <3>2, <3>3 DEF Remembered
    <3>5. \E o : /\ keptBanners'.tag = TagOfRows(o) /\ keptBanners'.rows = BannerList(o)
                 /\ Remembered(o, keptBanners.at)'
      <4>1. Remembered(old, keptBanners.at)'
        BY <1>1, <3>1, <3>4 DEF Remembered
      <4>2. QED
        BY <3>1, <4>1
    <3>6. keptBanners'.at \in Nat /\ keptBanners'.at <= second'
      BY <1>1, <1>2, <3>1 DEF MarketingTypeOK
    <3>7. QED
      BY <3>5, <3>6 DEF KeptAccounted
  <2>3. QED
    BY <2>1, <2>2 DEF FetchBanners
<1>9. QED
  BY <1>4, <1>5, <1>6, <1>7, <1>8 DEF MarketingInv

LEMMA SecondKeeps ==
    ASSUME MarketingInv, NextSecond
    PROVE  MarketingInv'
<1>1. /\ second' = second + 1
      /\ UNCHANGED <<banner, imageRows, imageFiles, uploads, targetRows, office, keptBanners, leaked, passed>>
  BY DEF NextSecond
<1>2. MarketingTypeOK /\ FilesAccounted /\ TargetsAccounted /\ StampsPast /\ KeptAccounted
  BY DEF MarketingInv
<1>3. ExistingBanners' = ExistingBanners /\ \A b \in ExistingBanners : banner[b].stamp \in Nat
  BY <1>1, <1>2, ExistingRow DEF ExistingBanners, Exists, BannerRow
<1>4. second \in Nat /\ second' \in Nat /\ second <= second'
  BY <1>1, <1>2 DEF MarketingTypeOK
<1>5. MarketingTypeOK'
  BY <1>1, <1>2, <1>4 DEF MarketingTypeOK
<1>6. FilesAccounted'
  BY <1>1, <1>2, <1>3, FilesStay
<1>7. TargetsAccounted'
  BY <1>1, <1>2, <1>3 DEF TargetsAccounted, BannersLeadSomewhere
<1>8. \A r \in Staff : office[r].op = "save" => office[r].since \in Nat
  BY <1>2 DEF MarketingTypeOK, OfficeWork, Resting
<1>9. StampsPast'
  BY <1>1, <1>2, <1>3, <1>4, <1>8 DEF StampsPast
<1>10. KeptAccounted'
  BY <1>1, <1>2, <1>4, KeptStays
<1>11. QED
  BY <1>5, <1>6, <1>7, <1>9, <1>10 DEF MarketingInv

LEMMA MarketingStarts ==
    ASSUME InitMarketing
    PROVE  MarketingInv
<1>1. ExistingBanners = {}
  BY DEF InitMarketing, ExistingBanners, Exists, NoBanner
<1>2. Resting \in OfficeWork /\ Resting.op = "resting"
  BY DEF Resting, OfficeWork
<1>3. MarketingTypeOK
  BY <1>2 DEF InitMarketing, MarketingTypeOK
<1>4. \A r \in Staff : office[r].op = "resting"
  BY <1>2 DEF InitMarketing
<1>5. FilesAccounted
  BY <1>1, <1>4 DEF InitMarketing, FilesAccounted, Uploading, Handles
<1>6. TargetsAccounted
  BY <1>1, <1>4 DEF TargetsAccounted, BannersLeadSomewhere
<1>7. StampsPast
  BY <1>1, <1>4 DEF StampsPast
<1>8. KeptAccounted
  BY DEF InitMarketing, KeptAccounted
<1>9. QED
  BY <1>3, <1>5, <1>6, <1>7, <1>8 DEF MarketingInv

LEMMA MarketingSteps ==
    ASSUME MarketingInv, [NextMarketing]_bannerVars
    PROVE  MarketingInv'
<1>1. ASSUME NEW r \in Staff, EditBanner(r)
      PROVE  MarketingInv'
  BY <1>1, ResolveKeeps, SaveBannerKeeps, EndsKeep DEF EditBanner
<1>2. ASSUME NEW r \in Staff, RemoveImage(r)
      PROVE  MarketingInv'
  BY <1>2, SnapShotKeeps, RemoveMetadataKeeps, EndsKeep DEF RemoveImage
<1>3. ASSUME NEW r \in Staff, RemoveTarget(r)
      PROVE  MarketingInv'
  BY <1>3, LookForBannerKeeps, EndsKeep DEF RemoveTarget
<1>4. CASE UNCHANGED bannerVars
  <2>1. MarketingTypeOK /\ FilesAccounted /\ TargetsAccounted /\ StampsPast /\ KeptAccounted
    BY DEF MarketingInv
  <2>2. UNCHANGED <<banner, imageRows, imageFiles, uploads, targetRows, office, second, keptBanners, leaked, passed>>
    BY <1>4 DEF bannerVars
  <2>3. ExistingBanners' = ExistingBanners
    BY <2>2 DEF ExistingBanners, Exists
  <2>4. MarketingTypeOK' /\ StampsPast' /\ TargetsAccounted'
    BY <2>1, <2>2, <2>3 DEF MarketingTypeOK, StampsPast, TargetsAccounted, BannersLeadSomewhere
  <2>5. FilesAccounted'
    BY <2>1, <2>2, <2>3, FilesStay
  <2>6. KeptAccounted'
    BY <2>1, <2>2, KeptStays DEF MarketingTypeOK
  <2>7. QED
    BY <2>4, <2>5, <2>6 DEF MarketingInv
<1>5. QED
  BY <1>1, <1>2, <1>3, <1>4, RemoveBannerKeeps, ReorderKeeps, FetchKeeps, SecondKeeps DEF NextMarketing

\* A tag that fits is that of the same banners: what is shown now was shown then,
\* for a stamp beyond the fetch would have raised the tag, and there are as many.
LEMMA TagTells ==
    ASSUME MarketingInv
    PROVE  TagTellsBanners
<1>1. MarketingTypeOK /\ KeptAccounted
  BY DEF MarketingInv
<1>2. SUFFICES ASSUME keptBanners # NothingKept, keptBanners.tag = BannerTag, ~passed
               PROVE  keptBanners.rows = ActiveBanners
  BY DEF TagTellsBanners
<1>3. PICK old : keptBanners.tag = TagOfRows(old) /\ keptBanners.rows = BannerList(old) /\ Remembered(old, keptBanners.at)
  BY <1>1, <1>2 DEF KeptAccounted
<1> DEFINE now == [b \in Active |-> banner[b]]
           oldStamps == [b \in DOMAIN old |-> old[b].stamp]
           nowStamps == [b \in Active |-> banner[b].stamp]
           newest(stamps, S) == Max({0} \cup {stamps[b] : b \in S})
<1>4. Cardinality(DOMAIN old) = Cardinality(Active) /\ newest(oldStamps, DOMAIN old) = newest(nowStamps, Active)
  <2>1. TagOfRows(old) = BannerTag
    BY <1>2, <1>3
  <2>2. {old[b].stamp : b \in DOMAIN old} = {oldStamps[b] : b \in DOMAIN old}
    OBVIOUS
  <2>3. {banner[b].stamp : b \in Active} = {nowStamps[b] : b \in Active}
    OBVIOUS
  <2>4. QED
    BY <2>1, <2>2, <2>3 DEF TagOfRows, BannerTag
<1>5. keptBanners.at \in Nat
  BY <1>1, <1>2 DEF KeptAccounted
<1>6. IsFiniteSet(DOMAIN old) /\ \A b \in DOMAIN old : oldStamps[b] \in Nat /\ oldStamps[b] <= keptBanners.at
  BY <1>3 DEF Remembered
<1>7. IsFiniteSet(Active) /\ \A b \in Active : nowStamps[b] \in Nat /\ nowStamps[b] = banner[b].stamp
  BY <1>1, ActiveFinite
<1> HIDE DEF oldStamps, nowStamps
<1>8. newest(oldStamps, DOMAIN old) \in Nat /\ newest(oldStamps, DOMAIN old) <= keptBanners.at
  BY <1>5, <1>6, NewestFacts
<1>9. newest(nowStamps, Active) \in Nat /\ \A b \in Active : nowStamps[b] <= newest(nowStamps, Active)
  BY <1>7, NewestFacts
<1> HIDE DEF newest
<1>10. \A b \in Active : b \in DOMAIN old /\ banner[b] = old[b]
  BY <1>3, <1>4, <1>5, <1>7, <1>8, <1>9 DEF Remembered
<1>11. DOMAIN old = Active
  BY <1>4, <1>6, <1>10, FS_Subset
<1>12. old = now
  BY <1>3, <1>10, <1>11 DEF Remembered
<1>13. QED
  BY <1>3, <1>12, TagNow

LEMMA MarketingConcludes ==
    ASSUME MarketingInv
    PROVE  MarketingHolds
<1>1. BannersShowImages
  BY DEF MarketingInv, FilesAccounted, BannersShowImages, Uploading
<1>2. BannersLeadSomewhere
  BY DEF MarketingInv, TargetsAccounted
<1>3. QED
  BY <1>1, <1>2, TagTells DEF MarketingHolds

\* A banner shows an image whose file is there, leads somewhere, and a client that is
\* told that its banners are up to date has those that are shown.
THEOREM MarketingCorrect == MarketingSpec => []MarketingHolds
<1>1. InitMarketing => MarketingInv
  BY MarketingStarts
<1>2. MarketingInv /\ [NextMarketing]_bannerVars => MarketingInv'
  BY MarketingSteps
<1>3. MarketingInv => MarketingHolds
  BY MarketingConcludes
<1>4. QED
  BY <1>1, <1>2, <1>3, PTL DEF MarketingSpec

-----------------------------------------------------------------------------
(* Collections: their slugs.                                               *)
-----------------------------------------------------------------------------

CollectionRow(row) ==
    /\ row = [slug |-> row.slug, status |-> row.status, place |-> row.place]
    /\ row.status \in {"ACTIVE", "INACTIVE", "gone"} /\ row.place \in Nat

RowsTypeOK == IsSeq(collection) /\ \A c \in DOMAIN collection : CollectionRow(collection[c])

CollectionSave(save) ==
    \/ save = NoSave
    \/ /\ save = [at |-> save.at, id |-> save.id, base |-> save.base, status |-> save.status,
                  slug |-> save.slug, place |-> save.place, tries |-> save.tries, rivals |-> save.rivals]
       /\ save.at \in {"chosen", "beaten", "refused"}
       /\ save.id \in Nat /\ save.base \in CollectionSlugs /\ save.status \in {"ACTIVE", "INACTIVE"}
       /\ save.place \in Nat /\ save.tries \in {1, 2} /\ save.rivals \in Nat

SavesTypeOK ==
    /\ collectionSave = [w \in CollectionSavers |-> collectionSave[w]]
    /\ \A w \in CollectionSavers : CollectionSave(collectionSave[w])

\* A slug that was free when it was chosen is taken only by a save in between.
SaveAccounted(save, others) ==
    /\ save.at = "chosen" => /\ save.tries <= save.rivals + 1
                             /\ save.slug \in others => save.tries <= save.rivals
    /\ save.at = "beaten" => save.tries = 1 /\ 1 <= save.rivals
    /\ save.at = "refused" => 2 <= save.rivals

SavesAccounted ==
    \A w \in CollectionSavers : SaveAccounted(collectionSave[w], SlugsOfOthers(collectionSave[w].id))

SlugsInv == RowsTypeOK /\ SavesTypeOK /\ SavesAccounted

\* Ids and slugs.
LEMMA ThereFinite ==
    ASSUME RowsTypeOK
    PROVE  /\ DOMAIN collection = 1 .. Len(collection) /\ Len(collection) \in Nat
           /\ There \subseteq 1 .. Len(collection) /\ IsFiniteSet(There)
<1>1. DOMAIN collection = 1 .. Len(collection) /\ Len(collection) \in Nat
  BY SeqFacts DEF RowsTypeOK
<1>2. There \subseteq 1 .. Len(collection)
  BY <1>1 DEF There
<1>3. IsFiniteSet(1 .. Len(collection))
  BY <1>1, FS_Interval
<1>4. QED
  BY <1>1, <1>2, <1>3, FS_Subset

\* The numbers are one more than the collections: one of them is free.
LEMMA SomeSlugFree ==
    ASSUME RowsTypeOK, NEW base \in CollectionSlugs, NEW id
    PROVE  \E n \in 2 .. Len(collection) + 2 : Append(base, n) \notin SlugsOfOthers(id)
<1> DEFINE L == Len(collection)
           N == 2 .. L + 2
           C == 1 .. L
<1>1. SUFFICES ASSUME \A n \in N : Append(base, n) \in SlugsOfOthers(id)
               PROVE  FALSE
  OBVIOUS
<1>2. L \in Nat /\ There \subseteq C
  BY ThereFinite
<1>3. \A n \in N : \E c \in C : collection[c].slug = Append(base, n)
  BY <1>1, <1>2 DEF SlugsOfOthers
<1> DEFINE f == [n \in N |-> CHOOSE c \in C : collection[c].slug = Append(base, n)]
<1>4. f \in [N -> C] /\ \A n \in N : collection[f[n]].slug = Append(base, n)
  BY <1>3
<1>5. IsSeq(base)
  <2>1. Len(base) \in Nat /\ base = [n \in 1 .. Len(base) |-> base[n]]
    BY CollectionAssumption
  <2>2. base \in [1 .. Len(base) -> ToSet(base)]
    BY <2>1 DEF ToSet
  <2>3. QED
    BY <2>1, <2>2 DEF IsSeq
<1>6. \A n \in N, m \in N : f[n] = f[m] => n = m
  <2>1. SUFFICES ASSUME NEW n \in N, NEW m \in N, f[n] = f[m]
                 PROVE  n = m
    OBVIOUS
  <2>2. Append(base, n) = Append(base, m)
    BY <1>4, <2>1
  <2>3. Append(base, n)[Len(base) + 1] = n /\ Append(base, m)[Len(base) + 1] = m
    BY <1>5, AppendFacts
  <2>4. QED
    BY <2>2, <2>3
<1>7. IsFiniteSet(C) /\ IsFiniteSet(N) /\ Cardinality(C) = L /\ Cardinality(N) = L + 1
  <2>1. IsFiniteSet(C) /\ Cardinality(C) = L
    BY <1>2, FS_Interval
  <2>2. IsFiniteSet(N) /\ Cardinality(N) = (L + 2) - 2 + 1
    BY <1>2, FS_Interval
  <2>3. QED
    BY <1>2, <2>1, <2>2
<1> HIDE DEF f, N, C, L
<1>8. Cardinality(N) > Cardinality(C)
  BY <1>2, <1>7
<1>9. QED
  BY <1>4, <1>6, <1>7, <1>8, FS_PigeonHole

LEMMA ChosenSlugFree ==
    ASSUME RowsTypeOK, NEW base \in CollectionSlugs, NEW id
    PROVE  generateUniqueSlug(base, id) \notin SlugsOfOthers(id)
<1> DEFINE T == {n \in 2 .. Len(collection) + 2 : Append(base, n) \notin SlugsOfOthers(id)}
<1>1. T \in SUBSET Nat /\ T # {}
  BY SomeSlugFree, ThereFinite
<1>2. \A n \in T : Append(base, n) \notin SlugsOfOthers(id)
  OBVIOUS
<1>3. generateUniqueSlug(base, id) = IF base \notin SlugsOfOthers(id) THEN base ELSE Append(base, Min(T))
  BY DEF generateUniqueSlug
<1> HIDE DEF T
<1>4. Min(T) \in T
  BY <1>1, MinFacts
<1>5. QED
  BY <1>2, <1>3, <1>4

LEMMA PlaceIsNumber ==
    ASSUME RowsTypeOK
    PROVE  getNextSortOrder \in Nat
<1> DEFINE f == [c \in There |-> collection[c].place + 1]
<1>1. {collection[c].place + 1 : c \in There} = {f[c] : c \in There}
  OBVIOUS
<1>2. \A c \in There : f[c] \in Nat
  BY DEF RowsTypeOK, CollectionRow, There
<1>3. IsFiniteSet(There)
  BY ThereFinite
<1> HIDE DEF f
<1>4. Max({0} \cup {f[c] : c \in There}) \in Nat
  BY <1>2, <1>3, NewestFacts
<1>5. QED
  BY <1>1, <1>4 DEF getNextSortOrder

\* What is said of the saves while no slug comes to be taken.
LEMMA SavesStay ==
    ASSUME SavesAccounted, UNCHANGED collectionSave, \A id : SlugsOfOthers(id)' \subseteq SlugsOfOthers(id)
    PROVE  SavesAccounted'
<1>1. SUFFICES ASSUME NEW w \in CollectionSavers
               PROVE  SaveAccounted(collectionSave[w], SlugsOfOthers(collectionSave[w].id))'
  BY DEF SavesAccounted
<1>2. SaveAccounted(collectionSave[w], SlugsOfOthers(collectionSave[w].id))
  BY DEF SavesAccounted
<1>3. SlugsOfOthers(collectionSave[w].id)' \subseteq SlugsOfOthers(collectionSave[w].id)
  <2>1. PICK id : id = collectionSave[w].id
    OBVIOUS
  <2>2. SlugsOfOthers(id)' \subseteq SlugsOfOthers(id)
    OBVIOUS
  <2>3. QED
    BY <2>1, <2>2
<1>4. QED
  BY <1>2, <1>3 DEF SaveAccounted

\* One request's save becomes another; the collections stay as they are.
LEMMA OneSaves ==
    ASSUME SlugsInv, NEW w \in CollectionSavers, NEW save, CollectionSave(save),
           collectionSave' = [collectionSave EXCEPT ![w] = save], UNCHANGED collection,
           SaveAccounted(save, SlugsOfOthers(save.id))
    PROVE  SlugsInv'
<1>1. RowsTypeOK /\ SavesTypeOK /\ SavesAccounted
  BY DEF SlugsInv
<1>2. /\ collectionSave'[w] = save
      /\ \A v \in CollectionSavers : v # w => collectionSave'[v] = collectionSave[v]
      /\ collectionSave' = [v \in CollectionSavers |-> collectionSave'[v]]
  BY <1>1 DEF SavesTypeOK
<1>3. RowsTypeOK'
  BY <1>1 DEF RowsTypeOK
<1>4. SavesTypeOK'
  BY <1>1, <1>2 DEF SavesTypeOK
<1>5. \A id : SlugsOfOthers(id)' = SlugsOfOthers(id)
  BY DEF SlugsOfOthers, There
<1>6. ASSUME NEW v \in CollectionSavers
      PROVE  SaveAccounted(collectionSave[v], SlugsOfOthers(collectionSave[v].id))'
  <2>1. PICK new : new = collectionSave'[v]
    OBVIOUS
  <2>2. SaveAccounted(new, SlugsOfOthers(new.id))
    BY <1>1, <1>2, <2>1 DEF SavesAccounted
  <2>3. SaveAccounted(new, SlugsOfOthers(new.id))'
    BY <1>5, <2>2 DEF SaveAccounted
  <2>4. QED
    BY <2>1, <2>3
<1>7. SavesAccounted'
  BY <1>6 DEF SavesAccounted
<1>8. QED
  BY <1>3, <1>4, <1>7 DEF SlugsInv

LEMMA ChooseKeeps ==
    ASSUME SlugsInv, NEW w \in CollectionSavers, ChooseSlug(w)
    PROVE  SlugsInv'
<1>1. RowsTypeOK /\ SavesTypeOK /\ SavesAccounted
  BY DEF SlugsInv
<1>2. UNCHANGED collection
  BY DEF ChooseSlug
<1>3. PICK base \in CollectionSlugs, status \in {"ACTIVE", "INACTIVE"}, id \in There \cup {0} :
        collectionSave' = [collectionSave EXCEPT ![w] =
            [at |-> "chosen", id |-> id, base |-> base, status |-> status, slug |-> generateUniqueSlug(base, id),
             place |-> getNextSortOrder, tries |-> 1, rivals |-> 0]]
  BY DEF ChooseSlug
<1> DEFINE save == [at |-> "chosen", id |-> id, base |-> base, status |-> status, slug |-> generateUniqueSlug(base, id),
                    place |-> getNextSortOrder, tries |-> 1, rivals |-> 0]
<1>4. save.slug \notin SlugsOfOthers(save.id)
  BY <1>1, ChosenSlugFree
<1>5. SaveAccounted(save, SlugsOfOthers(save.id))
  BY <1>4 DEF SaveAccounted
<1>6. id \in Nat /\ getNextSortOrder \in Nat
  BY <1>1, ThereFinite, PlaceIsNumber
<1>7. CollectionSave(save)
  BY <1>6 DEF CollectionSave
<1> HIDE DEF save
<1>8. collectionSave' = [collectionSave EXCEPT ![w] = save]
  BY <1>3 DEF save
<1>9. QED
  BY <1>2, <1>5, <1>7, <1>8, OneSaves

LEMMA NoSaveKeeps ==
    ASSUME SlugsInv, NEW w \in CollectionSavers,
           collectionSave' = [collectionSave EXCEPT ![w] = NoSave], UNCHANGED collection
    PROVE  SlugsInv'
<1>1. CollectionSave(NoSave) /\ SaveAccounted(NoSave, SlugsOfOthers(NoSave.id))
  BY DEF CollectionSave, NoSave, SaveAccounted
<1>2. QED
  BY <1>1, OneSaves

LEMMA SavedAgain ==
    ASSUME NEW id, NEW base, NEW status, NEW slug0, NEW place0, NEW lost, NEW slug, NEW place, NEW tries
    PROVE  [[at |-> "beaten", id |-> id, base |-> base, status |-> status,
             slug |-> slug0, place |-> place0, tries |-> 1, rivals |-> lost]
            EXCEPT !.at = "chosen", !.slug = slug, !.place = place, !.tries = tries]
           = [at |-> "chosen", id |-> id, base |-> base, status |-> status,
              slug |-> slug, place |-> place, tries |-> tries, rivals |-> lost]
<1> DEFINE before == [at |-> "beaten", id |-> id, base |-> base, status |-> status,
                      slug |-> slug0, place |-> place0, tries |-> 1, rivals |-> lost]
           after == [before EXCEPT !.at = "chosen", !.slug = slug, !.place = place, !.tries = tries]
<1>1. after = [[[[before EXCEPT !.at = "chosen"] EXCEPT !.slug = slug] EXCEPT !.place = place] EXCEPT !.tries = tries]
  BY Zenon
<1> DEFINE one == [before EXCEPT !.at = "chosen"]
           two == [one EXCEPT !.slug = slug]
           three == [two EXCEPT !.place = place]
<1>2. one = [at |-> "chosen", id |-> id, base |-> base, status |-> status,
             slug |-> slug0, place |-> place0, tries |-> 1, rivals |-> lost]
  OBVIOUS
<1> HIDE DEF one, before
<1>3. two = [at |-> "chosen", id |-> id, base |-> base, status |-> status,
             slug |-> slug, place |-> place0, tries |-> 1, rivals |-> lost]
  BY <1>2
<1> HIDE DEF two
<1>4. three = [at |-> "chosen", id |-> id, base |-> base, status |-> status,
               slug |-> slug, place |-> place, tries |-> 1, rivals |-> lost]
  BY <1>3
<1> HIDE DEF three, after
<1>5. after = [three EXCEPT !.tries = tries]
  BY <1>1 DEF three, two, one
<1>6. after = [at |-> "chosen", id |-> id, base |-> base, status |-> status,
               slug |-> slug, place |-> place, tries |-> tries, rivals |-> lost]
  BY <1>4, <1>5
<1>7. QED
  BY <1>6 DEF after, before

LEMMA ChooseAgainKeeps ==
    ASSUME SlugsInv, NEW w \in CollectionSavers, ChooseSlugAgain(w)
    PROVE  SlugsInv'
<1> DEFINE save == collectionSave[w]
           slug == generateUniqueSlug(save.base, save.id)
           again == [save EXCEPT !.at = "chosen", !.slug = slug, !.place = getNextSortOrder, !.tries = @ + 1]
<1>1. /\ save.at = "beaten" /\ UNCHANGED collection
      /\ collectionSave' = [collectionSave EXCEPT ![w] = IF save.id \in There \cup {0} THEN again ELSE NoSave]
  BY DEF ChooseSlugAgain
<1>2. RowsTypeOK /\ SavesTypeOK /\ SavesAccounted
  BY DEF SlugsInv
<1>3. SaveAccounted(save, SlugsOfOthers(save.id)) /\ CollectionSave(save)
  BY <1>2 DEF SavesAccounted, SavesTypeOK
<1>4. save.tries = 1 /\ 1 <= save.rivals
  BY <1>1, <1>3 DEF SaveAccounted
<1>5. /\ save = [at |-> save.at, id |-> save.id, base |-> save.base, status |-> save.status,
                 slug |-> save.slug, place |-> save.place, tries |-> save.tries, rivals |-> save.rivals]
      /\ save.id \in Nat /\ save.base \in CollectionSlugs /\ save.status \in {"ACTIVE", "INACTIVE"} /\ save.rivals \in Nat
  BY <1>1, <1>3 DEF CollectionSave, NoSave
<1>6. slug \notin SlugsOfOthers(save.id) /\ getNextSortOrder \in Nat
  BY <1>2, <1>5, ChosenSlugFree, PlaceIsNumber
<1> HIDE DEF save, slug
<1>7. again = [at |-> "chosen", id |-> save.id, base |-> save.base, status |-> save.status,
               slug |-> slug, place |-> getNextSortOrder, tries |-> 2, rivals |-> save.rivals]
  <2>1. save = [at |-> "beaten", id |-> save.id, base |-> save.base, status |-> save.status,
                slug |-> save.slug, place |-> save.place, tries |-> 1, rivals |-> save.rivals]
    BY <1>1, <1>4, <1>5
  <2>2. PICK id, base, status, slug0, place0, lost :
            save = [at |-> "beaten", id |-> id, base |-> base, status |-> status,
                    slug |-> slug0, place |-> place0, tries |-> 1, rivals |-> lost]
    BY <2>1
  <2>3. again = [save EXCEPT !.at = "chosen", !.slug = slug, !.place = getNextSortOrder, !.tries = 2]
    BY <1>4
  <2> HIDE DEF again
  <2>4. again = [at |-> "chosen", id |-> id, base |-> base, status |-> status,
                 slug |-> slug, place |-> getNextSortOrder, tries |-> 2, rivals |-> lost]
    BY <2>2, <2>3, SavedAgain
  <2>5. QED
    BY <2>2, <2>4
<1> HIDE DEF again
<1>8. CollectionSave(again)
  BY <1>5, <1>6, <1>7 DEF CollectionSave
<1>9. SaveAccounted(again, SlugsOfOthers(again.id))
  BY <1>4, <1>5, <1>6, <1>7 DEF SaveAccounted
<1>10. CASE save.id \in There \cup {0}
  BY <1>1, <1>8, <1>9, <1>10, OneSaves
<1>11. CASE save.id \notin There \cup {0}
  BY <1>1, <1>11, NoSaveKeeps
<1>12. QED
  BY <1>10, <1>11

LEMMA TakenKeeps ==
    ASSUME SlugsInv, NEW w \in CollectionSavers, SlugTaken(w)
    PROVE  SlugsInv'
<1> DEFINE save == collectionSave[w]
           at == IF save.tries = 1 THEN "beaten" ELSE "refused"
           after == [save EXCEPT !.at = at]
<1>1. /\ save.at = "chosen" /\ save.slug \in SlugsOfOthers(save.id) /\ UNCHANGED collection
      /\ collectionSave' = [collectionSave EXCEPT ![w].at = at]
  BY DEF SlugTaken
<1>2. RowsTypeOK /\ SavesTypeOK /\ SavesAccounted
  BY DEF SlugsInv
<1>3. SaveAccounted(save, SlugsOfOthers(save.id)) /\ CollectionSave(save)
  BY <1>2 DEF SavesAccounted, SavesTypeOK
<1>4. save.tries <= save.rivals
  BY <1>1, <1>3 DEF SaveAccounted
<1>5. /\ save = [at |-> save.at, id |-> save.id, base |-> save.base, status |-> save.status,
                 slug |-> save.slug, place |-> save.place, tries |-> save.tries, rivals |-> save.rivals]
      /\ save.id \in Nat /\ save.base \in CollectionSlugs /\ save.status \in {"ACTIVE", "INACTIVE"}
      /\ save.place \in Nat /\ save.tries \in {1, 2} /\ save.rivals \in Nat
  BY <1>1, <1>3 DEF CollectionSave, NoSave
<1>6. collectionSave' = [collectionSave EXCEPT ![w] = after]
  BY <1>1
<1> HIDE DEF save
<1>7. after = [at |-> at, id |-> save.id, base |-> save.base, status |-> save.status,
               slug |-> save.slug, place |-> save.place, tries |-> save.tries, rivals |-> save.rivals]
  BY <1>5
<1>8. (at = "beaten" /\ save.tries = 1) \/ (at = "refused" /\ save.tries = 2)
  BY <1>5
<1> HIDE DEF after, at
<1>9. CollectionSave(after)
  BY <1>5, <1>7, <1>8 DEF CollectionSave
<1>10. SaveAccounted(after, SlugsOfOthers(after.id))
  BY <1>4, <1>5, <1>7, <1>8 DEF SaveAccounted
<1>11. QED
  BY <1>1, <1>6, <1>9, <1>10, OneSaves

LEMMA LeaveKeeps ==
    ASSUME SlugsInv, NEW w \in CollectionSavers, LeaveSave(w)
    PROVE  SlugsInv'
BY NoSaveKeeps DEF LeaveSave

\* One more save by somebody else.
LEMMA RivalMore ==
    ASSUME NEW save, CollectionSave(save), save.at \in {"chosen", "beaten"},
           NEW others, NEW more, SaveAccounted(save, others)
    PROVE  LET after == [save EXCEPT !.rivals = @ + 1]
           IN  CollectionSave(after) /\ SaveAccounted(after, more) /\ after.id = save.id
<1> DEFINE after == [save EXCEPT !.rivals = @ + 1]
<1>1. /\ save = [at |-> save.at, id |-> save.id, base |-> save.base, status |-> save.status,
                 slug |-> save.slug, place |-> save.place, tries |-> save.tries, rivals |-> save.rivals]
      /\ save.id \in Nat /\ save.base \in CollectionSlugs /\ save.status \in {"ACTIVE", "INACTIVE"}
      /\ save.place \in Nat /\ save.tries \in {1, 2} /\ save.rivals \in Nat
  BY DEF CollectionSave, NoSave
<1>2. after = [at |-> save.at, id |-> save.id, base |-> save.base, status |-> save.status,
               slug |-> save.slug, place |-> save.place, tries |-> save.tries, rivals |-> save.rivals + 1]
  BY <1>1
<1> HIDE DEF after
<1>3. CollectionSave(after)
  BY <1>1, <1>2 DEF CollectionSave
<1>4. SaveAccounted(after, more)
  BY <1>1, <1>2 DEF SaveAccounted
<1>5. QED
  BY <1>2, <1>3, <1>4 DEF after

\* A row that is added, or written again.
LEMMA RowAdded ==
    ASSUME RowsTypeOK, NEW row, CollectionRow(row), collection' = Append(collection, row)
    PROVE  RowsTypeOK'
<1>1. IsSeq(collection') /\ Len(collection') = Len(collection) + 1
  BY AppendFacts DEF RowsTypeOK
<1>2. /\ collection'[Len(collection) + 1] = row
      /\ \A c \in 1 .. Len(collection) : collection'[c] = collection[c]
  BY AppendFacts DEF RowsTypeOK
<1>3. DOMAIN collection' = 1 .. Len(collection) + 1 /\ DOMAIN collection = 1 .. Len(collection) /\ Len(collection) \in Nat
  BY <1>1, SeqFacts DEF RowsTypeOK
<1>4. \A c \in DOMAIN collection' : c = Len(collection) + 1 \/ c \in DOMAIN collection
  BY <1>3
<1>5. \A c \in DOMAIN collection' : CollectionRow(collection'[c])
  BY <1>2, <1>3, <1>4 DEF RowsTypeOK
<1>6. QED
  BY <1>1, <1>5 DEF RowsTypeOK

\* Rows may be written again, each as a row.
LEMMA RowsWritten ==
    ASSUME RowsTypeOK, DOMAIN collection' = DOMAIN collection, collection' = [c \in DOMAIN collection |-> collection'[c]],
           \A c \in DOMAIN collection : CollectionRow(collection'[c])
    PROVE  RowsTypeOK'
<1>1. Len(collection) \in Nat /\ DOMAIN collection = 1 .. Len(collection)
  BY ThereFinite
<1> DEFINE S == {collection'[c] : c \in DOMAIN collection}
<1>2. collection' \in [1 .. Len(collection) -> S]
  BY <1>1
<1>3. collection' \in Seq(S)
  BY <1>1, <1>2
<1>4. IsSeq(collection')
  BY <1>3, SeqOfAny
<1>5. QED
  BY <1>4 DEF RowsTypeOK

LEMMA WriteKeeps ==
    ASSUME SlugsInv, NEW w \in CollectionSavers, WriteCollection(w)
    PROVE  SlugsInv'
<1> DEFINE save == collectionSave[w]
<1>1. /\ save.at = "chosen" /\ save.id \in There \cup {0}
      /\ collection' = IF save.id = 0
                       THEN Append(collection, [slug |-> save.slug, status |-> save.status, place |-> save.place])
                       ELSE [collection EXCEPT ![save.id].slug = save.slug, ![save.id].status = save.status]
      /\ collectionSave' = [v \in CollectionSavers |->
              IF v = w THEN NoSave
              ELSE IF collectionSave[v].at \in {"chosen", "beaten"}
              THEN [collectionSave[v] EXCEPT !.rivals = @ + 1] ELSE collectionSave[v]]
  BY DEF WriteCollection
<1>2. RowsTypeOK /\ SavesTypeOK /\ SavesAccounted
  BY DEF SlugsInv
<1>3. save.status \in {"ACTIVE", "INACTIVE"} /\ save.place \in Nat
  BY <1>1, <1>2 DEF SavesTypeOK, CollectionSave, NoSave
<1>4. RowsTypeOK'
  <2>1. CASE save.id = 0
    <3>1. CollectionRow([slug |-> save.slug, status |-> save.status, place |-> save.place])
      BY <1>3 DEF CollectionRow
    <3>2. QED
      BY <1>1, <1>2, <2>1, <3>1, RowAdded
  <2>2. CASE save.id # 0
    <3> DEFINE id == save.id
    <3>1. id \in There /\ collection' = [collection EXCEPT ![id].slug = save.slug, ![id].status = save.status]
      BY <1>1, <2>2
    <3>2. id \in DOMAIN collection /\ CollectionRow(collection[id])
      BY <1>2, <3>1 DEF There, RowsTypeOK
    <3>3. /\ DOMAIN collection' = DOMAIN collection
          /\ collection' = [c \in DOMAIN collection |-> collection'[c]]
          /\ \A c \in DOMAIN collection : c # id => collection'[c] = collection[c]
      BY <3>1
    <3>4. collection'[id] = [slug |-> save.slug, status |-> save.status, place |-> collection[id].place]
      <4>1. PICK row : row = collection[id]
        OBVIOUS
      <4>2. row = [slug |-> row.slug, status |-> row.status, place |-> row.place]
        BY <3>2, <4>1 DEF CollectionRow
      <4>3. collection'[id] = [[row EXCEPT !.slug = save.slug] EXCEPT !.status = save.status]
        BY <3>1, <3>2, <4>1
      <4>4. QED
        BY <4>1, <4>2, <4>3
    <3>5. CollectionRow(collection'[id])
      BY <1>3, <3>2, <3>4 DEF CollectionRow
    <3>6. QED
      BY <1>2, <3>2, <3>3, <3>5, RowsWritten DEF RowsTypeOK
  <2>3. QED
    BY <2>1, <2>2
<1>5. ASSUME NEW v \in CollectionSavers
      PROVE  CollectionSave(collectionSave'[v]) /\ SaveAccounted(collectionSave[v], SlugsOfOthers(collectionSave[v].id))'
  <2>1. PICK new, others : new = collectionSave'[v] /\ others = SlugsOfOthers(collectionSave[v].id)'
    OBVIOUS
  <2>2. CollectionSave(collectionSave[v]) /\ SaveAccounted(collectionSave[v], SlugsOfOthers(collectionSave[v].id))
    BY <1>2 DEF SavesTypeOK, SavesAccounted
  <2>3. CASE v = w
    <3>1. new = NoSave
      BY <1>1, <2>1, <2>3
    <3>2. CollectionSave(new) /\ SaveAccounted(new, others)
      BY <3>1 DEF CollectionSave, NoSave, SaveAccounted
    <3>3. QED
      BY <2>1, <3>2 DEF SaveAccounted
  <2>4. CASE v # w /\ collectionSave[v].at \in {"chosen", "beaten"}
    <3>1. new = [collectionSave[v] EXCEPT !.rivals = @ + 1]
      BY <1>1, <2>1, <2>4
    <3>2. CollectionSave(new) /\ SaveAccounted(new, others)
      BY <2>2, <2>4, <3>1, RivalMore
    <3>3. QED
      BY <2>1, <3>2 DEF SaveAccounted
  <2>5. CASE v # w /\ collectionSave[v].at \notin {"chosen", "beaten"}
    <3>1. new = collectionSave[v]
      BY <1>1, <2>1, <2>5
    <3>2. CollectionSave(new) /\ SaveAccounted(new, others)
      BY <2>2, <2>5, <3>1 DEF SaveAccounted
    <3>3. QED
      BY <2>1, <3>2 DEF SaveAccounted
  <2>6. QED
    BY <2>3, <2>4, <2>5
<1>6. SavesTypeOK' /\ SavesAccounted'
  <2>1. collectionSave' = [v \in CollectionSavers |-> collectionSave'[v]]
    BY <1>1
  <2>2. QED
    BY <1>5, <2>1 DEF SavesTypeOK, SavesAccounted
<1>7. QED
  BY <1>4, <1>6 DEF SlugsInv

LEMMA ReorderCollectionsKeeps ==
    ASSUME SlugsInv, ReorderCollections
    PROVE  SlugsInv'
<1>1. collectionSave' = collectionSave
  BY DEF ReorderCollections
<1>p. PICK S \in SUBSET (DOMAIN collection) : \E place \in [S -> 1 .. MaxSortOrder] :
        collection' = [c \in DOMAIN collection |->
            IF c \in S \cap There THEN [collection[c] EXCEPT !.place = place[c]] ELSE collection[c]]
  BY DEF ReorderCollections
<1>2. PICK place \in [S -> 1 .. MaxSortOrder] :
        collection' = [c \in DOMAIN collection |->
            IF c \in S \cap There THEN [collection[c] EXCEPT !.place = place[c]] ELSE collection[c]]
  BY <1>p
<1>3. RowsTypeOK /\ SavesTypeOK /\ SavesAccounted
  BY DEF SlugsInv
<1>3c. \A c \in DOMAIN collection :
          collection'[c] = IF c \in S \cap There THEN [collection[c] EXCEPT !.place = place[c]] ELSE collection[c]
  BY <1>2, Zenon
<1>4. ASSUME NEW c \in DOMAIN collection
      PROVE  CollectionRow(collection'[c]) /\ collection'[c].slug = collection[c].slug /\ collection'[c].status = collection[c].status
  <2>1. CollectionRow(collection[c])
    BY <1>3 DEF RowsTypeOK
  <2>2. CASE c \in S \cap There
    <3>1. place[c] \in Nat
      BY <2>2, CollectionAssumption
    <3>2. collection'[c] = [collection[c] EXCEPT !.place = place[c]]
      BY <1>3c, <2>2, Zenon
    <3>r. PICK row : row = collection[c]
      OBVIOUS
    <3>n. PICK n : n = place[c]
      OBVIOUS
    <3>3. row = collection[c] /\ n = place[c] /\ n \in Nat
      BY <3>1, <3>r, <3>n
    <3>4. row = [slug |-> row.slug, status |-> row.status, place |-> row.place] /\ row.status \in {"ACTIVE", "INACTIVE", "gone"}
      BY <2>1, <3>3 DEF CollectionRow
    <3>5. collection'[c] = [slug |-> row.slug, status |-> row.status, place |-> n]
      BY <3>2, <3>3, <3>4
    <3>6. QED
      BY <3>3, <3>4, <3>5 DEF CollectionRow
  <2>3. CASE c \notin S \cap There
    BY <1>3c, <2>1, <2>3
  <2>4. QED
    BY <2>2, <2>3
<1>5. DOMAIN collection' = DOMAIN collection /\ collection' = [c \in DOMAIN collection |-> collection'[c]]
  BY <1>2
<1>6. RowsTypeOK'
  BY <1>3, <1>4, <1>5, RowsWritten
<1>7. There' = There
  BY <1>4, <1>5 DEF There
<1>8. \A id : SlugsOfOthers(id)' \subseteq SlugsOfOthers(id)
  BY <1>4, <1>7 DEF SlugsOfOthers, There
<1>9. SavesAccounted'
  BY <1>1, <1>3, <1>8, SavesStay
<1>10. QED
  BY <1>1, <1>3, <1>6, <1>9 DEF SlugsInv, SavesTypeOK

LEMMA RemoveCollectionKeeps ==
    ASSUME SlugsInv, NEW c \in DOMAIN collection, RemoveCollection(c)
    PROVE  SlugsInv'
<1> DEFINE goneRow == [slug |-> <<>>, status |-> "gone", place |-> 0]
<1>1. collectionSave' = collectionSave /\ collection' = [collection EXCEPT ![c] = goneRow]
  BY DEF RemoveCollection
<1>2. RowsTypeOK /\ SavesTypeOK /\ SavesAccounted
  BY DEF SlugsInv
<1>3. CollectionRow(goneRow) /\ goneRow.status = "gone"
  BY DEF CollectionRow
<1> HIDE DEF goneRow
<1>4. /\ DOMAIN collection' = DOMAIN collection /\ collection' = [d \in DOMAIN collection |-> collection'[d]]
      /\ collection'[c] = goneRow /\ \A d \in DOMAIN collection : d # c => collection'[d] = collection[d]
  BY <1>1
<1>5. RowsTypeOK'
  BY <1>2, <1>3, <1>4, RowsWritten DEF RowsTypeOK
<1>6. There' \subseteq There /\ \A d \in There' : d # c /\ collection'[d].slug = collection[d].slug
  BY <1>3, <1>4 DEF There
<1>7. \A id : SlugsOfOthers(id)' \subseteq SlugsOfOthers(id)
  BY <1>6 DEF SlugsOfOthers
<1>8. SavesAccounted'
  BY <1>1, <1>2, <1>7, SavesStay
<1>9. QED
  BY <1>1, <1>2, <1>5, <1>8 DEF SlugsInv, SavesTypeOK

LEMMA OthersKeepSlugs ==
    ASSUME SlugsInv, UNCHANGED <<collection, collectionSave>>
    PROVE  SlugsInv'
<1>1. RowsTypeOK /\ SavesTypeOK /\ SavesAccounted
  BY DEF SlugsInv
<1>2. \A id : SlugsOfOthers(id)' \subseteq SlugsOfOthers(id)
  BY DEF SlugsOfOthers, There
<1>3. SavesAccounted'
  BY <1>1, <1>2, SavesStay
<1>4. QED
  BY <1>1, <1>3 DEF SlugsInv, RowsTypeOK, SavesTypeOK

LEMMA SlugsStart ==
    ASSUME InitCollections
    PROVE  SlugsInv
<1> DEFINE slugs == {FirstCollections[c].slug : c \in DOMAIN FirstCollections}
           Row == [slug : slugs, status : {"ACTIVE", "INACTIVE"}, place : Nat]
<1>1. FirstCollections \in Seq(Row) /\ collection = FirstCollections
  BY CollectionAssumption DEF InitCollections
<1> HIDE DEF slugs
<1>2. ASSUME NEW row \in Row PROVE CollectionRow(row)
  <2>1. row.status \in {"ACTIVE", "INACTIVE", "gone"} /\ row.place \in Nat
    OBVIOUS
  <2>2. row = [slug |-> row.slug, status |-> row.status, place |-> row.place]
    OBVIOUS
  <2>3. QED
    BY <2>1, <2>2, Zenon DEF CollectionRow
<1> HIDE DEF Row
<1>3. \A c \in DOMAIN FirstCollections : FirstCollections[c] \in Row
  BY <1>1
<1>4. IsSeq(FirstCollections)
  BY <1>1, SeqOfAny
<1>5. RowsTypeOK
  BY <1>1, <1>2, <1>3, <1>4 DEF RowsTypeOK
<1>6. \A w \in CollectionSavers : collectionSave[w] = NoSave /\ NoSave.at = "idle"
  BY DEF InitCollections, NoSave
<1>7. SavesTypeOK
  BY <1>6 DEF SavesTypeOK, CollectionSave, InitCollections
<1>8. SavesAccounted
  BY <1>6 DEF SavesAccounted, SaveAccounted
<1>9. QED
  BY <1>5, <1>7, <1>8 DEF SlugsInv

-----------------------------------------------------------------------------
(* The first page.                                                         *)
-----------------------------------------------------------------------------

HomeRow == [status : {"ACTIVE", "INACTIVE"}, stamp : Nat, card : Nat, in : SUBSET Nat]

HomeTypeOK ==
    /\ homeChanges \in Nat
    /\ onHome \in [HomeProducts -> HomeRow]
    /\ \A p \in HomeProducts : onHome[p].in \subseteq There /\ onHome[p].stamp <= homeChanges

Gone(c) == c \in DOMAIN collection /\ collection[c].status = "gone"

\* The products as they were at a time: each is as it was, but for collections that
\* went, or was stamped since.
Remembers(old, t) ==
    /\ t \in Nat /\ t <= homeChanges
    /\ \A p \in HomeProducts :
        \/ t < onHome[p].stamp
        \/ /\ onHome[p].status = old[p].status /\ onHome[p].card = old[p].card
           /\ onHome[p].in \subseteq old[p].in
           /\ \A c \in old[p].in : c \in onHome[p].in \/ Gone(c)

\* The first page, as it was made of rows and products.
ThereIn(rows) == {c \in DOMAIN rows : rows[c].status # "gone"}
MembersOf(rows, old) == {pc \in HomeProducts \X ThereIn(rows) : pc[2] \in old[pc[1]].in}
ShownOf(old, c) == {p \in HomeProducts : c \in old[p].in /\ old[p].status = "ACTIVE"}
PreviewIn(rows, old, c) ==
    LET first == NewestFirst(ShownOf(old, c)) IN
    [id |-> c, slug |-> rows[c].slug, hasMore |-> Len(first) > HomeLimit,
     products |-> [k \in 1 .. Min({HomeLimit, Len(first)}) |-> <<first[k], old[first[k]].card>>]]
ShownIn(rows, old) == {c \in ThereIn(rows) : rows[c].status = "ACTIVE" /\ NewestFirst(ShownOf(old, c)) # <<>>}
InPlace(rows, S) ==
    {cd \in S \X S : \/ rows[cd[1]].place < rows[cd[2]].place
                     \/ rows[cd[1]].place = rows[cd[2]].place /\ cd[1] < cd[2]}
HomePageOf(rows, old) ==
    LET sorted == SortedBy(ShownIn(rows, old), InPlace(rows, ShownIn(rows, old)))
    IN  [n \in DOMAIN sorted |-> PreviewIn(rows, old, sorted[n])]

HomeAccounted ==
    keptHome # NoHome =>
        \/ keptHome.overtaken
        \/ \E old, t : /\ keptHome.page = HomePageOf(keptHome.rows, old)
                       /\ keptHome.members = MembersOf(keptHome.rows, old)
                       /\ keptHome.tag \in Nat /\ keptHome.tag <= t
                       /\ Remembers(old, t)

HomeInv == SlugsInv /\ HomeTypeOK /\ HomeAccounted

LEMMA PageNow == HomePage = HomePageOf(collection, onHome) /\ InCollection = MembersOf(collection, onHome)
<1>1. There = ThereIn(collection)
  BY DEF There, ThereIn
<1>2. \A c : Previewed(c) = NewestFirst(ShownOf(onHome, c))
  BY DEF Previewed, ShownOf
<1>3. \A c : PreviewOf(c) = PreviewIn(collection, onHome, c)
  BY <1>2 DEF PreviewOf, PreviewIn
<1>4. {c \in There : collection[c].status = "ACTIVE" /\ Previewed(c) # <<>>} = ShownIn(collection, onHome)
  BY <1>1, <1>2 DEF ShownIn
<1>5. HomePage = HomePageOf(collection, onHome)
  BY <1>3, <1>4 DEF HomePage, HomePageOf, InPlace
<1>6. QED
  BY <1>1, <1>5 DEF InCollection, MembersOf

\* The tag is the newest stamp in a collection that is shown.
LEMMA TagIsNewest ==
    ASSUME RowsTypeOK, HomeTypeOK
    PROVE  /\ HomeTag \in Nat /\ HomeTag <= homeChanges
           /\ \A p \in HomeProducts, c \in There :
                c \in onHome[p].in /\ collection[c].status = "ACTIVE" => onHome[p].stamp <= HomeTag
<1> DEFINE S == {x \in InCollection : collection[x[2]].status = "ACTIVE"}
           f == [pc \in S |-> onHome[pc[1]].stamp]
<1>1. IsFiniteSet(HomeProducts \X There)
  BY ThereFinite, CollectionAssumption, FS_Product
<1>2. S \subseteq HomeProducts \X There
  BY DEF InCollection
<1>3. IsFiniteSet(S)
  BY <1>1, <1>2, FS_Subset
<1>4. \A pc \in S : f[pc] \in Nat /\ f[pc] <= homeChanges
  BY <1>2 DEF HomeTypeOK, HomeRow
<1>5. {onHome[pc[1]].stamp : pc \in S} = {f[pc] : pc \in S}
  OBVIOUS
<1>6. \A p \in HomeProducts, c \in There :
        c \in onHome[p].in /\ collection[c].status = "ACTIVE" => <<p, c>> \in S /\ f[<<p, c>>] = onHome[p].stamp
  BY DEF InCollection
<1>7. HomeTag = Max({0} \cup {onHome[pc[1]].stamp : pc \in S})
  BY DEF HomeTag
<1> HIDE DEF f, S
<1> DEFINE newest == Max({0} \cup {f[pc] : pc \in S})
<1>8. newest \in Nat /\ (\A pc \in S : f[pc] <= newest) /\ (newest = 0 \/ \E pc \in S : newest = f[pc])
  BY <1>3, <1>4, NewestFacts
<1>9. HomeTag = newest
  BY <1>5, <1>7
<1> HIDE DEF newest
<1>10. homeChanges \in Nat
  BY DEF HomeTypeOK
<1>11. HomeTag <= homeChanges
  BY <1>4, <1>8, <1>9, <1>10
<1>12. QED
  BY <1>6, <1>8, <1>9, <1>11

\* What is said of the first page that a client keeps does not depend on who saves.
LEMMA HomeStays ==
    ASSUME HomeTypeOK, HomeAccounted, UNCHANGED keptHome, homeChanges' \in Nat, homeChanges <= homeChanges',
           \A c : Gone(c) => Gone(c)',
           \A p \in HomeProducts :
              \/ onHome'[p].stamp = homeChanges + 1
              \/ /\ onHome'[p].stamp = onHome[p].stamp
                 /\ onHome'[p].status = onHome[p].status /\ onHome'[p].card = onHome[p].card
                 /\ onHome'[p].in \subseteq onHome[p].in
                 /\ \A c \in onHome[p].in : c \in onHome'[p].in \/ Gone(c)'
    PROVE  HomeAccounted'
<1>1. ASSUME NEW old, NEW t, Remembers(old, t)
      PROVE  Remembers(old, t)'
  <2>1. t \in Nat /\ t <= homeChanges /\ homeChanges \in Nat
    BY <1>1 DEF Remembers, HomeTypeOK
  <2>2. ASSUME NEW p \in HomeProducts
        PROVE  \/ t < onHome'[p].stamp
               \/ /\ onHome'[p].status = old[p].status /\ onHome'[p].card = old[p].card
                  /\ onHome'[p].in \subseteq old[p].in
                  /\ \A c \in old[p].in : c \in onHome'[p].in \/ Gone(c)'
    <3>1. \/ t < onHome[p].stamp
          \/ /\ onHome[p].status = old[p].status /\ onHome[p].card = old[p].card
             /\ onHome[p].in \subseteq old[p].in
             /\ \A c \in old[p].in : c \in onHome[p].in \/ Gone(c)
      BY <1>1 DEF Remembers
    <3>2. CASE onHome'[p].stamp = homeChanges + 1
      BY <2>1, <3>2
    <3>3. CASE onHome'[p].stamp # homeChanges + 1
      BY <3>1, <3>3
    <3>4. QED
      BY <3>2, <3>3
  <2>3. QED
    BY <2>1, <2>2 DEF Remembers
<1>2. QED
  BY <1>1 DEF HomeAccounted

LEMMA HomeOthers ==
    ASSUME HomeTypeOK, HomeAccounted, UNCHANGED <<collection, onHome, keptHome, homeChanges>>
    PROVE  HomeTypeOK' /\ HomeAccounted'
<1>1. There' = There /\ \A c : Gone(c)' <=> Gone(c)
  BY DEF There, Gone
<1>2. \A old, t : Remembers(old, t) => Remembers(old, t)'
  BY <1>1 DEF Remembers
<1>3. HomeAccounted'
  BY <1>2 DEF HomeAccounted
<1>4. QED
  BY <1>1, <1>3 DEF HomeTypeOK

\* Rows change but those that are there stay, and those that are gone.
LEMMA HomeRowsChange ==
    ASSUME HomeTypeOK, HomeAccounted, UNCHANGED <<onHome, keptHome>>, OneMoreChange,
           There \subseteq There', \A c : Gone(c) => Gone(c)'
    PROVE  HomeTypeOK' /\ HomeAccounted'
<1>1. homeChanges' = homeChanges + 1 /\ homeChanges \in Nat
  BY DEF OneMoreChange, HomeTypeOK
<1>2. \A p \in HomeProducts : onHome[p].stamp \in Nat
  BY DEF HomeTypeOK, HomeRow
<1>3. HomeTypeOK'
  BY <1>1, <1>2 DEF HomeTypeOK
<1>4. HomeAccounted'
  BY <1>1, HomeStays
<1>5. QED
  BY <1>3, <1>4

LEMMA HomeWrite ==
    ASSUME HomeInv, NEW w \in CollectionSavers, WriteCollection(w)
    PROVE  HomeTypeOK' /\ HomeAccounted'
<1> DEFINE save == collectionSave[w]
<1>1. /\ save.at = "chosen" /\ save.id \in There \cup {0} /\ OneMoreChange /\ UNCHANGED <<onHome, keptHome>>
      /\ collection' = IF save.id = 0
                       THEN Append(collection, [slug |-> save.slug, status |-> save.status, place |-> save.place])
                       ELSE [collection EXCEPT ![save.id].slug = save.slug, ![save.id].status = save.status]
  BY DEF WriteCollection
<1>2. RowsTypeOK /\ SavesTypeOK /\ HomeTypeOK /\ HomeAccounted
  BY DEF HomeInv, SlugsInv
<1>3. save.status \in {"ACTIVE", "INACTIVE"}
  BY <1>1, <1>2 DEF SavesTypeOK, CollectionSave, NoSave
<1>4. /\ DOMAIN collection \subseteq DOMAIN collection'
      /\ \A c \in DOMAIN collection : collection'[c].status = collection[c].status \/ (c = save.id /\ collection'[c].status # "gone")
  <2>1. CASE save.id = 0
    <3> DEFINE row == [slug |-> save.slug, status |-> save.status, place |-> save.place]
    <3>1. collection' = Append(collection, row)
      BY <1>1, <2>1
    <3> HIDE DEF row
    <3>2. /\ IsSeq(collection') /\ Len(collection') = Len(collection) + 1
          /\ \A c \in 1 .. Len(collection) : collection'[c] = collection[c]
      BY <1>2, <3>1, AppendFacts DEF RowsTypeOK
    <3>3. DOMAIN collection' = 1 .. Len(collection) + 1 /\ DOMAIN collection = 1 .. Len(collection) /\ Len(collection) \in Nat
      BY <1>2, <3>2, SeqFacts DEF RowsTypeOK
    <3>4. QED
      BY <3>2, <3>3
  <2>2. CASE save.id # 0
    <3> DEFINE id == save.id
    <3>1. id \in There /\ collection' = [collection EXCEPT ![id].slug = save.slug, ![id].status = save.status]
      BY <1>1, <2>2
    <3>2. id \in DOMAIN collection /\ CollectionRow(collection[id])
      BY <1>2, <3>1 DEF There, RowsTypeOK
    <3>3. /\ DOMAIN collection' = DOMAIN collection
          /\ \A c \in DOMAIN collection : c # id => collection'[c] = collection[c]
      BY <3>1
    <3>4. collection'[id].status = save.status
      <4>1. PICK row : row = collection[id]
        OBVIOUS
      <4>2. row = [slug |-> row.slug, status |-> row.status, place |-> row.place]
        BY <3>2, <4>1 DEF CollectionRow
      <4>3. collection'[id] = [[row EXCEPT !.slug = save.slug] EXCEPT !.status = save.status]
        BY <3>1, <3>2, <4>1
      <4>4. QED
        BY <4>1, <4>2, <4>3
    <3>5. QED
      BY <1>3, <3>3, <3>4
  <2>3. QED
    BY <2>1, <2>2
<1>5. There \subseteq There' /\ \A c : Gone(c) => Gone(c)'
  <2>1. ~Gone(save.id)
    <3>1. 0 \notin DOMAIN collection
      BY <1>2, ThereFinite
    <3>2. QED
      BY <1>1, <3>1 DEF Gone, There
  <2>2. QED
    BY <1>4, <2>1 DEF There, Gone
<1>6. QED
  BY <1>1, <1>2, <1>5, HomeRowsChange

LEMMA HomeReorder ==
    ASSUME HomeInv, ReorderCollections
    PROVE  HomeTypeOK' /\ HomeAccounted'
<1>p. PICK S \in SUBSET (DOMAIN collection) : \E place \in [S -> 1 .. MaxSortOrder] :
        collection' = [c \in DOMAIN collection |->
            IF c \in S \cap There THEN [collection[c] EXCEPT !.place = place[c]] ELSE collection[c]]
  BY DEF ReorderCollections
<1>1. PICK place \in [S -> 1 .. MaxSortOrder] :
        collection' = [c \in DOMAIN collection |->
            IF c \in S \cap There THEN [collection[c] EXCEPT !.place = place[c]] ELSE collection[c]]
  BY <1>p
<1>2. RowsTypeOK /\ HomeTypeOK /\ HomeAccounted /\ OneMoreChange /\ UNCHANGED <<onHome, keptHome>>
  BY DEF HomeInv, SlugsInv, ReorderCollections
<1>3. \A c \in DOMAIN collection :
          collection'[c] = IF c \in S \cap There THEN [collection[c] EXCEPT !.place = place[c]] ELSE collection[c]
  BY <1>1, Zenon
<1>4. ASSUME NEW c \in DOMAIN collection
      PROVE  collection'[c].status = collection[c].status
  <2>1. PICK row : row = collection[c]
    OBVIOUS
  <2>2. row = [slug |-> row.slug, status |-> row.status, place |-> row.place]
    BY <1>2, <2>1 DEF RowsTypeOK, CollectionRow
  <2>3. collection'[c] = row \/ collection'[c] = [row EXCEPT !.place = place[c]]
    BY <1>3, <2>1
  <2>4. QED
    BY <2>1, <2>2, <2>3
<1>5. DOMAIN collection' = DOMAIN collection
  BY <1>1
<1>6. There' = There /\ \A c : Gone(c)' <=> Gone(c)
  BY <1>4, <1>5 DEF There, Gone
<1>7. QED
  BY <1>2, <1>6, HomeRowsChange

LEMMA HomeRemove ==
    ASSUME HomeInv, NEW c \in DOMAIN collection, RemoveCollection(c)
    PROVE  HomeTypeOK' /\ HomeAccounted'
<1> DEFINE goneRow == [slug |-> <<>>, status |-> "gone", place |-> 0]
<1>1. /\ UNCHANGED keptHome /\ homeChanges' = homeChanges + 1
      /\ collection' = [collection EXCEPT ![c] = goneRow]
      /\ onHome' = [p \in HomeProducts |-> [onHome[p] EXCEPT !.in = @ \ {c}]]
  BY DEF RemoveCollection, OneMoreChange
<1>2. HomeTypeOK /\ HomeAccounted
  BY DEF HomeInv
<1>3. goneRow.status = "gone"
  OBVIOUS
<1> HIDE DEF goneRow
<1>4. /\ DOMAIN collection' = DOMAIN collection
      /\ collection'[c] = goneRow /\ \A d \in DOMAIN collection : d # c => collection'[d] = collection[d]
  BY <1>1
<1>5. There' = There \ {c} /\ (\A d : Gone(d) => Gone(d)') /\ Gone(c)'
  BY <1>3, <1>4 DEF There, Gone
<1>6. ASSUME NEW p \in HomeProducts
      PROVE  /\ onHome'[p] \in HomeRow
             /\ onHome'[p].stamp = onHome[p].stamp /\ onHome'[p].status = onHome[p].status
             /\ onHome'[p].card = onHome[p].card /\ onHome'[p].in = onHome[p].in \ {c}
  <2>1. PICK row \in HomeRow : row = onHome[p]
    BY <1>2 DEF HomeTypeOK
  <2>2. onHome'[p] = [row EXCEPT !.in = row.in \ {c}]
    BY <1>1, <2>1
  <2>3. QED
    BY <2>1, <2>2 DEF HomeRow
<1>7. homeChanges \in Nat /\ homeChanges' \in Nat /\ homeChanges <= homeChanges'
  BY <1>1, <1>2 DEF HomeTypeOK
<1>8. HomeTypeOK'
  <2>1. onHome' = [p \in HomeProducts |-> onHome'[p]]
    BY <1>1
  <2>2. onHome' \in [HomeProducts -> HomeRow]
    BY <1>6, <2>1
  <2>3. \A p \in HomeProducts : onHome'[p].in \subseteq There'
    BY <1>2, <1>5, <1>6 DEF HomeTypeOK
  <2>4. \A p \in HomeProducts : onHome'[p].stamp <= homeChanges'
    <3>1. \A p \in HomeProducts : onHome[p].stamp \in Nat /\ onHome[p].stamp <= homeChanges
      BY <1>2 DEF HomeTypeOK, HomeRow
    <3>2. \A p \in HomeProducts : onHome'[p].stamp = onHome[p].stamp
      BY <1>6
    <3>3. QED
      BY <1>7, <3>1, <3>2
  <2>5. QED
    BY <1>7, <2>2, <2>3, <2>4 DEF HomeTypeOK
<1>9. \A p \in HomeProducts :
        /\ onHome'[p].stamp = onHome[p].stamp
        /\ onHome'[p].status = onHome[p].status /\ onHome'[p].card = onHome[p].card
        /\ onHome'[p].in \subseteq onHome[p].in
        /\ \A d \in onHome[p].in : d \in onHome'[p].in \/ Gone(d)'
  BY <1>5, <1>6
<1>10. HomeAccounted'
  BY <1>1, <1>2, <1>5, <1>7, <1>9, HomeStays
<1>11. QED
  BY <1>8, <1>10

LEMMA HomeProductSaved ==
    ASSUME HomeInv, NEW p \in HomeProducts, NEW row, row \in HomeRow, row.stamp = homeChanges + 1, row.in \subseteq There,
           onHome' = [onHome EXCEPT ![p] = row], OneMoreChange, UNCHANGED <<collection, keptHome>>
    PROVE  HomeTypeOK' /\ HomeAccounted'
<1>1. HomeTypeOK /\ HomeAccounted
  BY DEF HomeInv
<1>2. homeChanges \in Nat /\ homeChanges' = homeChanges + 1
  BY <1>1 DEF HomeTypeOK, OneMoreChange
<1>3. There' = There /\ \A c : Gone(c) => Gone(c)'
  BY DEF There, Gone
<1>4. /\ onHome' \in [HomeProducts -> HomeRow] /\ onHome'[p] = row
      /\ \A q \in HomeProducts : q # p => onHome'[q] = onHome[q]
  BY <1>1 DEF HomeTypeOK
<1>5. HomeTypeOK'
  <2>1. \A q \in HomeProducts : onHome[q].stamp \in Nat /\ onHome[q].stamp <= homeChanges
    BY <1>1 DEF HomeTypeOK, HomeRow
  <2>2. \A q \in HomeProducts : onHome'[q].stamp <= homeChanges'
    BY <1>2, <1>4, <2>1
  <2>3. \A q \in HomeProducts : onHome'[q].in \subseteq There'
    BY <1>1, <1>3, <1>4 DEF HomeTypeOK
  <2>4. QED
    BY <1>2, <1>4, <2>2, <2>3 DEF HomeTypeOK
<1>6. \A q \in HomeProducts : q = p \/ onHome'[q] = onHome[q]
  BY <1>4
<1>7. \A q \in HomeProducts :
        \/ onHome'[q].stamp = homeChanges + 1
        \/ /\ onHome'[q].stamp = onHome[q].stamp
           /\ onHome'[q].status = onHome[q].status /\ onHome'[q].card = onHome[q].card
           /\ onHome'[q].in \subseteq onHome[q].in
           /\ \A c \in onHome[q].in : c \in onHome'[q].in \/ Gone(c)'
  BY <1>4, <1>6
<1>8. HomeAccounted'
  BY <1>1, <1>2, <1>3, <1>7, HomeStays
<1>9. QED
  BY <1>5, <1>8

LEMMA HomeSave ==
    ASSUME HomeInv, NEW p \in HomeProducts, SaveHomeProduct(p)
    PROVE  HomeTypeOK' /\ HomeAccounted'
<1>1. PICK status \in {"ACTIVE", "INACTIVE"}, ticked \in SUBSET There :
        onHome' = [onHome EXCEPT ![p] = [status |-> status, stamp |-> homeChanges + 1, card |-> homeChanges + 1, in |-> ticked]]
  BY DEF SaveHomeProduct
<1> DEFINE row == [status |-> status, stamp |-> homeChanges + 1, card |-> homeChanges + 1, in |-> ticked]
<1>2. OneMoreChange /\ UNCHANGED <<collection, keptHome>>
  BY DEF SaveHomeProduct
<1>3. There \subseteq Nat /\ homeChanges \in Nat
  BY ThereFinite DEF HomeInv, SlugsInv, HomeTypeOK
<1>4. row \in HomeRow /\ row.stamp = homeChanges + 1 /\ row.in \subseteq There
  BY <1>3 DEF HomeRow
<1> HIDE DEF row
<1>5. onHome' = [onHome EXCEPT ![p] = row]
  BY <1>1 DEF row
<1>6. QED
  BY <1>2, <1>4, <1>5, HomeProductSaved

LEMMA HomeSwitch ==
    ASSUME HomeInv, NEW p \in HomeProducts, NEW status \in {"ACTIVE", "INACTIVE"}, SwitchHomeProduct(p, status)
    PROVE  HomeTypeOK' /\ HomeAccounted'
<1>1. /\ onHome' = [onHome EXCEPT ![p].status = status, ![p].stamp = homeChanges + 1]
      /\ OneMoreChange /\ UNCHANGED <<collection, keptHome>>
  BY DEF SwitchHomeProduct
<1>2. HomeTypeOK
  BY DEF HomeInv
<1>3. PICK old \in HomeRow : old = onHome[p]
  BY <1>2 DEF HomeTypeOK
<1>4. old.in \subseteq There /\ homeChanges \in Nat
  BY <1>2, <1>3 DEF HomeTypeOK
<1> DEFINE one == [old EXCEPT !.status = status]
           row == [one EXCEPT !.stamp = homeChanges + 1]
<1>5. one \in HomeRow /\ one.in = old.in
  BY DEF HomeRow
<1> HIDE DEF one
<1>6. row \in HomeRow /\ row.stamp = homeChanges + 1 /\ row.in = one.in
  BY <1>4, <1>5 DEF HomeRow
<1>7. onHome' = [onHome EXCEPT ![p] = row]
  <2>1. p \in DOMAIN onHome
    BY <1>2 DEF HomeTypeOK
  <2>2. row = [[onHome[p] EXCEPT !.status = status] EXCEPT !.stamp = homeChanges + 1]
    BY <1>3 DEF one
  <2>3. QED
    BY <1>1, <2>1, <2>2
<1> HIDE DEF row
<1>8. QED
  BY <1>1, <1>4, <1>5, <1>6, <1>7, HomeProductSaved

LEMMA HomeAnswer ==
    ASSUME HomeInv, AnswerHome
    PROVE  HomeTypeOK' /\ HomeAccounted'
<1>1. UNCHANGED <<collection, onHome, homeChanges>>
  BY DEF AnswerHome
<1>2. RowsTypeOK /\ HomeTypeOK /\ HomeAccounted
  BY DEF HomeInv, SlugsInv
<1>3. CASE keptHome' = keptHome
  BY <1>1, <1>2, <1>3, HomeOthers
<1>4. CASE keptHome' = [at |-> "kept", page |-> homeAnswer.page, tag |-> HomeTag, rows |-> collection,
                        members |-> InCollection, overtaken |-> homeAnswer.page # HomePage]
  <2>1. There' = There /\ \A c : Gone(c)' <=> Gone(c)
    BY <1>1 DEF There, Gone
  <2>2. HomeTypeOK'
    BY <1>1, <1>2, <2>1 DEF HomeTypeOK
  <2>3. PICK old, t : old = onHome /\ t = homeChanges
    OBVIOUS
  <2>4. Remembers(old, t)'
    <3>1. t \in Nat /\ t <= homeChanges'
      BY <1>1, <1>2, <2>3 DEF HomeTypeOK
    <3>2. QED
      BY <1>1, <2>3, <3>1 DEF Remembers
  <2>5. HomeTag \in Nat /\ HomeTag <= t
    BY <1>2, <2>3, TagIsNewest
  <2>6. /\ keptHome'.page = homeAnswer.page /\ keptHome'.tag = HomeTag /\ keptHome'.rows = collection
        /\ keptHome'.members = InCollection /\ (keptHome'.overtaken <=> homeAnswer.page # HomePage)
    BY <1>4
  <2>7. ~keptHome'.overtaken => keptHome'.page = HomePageOf(keptHome'.rows, old)
    BY <2>3, <2>6, PageNow
  <2>8. keptHome'.members = MembersOf(keptHome'.rows, old)
    BY <2>3, <2>6, PageNow
  <2>9. HomeAccounted'
    BY <2>4, <2>5, <2>6, <2>7, <2>8 DEF HomeAccounted
  <2>10. QED
    BY <2>2, <2>9
<1>5. QED
  BY <1>3, <1>4 DEF AnswerHome

LEMMA HomeStarts ==
    ASSUME InitCollections
    PROVE  HomeInv
<1>1. SlugsInv
  BY SlugsStart
<1>2. There \subseteq Nat
  BY <1>1, ThereFinite DEF SlugsInv
<1>3. onHome \in [HomeProducts -> [status : {"ACTIVE", "INACTIVE"}, stamp : {0}, card : {0}, in : SUBSET There]]
  BY DEF InitCollections
<1>4. ASSUME NEW row \in [status : {"ACTIVE", "INACTIVE"}, stamp : {0}, card : {0}, in : SUBSET There]
      PROVE  row \in HomeRow /\ row.stamp = 0 /\ row.in \subseteq There
  <2>1. row.status \in {"ACTIVE", "INACTIVE"} /\ row.stamp = 0 /\ row.card = 0 /\ row.in \in SUBSET There
    OBVIOUS
  <2>2. row = [status |-> row.status, stamp |-> row.stamp, card |-> row.card, in |-> row.in]
    OBVIOUS
  <2>3. row.in \in SUBSET Nat
    BY <1>2, <2>1
  <2>4. row \in HomeRow
    BY <2>1, <2>2, <2>3 DEF HomeRow
  <2>5. QED
    BY <2>1, <2>4
<1>5. HomeTypeOK
  BY <1>3, <1>4 DEF HomeTypeOK, InitCollections
<1>6. HomeAccounted
  BY DEF InitCollections, HomeAccounted
<1>7. QED
  BY <1>1, <1>5, <1>6 DEF HomeInv

LEMMA CollectionsStep ==
    ASSUME HomeInv, [NextCollections]_collectionVars
    PROVE  HomeInv'
<1>1. SlugsInv /\ HomeTypeOK /\ HomeAccounted
  BY DEF HomeInv
<1>2. ASSUME NEW w \in CollectionSavers, ChooseSlug(w) \/ ChooseSlugAgain(w) \/ SlugTaken(w) \/ LeaveSave(w)
      PROVE  HomeInv'
  <2>1. SlugsInv'
    BY <1>1, <1>2, ChooseKeeps, ChooseAgainKeeps, TakenKeeps, LeaveKeeps
  <2>2. UNCHANGED <<collection, onHome, keptHome, homeChanges>>
    BY <1>2 DEF ChooseSlug, ChooseSlugAgain, SlugTaken, LeaveSave
  <2>3. QED
    BY <1>1, <2>1, <2>2, HomeOthers DEF HomeInv
<1>3. ASSUME NEW w \in CollectionSavers, WriteCollection(w)
      PROVE  HomeInv'
  BY <1>1, <1>3, WriteKeeps, HomeWrite DEF HomeInv
<1>4. CASE ReorderCollections
  BY <1>1, <1>4, ReorderCollectionsKeeps, HomeReorder DEF HomeInv
<1>5. ASSUME NEW c \in DOMAIN collection, RemoveCollection(c)
      PROVE  HomeInv'
  BY <1>1, <1>5, RemoveCollectionKeeps, HomeRemove DEF HomeInv
<1>6. ASSUME NEW p \in HomeProducts, SaveHomeProduct(p)
      PROVE  HomeInv'
  <2>1. UNCHANGED <<collection, collectionSave>>
    BY <1>6 DEF SaveHomeProduct
  <2>2. QED
    BY <1>1, <1>6, <2>1, OthersKeepSlugs, HomeSave DEF HomeInv
<1>7. ASSUME NEW p \in HomeProducts, NEW status \in {"ACTIVE", "INACTIVE"}, SwitchHomeProduct(p, status)
      PROVE  HomeInv'
  <2>1. UNCHANGED <<collection, collectionSave>>
    BY <1>7 DEF SwitchHomeProduct
  <2>2. QED
    BY <1>1, <1>7, <2>1, OthersKeepSlugs, HomeSwitch DEF HomeInv
<1>8. CASE ReadHome
  <2>1. UNCHANGED <<collection, collectionSave, onHome, keptHome, homeChanges>>
    BY <1>8 DEF ReadHome
  <2>2. QED
    BY <1>1, <2>1, OthersKeepSlugs, HomeOthers DEF HomeInv
<1>9. CASE AnswerHome
  <2>1. UNCHANGED <<collection, collectionSave>>
    BY <1>9 DEF AnswerHome
  <2>2. QED
    BY <1>1, <1>9, <2>1, OthersKeepSlugs, HomeAnswer DEF HomeInv
<1>10. CASE UNCHANGED collectionVars
  <2>1. UNCHANGED <<collection, collectionSave, onHome, keptHome, homeChanges>>
    BY <1>10 DEF collectionVars
  <2>2. QED
    BY <1>1, <2>1, OthersKeepSlugs, HomeOthers DEF HomeInv
<1>11. QED
  BY <1>2, <1>3, <1>4, <1>5, <1>6, <1>7, <1>8, <1>9, <1>10 DEF NextCollections

\* Two pages that show the same products with the same cards are the same.
LEMMA SamePreview ==
    ASSUME NEW rows, NEW old, NEW now, NEW c, ShownOf(old, c) = ShownOf(now, c),
           \A p \in ShownOf(now, c) : old[p].card = now[p].card
    PROVE  PreviewIn(rows, old, c) = PreviewIn(rows, now, c)
<1> DEFINE S == ShownOf(now, c)
           R == {pq \in S \X S : pq[1] > pq[2]}
           first == NewestFirst(S)
<1>1. S \subseteq HomeProducts /\ IsFiniteSet(S) /\ S \subseteq Nat
  BY CollectionAssumption, FS_Subset DEF ShownOf
<1>p. \A x, y \in S : <<x, y>> \in R <=> x > y
  OBVIOUS
<1>q. first = SortedBy(S, R)
  BY DEF NewestFirst
<1>s. ShownOf(old, c) = S /\ \A p \in S : old[p].card = now[p].card
  OBVIOUS
<1> HIDE DEF S, R
<1>2. PutsInOrder(R, S)
  BY <1>1, <1>p DEF PutsInOrder
<1>3. first \in [1 .. Cardinality(S) -> S] /\ Cardinality(S) \in Nat
  BY <1>1, <1>2, <1>q, SortedFacts
<1> HIDE DEF first
<1>4. Len(first) = Cardinality(S) /\ first \in Seq(S)
  BY <1>3
<1>5. Min({HomeLimit, Len(first)}) \in Nat /\ Min({HomeLimit, Len(first)}) <= Len(first)
  <2> DEFINE T == {HomeLimit, Len(first)}
  <2>1. T \in SUBSET Nat /\ T # {} /\ Len(first) \in T
    BY <1>3, <1>4, CollectionAssumption
  <2> HIDE DEF T
  <2>2. Min(T) \in T /\ \A m \in T : Min(T) <= m
    BY <2>1, MinFacts
  <2>3. Min(T) \in Nat /\ Min(T) <= Len(first)
    BY <2>1, <2>2
  <2>4. QED
    BY <2>3 DEF T
<1>6. \A k \in 1 .. Min({HomeLimit, Len(first)}) : first[k] \in S
  BY <1>3, <1>4, <1>5
<1>7. [k \in 1 .. Min({HomeLimit, Len(first)}) |-> <<first[k], old[first[k]].card>>]
      = [k \in 1 .. Min({HomeLimit, Len(first)}) |-> <<first[k], now[first[k]].card>>]
  BY <1>s, <1>6
<1>8. NewestFirst(ShownOf(old, c)) = first /\ NewestFirst(ShownOf(now, c)) = first
  BY <1>s DEF first, S
<1>9. QED
  BY <1>7, <1>8 DEF PreviewIn

LEMMA SamePage ==
    ASSUME RowsTypeOK, NEW old, NEW now,
           \A c \in There : collection[c].status = "ACTIVE" =>
              ShownOf(old, c) = ShownOf(now, c) /\ \A p \in ShownOf(now, c) : old[p].card = now[p].card
    PROVE  HomePageOf(collection, old) = HomePageOf(collection, now)
<1> DEFINE S == ShownIn(collection, now)
           R == InPlace(collection, S)
           sorted == SortedBy(S, R)
           Precedes(c, d) == \/ collection[c].place < collection[d].place
                             \/ (collection[c].place = collection[d].place /\ c < d)
<1>1. There = ThereIn(collection)
  BY DEF There, ThereIn
<1>2. ShownIn(collection, old) = S
  BY <1>1 DEF ShownIn
<1>3. S \subseteq There /\ \A c \in S : collection[c].status = "ACTIVE"
  BY <1>1 DEF ShownIn
<1>4. IsFiniteSet(S) /\ S \subseteq Nat
  BY <1>3, ThereFinite, FS_Subset
<1>5. \A c \in S : collection[c].place \in Nat
  BY <1>3 DEF RowsTypeOK, CollectionRow, There
<1>6. ASSUME NEW c \in S, NEW d \in S
      PROVE  <<c, d>> \in R <=> Precedes(c, d)
  BY Zenon DEF InPlace
<1>d. /\ HomePageOf(collection, now) = [n \in DOMAIN sorted |-> PreviewIn(collection, now, sorted[n])]
      /\ HomePageOf(collection, old) = [n \in DOMAIN sorted |-> PreviewIn(collection, old, sorted[n])]
  BY <1>2 DEF HomePageOf
<1> HIDE DEF S, R
<1>7. PutsInOrder(R, S)
  <2>1. ASSUME NEW c \in S, NEW d \in S
        PROVE  ~Precedes(c, c) /\ (c # d => Precedes(c, d) \/ Precedes(d, c))
    BY <1>4, <1>5
  <2>2. ASSUME NEW c \in S, NEW d \in S, NEW e \in S, Precedes(c, d), Precedes(d, e)
        PROVE  Precedes(c, e)
    BY <1>4, <1>5, <2>2
  <2> HIDE DEF Precedes
  <2>3. QED
    BY <1>6, <2>1, <2>2 DEF PutsInOrder
<1>8. sorted \in [1 .. Cardinality(S) -> S]
  BY <1>4, <1>7, SortedFacts
<1> HIDE DEF sorted
<1>9. \A n \in DOMAIN sorted : PreviewIn(collection, old, sorted[n]) = PreviewIn(collection, now, sorted[n])
  BY <1>3, <1>8, SamePreview
<1>10. QED
  BY <1>9, <1>d

\* A product that was stamped since the page was read is in no collection that is
\* shown, or the tag would be past that of the page.
LEMMA HomeTells ==
    ASSUME HomeInv
    PROVE  KeptHomeTells
<1>1. RowsTypeOK /\ HomeTypeOK /\ HomeAccounted
  BY DEF HomeInv, SlugsInv
<1>2. SUFFICES ASSUME keptHome # NoHome, keptHome.tag = HomeTag, keptHome.rows = collection,
                      keptHome.members \ InCollection = {}, ~keptHome.overtaken
               PROVE  keptHome.page = HomePage
  BY DEF KeptHomeTells
<1>3. PICK old, t : /\ keptHome.page = HomePageOf(collection, old)
                    /\ keptHome.members = MembersOf(collection, old)
                    /\ keptHome.tag \in Nat /\ keptHome.tag <= t
                    /\ Remembers(old, t)
  BY <1>1, <1>2 DEF HomeAccounted
<1>4. \A p \in HomeProducts, c \in There :
        c \in onHome[p].in /\ collection[c].status = "ACTIVE" => onHome[p].stamp <= t
  <2>1. \A p \in HomeProducts : onHome[p].stamp \in Nat
    BY <1>1 DEF HomeTypeOK, HomeRow
  <2>2. HomeTag \in Nat /\ HomeTag <= t /\ t \in Nat
    BY <1>2, <1>3 DEF Remembers
  <2>3. QED
    BY <1>1, <2>1, <2>2, TagIsNewest
<1>5. \A p \in HomeProducts, c \in There : c \in old[p].in => c \in onHome[p].in
  <2>1. MembersOf(collection, old) \subseteq InCollection /\ There = ThereIn(collection)
    BY <1>2, <1>3 DEF There, ThereIn
  <2>2. SUFFICES ASSUME NEW p \in HomeProducts, NEW c \in There, c \in old[p].in
                 PROVE  c \in onHome[p].in
    OBVIOUS
  <2>3. <<p, c>> \in MembersOf(collection, old)
    BY <2>1, <2>2 DEF MembersOf
  <2>4. QED
    BY <2>1, <2>3 DEF InCollection
<1>6. ASSUME NEW c \in There, collection[c].status = "ACTIVE", NEW p \in HomeProducts
      PROVE  /\ c \in old[p].in <=> c \in onHome[p].in
             /\ c \in onHome[p].in => old[p].status = onHome[p].status /\ old[p].card = onHome[p].card
  <2>1. \/ t < onHome[p].stamp
        \/ /\ onHome[p].status = old[p].status /\ onHome[p].card = old[p].card
           /\ onHome[p].in \subseteq old[p].in
    BY <1>3 DEF Remembers
  <2>2. t \in Nat /\ onHome[p].stamp \in Nat
    BY <1>1, <1>3 DEF Remembers, HomeTypeOK, HomeRow
  <2>3. QED
    BY <1>4, <1>5, <1>6, <2>1, <2>2
<1>7. \A c \in There : collection[c].status = "ACTIVE" =>
          ShownOf(old, c) = ShownOf(onHome, c) /\ \A p \in ShownOf(onHome, c) : old[p].card = onHome[p].card
  BY <1>6 DEF ShownOf
<1>8. HomePageOf(collection, old) = HomePageOf(collection, onHome)
  <2>1. PICK now : now = onHome
    OBVIOUS
  <2>2. HomePageOf(collection, old) = HomePageOf(collection, now)
    BY <1>1, <1>7, <2>1, SamePage
  <2>3. QED
    BY <2>1, <2>2
<1>9. QED
  BY <1>3, <1>8, PageNow

LEMMA CollectionsConclude ==
    ASSUME HomeInv
    PROVE  CollectionsHold
<1>1. RefusedIfBeatenTwice
  BY DEF HomeInv, SlugsInv, SavesAccounted, SaveAccounted, RefusedIfBeatenTwice
<1>2. QED
  BY <1>1, HomeTells DEF CollectionsHold

\* A save is refused only when it was beaten twice, and the tag of the first page tells
\* of every product that came or changed.
THEOREM CollectionsCorrect == CollectionsSpec => []CollectionsHold
<1>1. InitCollections => HomeInv
  BY HomeStarts
<1>2. HomeInv /\ [NextCollections]_collectionVars => HomeInv'
  BY CollectionsStep
<1>3. HomeInv => CollectionsHold
  BY CollectionsConclude
<1>4. QED
  BY <1>1, <1>2, <1>3, PTL DEF CollectionsSpec

-----------------------------------------------------------------------------
(* Presets: names and values.                                              *)
-----------------------------------------------------------------------------

SentForm == [nr : Nat, size : Nat]
ValueRow == [preset : Presets, form : Nat, nth : Nat]

ClerkWork ==
    {Sitting}
    \cup [op : {"clear"}, preset : Presets, name : PresetNames, form : SentForm]
    \cup [op : {"insert"}, preset : Presets, name : PresetNames, form : SentForm, cleared : SUBSET ValueRow]

PresetTypeOK ==
    /\ presetName \in [Presets -> PresetNames \cup {Nameless, Deleted}]
    /\ DOMAIN presetValues \subseteq ValueRow /\ presetValues = [v \in DOMAIN presetValues |-> presetValues[v]]
    /\ clerk \in [Clerks -> ClerkWork]
    /\ forms \in Nat
    /\ savedForm \in [Presets -> SentForm]

Saving(r) == clerk[r].op \in {"clear", "insert"}

\* Nobody else gives, or has, the name that a transaction gives.
NamesApart ==
    /\ \A p, q \in Listed : presetName[p] = presetName[q] => p = q
    /\ \A r \in Clerks, q \in Listed : Saving(r) /\ presetName[q] = clerk[r].name => q = clerk[r].preset
    /\ \A r, s \in Clerks : Saving(r) /\ Saving(s) /\ r # s =>
          clerk[r].preset # clerk[s].preset /\ clerk[r].name # clerk[s].name

\* The values of a preset are those of one form, numbered from one if nobody ordered
\* them at will, and a transaction that has deleted them has deleted all.
ValuesWhole ==
    /\ \A p \in Presets :
        /\ ValuesOf(p) = IF p \in Listed THEN FormRows(p, savedForm[p]) ELSE {}
        /\ p \notin untidy => {presetValues[v] : v \in ValuesOf(p)} = 1 .. Cardinality(ValuesOf(p))
    /\ \A r \in Clerks : clerk[r].op = "insert" => clerk[r].cleared = ValuesOf(clerk[r].preset)

\* A form that has a number is the only one with it.
FormKnown(f) ==
    /\ f.nr <= forms /\ (f.nr = 0 => f.size = 0)
    /\ \A p \in Presets : savedForm[p].nr = f.nr => savedForm[p] = f
    /\ \A r \in Clerks : Saving(r) /\ clerk[r].form.nr = f.nr => clerk[r].form = f

FormsKnown ==
    /\ \A p \in Presets : FormKnown(savedForm[p])
    /\ \A r \in Clerks : Saving(r) => FormKnown(clerk[r].form)

\* The page that is open shows all the values of one form.
OpenWhole ==
    openPreset = {} \/ \E p \in Presets, f \in SentForm : FormKnown(f) /\ openPreset = FormRows(p, f)

PresetInv == PresetTypeOK /\ NamesApart /\ ValuesWhole /\ FormsKnown /\ OpenWhole

LEMMA SavingOrSitting ==
    ASSUME PresetTypeOK, NEW r \in Clerks
    PROVE  /\ clerk[r] = Sitting <=> ~Saving(r)
           /\ Saving(r) => clerk[r].preset \in Presets /\ clerk[r].name \in PresetNames /\ clerk[r].form \in SentForm
BY DEF PresetTypeOK, ClerkWork, Sitting, Saving

\* A form has as many rows as it lists values.
LEMMA RowsOfForm ==
    ASSUME NEW p, NEW f \in SentForm
    PROVE  /\ IsFiniteSet(FormRows(p, f)) /\ Cardinality(FormRows(p, f)) = f.size
           /\ {v.nth : v \in FormRows(p, f)} = 1 .. f.size
           /\ \A v \in FormRows(p, f) : v.preset = p /\ v.form = f.nr
<1> DEFINE S == 1 .. f.size
           rows == FormRows(p, f)
           row == [n \in S |-> [preset |-> p, form |-> f.nr, nth |-> n]]
<1>1. f.size \in Nat
  BY DEF SentForm
<1>2. rows = {row[n] : n \in S} /\ \A n \in S : row[n].nth = n /\ row[n].preset = p /\ row[n].form = f.nr
  BY DEF FormRows
<1>3. DOMAIN row = S /\ row = [n \in S |-> row[n]]
  OBVIOUS
<1>s. S = {n \in Nat : 1 <= n /\ n <= f.size}
  BY <1>1
<1>5. IsFiniteSet(S) /\ Cardinality(S) = f.size
  <2>1. PICK k \in Nat : k = f.size
    BY <1>1
  <2>2. IsFiniteSet(1 .. k) /\ Cardinality(1 .. k) = k
    BY FS_Interval
  <2>3. QED
    BY <2>1, <2>2
<1> HIDE DEF rows, row, S
<1>4. row \in Bijection(S, rows)
  <2>1. row \in [S -> rows]
    BY <1>2, <1>3
  <2>2. \A m, n \in S : row[m] = row[n] => m = n
    BY <1>2
  <2>3. \A v \in rows : \E n \in S : row[n] = v
    BY <1>2
  <2>4. row \in Injection(S, rows)
    BY <2>1, <2>2, <1>3 DEF Injection, IsInjective
  <2>5. row \in Surjection(S, rows)
    BY <2>1, <2>3 DEF Surjection
  <2>6. QED
    BY <2>4, <2>5 DEF Bijection
<1>6. IsFiniteSet(rows) /\ Cardinality(rows) = Cardinality(S)
  BY <1>4, <1>5, FS_Bijection DEF ExistsBijection
<1>7. {v.nth : v \in rows} = S
  BY <1>2
<1>9. \A v \in rows : v.preset = p /\ v.form = f.nr
  BY <1>2
<1>8. QED
  BY <1>5, <1>6, <1>7, <1>9 DEF rows, S

LEMMA FormsInRows ==
    ASSUME NEW p \in Presets, NEW f \in SentForm
    PROVE  FormRows(p, f) \subseteq ValueRow
BY DEF FormRows, ValueRow, SentForm

LEMMA PresetsStart == InitPresets => PresetInv
<1> SUFFICES ASSUME InitPresets PROVE PresetInv
  OBVIOUS
<1> USE PresetAssumption DEF InitPresets
<1>1. Listed = {} /\ DOMAIN presetValues = {}
  BY DEF Listed, Nameless
<1>2. \A r \in Clerks : ~Saving(r)
  BY DEF Saving, Sitting
<1>3. PresetTypeOK
  <2>1. presetValues = [v \in DOMAIN presetValues |-> presetValues[v]]
    OBVIOUS
  <2>2. QED
    BY <1>1, <2>1 DEF PresetTypeOK, SentForm, ClerkWork
<1>4. NamesApart
  BY <1>1, <1>2 DEF NamesApart
<1>5. ValuesWhole
  <2>1. \A p \in Presets : ValuesOf(p) = {}
    BY <1>1 DEF ValuesOf
  <2>2. Cardinality({}) = 0 /\ 1 .. 0 = {}
    BY FS_EmptySet
  <2>3. \A r \in Clerks : clerk[r].op # "insert"
    BY DEF Sitting
  <2>4. QED
    BY <1>1, <2>1, <2>2, <2>3 DEF ValuesWhole
<1>6. FormsKnown
  BY <1>2 DEF FormsKnown, FormKnown
<1>7. QED
  BY <1>3, <1>4, <1>5, <1>6 DEF PresetInv, OpenWhole

\* What the open page shows is not touched by a step that leaves the forms known.
LEMMA OpenStays ==
    ASSUME OpenWhole, UNCHANGED openPreset, \A f \in SentForm : FormKnown(f) => FormKnown(f)'
    PROVE  OpenWhole'
BY DEF OpenWhole

\* A save begins with the row of the preset: nobody else has it, or the name.
LEMMA SaveBegins ==
    ASSUME PresetInv, NEW r \in Clerks, NEW p \in Presets, NEW name \in PresetNames, NEW size \in 1 .. MaxValues,
           clerk[r] = Sitting, ~Locked(p), ~NameTaken(p, name), ~NameAwaited(p, name),
           NEW work \in ClerkWork, work.op \in {"clear", "insert"}, work.preset = p, work.name = name,
           work.form = [nr |-> forms + 1, size |-> size], work.op = "insert" => work.cleared = ValuesOf(p),
           clerk' = [clerk EXCEPT ![r] = work], forms' = forms + 1,
           UNCHANGED <<presetName, presetValues, openPreset, savedForm, untidy>>
    PROVE  PresetInv'
<1>t. PresetTypeOK /\ NamesApart /\ ValuesWhole /\ FormsKnown /\ OpenWhole /\ forms \in Nat
  BY DEF PresetInv, PresetTypeOK
<1>1. clerk'[r] = work /\ \A s \in Clerks \ {r} : clerk'[s] = clerk[s]
  BY <1>t DEF PresetTypeOK
<1>2. Saving(r)' /\ ~Saving(r) /\ \A s \in Clerks \ {r} : Saving(s)' <=> Saving(s)
  BY <1>1 DEF Saving, Sitting
<1>3. \A s \in Clerks \ {r} : Saving(s) =>
          clerk[s].preset # p /\ clerk[s].name # name /\ presetName[clerk[s].preset] # name
  <2>1. \A s \in Clerks : Saving(s) => clerk[s] # Sitting
    BY DEF Saving, Sitting
  <2>2. QED
    BY <2>1 DEF Locked, NameAwaited
<1>4. PICK new \in SentForm : new = [nr |-> forms + 1, size |-> size]
  BY <1>t, PresetAssumption DEF SentForm
<1>5. work.form = new /\ new.nr = forms + 1
  BY <1>4
<1>6. \A f \in SentForm : FormKnown(f) => FormKnown(f)'
  <2> SUFFICES ASSUME NEW f \in SentForm, FormKnown(f) PROVE FormKnown(f)'
    OBVIOUS
  <2>1. f.nr \in Nat /\ f.nr <= forms
    BY DEF SentForm, FormKnown
  <2>2. f.nr <= forms' /\ f.nr # forms + 1
    BY <1>t, <2>1
  <2>3. \A s \in Clerks : Saving(s)' /\ clerk'[s].form.nr = f.nr => clerk'[s].form = f
    BY <1>1, <1>2, <1>5, <2>2 DEF FormKnown
  <2>4. QED
    BY <2>2, <2>3 DEF FormKnown, Saving
<1>7. FormKnown(new)'
  <2>1. \A q \in Presets : savedForm[q].nr # forms + 1
    BY <1>t DEF FormsKnown, FormKnown, PresetTypeOK, SentForm
  <2>2. \A s \in Clerks \ {r} : Saving(s) => clerk[s].form.nr # forms + 1
    BY <1>t, SavingOrSitting DEF FormsKnown, FormKnown, SentForm
  <2>3. new.nr <= forms' /\ (new.nr = 0 => new.size = 0)
    BY <1>5, <1>t
  <2>4. \A s \in Clerks : Saving(s)' /\ clerk'[s].form.nr = new.nr => clerk'[s].form = new
    BY <1>1, <1>2, <1>5, <2>2
  <2>5. \A q \in Presets : savedForm'[q].nr = new.nr => savedForm'[q] = new
    BY <1>5, <2>1
  <2>6. QED
    BY <2>3, <2>4, <2>5 DEF FormKnown, Saving
<1>8. PresetTypeOK'
  BY <1>t DEF PresetTypeOK
<1>9. NamesApart'
  <2>1. Listed' = Listed
    BY DEF Listed
  <2>2. \A q \in Listed : presetName[q] = name => q = p
    BY DEF NameTaken
  <2>3. \A s \in Clerks, q \in Listed : Saving(s)' /\ presetName[q] = clerk'[s].name => q = clerk'[s].preset
    BY <1>t, <1>1, <1>2, <2>2 DEF NamesApart
  <2>4. \A s, u \in Clerks : Saving(s)' /\ Saving(u)' /\ s # u =>
            clerk'[s].preset # clerk'[u].preset /\ clerk'[s].name # clerk'[u].name
    BY <1>t, <1>1, <1>2, <1>3 DEF NamesApart
  <2>5. QED
    BY <1>t, <2>1, <2>3, <2>4 DEF NamesApart, Saving
<1>10. ValuesWhole'
  <2>1. Listed' = Listed /\ \A q : ValuesOf(q)' = ValuesOf(q)
    BY DEF Listed, ValuesOf
  <2>2. \A s \in Clerks : clerk'[s].op = "insert" => clerk'[s].cleared = ValuesOf(clerk'[s].preset)
    BY <1>t, <1>1 DEF ValuesWhole
  <2>3. \A q \in Presets :
            /\ ValuesOf(q)' = IF q \in Listed' THEN FormRows(q, savedForm'[q]) ELSE {}
            /\ q \notin untidy' => {presetValues'[v] : v \in ValuesOf(q)'} = 1 .. Cardinality(ValuesOf(q)')
    BY <1>t, <2>1 DEF ValuesWhole
  <2>4. \A s \in Clerks : clerk'[s].op = "insert" => clerk'[s].cleared = ValuesOf(clerk[s].preset)'
    BY <2>1, <2>2
  <2>5. QED
    BY <2>3, <2>4 DEF ValuesWhole
<1>11. FormsKnown'
  <2>1. \A q \in Presets : FormKnown(savedForm[q])'
    BY <1>t, <1>6 DEF FormsKnown, PresetTypeOK
  <2>2. \A s \in Clerks \ {r} : Saving(s) => FormKnown(clerk[s].form)'
    <3> SUFFICES ASSUME NEW s \in Clerks \ {r}, Saving(s) PROVE FormKnown(clerk[s].form)'
      OBVIOUS
    <3>1. PICK f \in SentForm : f = clerk[s].form
      BY <1>t, SavingOrSitting
    <3>2. FormKnown(f)
      BY <1>t, <3>1 DEF FormsKnown
    <3>3. FormKnown(f)' /\ clerk'[s].form = f
      BY <1>6, <1>1, <3>1, <3>2
    <3>4. QED
      BY <3>3
  <2>3. FormKnown(clerk[r].form)'
    BY <1>1, <1>5, <1>7
  <2>4. \A s \in Clerks : Saving(s)' => FormKnown(clerk[s].form)'
    BY <1>2, <2>2, <2>3
  <2>5. QED
    BY <2>1, <2>4 DEF FormsKnown
<1>12. QED
  BY <1>t, <1>6, <1>8, <1>9, <1>10, <1>11, OpenStays DEF PresetInv

LEMMA UpdatePresetRowKeeps ==
    ASSUME PresetInv, NEW r \in Clerks, NEW p \in Presets, NEW name \in PresetNames, NEW size \in 1 .. MaxValues,
           UpdatePresetRow(r, p, name, size)
    PROVE  PresetInv'
<1>w. PICK work : work = [op |-> "clear", preset |-> p, name |-> name, form |-> [nr |-> forms + 1, size |-> size]]
  OBVIOUS
<1>1. forms \in Nat
  BY DEF PresetInv, PresetTypeOK
<1>2. /\ work \in ClerkWork /\ work.op \in {"clear", "insert"} /\ work.preset = p /\ work.name = name
      /\ work.form = [nr |-> forms + 1, size |-> size] /\ (work.op = "insert" => work.cleared = ValuesOf(p))
  BY <1>w, <1>1, PresetAssumption DEF ClerkWork, SentForm
<1>3. clerk' = [clerk EXCEPT ![r] = work]
  BY <1>w DEF UpdatePresetRow
<1>4. /\ clerk[r] = Sitting /\ ~Locked(p) /\ ~NameTaken(p, name) /\ ~NameAwaited(p, name)
      /\ forms' = forms + 1 /\ UNCHANGED <<presetName, presetValues, openPreset, savedForm, untidy>>
  BY DEF UpdatePresetRow
<1>5. QED
  BY <1>2, <1>3, <1>4, SaveBegins

LEMMA InsertPresetRowKeeps ==
    ASSUME PresetInv, NEW r \in Clerks, NEW p \in Presets, NEW name \in PresetNames, NEW size \in 1 .. MaxValues,
           InsertPresetRow(r, p, name, size)
    PROVE  PresetInv'
<1>w. PICK work : work = [op |-> "insert", preset |-> p, name |-> name,
                    form |-> [nr |-> forms + 1, size |-> size], cleared |-> {}]
  OBVIOUS
<1>1. forms \in Nat /\ p \notin Listed
  BY PresetAssumption DEF PresetInv, PresetTypeOK, InsertPresetRow, Listed, Nameless
<1>2. ValuesOf(p) = {}
  BY <1>1 DEF PresetInv, ValuesWhole
<1>3. /\ work \in ClerkWork /\ work.op \in {"clear", "insert"} /\ work.preset = p /\ work.name = name
      /\ work.form = [nr |-> forms + 1, size |-> size] /\ (work.op = "insert" => work.cleared = ValuesOf(p))
  BY <1>w, <1>1, <1>2, PresetAssumption DEF ClerkWork, SentForm
<1>4. clerk' = [clerk EXCEPT ![r] = work]
  BY <1>w DEF InsertPresetRow
<1>5. /\ clerk[r] = Sitting /\ ~Locked(p) /\ ~NameTaken(p, name) /\ ~NameAwaited(p, name)
      /\ forms' = forms + 1 /\ UNCHANGED <<presetName, presetValues, openPreset, savedForm, untidy>>
  BY DEF InsertPresetRow
<1>6. QED
  BY <1>3, <1>4, <1>5, SaveBegins

\* A step that only ends transactions, or takes one further, keeps what the others rely on.
LEMMA ClerkMoves ==
    ASSUME PresetInv, NEW r \in Clerks, NEW work \in ClerkWork, clerk' = [clerk EXCEPT ![r] = work],
           \/ work = Sitting
           \/ /\ Saving(r) /\ work.op \in {"clear", "insert"} /\ work.preset = clerk[r].preset
              /\ work.name = clerk[r].name /\ work.form = clerk[r].form
              /\ work.op = "insert" => work.cleared = ValuesOf(work.preset),
           UNCHANGED <<presetName, presetValues, openPreset, forms, savedForm, untidy>>
    PROVE  PresetInv'
<1>t. PresetTypeOK /\ NamesApart /\ ValuesWhole /\ FormsKnown /\ OpenWhole
  BY DEF PresetInv
<1>1. clerk'[r] = work /\ \A s \in Clerks \ {r} : clerk'[s] = clerk[s]
  BY <1>t DEF PresetTypeOK
<1>2. \A s \in Clerks : Saving(s)' => /\ Saving(s) /\ clerk'[s].preset = clerk[s].preset
                                      /\ clerk'[s].name = clerk[s].name /\ clerk'[s].form = clerk[s].form
  BY <1>1 DEF Saving, Sitting
<1>3. Listed' = Listed /\ \A q : ValuesOf(q)' = ValuesOf(q)
  BY DEF Listed, ValuesOf
<1>4. PresetTypeOK'
  BY <1>t DEF PresetTypeOK
<1>5. NamesApart'
  BY <1>t, <1>2, <1>3 DEF NamesApart, Saving
<1>6. ValuesWhole'
  <2>1. \A s \in Clerks : clerk'[s].op = "insert" => clerk'[s].cleared = ValuesOf(clerk'[s].preset)
    BY <1>t, <1>1 DEF ValuesWhole, Sitting
  <2>2. \A q \in Presets :
            /\ ValuesOf(q)' = IF q \in Listed' THEN FormRows(q, savedForm'[q]) ELSE {}
            /\ q \notin untidy' => {presetValues'[v] : v \in ValuesOf(q)'} = 1 .. Cardinality(ValuesOf(q)')
    BY <1>t, <1>3 DEF ValuesWhole
  <2>3. \A s \in Clerks : clerk'[s].op = "insert" => clerk'[s].cleared = ValuesOf(clerk[s].preset)'
    BY <1>3, <2>1
  <2>4. QED
    BY <2>2, <2>3 DEF ValuesWhole
<1>7. \A f \in SentForm : FormKnown(f) => FormKnown(f)'
  BY <1>2 DEF FormKnown
<1>8. FormsKnown'
  <2>1. \A q \in Presets : FormKnown(savedForm[q])'
    BY <1>t, <1>7 DEF FormsKnown, PresetTypeOK
  <2>2. \A s \in Clerks : Saving(s)' => FormKnown(clerk[s].form)'
    <3> SUFFICES ASSUME NEW s \in Clerks, Saving(s)' PROVE FormKnown(clerk[s].form)'
      OBVIOUS
    <3>1. PICK f \in SentForm : f = clerk[s].form
      BY <1>t, <1>2, SavingOrSitting
    <3>2. FormKnown(f)
      BY <1>t, <1>2, <3>1 DEF FormsKnown
    <3>3. FormKnown(f)' /\ clerk'[s].form = f
      BY <1>7, <1>2, <3>1, <3>2
    <3>4. QED
      BY <3>3
  <2>3. QED
    BY <2>1, <2>2 DEF FormsKnown
<1>9. QED
  BY <1>t, <1>4, <1>5, <1>6, <1>7, <1>8, OpenStays DEF PresetInv

LEMMA ClearValuesKeeps ==
    ASSUME PresetInv, NEW r \in Clerks, ClearValues(r)
    PROVE  PresetInv'
<1>w. PICK work : work = [op |-> "insert", preset |-> clerk[r].preset, name |-> clerk[r].name,
                    form |-> clerk[r].form, cleared |-> ValuesOf(clerk[r].preset)]
  OBVIOUS
<1>1. Saving(r) /\ DOMAIN presetValues \subseteq ValueRow
  BY DEF ClearValues, Saving, PresetInv, PresetTypeOK
<1>2. clerk[r].preset \in Presets /\ clerk[r].name \in PresetNames /\ clerk[r].form \in SentForm
  BY <1>1, SavingOrSitting DEF PresetInv
<1>3. ValuesOf(clerk[r].preset) \subseteq ValueRow
  BY <1>1 DEF ValuesOf
<1>4. /\ work \in ClerkWork /\ work.op \in {"clear", "insert"} /\ work.preset = clerk[r].preset
      /\ work.name = clerk[r].name /\ work.form = clerk[r].form
      /\ work.op = "insert" => work.cleared = ValuesOf(work.preset)
  BY <1>w, <1>2, <1>3 DEF ClerkWork
<1>5. clerk' = [clerk EXCEPT ![r] = work]
  BY <1>w DEF ClearValues
<1>6. QED
  BY <1>1, <1>4, <1>5, ClerkMoves DEF ClearValues

LEMMA RollBackPresetKeeps ==
    ASSUME PresetInv, NEW r \in Clerks, RollBackPreset(r)
    PROVE  PresetInv'
<1>1. Sitting \in ClerkWork
  BY DEF ClerkWork
<1>2. QED
  BY <1>1, ClerkMoves DEF RollBackPreset

\* The commit: the rows of the form stand in for the ones that were deleted.
LEMMA InsertValuesKeeps ==
    ASSUME PresetInv, NEW r \in Clerks, InsertValues(r)
    PROVE  PresetInv'
<1>t. PresetTypeOK /\ NamesApart /\ ValuesWhole /\ FormsKnown /\ OpenWhole /\ Saving(r)
  BY DEF PresetInv, InsertValues, Saving
<1>1. PICK p \in Presets, f \in SentForm, name \in PresetNames :
          p = clerk[r].preset /\ f = clerk[r].form /\ name = clerk[r].name
  <2>1. clerk[r].preset \in Presets /\ clerk[r].name \in PresetNames /\ clerk[r].form \in SentForm
    BY <1>t, SavingOrSitting
  <2>2. QED
    BY <2>1
<1>2. PICK rows : rows = FormRows(p, f)
  OBVIOUS
<1>3. /\ IsFiniteSet(rows) /\ Cardinality(rows) = f.size /\ {v.nth : v \in rows} = 1 .. f.size
      /\ \A v \in rows : v.preset = p /\ v.form = f.nr
  BY <1>2, RowsOfForm
<1>4. rows \subseteq ValueRow
  BY <1>2, FormsInRows
<1>5. /\ presetValues' = [v \in (DOMAIN presetValues \ clerk[r].cleared) \cup rows |->
                              IF v \in rows THEN v.nth ELSE presetValues[v]]
      /\ presetName' = [presetName EXCEPT ![p] = name]
      /\ savedForm' = [savedForm EXCEPT ![p] = f]
      /\ clerk' = [clerk EXCEPT ![r] = Sitting]
      /\ untidy' = untidy \ {p}
      /\ UNCHANGED <<openPreset, forms>>
  BY <1>1, <1>2 DEF InsertValues
<1>6. clerk[r].cleared = ValuesOf(p)
  BY <1>t, <1>1 DEF ValuesWhole, InsertValues
<1>7. /\ DOMAIN presetValues' = (DOMAIN presetValues \ ValuesOf(p)) \cup rows
      /\ \A v \in rows : presetValues'[v] = v.nth
      /\ \A v \in (DOMAIN presetValues \ ValuesOf(p)) \ rows : presetValues'[v] = presetValues[v]
      /\ presetValues' = [v \in DOMAIN presetValues' |-> presetValues'[v]]
  BY <1>5, <1>6
<1>8. clerk'[r] = Sitting /\ \A s \in Clerks \ {r} : clerk'[s] = clerk[s]
  BY <1>t, <1>5 DEF PresetTypeOK
<1>9. ~Saving(r)' /\ \A s \in Clerks \ {r} : Saving(s)' <=> Saving(s)
  BY <1>8 DEF Saving, Sitting
<1>10. /\ presetName'[p] = name /\ \A q \in Presets \ {p} : presetName'[q] = presetName[q]
       /\ savedForm'[p] = f /\ \A q \in Presets \ {p} : savedForm'[q] = savedForm[q]
  BY <1>t, <1>5 DEF PresetTypeOK
<1>11. p \in Listed' /\ \A q \in Presets \ {p} : q \in Listed' <=> q \in Listed
  BY <1>10 DEF Listed
<1>12. PresetTypeOK'
  <2>1. DOMAIN presetValues' \subseteq ValueRow
    BY <1>t, <1>4, <1>7 DEF PresetTypeOK
  <2>2. Sitting \in ClerkWork
    BY DEF ClerkWork
  <2>3. clerk' \in [Clerks -> ClerkWork]
    BY <1>t, <1>5, <2>2 DEF PresetTypeOK
  <2>4. presetName' \in [Presets -> PresetNames \cup {Nameless, Deleted}] /\ savedForm' \in [Presets -> SentForm]
    BY <1>t, <1>5 DEF PresetTypeOK
  <2>5. forms' \in Nat
    BY <1>t, <1>5 DEF PresetTypeOK
  <2>6. QED
    BY <1>7, <2>1, <2>3, <2>4, <2>5 DEF PresetTypeOK
<1>13. NamesApart'
  <2>1. \A q \in Listed \ {p} : presetName[q] # name
    BY <1>t, <1>1 DEF NamesApart
  <2>2. \A q, u \in Listed' : presetName'[q] = presetName'[u] => q = u
    BY <1>t, <1>10, <1>11, <2>1 DEF NamesApart, Listed
  <2>3. \A s \in Clerks \ {r} : Saving(s) => clerk[s].name # name
    BY <1>t, <1>1 DEF NamesApart
  <2>4. \A s \in Clerks, q \in Listed' : Saving(s)' /\ presetName'[q] = clerk'[s].name => q = clerk'[s].preset
    BY <1>t, <1>8, <1>9, <1>10, <1>11, <2>3 DEF NamesApart, Listed
  <2>5. \A s, u \in Clerks : Saving(s)' /\ Saving(u)' /\ s # u =>
            clerk'[s].preset # clerk'[u].preset /\ clerk'[s].name # clerk'[u].name
    BY <1>t, <1>8, <1>9 DEF NamesApart
  <2>6. QED
    BY <2>2, <2>4, <2>5 DEF NamesApart, Saving
<1>14. ValuesOf(p)' = rows /\ \A q \in Presets \ {p} : ValuesOf(q)' = ValuesOf(q)
  BY <1>3, <1>7 DEF ValuesOf
<1>15. ValuesWhole'
  <2>1. ValuesOf(p)' = FormRows(p, savedForm'[p])
    BY <1>2, <1>10, <1>14
  <2>2. {presetValues'[v] : v \in ValuesOf(p)'} = 1 .. Cardinality(ValuesOf(p)')
    BY <1>3, <1>7, <1>14
  <2>3. \A q \in Presets \ {p} : \A v \in ValuesOf(q) : presetValues'[v] = presetValues[v]
    BY <1>3, <1>7 DEF ValuesOf
  <2>4. ASSUME NEW q \in Presets \ {p}
        PROVE  /\ ValuesOf(q)' = IF q \in Listed' THEN FormRows(q, savedForm'[q]) ELSE {}
               /\ q \notin untidy' => {presetValues'[v] : v \in ValuesOf(q)'} = 1 .. Cardinality(ValuesOf(q)')
    <3>1. ValuesOf(q) = IF q \in Listed THEN FormRows(q, savedForm[q]) ELSE {}
      BY <1>t DEF ValuesWhole
    <3>2. q \notin untidy => {presetValues[v] : v \in ValuesOf(q)} = 1 .. Cardinality(ValuesOf(q))
      BY <1>t DEF ValuesWhole
    <3>3. {presetValues'[v] : v \in ValuesOf(q)} = {presetValues[v] : v \in ValuesOf(q)}
      BY <2>3
    <3>4. QED
      BY <1>5, <1>10, <1>11, <1>14, <3>1, <3>2, <3>3
  <2>5. \A s \in Clerks : clerk'[s].op = "insert" => clerk'[s].cleared = ValuesOf(clerk[s].preset)'
    <3> SUFFICES ASSUME NEW s \in Clerks, clerk'[s].op = "insert"
                 PROVE  clerk'[s].cleared = ValuesOf(clerk[s].preset)'
      OBVIOUS
    <3>1. s # r /\ clerk'[s] = clerk[s]
      BY <1>8 DEF Sitting
    <3>2. PICK q \in Presets : q = clerk[s].preset
      BY <1>t, <3>1, SavingOrSitting DEF Saving
    <3>3. q # p
      BY <1>t, <1>1, <3>1, <3>2 DEF NamesApart, Saving
    <3>4. clerk[s].cleared = ValuesOf(q)
      BY <1>t, <3>1, <3>2 DEF ValuesWhole
    <3>5. ValuesOf(q)' = ValuesOf(clerk[s].preset)'
      BY <3>1, <3>2
    <3>6. QED
      BY <1>14, <3>1, <3>3, <3>4, <3>5
  <2>6. QED
    BY <1>11, <2>1, <2>2, <2>4, <2>5 DEF ValuesWhole
<1>16. \A g \in SentForm : FormKnown(g) => FormKnown(g)'
  <2> SUFFICES ASSUME NEW g \in SentForm, FormKnown(g) PROVE FormKnown(g)'
    OBVIOUS
  <2>1. f.nr = g.nr => f = g
    BY <1>t, <1>1 DEF FormKnown
  <2>2. \A q \in Presets : savedForm'[q].nr = g.nr => savedForm'[q] = g
    BY <1>10, <2>1 DEF FormKnown
  <2>3. \A s \in Clerks : Saving(s)' /\ clerk'[s].form.nr = g.nr => clerk'[s].form = g
    BY <1>8, <1>9 DEF FormKnown
  <2>4. QED
    BY <1>5, <2>2, <2>3 DEF FormKnown, Saving
<1>17. FormsKnown'
  <2>1. \A q \in Presets \ {p} : FormKnown(savedForm[q])'
    <3> SUFFICES ASSUME NEW q \in Presets \ {p} PROVE FormKnown(savedForm[q])'
      OBVIOUS
    <3>1. PICK g \in SentForm : g = savedForm[q]
      BY <1>t DEF PresetTypeOK
    <3>2. FormKnown(g)' /\ savedForm'[q] = g
      BY <1>t, <1>10, <1>16, <3>1 DEF FormsKnown
    <3>3. QED
      BY <3>2
  <2>2. FormKnown(savedForm[p])'
    <3>1. FormKnown(f)
      BY <1>t, <1>1 DEF FormsKnown
    <3>2. FormKnown(f)' /\ savedForm'[p] = f
      BY <1>10, <1>16, <3>1
    <3>3. QED
      BY <3>2
  <2>3. \A s \in Clerks : Saving(s)' => FormKnown(clerk[s].form)'
    <3> SUFFICES ASSUME NEW s \in Clerks, Saving(s)' PROVE FormKnown(clerk[s].form)'
      OBVIOUS
    <3>1. Saving(s) /\ clerk'[s] = clerk[s]
      BY <1>8, <1>9
    <3>2. PICK g \in SentForm : g = clerk[s].form
      BY <1>t, <3>1, SavingOrSitting
    <3>3. FormKnown(g)
      BY <1>t, <3>1, <3>2 DEF FormsKnown
    <3>4. FormKnown(g)' /\ clerk'[s].form = g
      BY <1>16, <3>1, <3>2, <3>3
    <3>5. QED
      BY <3>4
  <2>4. QED
    BY <2>1, <2>2, <2>3 DEF FormsKnown
<1>18. OpenWhole'
  BY <1>t, <1>5, <1>16, OpenStays
<1>19. QED
  BY <1>12, <1>13, <1>15, <1>17, <1>18 DEF PresetInv

LEMMA RemovePresetKeeps ==
    ASSUME PresetInv, NEW p \in Presets, RemovePreset(p)
    PROVE  PresetInv'
<1>t. PresetTypeOK /\ NamesApart /\ ValuesWhole /\ FormsKnown /\ OpenWhole
  BY DEF PresetInv
<1>1. PICK none \in SentForm : none = [nr |-> 0, size |-> 0]
  BY DEF SentForm
<1>2. /\ presetName' = [presetName EXCEPT ![p] = Deleted]
      /\ presetValues' = [v \in DOMAIN presetValues \ ValuesOf(p) |-> presetValues[v]]
      /\ savedForm' = [savedForm EXCEPT ![p] = none]
      /\ untidy' = untidy \ {p}
      /\ UNCHANGED <<clerk, openPreset, forms>>
  BY <1>1 DEF RemovePreset
<1>3. /\ DOMAIN presetValues' = DOMAIN presetValues \ ValuesOf(p)
      /\ \A v \in DOMAIN presetValues' : presetValues'[v] = presetValues[v]
      /\ presetValues' = [v \in DOMAIN presetValues' |-> presetValues'[v]]
  BY <1>2
<1>4. /\ presetName'[p] = Deleted /\ \A q \in Presets \ {p} : presetName'[q] = presetName[q]
      /\ savedForm'[p] = none /\ \A q \in Presets \ {p} : savedForm'[q] = savedForm[q]
  BY <1>t, <1>2 DEF PresetTypeOK
<1>5. p \notin Listed' /\ \A q \in Presets \ {p} : q \in Listed' <=> q \in Listed
  BY <1>4, PresetAssumption DEF Listed, Deleted
<1>6. \A s \in Clerks : (Saving(s)' <=> Saving(s)) /\ (Saving(s) => clerk[s].preset # p)
  BY <1>2 DEF Saving, RemovePreset, Locked, Sitting
<1>7. PresetTypeOK'
  <2>1. presetName' \in [Presets -> PresetNames \cup {Nameless, Deleted}] /\ savedForm' \in [Presets -> SentForm]
    BY <1>t, <1>2 DEF PresetTypeOK
  <2>2. QED
    BY <1>t, <1>2, <1>3, <2>1 DEF PresetTypeOK
<1>8. NamesApart'
  <2>1. \A q, u \in Listed' : presetName'[q] = presetName'[u] => q = u
    BY <1>t, <1>4, <1>5 DEF NamesApart, Listed
  <2>2. \A s \in Clerks, q \in Listed' : Saving(s)' /\ presetName'[q] = clerk'[s].name => q = clerk'[s].preset
    BY <1>t, <1>2, <1>4, <1>5, <1>6 DEF NamesApart, Listed
  <2>3. QED
    BY <1>t, <1>2, <2>1, <2>2 DEF NamesApart, Saving
<1>9. ValuesOf(p)' = {} /\ \A q \in Presets \ {p} : ValuesOf(q)' = ValuesOf(q)
  BY <1>3 DEF ValuesOf
<1>10. ValuesWhole'
  <2>1. {presetValues'[v] : v \in ValuesOf(p)'} = 1 .. Cardinality(ValuesOf(p)')
    <3>1. Cardinality({}) = 0 /\ 1 .. 0 = {}
      BY FS_EmptySet
    <3>2. QED
      BY <1>9, <3>1
  <2>2. \A q \in Presets \ {p} : \A v \in ValuesOf(q) : presetValues'[v] = presetValues[v]
    BY <1>3 DEF ValuesOf
  <2>3. ASSUME NEW q \in Presets \ {p}
        PROVE  /\ ValuesOf(q)' = IF q \in Listed' THEN FormRows(q, savedForm'[q]) ELSE {}
               /\ q \notin untidy' => {presetValues'[v] : v \in ValuesOf(q)'} = 1 .. Cardinality(ValuesOf(q)')
    <3>1. ValuesOf(q) = IF q \in Listed THEN FormRows(q, savedForm[q]) ELSE {}
      BY <1>t DEF ValuesWhole
    <3>2. q \notin untidy => {presetValues[v] : v \in ValuesOf(q)} = 1 .. Cardinality(ValuesOf(q))
      BY <1>t DEF ValuesWhole
    <3>3. {presetValues'[v] : v \in ValuesOf(q)} = {presetValues[v] : v \in ValuesOf(q)}
      BY <2>2
    <3>4. QED
      BY <1>2, <1>4, <1>5, <1>9, <3>1, <3>2, <3>3
  <2>4. \A s \in Clerks : clerk'[s].op = "insert" => clerk'[s].cleared = ValuesOf(clerk[s].preset)'
    <3> SUFFICES ASSUME NEW s \in Clerks, clerk'[s].op = "insert"
                 PROVE  clerk'[s].cleared = ValuesOf(clerk[s].preset)'
      OBVIOUS
    <3>1. PICK q \in Presets : q = clerk[s].preset
      BY <1>t, <1>2, SavingOrSitting DEF Saving
    <3>2. q # p /\ clerk[s].cleared = ValuesOf(q)
      BY <1>t, <1>2, <1>6, <3>1 DEF ValuesWhole, Saving
    <3>3. ValuesOf(q)' = ValuesOf(clerk[s].preset)'
      BY <1>2, <3>1
    <3>4. QED
      BY <1>2, <1>9, <3>2, <3>3
  <2>5. QED
    BY <1>5, <1>9, <2>1, <2>3, <2>4 DEF ValuesWhole
<1>11. \A g \in SentForm : FormKnown(g) => FormKnown(g)'
  <2> SUFFICES ASSUME NEW g \in SentForm, FormKnown(g) PROVE FormKnown(g)'
    OBVIOUS
  <2>1. none.nr = g.nr => none = g
    BY <1>1 DEF FormKnown, SentForm
  <2>2. \A q \in Presets : savedForm'[q].nr = g.nr => savedForm'[q] = g
    BY <1>4, <2>1 DEF FormKnown
  <2>3. QED
    BY <1>2, <2>2 DEF FormKnown, Saving
<1>12. FormsKnown'
  <2>1. FormKnown(none)'
    <3>1. \A q \in Presets : savedForm[q].nr = 0 => savedForm[q] = none
      BY <1>t, <1>1 DEF FormsKnown, FormKnown, PresetTypeOK, SentForm
    <3>2. \A q \in Presets : savedForm'[q].nr = 0 => savedForm'[q] = none
      BY <1>1, <1>4, <3>1
    <3>3. \A s \in Clerks : Saving(s)' /\ clerk'[s].form.nr = 0 => clerk'[s].form = none
      BY <1>t, <1>1, <1>2, <1>6, SavingOrSitting DEF FormsKnown, FormKnown, SentForm
    <3>4. forms' \in Nat /\ none.nr = 0 /\ none.size = 0
      BY <1>t, <1>1, <1>2 DEF PresetTypeOK
    <3>5. QED
      BY <3>2, <3>3, <3>4 DEF FormKnown, Saving
  <2>2. FormKnown(savedForm[p])'
    BY <1>4, <2>1
  <2>3. \A q \in Presets \ {p} : FormKnown(savedForm[q])'
    <3> SUFFICES ASSUME NEW q \in Presets \ {p} PROVE FormKnown(savedForm[q])'
      OBVIOUS
    <3>1. PICK g \in SentForm : g = savedForm[q]
      BY <1>t DEF PresetTypeOK
    <3>2. FormKnown(g)' /\ savedForm'[q] = g
      BY <1>t, <1>4, <1>11, <3>1 DEF FormsKnown
    <3>3. QED
      BY <3>2
  <2>4. \A s \in Clerks : Saving(s)' => FormKnown(clerk[s].form)'
    <3> SUFFICES ASSUME NEW s \in Clerks, Saving(s)' PROVE FormKnown(clerk[s].form)'
      OBVIOUS
    <3>1. PICK g \in SentForm : g = clerk[s].form
      BY <1>t, <1>6, SavingOrSitting
    <3>2. FormKnown(g)
      BY <1>t, <1>6, <3>1 DEF FormsKnown
    <3>3. FormKnown(g)' /\ clerk'[s].form = g
      BY <1>2, <1>11, <3>1, <3>2
    <3>4. QED
      BY <3>3
  <2>5. QED
    BY <2>2, <2>3, <2>4 DEF FormsKnown
<1>13. OpenWhole'
  BY <1>t, <1>2, <1>11, OpenStays
<1>14. QED
  BY <1>7, <1>8, <1>10, <1>12, <1>13 DEF PresetInv

LEMMA OpenPresetKeeps ==
    ASSUME PresetInv, NEW p \in Presets, OpenPreset(p)
    PROVE  PresetInv'
<1>t. PresetTypeOK /\ NamesApart /\ ValuesWhole /\ FormsKnown /\ OpenWhole
  BY DEF PresetInv
<1>1. PICK V : V = ValuesOf(p)
  OBVIOUS
<1>2. openPreset' = V /\ UNCHANGED <<presetName, presetValues, clerk, forms, savedForm, untidy>>
  BY <1>1 DEF OpenPreset
<1>3. PICK f \in SentForm : f = savedForm[p]
  BY <1>t DEF PresetTypeOK
<1>4. FormKnown(f) /\ V = FormRows(p, f)
  BY <1>t, <1>1, <1>3 DEF FormsKnown, ValuesWhole, OpenPreset
<1>5. FormKnown(f)'
  BY <1>2, <1>4 DEF FormKnown, Saving
<1>6. OpenWhole'
  BY <1>2, <1>4, <1>5 DEF OpenWhole
<1>7. PresetTypeOK' /\ NamesApart' /\ FormsKnown'
  BY <1>t, <1>2 DEF PresetTypeOK, NamesApart, FormsKnown, FormKnown, Saving, Listed
<1>8. ValuesWhole'
  BY <1>t, <1>2 DEF ValuesWhole, ValuesOf, Listed
<1>9. QED
  BY <1>6, <1>7, <1>8 DEF PresetInv

\* A page's order that finds one of its values finds all the values of the preset.
LEMMA OrderFindsAll ==
    ASSUME PresetInv, NEW v \in openPreset \cap DOMAIN presetValues
    PROVE  openPreset = ValuesOf(v.preset) /\ \A w \in openPreset : w.preset = v.preset
<1>t. PresetTypeOK /\ ValuesWhole /\ OpenWhole
  BY DEF PresetInv
<1>1. PICK p \in Presets, f \in SentForm : FormKnown(f) /\ openPreset = FormRows(p, f)
  BY <1>t DEF OpenWhole
<1>2. \A w \in openPreset : w.preset = p /\ w.form = f.nr
  BY <1>1, RowsOfForm
<1>3. v \in ValuesOf(p)
  BY <1>2 DEF ValuesOf
<1>4. ValuesOf(p) = FormRows(p, savedForm[p]) /\ savedForm[p] \in SentForm
  BY <1>t, <1>3 DEF ValuesWhole, PresetTypeOK
<1>5. v.form = savedForm[p].nr
  BY <1>3, <1>4, RowsOfForm
<1>6. savedForm[p] = f
  BY <1>1, <1>2, <1>5 DEF FormKnown
<1>7. QED
  BY <1>1, <1>2, <1>4, <1>6

\* A page's order numbers all the values of its preset or none; any other request is
\* remembered for each preset it names.
LEMMA ReorderDimensionValuesKeeps ==
    ASSUME PresetInv, NEW request, ReorderDimensionValues(request)
    PROVE  PresetInv'
<1>t. PresetTypeOK /\ NamesApart /\ ValuesWhole /\ FormsKnown /\ OpenWhole
  BY DEF PresetInv
<1>1. PICK named : named = {v.preset : v \in DOMAIN request}
  OBVIOUS
<1>2. PICK old : old = presetValues
  OBVIOUS
<1>3. /\ presetValues' = [v \in DOMAIN old |-> IF v \in DOMAIN request THEN request[v] ELSE old[v]]
      /\ untidy' = IF request \in PageOrders THEN untidy \ named ELSE untidy \cup named
      /\ UNCHANGED <<presetName, clerk, openPreset, forms, savedForm>>
  BY <1>1, <1>2 DEF ReorderDimensionValues, NoteOrder
<1>4. /\ DOMAIN presetValues' = DOMAIN presetValues
      /\ presetValues' = [v \in DOMAIN presetValues' |-> presetValues'[v]]
      /\ \A v \in DOMAIN presetValues :
             presetValues'[v] = IF v \in DOMAIN request THEN request[v] ELSE presetValues[v]
  BY <1>2, <1>3
<1>5. Listed' = Listed /\ \A q : ValuesOf(q)' = ValuesOf(q)
  BY <1>3, <1>4 DEF Listed, ValuesOf
<1>6. ASSUME NEW q \in Presets, q \notin untidy'
      PROVE  {presetValues'[v] : v \in ValuesOf(q)} = 1 .. Cardinality(ValuesOf(q))
  <2>1. CASE q \notin named
    <3>1. q \notin untidy
      BY <1>3, <1>6, <2>1
    <3>2. \A v \in ValuesOf(q) : presetValues'[v] = presetValues[v]
      BY <1>1, <1>4, <2>1 DEF ValuesOf
    <3>3. {presetValues'[v] : v \in ValuesOf(q)} = {presetValues[v] : v \in ValuesOf(q)}
      BY <3>2
    <3>4. QED
      BY <1>t, <3>1, <3>3 DEF ValuesWhole
  <2>2. CASE q \in named
    <3>1. request \in PageOrders
      BY <1>3, <1>6, <2>2
    <3>2. PICK page : page = openPreset
      OBVIOUS
    <3>3. PICK n : n = Cardinality(page)
      OBVIOUS
    <3>4. request \in [page -> 1 .. n] /\ \A k \in 1 .. n : \E v \in page : request[v] = k
      BY <3>1, <3>2, <3>3 DEF PageOrders
    <3>5. DOMAIN request = page
      BY <3>4
    <3>6. PICK v0 \in openPreset \cap DOMAIN presetValues : TRUE
      BY <3>2, <3>5 DEF ReorderDimensionValues
    <3>7. page = ValuesOf(v0.preset) /\ \A w \in page : w.preset = v0.preset
      BY <3>2, <3>6, OrderFindsAll
    <3>8. q = v0.preset
      BY <1>1, <2>2, <3>5, <3>7
    <3>9. ValuesOf(q) = page
      BY <3>7, <3>8
    <3>10. \A v \in page : presetValues'[v] = request[v]
      BY <1>4, <3>5, <3>9 DEF ValuesOf
    <3>11. {presetValues'[v] : v \in page} = 1 .. n
      BY <3>4, <3>10
    <3>12. QED
      BY <3>3, <3>9, <3>11
  <2>3. QED
    BY <2>1, <2>2
<1>7. ValuesWhole'
  <2>1. \A q \in Presets : ValuesOf(q)' = IF q \in Listed' THEN FormRows(q, savedForm'[q]) ELSE {}
    BY <1>t, <1>3, <1>5 DEF ValuesWhole
  <2>2. \A q \in Presets : q \notin untidy' => {presetValues'[v] : v \in ValuesOf(q)'} = 1 .. Cardinality(ValuesOf(q)')
    BY <1>5, <1>6
  <2>3. \A s \in Clerks : clerk'[s].op = "insert" => clerk'[s].cleared = ValuesOf(clerk[s].preset)'
    <3>1. \A s \in Clerks : ValuesOf(clerk[s].preset)' = ValuesOf(clerk[s].preset)
      BY <1>3, <1>4 DEF ValuesOf
    <3>2. QED
      BY <1>t, <1>3, <3>1 DEF ValuesWhole
  <2>4. QED
    BY <2>1, <2>2, <2>3 DEF ValuesWhole
<1>9. PresetTypeOK' /\ NamesApart' /\ FormsKnown'
  <2>1. PresetTypeOK'
    BY <1>t, <1>3, <1>4 DEF PresetTypeOK
  <2>2. NamesApart' /\ FormsKnown'
    BY <1>t, <1>3 DEF NamesApart, FormsKnown, FormKnown, Saving, Listed
  <2>3. QED
    BY <2>1, <2>2
<1>10. OpenWhole'
  BY <1>t, <1>3 DEF OpenWhole, FormKnown, Saving
<1>11. QED
  BY <1>7, <1>9, <1>10 DEF PresetInv

LEMMA PresetsStep == PresetInv /\ [NextPresets]_presetVars => PresetInv'
<1> SUFFICES ASSUME PresetInv, [NextPresets]_presetVars PROVE PresetInv'
  OBVIOUS
<1>1. ASSUME NEW r \in Clerks, SavePreset(r) PROVE PresetInv'
  BY <1>1, UpdatePresetRowKeeps, InsertPresetRowKeeps, ClearValuesKeeps, InsertValuesKeeps, RollBackPresetKeeps
     DEF SavePreset
<1>2. ASSUME NEW p \in Presets, RemovePreset(p) \/ OpenPreset(p) PROVE PresetInv'
  BY <1>2, RemovePresetKeeps, OpenPresetKeeps
<1>3. ASSUME NEW request, ReorderDimensionValues(request) PROVE PresetInv'
  BY <1>3, ReorderDimensionValuesKeeps
<1>4. CASE UNCHANGED presetVars
  <2>1. UNCHANGED <<presetName, presetValues, clerk, openPreset, forms, savedForm, untidy>>
    BY <1>4 DEF presetVars
  <2>t. PresetTypeOK /\ NamesApart /\ ValuesWhole /\ FormsKnown /\ OpenWhole
    BY DEF PresetInv
  <2>2. PresetTypeOK'
    BY <2>1, <2>t DEF PresetTypeOK
  <2>3. NamesApart'
    BY <2>1, <2>t DEF NamesApart, Saving, Listed
  <2>4. FormsKnown'
    BY <2>1, <2>t DEF FormsKnown, FormKnown, Saving
  <2>5. ValuesWhole'
    BY <2>1, <2>t DEF ValuesWhole, ValuesOf, Listed
  <2>6. OpenWhole'
    BY <2>1, <2>t DEF OpenWhole, FormKnown, Saving
  <2>7. QED
    BY <2>2, <2>3, <2>4, <2>5, <2>6 DEF PresetInv
<1>5. QED
  BY <1>1, <1>2, <1>3, <1>4 DEF NextPresets

LEMMA PresetsConclude == PresetInv => PresetsHold
BY DEF PresetInv, NamesApart, ValuesWhole, PresetsHold

\* However saves, removals and orders of an older page overlap, the values of a
\* preset are those of the form that was saved last, and each has a place of its own
\* unless a request that no page sends has named values of the preset since.
THEOREM PresetsCorrect == PresetSpec => []PresetsHold
<1>1. InitPresets => PresetInv
  BY PresetsStart
<1>2. PresetInv /\ [NextPresets]_presetVars => PresetInv'
  BY PresetsStep
<1>3. PresetInv => PresetsHold
  BY PresetsConclude
<1>4. QED
  BY <1>1, <1>2, <1>3, PTL DEF PresetSpec

-----------------------------------------------------------------------------
(* The options of a product's form.                                        *)
-----------------------------------------------------------------------------

\* g goes through T, each once, as S is counted.
OneEach(g, S, T) ==
    /\ g \in [S -> T]
    /\ \A x, y \in S : g[x] = g[y] => x = y
    /\ \A t \in T : \E x \in S : g[x] = t

OptionWords == [dimension : Nat, value : Nat]
UpTo(a, b) == a = b \/ Before(a, b)

LEMMA OneEachOfEqual ==
    ASSUME NEW S, IsFiniteSet(S), NEW T, IsFiniteSet(T), Cardinality(S) = Cardinality(T),
           NEW g \in [S -> T], \A x, y \in S : g[x] = g[y] => x = y
    PROVE  OneEach(g, S, T)
<1>1. g \in Injection(S, T)
  BY DEF Injection, IsInjective
<1>2. g \in Surjection(S, T)
  BY <1>1, FS_Injection
<1>3. QED
  BY <1>2 DEF Surjection, OneEach

LEMMA OneEachCounts ==
    ASSUME NEW S, IsFiniteSet(S), NEW T, NEW g, OneEach(g, S, T)
    PROVE  IsFiniteSet(T) /\ Cardinality(T) = Cardinality(S)
<1>1. g \in Injection(S, T) /\ g \in Surjection(S, T)
  BY DEF OneEach, Injection, IsInjective, Surjection
<1>2. ExistsBijection(S, T)
  BY <1>1 DEF Bijection, ExistsBijection
<1>3. QED
  BY <1>2, FS_Bijection

LEMMA OneEachThen ==
    ASSUME NEW S, NEW P, NEW g, OneEach(g, S, P), NEW order, OneEach(order, S, S),
           NEW h, h = [n \in S |-> g[order[n]]]
    PROVE  OneEach(h, S, P)
<1>2. h \in [S -> P] /\ \A n \in S : h[n] = g[order[n]] /\ order[n] \in S
  BY DEF OneEach
<1>3. \A m, n \in S : h[m] = h[n] => m = n
  BY <1>2 DEF OneEach
<1>4. \A p \in P : \E n \in S : h[n] = p
  <2> SUFFICES ASSUME NEW p \in P PROVE \E n \in S : h[n] = p
    OBVIOUS
  <2>1. PICK m \in S : g[m] = p
    BY DEF OneEach
  <2>2. PICK n \in S : order[n] = m
    BY DEF OneEach
  <2>3. QED
    BY <1>2, <2>1, <2>2
<1>5. QED
  BY <1>2, <1>3, <1>4 DEF OneEach

LEMMA Counted ==
    ASSUME NEW k \in Nat
    PROVE  IsFiniteSet(1 .. k) /\ Cardinality(1 .. k) = k
BY FS_Interval

\* OptionWords are put in order one way only.
LEMMA WordsOrdered ==
    /\ \A a \in OptionWords : ~Before(a, a)
    /\ \A a, b \in OptionWords : a # b => Before(a, b) \/ Before(b, a)
    /\ \A a, b, c \in OptionWords : Before(a, b) /\ Before(b, c) => Before(a, c)
BY DEF OptionWords, Before

Rising(T, g, N) == \A m, n \in 1 .. N : m < n => UpTo(T[g[m]], T[g[n]])

LEMMA NotBefore ==
    ASSUME NEW N \in Nat, NEW P, NEW T \in [P -> OptionWords], NEW g, OneEach(g, 1 .. N, P), NEW h, OneEach(h, 1 .. N, P),
           Rising(T, g, N), Rising(T, h, N),
           NEW k \in 1 .. N
    PROVE  ~Before(T[g[k]], T[h[k]])
<1>1. SUFFICES ASSUME Before(T[g[k]], T[h[k]]) PROVE FALSE
  OBVIOUS
<1>2. \A n \in 1 .. N : g[n] \in P /\ h[n] \in P /\ T[g[n]] \in OptionWords /\ T[h[n]] \in OptionWords
  BY DEF OneEach
<1>3. \A n \in 1 .. k : \E m \in 1 .. (k - 1) : h[m] = g[n]
  <2> SUFFICES ASSUME NEW n \in 1 .. k PROVE \E m \in 1 .. (k - 1) : h[m] = g[n]
    OBVIOUS
  <2>1. n \in 1 .. N
    OBVIOUS
  <2>2. PICK m \in 1 .. N : h[m] = g[n]
    BY <1>2, <2>1 DEF OneEach
  <2>3. UpTo(T[g[n]], T[g[k]])
    BY <2>1 DEF UpTo, Rising
  <2>4. CASE m < k
    BY <2>2, <2>4
  <2>5. CASE ~(m < k)
    <3>1. UpTo(T[h[k]], T[h[m]])
      BY <2>5 DEF UpTo, Rising
    <3>2. Before(T[g[k]], T[h[m]])
      BY <1>1, <1>2, <3>1, WordsOrdered DEF UpTo
    <3>3. UpTo(T[h[m]], T[g[k]])
      BY <2>2, <2>3
    <3>4. Before(T[g[k]], T[g[k]])
      BY <1>2, <3>2, <3>3, WordsOrdered DEF UpTo
    <3>5. QED
      BY <1>2, <3>4, WordsOrdered
  <2>6. QED
    BY <2>4, <2>5
<1>4. PICK j : j = [n \in 1 .. k |-> CHOOSE m \in 1 .. (k - 1) : h[m] = g[n]]
  OBVIOUS
<1>5. j \in [1 .. k -> 1 .. (k - 1)] /\ \A n \in 1 .. k : h[j[n]] = g[n]
  BY <1>3, <1>4
<1>6. k \in Nat /\ k - 1 \in Nat
  OBVIOUS
<1>7. IsFiniteSet(1 .. k) /\ Cardinality(1 .. k) = k
  BY <1>6, Counted
<1>8. IsFiniteSet(1 .. (k - 1)) /\ Cardinality(1 .. (k - 1)) = k - 1
  <2>1. PICK l \in Nat : l = k - 1
    BY <1>6
  <2>2. QED
    BY <2>1, Counted
<1>9. PICK x, y \in 1 .. k : x # y /\ j[x] = j[y]
  <2>1. PICK S, L : S = 1 .. k /\ L = 1 .. (k - 1)
    OBVIOUS
  <2>2. IsFiniteSet(S) /\ IsFiniteSet(L) /\ Cardinality(L) < Cardinality(S) /\ j \in [S -> L]
    BY <1>5, <1>6, <1>7, <1>8, <2>1
  <2>3. \E x, y \in S : x # y /\ j[x] = j[y]
    BY <2>2, FS_PigeonHole
  <2>4. QED
    BY <2>1, <2>3
<1>10. g[x] = g[y]
  BY <1>5, <1>9, Zenon
<1>x. x \in 1 .. N /\ y \in 1 .. N
  BY <1>6
<1>11. QED
  BY <1>9, <1>10, <1>x DEF OneEach

\* So whoever goes through the same choices in whatever order comes to the same words.
LEMMA SortedAlike ==
    ASSUME NEW N \in Nat, NEW P, NEW T \in [P -> OptionWords], NEW g, OneEach(g, 1 .. N, P), NEW h, OneEach(h, 1 .. N, P),
           Rising(T, g, N), Rising(T, h, N)
    PROVE  \A n \in 1 .. N : T[g[n]] = T[h[n]]
<1>1. \A k \in 1 .. N : ~Before(T[g[k]], T[h[k]]) /\ ~Before(T[h[k]], T[g[k]])
  BY NotBefore
<1>2. \A k \in 1 .. N : T[g[k]] \in OptionWords /\ T[h[k]] \in OptionWords
  BY DEF OneEach
<1>3. QED
  BY <1>1, <1>2, WordsOrdered

-----------------------------------------------------------------------------

LEMMA FormFacts ==
    ASSUME NEW ids, NEW f \in FormShape(ids)
    PROVE  /\ Len(f.dims) \in Nat /\ DOMAIN f.dims = 1 .. Len(f.dims)
           /\ Len(f.variants) \in Nat \ {0} /\ DOMAIN f.variants = 1 .. Len(f.variants)
           /\ f.stored \subseteq Nat
           /\ \A i \in 1 .. Len(f.dims) :
                /\ f.dims[i].id \in Nat /\ f.dims[i].name \in Nat
                /\ Len(f.dims[i].options) \in Nat /\ DOMAIN f.dims[i].options = 1 .. Len(f.dims[i].options)
                /\ \A j \in DOMAIN f.dims[i].options :
                      f.dims[i].options[j].id \in ids /\ f.dims[i].options[j].value \in Nat
           /\ \A v \in 1 .. Len(f.variants) :
                /\ f.variants[v].active \in BOOLEAN /\ f.variants[v].stock \in Nat
                /\ f.variants[v].id \in Nat /\ f.variants[v].clientId \in Nat
                /\ Len(f.variants[v].options) \in Nat
                /\ DOMAIN f.variants[v].options = 1 .. Len(f.variants[v].options)
                /\ \A n \in DOMAIN f.variants[v].options :
                      f.variants[v].options[n].dim \in Nat /\ f.variants[v].options[n].opt \in ids
<1> DEFINE Options == Seq([id : ids, value : Nat])
           Picks == Seq([dim : Nat, opt : ids])
           Dims == [id : Nat, name : Nat, options : Options]
           Variants == [id : Nat, clientId : Nat, active : BOOLEAN, stock : Nat, options : Picks]
<1>1. f.stored \subseteq Nat /\ f.dims \in Seq(Dims) /\ f.variants \in Seq(Variants) /\ f.variants # <<>>
  BY DEF FormShape
<1>2. \A s \in Options : Len(s) \in Nat /\ DOMAIN s = 1 .. Len(s)
                         /\ \A j \in DOMAIN s : s[j].id \in ids /\ s[j].value \in Nat
  <2> DEFINE Option == [id : ids, value : Nat]
  <2>1. \A o \in Option : o.id \in ids /\ o.value \in Nat
    OBVIOUS
  <2> HIDE DEF Option
  <2>2. \A s \in Seq(Option) : Len(s) \in Nat /\ DOMAIN s = 1 .. Len(s) /\ \A j \in DOMAIN s : s[j] \in Option
    OBVIOUS
  <2>3. QED
    BY <2>1, <2>2 DEF Option
<1>3. \A s \in Picks : Len(s) \in Nat /\ DOMAIN s = 1 .. Len(s)
                       /\ \A j \in DOMAIN s : s[j].dim \in Nat /\ s[j].opt \in ids
  <2> DEFINE Choice == [dim : Nat, opt : ids]
  <2>1. \A o \in Choice : o.dim \in Nat /\ o.opt \in ids
    OBVIOUS
  <2> HIDE DEF Choice
  <2>2. \A s \in Seq(Choice) : Len(s) \in Nat /\ DOMAIN s = 1 .. Len(s) /\ \A j \in DOMAIN s : s[j] \in Choice
    OBVIOUS
  <2>3. QED
    BY <2>1, <2>2 DEF Choice
<1> HIDE DEF Options, Picks
<1>4. \A d \in Dims : d.id \in Nat /\ d.name \in Nat /\ d.options \in Options
  OBVIOUS
<1>5. \A v \in Variants : /\ v.active \in BOOLEAN /\ v.stock \in Nat /\ v.options \in Picks
                         /\ v.id \in Nat /\ v.clientId \in Nat
  OBVIOUS
<1> HIDE DEF Dims, Variants
<1>6. /\ Len(f.dims) \in Nat /\ DOMAIN f.dims = 1 .. Len(f.dims)
      /\ \A i \in 1 .. Len(f.dims) : f.dims[i] \in Dims
  BY <1>1
<1>7. /\ Len(f.variants) \in Nat /\ DOMAIN f.variants = 1 .. Len(f.variants)
      /\ \A i \in 1 .. Len(f.variants) : f.variants[i] \in Variants
  BY <1>1
<1>8. Len(f.variants) # 0
  BY <1>1
<1>9. QED
  BY <1>1, <1>2, <1>3, <1>4, <1>5, <1>6, <1>7, <1>8

LEMMA PlacesOfOptions ==
    ASSUME NEW ids, NEW f \in FormShape(ids)
    PROVE  /\ IsFiniteSet(OptionPlaces(f))
           /\ \A at \in OptionPlaces(f) :
                /\ at = <<at[1], at[2]>> /\ at \in Nat \X Nat
                /\ at[1] \in 1 .. Len(f.dims) /\ at[2] \in DOMAIN f.dims[at[1]].options
                /\ OptionAt(f, at).id \in ids /\ OptionAt(f, at).value \in Nat
           /\ \A i \in 1 .. Len(f.dims) : \A j \in DOMAIN f.dims[i].options :
                <<i, j>> \in OptionPlaces(f) /\ OptionAt(f, <<i, j>>) = f.dims[i].options[j]
<1> DEFINE at_(i) == {i} \X (DOMAIN f.dims[i].options)
<1>1. OptionPlaces(f) = UNION {at_(i) : i \in 1 .. Len(f.dims)}
  BY FormFacts DEF OptionPlaces
<1>2. \A at \in OptionPlaces(f) : \E i \in 1 .. Len(f.dims) : \E j \in DOMAIN f.dims[i].options : at = <<i, j>>
  BY <1>1
<1>3. \A i \in 1 .. Len(f.dims) : \A j \in DOMAIN f.dims[i].options :
          <<i, j>> \in OptionPlaces(f) /\ OptionAt(f, <<i, j>>) = f.dims[i].options[j]
  BY <1>1 DEF OptionAt
<1>4. IsFiniteSet(OptionPlaces(f))
  <2>1. \A i \in 1 .. Len(f.dims) : IsFiniteSet(at_(i))
    <3> SUFFICES ASSUME NEW i \in 1 .. Len(f.dims) PROVE IsFiniteSet(at_(i))
      OBVIOUS
    <3>1. PICK k \in Nat : DOMAIN f.dims[i].options = 1 .. k
      BY FormFacts
    <3>2. IsFiniteSet(1 .. k)
      BY Counted
    <3>s. IsFiniteSet({i})
      BY FS_Singleton
    <3>3. QED
      BY <3>1, <3>2, <3>s, FS_Product
  <2> HIDE DEF at_
  <2>2. PICK F : F = [i \in 1 .. Len(f.dims) |-> at_(i)]
    OBVIOUS
  <2>3. {F[i] : i \in 1 .. Len(f.dims)} = {at_(i) : i \in 1 .. Len(f.dims)}
    BY <2>2
  <2>4. IsFiniteSet(1 .. Len(f.dims))
    BY FormFacts, FS_Interval
  <2>5. IsFiniteSet({at_(i) : i \in 1 .. Len(f.dims)})
    BY <2>3, <2>4, ImageFinite
  <2>6. QED
    BY <1>1, <2>1, <2>5, FS_UNION
<1> HIDE DEF at_
<1>5. ASSUME NEW at \in OptionPlaces(f)
      PROVE  /\ at = <<at[1], at[2]>> /\ at \in Nat \X Nat
             /\ at[1] \in 1 .. Len(f.dims) /\ at[2] \in DOMAIN f.dims[at[1]].options
             /\ OptionAt(f, at).id \in ids /\ OptionAt(f, at).value \in Nat
  <2>1. PICK i \in 1 .. Len(f.dims) : \E j \in DOMAIN f.dims[i].options : at = <<i, j>>
    BY <1>2
  <2>2. PICK j \in DOMAIN f.dims[i].options : at = <<i, j>>
    BY <2>1
  <2>3. i \in Nat /\ j \in Nat
    BY FormFacts
  <2>4. f.dims[i].options[j].id \in ids /\ f.dims[i].options[j].value \in Nat
    BY FormFacts
  <2>5. QED
    BY <1>3, <2>2, <2>3, <2>4
<1>6. QED
  BY <1>3, <1>4, <1>5

\* Under an id that options have, the row is that of one of them.
LEMMA OptionRowFacts ==
    ASSUME NEW ids, NEW f \in FormShape(ids), NEW id \in OptionIds(f)
    PROVE  OptionRow(f, id) \in OptionPlaces(f) /\ OptionAt(f, OptionRow(f, id)).id = id
<1>1. PICK S : S = {at \in OptionPlaces(f) : OptionAt(f, at).id = id}
  OBVIOUS
<1>2. S # {} /\ S \subseteq OptionPlaces(f) /\ IsFiniteSet(S)
  BY <1>1, PlacesOfOptions, FS_Subset DEF OptionIds
<1>3. \A at \in S : at = <<at[1], at[2]>> /\ at[1] \in Nat /\ at[2] \in Nat
  BY <1>2, PlacesOfOptions
<1>4. PICK R : R = {ab \in S \X S : NotAfter(ab[1], ab[2]) /\ ab[1] # ab[2]}
  OBVIOUS
<1>5. \A a, b \in S : <<a, b>> \in R <=> NotAfter(a, b) /\ a # b
  BY <1>4
<1>6. PutsInOrder(R, S)
  <2>1. \A a, b \in S : a # b => a[1] # b[1] \/ a[2] # b[2]
    BY <1>3
  <2>2. \A a, b \in S : a # b => NotAfter(a, b) \/ NotAfter(b, a)
    BY <1>3 DEF NotAfter
  <2>3. \A a, b, c \in S : NotAfter(a, b) /\ NotAfter(b, c) => NotAfter(a, c)
    BY <1>3 DEF NotAfter
  <2>4. \A a, b \in S : NotAfter(a, b) /\ NotAfter(b, a) => a = b
    <3>1. \A a, b \in S : NotAfter(a, b) /\ NotAfter(b, a) => a[1] = b[1] /\ a[2] = b[2]
      BY <1>3 DEF NotAfter
    <3>2. QED
      BY <2>1, <3>1
  <2>5. QED
    BY <1>5, <2>2, <2>3, <2>4 DEF PutsInOrder
<1>7. PICK last \in S : \A at \in S \ {last} : <<at, last>> \in R
  BY <1>2, <1>6, LastRow
<1>8. \A at \in S : NotAfter(at, last)
  <2>1. NotAfter(last, last)
    BY <1>3 DEF NotAfter
  <2>2. QED
    BY <1>5, <1>7, <2>1
<1>9. OptionRow(f, id) \in S
  BY <1>1, <1>8 DEF OptionRow
<1>10. QED
  BY <1>1, <1>9

LEMMA DimensionRowFacts ==
    ASSUME NEW ids, NEW f \in FormShape(ids), NEW id \in DimensionIds(f)
    PROVE  DimensionRow(f, id) \in 1 .. Len(f.dims) /\ f.dims[DimensionRow(f, id)].id = id
<1>1. PICK S : S = {i \in 1 .. Len(f.dims) : f.dims[i].id = id}
  OBVIOUS
<1>2. Len(f.dims) \in Nat /\ DOMAIN f.dims = 1 .. Len(f.dims)
  BY FormFacts
<1>3. S \in SUBSET Nat /\ S # {} /\ DimensionRow(f, id) = Max(S)
  BY <1>1, <1>2 DEF DimensionIds, DimensionRow
<1>4. IsFiniteSet(S)
  <2>1. PICK k \in Nat : k = Len(f.dims)
    BY <1>2
  <2>2. IsFiniteSet(1 .. k) /\ S \subseteq 1 .. k
    BY <1>1, <2>1, Counted
  <2>3. QED
    BY <2>2, FS_Subset
<1>5. Max(S) \in S
  BY <1>3, <1>4, MaxFacts
<1>6. QED
  BY <1>1, <1>3, <1>5

-----------------------------------------------------------------------------

\* The words of an option that a variant has, with those of the option's own dimension.
TrueWords(rows, p) ==
    [dimension |-> rows.dims[rows.values[p.value].dim], value |-> rows.values[p.value].value]

DimsWhole(rows, N) ==
    /\ rows.dims \in [1 .. N -> Nat]
    /\ \A i, j \in 1 .. N : rows.dims[i] = rows.dims[j] => i = j

ValuesApart(rows, N) ==
    /\ IsFiniteSet(DOMAIN rows.values)
    /\ \A at \in DOMAIN rows.values :
          at \in Nat \X Nat /\ rows.values[at].dim \in 1 .. N /\ rows.values[at].value \in Nat
    /\ \A at, b \in DOMAIN rows.values :
          rows.values[at].dim = rows.values[b].dim /\ rows.values[at].value = rows.values[b].value => at = b

PivotWhole(rows, N, P) ==
    /\ \A p \in P : p.dim \in 1 .. N /\ p.value \in DOMAIN rows.values
    /\ \A p, q \in P : p.dim = q.dim => p = q
    /\ \A i \in 1 .. N : \E p \in P : p.dim = i

InOrder(words, N) == \A m, n \in 1 .. N : m < n => UpTo(words[m], words[n])

SnapshotWhole(rows, N, P, snapshot) ==
    \E g : /\ OneEach(g, 1 .. N, P)
           /\ snapshot = [n \in 1 .. N |-> TrueWords(rows, g[n])]
           /\ InOrder(snapshot, N)

\* The rows that are written of a form with N dimensions and V variants.
RowsWhole(rows, N, V) ==
    /\ DimsWhole(rows, N) /\ ValuesApart(rows, N)
    /\ DOMAIN rows.pivot = 1 .. V /\ DOMAIN rows.snapshot = 1 .. V
    /\ rows.snapshot = [v \in 1 .. V |-> rows.snapshot[v]]
    /\ \A v \in 1 .. V :
        /\ PivotWhole(rows, N, rows.pivot[v])
        /\ SnapshotWhole(rows, N, rows.pivot[v], rows.snapshot[v])
    /\ V = 1 <=> N = 0

\* A snapshot has the words of the variant's options, in order.
LEMMA SnapshotSorted ==
    ASSUME NEW f, NEW v, NEW N \in Nat, DOMAIN f.variants[v].options = 1 .. N,
           \A n \in 1 .. N : SnapshotLookup(f, f.variants[v].options[n].opt) \in OptionWords
    PROVE  \E order : /\ OneEach(order, 1 .. N, 1 .. N)
                      /\ VariantSnapshot(f, v) =
                            [n \in 1 .. N |-> SnapshotLookup(f, f.variants[v].options[order[n]].opt)]
                      /\ InOrder(VariantSnapshot(f, v), N)
<1>1. PICK words : words = [n \in 1 .. N |-> SnapshotLookup(f, f.variants[v].options[n].opt)]
  OBVIOUS
<1>2. DOMAIN words = 1 .. N /\ \A n \in 1 .. N : words[n] \in OptionWords
  BY <1>1
<1>3. PICK R : R = {mn \in (DOMAIN words) \X (DOMAIN words) :
                        \/ Before(words[mn[1]], words[mn[2]])
                        \/ words[mn[1]] = words[mn[2]] /\ mn[1] < mn[2]}
  OBVIOUS
<1>4. \A m, n \in 1 .. N : <<m, n>> \in R <=> Before(words[m], words[n]) \/ (words[m] = words[n] /\ m < n)
  BY <1>2, <1>3
<1>5. PICK order : order = SortedBy(1 .. N, R)
  OBVIOUS
<1>6. VariantSnapshot(f, v) = [n \in 1 .. N |-> words[order[n]]]
  <2>1. VariantSnapshot(f, v) = InWordOrder(words)
    BY <1>1 DEF VariantSnapshot
  <2>2. InWordOrder(words) = [n \in DOMAIN words |-> words[SortedBy(DOMAIN words, R)[n]]]
    BY <1>3, Zenon DEF InWordOrder
  <2>3. QED
    BY <2>1, <2>2, <1>2, <1>5
<1>7. PutsInOrder(R, 1 .. N)
  <2>1. \A m \in 1 .. N : <<m, m>> \notin R
    BY <1>2, <1>4, WordsOrdered
  <2>2. \A m, n \in 1 .. N : m # n => <<m, n>> \in R \/ <<n, m>> \in R
    <3> SUFFICES ASSUME NEW m \in 1 .. N, NEW n \in 1 .. N, m # n PROVE <<m, n>> \in R \/ <<n, m>> \in R
      OBVIOUS
    <3>1. m < n \/ n < m
      OBVIOUS
    <3>2. words[m] = words[n] \/ Before(words[m], words[n]) \/ Before(words[n], words[m])
      BY <1>2, WordsOrdered
    <3>3. QED
      BY <1>4, <3>1, <3>2
  <2>3. \A l, m, n \in 1 .. N : <<l, m>> \in R /\ <<m, n>> \in R => <<l, n>> \in R
    <3> SUFFICES ASSUME NEW l \in 1 .. N, NEW m \in 1 .. N, NEW n \in 1 .. N, <<l, m>> \in R, <<m, n>> \in R
                 PROVE  <<l, n>> \in R
      OBVIOUS
    <3>1. \/ Before(words[l], words[n])
          \/ words[l] = words[m] /\ l < m /\ words[m] = words[n] /\ m < n
      BY <1>2, <1>4, WordsOrdered
    <3>2. QED
      BY <1>4, <3>1
  <2>4. QED
    BY <2>1, <2>2, <2>3 DEF PutsInOrder
<1>8. /\ order \in [1 .. N -> 1 .. N]
      /\ \A i, j \in 1 .. N : i < j => <<order[i], order[j]>> \in R
      /\ \A i, j \in 1 .. N : order[i] = order[j] => i = j
      /\ \A x \in 1 .. N : \E i \in 1 .. N : order[i] = x
  <2>1. PICK S : S = 1 .. N
    OBVIOUS
  <2>2. IsFiniteSet(S) /\ Cardinality(S) = N /\ PutsInOrder(R, S) /\ order = SortedBy(S, R)
    BY <1>5, <1>7, <2>1, Counted
  <2>3. /\ order \in [1 .. N -> S]
        /\ \A i, j \in 1 .. N : i < j => <<order[i], order[j]>> \in R
        /\ \A i, j \in 1 .. N : order[i] = order[j] => i = j
        /\ \A x \in S : \E i \in 1 .. N : order[i] = x
    <3>1. PICK t : t = SortedBy(S, R)
      OBVIOUS
    <3>2. /\ t \in [1 .. Cardinality(S) -> S]
          /\ \A i, j \in 1 .. Cardinality(S) : i < j => <<t[i], t[j]>> \in R
          /\ \A i, j \in 1 .. Cardinality(S) : t[i] = t[j] => i = j
          /\ \A x \in S : \E i \in 1 .. Cardinality(S) : t[i] = x
      BY <2>2, <3>1, SortedFacts
    <3>3. QED
      BY <2>2, <3>1, <3>2
  <2>4. QED
    BY <2>1, <2>3
<1>9. OneEach(order, 1 .. N, 1 .. N)
  BY <1>8 DEF OneEach
<1>10. \A m, n \in 1 .. N : m < n => UpTo(words[order[m]], words[order[n]])
  BY <1>4, <1>8 DEF UpTo
<1>11. InOrder(VariantSnapshot(f, v), N)
  BY <1>6, <1>10 DEF InOrder
<1>12. [n \in 1 .. N |-> words[order[n]]]
     = [n \in 1 .. N |-> SnapshotLookup(f, f.variants[v].options[order[n]].opt)]
  BY <1>1, <1>8
<1>13. QED
  BY <1>6, <1>9, <1>11, <1>12

\* In a form that is taken dimensions have ids of their own: a variant has as many
\* options of as many dimensions as there are, and each must be known.
LEMMA IdsApart ==
    ASSUME NEW ids, NEW f \in FormShape(ids), WellFormedForm(f), Resolved(f), KeysTold(f),
           NEW v \in 1 .. Len(f.variants)
    PROVE  /\ DOMAIN f.variants[v].options = 1 .. Len(f.dims)
           /\ \A n \in 1 .. Len(f.dims) :
                f.variants[v].options[n].dim \in DimensionIds(f) /\ f.variants[v].options[n].opt \in OptionIds(f)
           /\ OneEach([n \in 1 .. Len(f.dims) |-> DimensionRow(f, f.variants[v].options[n].dim)],
                      1 .. Len(f.dims), 1 .. Len(f.dims))
           /\ \A i \in 1 .. Len(f.dims) : DimensionRow(f, f.dims[i].id) = i
<1>1. PICK N \in Nat : N = Len(f.dims)
  BY FormFacts
<1>2. PICK options : options = f.variants[v].options
  OBVIOUS
<1>3. v \in DOMAIN f.variants /\ DOMAIN options = 1 .. N
  <2>1. v \in DOMAIN f.variants /\ Len(options) \in Nat /\ DOMAIN options = 1 .. Len(options)
    BY <1>2, FormFacts
  <2>2. Len(options) = Len(f.dims)
    BY <1>2, <2>1 DEF WellFormedForm
  <2>3. QED
    BY <1>1, <2>1, <2>2
<1>4. ASSUME NEW n \in 1 .. N
      PROVE  options[n].dim \in DimensionIds(f) /\ options[n].opt \in OptionIds(f)
  <2>1. options # <<>>
    BY <1>3
  <2>2. Lands(f, v) = v /\ v # 0
    BY <1>2, <1>3, <2>1 DEF KeysTold
  <2>3. QED
    BY <1>2, <1>3, <2>2 DEF Resolved
<1>5. \A m, n \in 1 .. N : options[m].dim = options[n].dim => m = n
  <2>1. Distinct([n \in DOMAIN options |-> options[n].dim])
    BY <1>2, <1>3 DEF WellFormedForm
  <2>2. QED
    BY <1>3, <2>1 DEF Distinct
<1>6. PICK row : row = [n \in 1 .. N |-> DimensionRow(f, options[n].dim)]
  OBVIOUS
<1>7. row \in [1 .. N -> 1 .. N] /\ \A n \in 1 .. N : f.dims[row[n]].id = options[n].dim
  BY <1>1, <1>4, <1>6, DimensionRowFacts
<1>8. \A m, n \in 1 .. N : row[m] = row[n] => m = n
  BY <1>5, <1>7
<1>9. OneEach(row, 1 .. N, 1 .. N)
  <2>1. IsFiniteSet(1 .. N)
    BY Counted
  <2>2. QED
    BY <1>7, <1>8, <2>1, OneEachOfEqual
<1>10. \A i \in 1 .. N : DimensionRow(f, f.dims[i].id) = i
  <2> SUFFICES ASSUME NEW i \in 1 .. N PROVE DimensionRow(f, f.dims[i].id) = i
    OBVIOUS
  <2>1. f.dims[i].id \in DimensionIds(f)
    BY <1>1, FormFacts DEF DimensionIds
  <2>2. PICK j \in 1 .. N : j = DimensionRow(f, f.dims[i].id) /\ f.dims[j].id = f.dims[i].id
    BY <1>1, <2>1, DimensionRowFacts
  <2>3. PICK m, n \in 1 .. N : row[m] = i /\ row[n] = j
    BY <1>9 DEF OneEach
  <2>4. options[m].dim = options[n].dim
    BY <1>7, <2>2, <2>3
  <2>5. QED
    BY <1>5, <2>2, <2>3, <2>4
<1>11. QED
  BY <1>1, <1>2, <1>3, <1>4, <1>6, <1>9, <1>10

LEMMA LookupFacts ==
    ASSUME NEW ids, NEW f \in FormShape(ids), NEW id \in OptionIds(f)
    PROVE  /\ SnapshotLookup(f, id) \in OptionWords
           /\ SnapshotLookup(f, id) = [dimension |-> f.dims[OptionRow(f, id)[1]].name,
                                       value |-> OptionAt(f, OptionRow(f, id)).value]
<1>1. OptionRow(f, id) \in OptionPlaces(f)
  BY OptionRowFacts
<1>2. OptionRow(f, id)[1] \in 1 .. Len(f.dims) /\ OptionAt(f, OptionRow(f, id)).value \in Nat
  BY <1>1, PlacesOfOptions
<1>3. f.dims[OptionRow(f, id)[1]].name \in Nat
  BY <1>2, FormFacts
<1>4. QED
  BY <1>2, <1>3 DEF SnapshotLookup, OptionWords

\* Where the variants' keys are told apart each names a row of its own ...
LEMMA RowsNamed ==
    ASSUME NEW ids, NEW f \in FormShape(ids), WellFormedForm(f), KeysTold(f), NEW v \in 1 .. Len(f.variants)
    PROVE  RowNamed(f, v) = v
<1>1. PICK V \in Nat \ {0} : V = Len(f.variants) /\ DOMAIN f.variants = 1 .. V
  BY FormFacts
<1>2. SUFFICES ASSUME Existing(f, v) PROVE RowNamed(f, v) = v
  BY DEF RowNamed
<1>3. PICK S : S = {w \in 1 .. V : Existing(f, w) /\ f.variants[w].id = f.variants[v].id}
  OBVIOUS
<1>4. v \in S /\ S \subseteq 1 .. V /\ RowNamed(f, v) = Max(S)
  BY <1>1, <1>2, <1>3 DEF RowNamed
<1>5. IsFiniteSet(1 .. V)
  BY <1>1, Counted
<1>a. \A T : T \subseteq 1 .. V => IsFiniteSet(T)
  <2>1. PICK D : D = 1 .. V
    OBVIOUS
  <2>2. \A T : T \subseteq D => IsFiniteSet(T)
    BY <1>5, <2>1, FS_Subset
  <2>3. QED
    BY <2>1, <2>2
<1>b. 1 .. V \subseteq Nat
  OBVIOUS
<1>6. IsFiniteSet(S) /\ S \in SUBSET Nat /\ S # {}
  BY <1>4, <1>a, <1>b
<1>7. Max(S) \in S /\ Max(S) \in Nat /\ \A w \in S : w <= Max(S)
  BY <1>6, MaxFacts
<1>8. CASE V = 1
  BY <1>4, <1>7, <1>8
<1>9. CASE V # 1
  <2>1. f.variants[v].options # <<>>
    <3>1. Len(f.dims) \in Nat /\ Len(f.variants[v].options) = Len(f.dims) /\ f.dims # <<>>
      BY <1>1, <1>9, FormFacts DEF WellFormedForm
    <3>2. Len(f.dims) # 0
      BY <3>1 DEF FormShape
    <3>3. QED
      BY <3>1, <3>2
  <2>2. Lands(f, v) = v
    BY <1>1, <2>1 DEF KeysTold
  <2>3. resolveVariantKey(f, v) = f.variants[v].id
    BY <1>2 DEF Existing, resolveVariantKey
  <2>4. PICK known : known = {w \in 1 .. V : KnownAs(f, w) = f.variants[v].id}
    OBVIOUS
  <2>5. PICK inserted : inserted = {w \in known : ~Existing(f, w)}
    OBVIOUS
  <2>6. Lands(f, v) = Max({0} \cup (IF inserted # {} THEN inserted ELSE known))
    BY <1>1, <2>3, <2>4, <2>5 DEF Lands
  <2>7. \A T \in SUBSET (1 .. V) : IsFiniteSet({0} \cup T) /\ {0} \cup T \in SUBSET Nat /\ {0} \cup T # {}
    <3>1. ASSUME NEW T \in SUBSET (1 .. V) PROVE IsFiniteSet({0} \cup T)
      <4>1. IsFiniteSet(T)
        BY <1>a
      <4>2. IsFiniteSet({0})
        BY FS_Singleton
      <4>3. QED
        BY <4>1, <4>2, FS_Union
    <3>2. \A T \in SUBSET (1 .. V) : {0} \cup T \in SUBSET Nat /\ {0} \cup T # {}
      BY <1>b
    <3>3. QED
      BY <3>1, <3>2
  <2>8. inserted = {}
    <3> SUFFICES ASSUME inserted # {} PROVE FALSE
      OBVIOUS
    <3>1. inserted \in SUBSET (1 .. V) /\ v = Max({0} \cup inserted)
      BY <2>2, <2>4, <2>5, <2>6
    <3>2. v \in {0} \cup inserted
      BY <2>7, <3>1, MaxFacts
    <3>3. QED
      BY <1>1, <1>2, <2>5, <3>2
  <2>9. known \in SUBSET (1 .. V) /\ v = Max({0} \cup known)
    BY <2>2, <2>4, <2>6, <2>8
  <2>10. \A w \in {0} \cup known : w <= v
    BY <2>7, <2>9, MaxFacts
  <2>11. S \subseteq known
    BY <1>3, <2>4 DEF KnownAs
  <2>12. Max(S) <= v /\ v <= Max(S) /\ v \in Nat
    BY <1>4, <1>7, <2>10, <2>11
  <2>13. QED
    BY <1>4, <1>7, <2>12
<1>10. QED
  BY <1>8, <1>9

\* ... and is given its own options.
LEMMA RowsTold ==
    ASSUME NEW ids, NEW f \in FormShape(ids), WellFormedForm(f), KeysTold(f), NEW V, V = Len(f.variants)
    PROVE  /\ DOMAIN RowsOf(f).pivot = 1 .. V /\ \A v \in 1 .. V : RowsOf(f).pivot[v] = PicksOf(f, v)
           /\ RowsOf(f).snapshot = [v \in 1 .. V |-> VariantSnapshot(f, v)]
<1>1. V \in Nat \ {0} /\ DOMAIN f.variants = 1 .. V
  BY FormFacts
<1>2. \A v \in 1 .. V : RowNamed(f, v) = v
  BY RowsNamed
<1>3. {RowNamed(f, v) : v \in DOMAIN f.variants} = 1 .. V
  BY <1>1, <1>2
<1>4. PICK pivot : pivot = [r \in {RowNamed(f, v) : v \in DOMAIN f.variants} |->
                                UNION {PicksOf(f, w) : w \in {u \in DOMAIN f.variants : Lands(f, u) = r}}]
  OBVIOUS
<1>5. RowsOf(f).pivot = pivot
  BY <1>4 DEF RowsOf
<1>6. RowsOf(f).snapshot = [r \in {RowNamed(f, v) : v \in DOMAIN f.variants} |-> VariantSnapshot(f, r)]
  BY DEF RowsOf
<1>7. ASSUME NEW v \in 1 .. V PROVE pivot[v] = PicksOf(f, v)
  <2>1. pivot[v] = UNION {PicksOf(f, w) : w \in {u \in 1 .. V : Lands(f, u) = v}}
    BY <1>1, <1>3, <1>4
  <2>2. \A w \in 1 .. V : PicksOf(f, w) # {} => Lands(f, w) = w
    <3> SUFFICES ASSUME NEW w \in 1 .. V, PicksOf(f, w) # {} PROVE f.variants[w].options # <<>>
      BY <1>1 DEF KeysTold
    <3>1. DOMAIN f.variants[w].options # {}
      BY DEF PicksOf
    <3>2. QED
      BY <3>1
  <2>3. QED
    BY <2>1, <2>2
<1>8. QED
  BY <1>3, <1>4, <1>5, <1>6, <1>7

\* The rows that a form comes to.
LEMMA RowsMade ==
    ASSUME NEW ids, NEW f \in FormShape(ids), WellFormedForm(f), Resolved(f), KeysTold(f)
    PROVE  RowsWhole(RowsOf(f), Len(f.dims), Len(f.variants))
<1>1. PICK N \in Nat, V \in Nat \ {0} : N = Len(f.dims) /\ V = Len(f.variants)
  BY FormFacts
<1>2. PICK rows : rows = RowsOf(f)
  OBVIOUS
<1>3. DOMAIN f.dims = 1 .. N /\ DOMAIN f.variants = 1 .. V
  BY <1>1, FormFacts
<1>4. /\ rows.dims = [i \in 1 .. N |-> f.dims[i].name]
      /\ rows.values = [at \in OptionPlaces(f) |->
            [dim |-> DimensionRow(f, f.dims[at[1]].id), value |-> OptionAt(f, at).value]]
      /\ DOMAIN rows.pivot = 1 .. V /\ \A v \in 1 .. V : rows.pivot[v] = PicksOf(f, v)
      /\ rows.snapshot = [v \in 1 .. V |-> VariantSnapshot(f, v)]
  <2>1. /\ rows.dims = [i \in 1 .. N |-> f.dims[i].name]
        /\ rows.values = [at \in OptionPlaces(f) |->
              [dim |-> DimensionRow(f, f.dims[at[1]].id), value |-> OptionAt(f, at).value]]
    BY <1>2, <1>3 DEF RowsOf
  <2>2. /\ DOMAIN RowsOf(f).pivot = 1 .. V /\ \A v \in 1 .. V : RowsOf(f).pivot[v] = PicksOf(f, v)
        /\ RowsOf(f).snapshot = [v \in 1 .. V |-> VariantSnapshot(f, v)]
    BY <1>1, RowsTold
  <2>3. QED
    BY <1>2, <2>1, <2>2, Zenon
<1>5. ASSUME NEW v \in 1 .. V
      PROVE  \A i \in 1 .. N : DimensionRow(f, f.dims[i].id) = i
  BY <1>1, IdsApart
<1>6. \A i \in 1 .. N : DimensionRow(f, f.dims[i].id) = i
  <2>1. 1 \in 1 .. V
    BY <1>1
  <2>2. QED
    BY <1>5, <2>1
<1>7. /\ DOMAIN rows.values = OptionPlaces(f)
      /\ \A at \in OptionPlaces(f) : rows.values[at].dim = at[1] /\ rows.values[at].value = OptionAt(f, at).value
  <2>1. DOMAIN rows.values = OptionPlaces(f)
    BY <1>4
  <2>2. \A at \in OptionPlaces(f) : at[1] \in 1 .. N
    BY <1>1, PlacesOfOptions
  <2>3. \A at \in OptionPlaces(f) :
            rows.values[at] = [dim |-> DimensionRow(f, f.dims[at[1]].id), value |-> OptionAt(f, at).value]
    BY <1>4
  <2>4. ASSUME NEW at \in OptionPlaces(f)
        PROVE  rows.values[at].dim = at[1] /\ rows.values[at].value = OptionAt(f, at).value
    <3>1. PICK i \in 1 .. N : i = at[1]
      BY <2>2
    <3>2. PICK word : word = OptionAt(f, at).value
      OBVIOUS
    <3>3. rows.values[at] = [dim |-> i, value |-> word]
      BY <1>6, <2>3, <3>1, <3>2
    <3>4. QED
      BY <3>1, <3>2, <3>3
  <2>5. QED
    BY <2>1, <2>4
<1>8. DimsWhole(rows, N)
  <2>1. rows.dims \in [1 .. N -> Nat]
    <3>1. \A i \in 1 .. N : f.dims[i].name \in Nat
      BY <1>1, FormFacts
    <3>2. QED
      BY <1>4, <3>1
  <2>2. Distinct([i \in 1 .. N |-> f.dims[i].name])
    BY <1>3 DEF WellFormedForm
  <2>3. QED
    BY <1>4, <2>1, <2>2 DEF Distinct, DimsWhole
<1>9. ValuesApart(rows, N)
  <2>1. IsFiniteSet(DOMAIN rows.values)
    BY <1>7, PlacesOfOptions
  <2>2. \A at \in OptionPlaces(f) :
            at \in Nat \X Nat /\ rows.values[at].dim \in 1 .. N /\ rows.values[at].value \in Nat
    BY <1>1, <1>7, PlacesOfOptions
  <2>3. ASSUME NEW at \in OptionPlaces(f), NEW b \in OptionPlaces(f), at[1] = b[1],
               OptionAt(f, at).value = OptionAt(f, b).value
        PROVE  at = b
    <3>1. PICK i \in 1 .. N : i = at[1]
      BY <1>1, PlacesOfOptions
    <3>2. Distinct([j \in DOMAIN f.dims[i].options |-> f.dims[i].options[j].value])
      BY <1>3 DEF WellFormedForm
    <3>3. at[2] \in DOMAIN f.dims[i].options /\ b[2] \in DOMAIN f.dims[i].options
      BY <2>3, <3>1, PlacesOfOptions
    <3>4. f.dims[i].options[at[2]].value = f.dims[i].options[b[2]].value
      BY <2>3, <3>1 DEF OptionAt
    <3>5. at[2] = b[2]
      BY <3>2, <3>3, <3>4 DEF Distinct
    <3>6. at = <<at[1], at[2]>> /\ b = <<b[1], b[2]>>
      BY PlacesOfOptions
    <3>7. QED
      BY <2>3, <3>5, <3>6
  <2>4. QED
    BY <1>7, <2>1, <2>2, <2>3 DEF ValuesApart
<1>10. ASSUME NEW v \in 1 .. V
       PROVE  PivotWhole(rows, N, rows.pivot[v]) /\ SnapshotWhole(rows, N, rows.pivot[v], rows.snapshot[v])
  <2>1. PICK options : options = f.variants[v].options
    OBVIOUS
  <2>2. PICK row : row = [n \in 1 .. N |-> DimensionRow(f, options[n].dim)]
    OBVIOUS
  <2>3. /\ DOMAIN options = 1 .. N
        /\ \A n \in 1 .. N : options[n].opt \in OptionIds(f)
        /\ OneEach(row, 1 .. N, 1 .. N)
    BY <1>1, <2>1, <2>2, IdsApart
  <2>4. \A n \in 1 .. N : OptionRow(f, options[n].opt) \in OptionPlaces(f)
    BY <2>3, OptionRowFacts
  <2>v. PICK val : val = [n \in 1 .. N |-> OptionRow(f, options[n].opt)]
    OBVIOUS
  <2>5. PICK pick : pick = [n \in 1 .. N |-> [dim |-> row[n], value |-> val[n], by |-> <<v, n>>]]
    OBVIOUS
  <2>6. rows.pivot[v] = {pick[n] : n \in 1 .. N}
    <3>1. rows.pivot[v] = {[dim |-> DimensionRow(f, options[n].dim), value |-> OptionRow(f, options[n].opt), by |-> <<v, n>>] :
                               n \in 1 .. N}
      <4>1. rows.pivot[v] = PicksOf(f, v)
        BY <1>4
      <4>2. PicksOf(f, v) = {[dim |-> DimensionRow(f, options[n].dim), value |-> OptionRow(f, options[n].opt), by |-> <<v, n>>] :
                                 n \in DOMAIN options}
        BY <2>1, Zenon DEF PicksOf
      <4>3. QED
        BY <2>3, <4>1, <4>2, Zenon
    <3>2. \A n \in 1 .. N : pick[n] = [dim |-> DimensionRow(f, options[n].dim), value |-> OptionRow(f, options[n].opt), by |-> <<v, n>>]
      BY <2>2, <2>v, <2>5
    <3>3. QED
      BY <3>1, <3>2
  <2>7. \A n \in 1 .. N : /\ pick[n].dim = row[n] /\ row[n] \in 1 .. N
                          /\ pick[n].value = OptionRow(f, options[n].opt)
    <3>1. \A n \in 1 .. N : pick[n].dim = row[n] /\ pick[n].value = val[n]
      BY <2>5
    <3>2. \A n \in 1 .. N : row[n] \in 1 .. N
      BY <2>3 DEF OneEach
    <3>3. QED
      BY <2>v, <3>1, <3>2
  <2>r. /\ \A m, n \in 1 .. N : row[m] = row[n] => m = n
        /\ \A i \in 1 .. N : \E n \in 1 .. N : row[n] = i
    BY <2>3, Zenon DEF OneEach
  <2>8. \A m, n \in 1 .. N : pick[m].dim = pick[n].dim => m = n
    BY <2>r, <2>7
  <2>9. \A i \in 1 .. N : \E n \in 1 .. N : pick[n].dim = i
    BY <2>r, <2>7
  <2>10. PivotWhole(rows, N, rows.pivot[v])
    <3>1. \A p \in rows.pivot[v] : p.dim \in 1 .. N /\ p.value \in DOMAIN rows.values
      BY <1>7, <2>4, <2>6, <2>7
    <3>2. \A p, q \in rows.pivot[v] : p.dim = q.dim => p = q
      BY <2>6, <2>8
    <3>3. \A i \in 1 .. N : \E p \in rows.pivot[v] : p.dim = i
      BY <2>6, <2>9
    <3>4. QED
      BY <3>1, <3>2, <3>3 DEF PivotWhole
  <2>11. OneEach(pick, 1 .. N, rows.pivot[v])
    <3>1. pick \in [1 .. N -> rows.pivot[v]]
      BY <2>5, <2>6
    <3>2. QED
      BY <2>6, <2>8, <3>1 DEF OneEach
  <2>12. \A n \in 1 .. N : /\ SnapshotLookup(f, options[n].opt) \in OptionWords
                           /\ SnapshotLookup(f, options[n].opt) = TrueWords(rows, pick[n])
    <3> SUFFICES ASSUME NEW n \in 1 .. N
                 PROVE  /\ SnapshotLookup(f, options[n].opt) \in OptionWords
                        /\ SnapshotLookup(f, options[n].opt) = TrueWords(rows, pick[n])
      OBVIOUS
    <3>1. PICK at \in OptionPlaces(f) : at = OptionRow(f, options[n].opt)
      BY <2>4
    <3>2. at[1] \in 1 .. N
      BY <1>1, PlacesOfOptions
    <3>3. rows.values[at].dim = at[1] /\ rows.values[at].value = OptionAt(f, at).value
      BY <1>7
    <3>4. rows.dims[at[1]] = f.dims[at[1]].name
      BY <1>4, <3>2
    <3>5. TrueWords(rows, pick[n]) = [dimension |-> f.dims[at[1]].name, value |-> OptionAt(f, at).value]
      BY <2>7, <3>1, <3>3, <3>4 DEF TrueWords
    <3>6. QED
      BY <2>3, <3>1, <3>5, LookupFacts
  <2>13. PICK order : /\ OneEach(order, 1 .. N, 1 .. N)
                      /\ VariantSnapshot(f, v) = [n \in 1 .. N |-> SnapshotLookup(f, options[order[n]].opt)]
                      /\ InOrder(VariantSnapshot(f, v), N)
    <3>1. DOMAIN f.variants[v].options = 1 .. N
      BY <2>1, <2>3
    <3>2. \A n \in 1 .. N : SnapshotLookup(f, f.variants[v].options[n].opt) \in OptionWords
      BY <2>1, <2>12
    <3>3. \E order : /\ OneEach(order, 1 .. N, 1 .. N)
                     /\ VariantSnapshot(f, v) =
                            [n \in 1 .. N |-> SnapshotLookup(f, f.variants[v].options[order[n]].opt)]
                     /\ InOrder(VariantSnapshot(f, v), N)
      BY <3>1, <3>2, SnapshotSorted
    <3>4. QED
      BY <2>1, <3>3
  <2>14. PICK g : g = [n \in 1 .. N |-> pick[order[n]]]
    OBVIOUS
  <2>15. OneEach(g, 1 .. N, rows.pivot[v])
    <3>1. OneEach(order, 1 .. N, 1 .. N)
      BY <2>13
    <3>2. QED
      BY <2>11, <2>14, <3>1, OneEachThen
  <2>16. rows.snapshot[v] = [n \in 1 .. N |-> TrueWords(rows, g[n])]
    <3>1. \A n \in 1 .. N : SnapshotLookup(f, options[order[n]].opt) = TrueWords(rows, g[n])
      BY <2>12, <2>13, <2>14 DEF OneEach
    <3>2. rows.snapshot[v] = VariantSnapshot(f, v)
      BY <1>4
    <3>3. QED
      BY <2>13, <3>1, <3>2
  <2>17. InOrder(rows.snapshot[v], N)
    BY <1>4, <2>13
  <2>18. QED
    BY <2>10, <2>15, <2>16, <2>17 DEF SnapshotWhole
<1>11. V = 1 <=> N = 0
  <2>1. (V = 1) = (f.dims = <<>>)
    BY <1>1 DEF WellFormedForm
  <2>2. f.dims = <<>> <=> N = 0
    BY <1>1 DEF FormShape
  <2>3. QED
    BY <2>1, <2>2
<1>12. DOMAIN rows.pivot = 1 .. V /\ DOMAIN rows.snapshot = 1 .. V /\ rows.snapshot = [v \in 1 .. V |-> rows.snapshot[v]]
  BY <1>4
<1>13. RowsWhole(rows, N, V)
  BY <1>8, <1>9, <1>10, <1>11, <1>12 DEF RowsWhole
<1>14. QED
  BY <1>1, <1>2, <1>13

-----------------------------------------------------------------------------

ShowsDims(f, rows, N) ==
    /\ \A k \in 1 .. N : f.dims[k].id \in 1 .. N /\ f.dims[k].name = rows.dims[f.dims[k].id]
    /\ \A k, l \in 1 .. N : f.dims[k].id = f.dims[l].id => k = l
    /\ \A i \in 1 .. N : \E k \in 1 .. N : f.dims[k].id = i

ShowsOptions(rows, i, options) ==
    /\ \A j \in DOMAIN options :
        /\ options[j].id \in DOMAIN rows.values
        /\ rows.values[options[j].id].dim = i /\ rows.values[options[j].id].value = options[j].value
    /\ \A j, l \in DOMAIN options : options[j].id = options[l].id => j = l

ShowsVariant(options, N, P) ==
    \E g : /\ OneEach(g, 1 .. N, P)
           /\ options = [n \in 1 .. N |-> [dim |-> g[n].dim, opt |-> g[n].value]]

\* A form that shows rows: it refers to them by their ids, in any order.
ShowsRows(f, rows, N, V) ==
    /\ f \in FormShape(Nat \X Nat) /\ Len(f.dims) = N /\ Len(f.variants) = V
    /\ f.stored = 1 .. V /\ \A v \in 1 .. V : f.variants[v].id = v /\ f.variants[v].clientId = v
    /\ ShowsDims(f, rows, N)
    /\ \A k \in 1 .. N : ShowsOptions(rows, f.dims[k].id, f.dims[k].options)
    /\ \A at \in DOMAIN rows.values :
        \E k \in 1 .. N : \E j \in DOMAIN f.dims[k].options : f.dims[k].options[j].id = at
    /\ \A v \in 1 .. V : ShowsVariant(f.variants[v].options, N, rows.pivot[v])

SoldOut(f) == \E v \in DOMAIN f.variants : f.variants[v].active /\ f.variants[v].stock = 0
InWordsAll(rows) == [v \in DOMAIN rows.pivot |-> {InWords(rows, p) : p \in rows.pivot[v]}]

LEMMA WholeParts ==
    ASSUME NEW rows, NEW N \in Nat, NEW V \in Nat, RowsWhole(rows, N, V)
    PROVE  /\ DimsWhole(rows, N) /\ ValuesApart(rows, N) /\ (V = 1 <=> N = 0)
           /\ DOMAIN rows.pivot = 1 .. V /\ rows.snapshot = [v \in 1 .. V |-> rows.snapshot[v]]
           /\ \A v \in 1 .. V : PivotWhole(rows, N, rows.pivot[v]) /\ SnapshotWhole(rows, N, rows.pivot[v], rows.snapshot[v])
BY DEF RowsWhole

\* What a shown form says, dimension by dimension and option by option.
HasShape(f, N, V) ==
    /\ f \in FormShape(Nat \X Nat) /\ Len(f.dims) = N /\ Len(f.variants) = V
    /\ DOMAIN f.dims = 1 .. N /\ DOMAIN f.variants = 1 .. V
    /\ \A v \in 1 .. V : DOMAIN f.variants[v].options = 1 .. N /\ Len(f.variants[v].options) = N

SaysOption(f, rows, at) ==
    /\ at \in OptionIds(f) /\ OptionRow(f, at) \in OptionPlaces(f)
    /\ OptionAt(f, OptionRow(f, at)).value = rows.values[at].value
    /\ SnapshotLookup(f, at) = [dimension |-> rows.dims[rows.values[at].dim], value |-> rows.values[at].value]

LEMMA ShownShape ==
    ASSUME NEW rows, NEW N \in Nat, NEW V \in Nat, RowsWhole(rows, N, V), NEW f, ShowsRows(f, rows, N, V)
    PROVE  HasShape(f, N, V)
<1>1. f \in FormShape(Nat \X Nat) /\ Len(f.dims) = N /\ Len(f.variants) = V
  BY DEF ShowsRows
<1>2. DOMAIN f.dims = 1 .. N /\ DOMAIN f.variants = 1 .. V
  BY <1>1, FormFacts
<1>8. ASSUME NEW v \in 1 .. V
      PROVE  DOMAIN f.variants[v].options = 1 .. N /\ Len(f.variants[v].options) = N
  <2>1. ShowsVariant(f.variants[v].options, N, rows.pivot[v])
    BY DEF ShowsRows
  <2>2. DOMAIN f.variants[v].options = 1 .. N
    BY <2>1, Zenon DEF ShowsVariant
  <2>3. Len(f.variants[v].options) \in Nat /\ DOMAIN f.variants[v].options = 1 .. Len(f.variants[v].options)
    BY <1>1, FormFacts
  <2>4. QED
    BY <2>2, <2>3
<1>9. QED
  BY <1>1, <1>2, <1>8 DEF HasShape

LEMMA ShownDimensions ==
    ASSUME NEW rows, NEW N \in Nat, NEW V \in Nat, RowsWhole(rows, N, V), NEW f, ShowsRows(f, rows, N, V),
           NEW i \in 1 .. N
    PROVE  i \in DimensionIds(f) /\ DimensionRow(f, i) \in 1 .. N /\ f.dims[DimensionRow(f, i)].name = rows.dims[i]
<1>b. f \in FormShape(Nat \X Nat) /\ Len(f.dims) = N
  BY DEF ShowsRows
<1>a. f \in FormShape(Nat \X Nat) /\ Len(f.dims) = N /\ DOMAIN f.dims = 1 .. N
  BY <1>b, FormFacts
<1>d. ShowsDims(f, rows, N)
  BY DEF ShowsRows
<1>1. PICK k \in 1 .. N : f.dims[k].id = i
  BY <1>d DEF ShowsDims
<1>2. i \in DimensionIds(f)
  BY <1>a, <1>1 DEF DimensionIds
<1>3. PICK l \in 1 .. N : l = DimensionRow(f, i) /\ f.dims[l].id = i
  BY <1>a, <1>2, DimensionRowFacts
<1>4. f.dims[l].name = rows.dims[f.dims[l].id]
  BY <1>d DEF ShowsDims
<1>5. QED
  BY <1>2, <1>3, <1>4

LEMMA ShownOption ==
    ASSUME NEW rows, NEW N \in Nat, NEW V \in Nat, RowsWhole(rows, N, V), NEW f, ShowsRows(f, rows, N, V),
           NEW at \in DOMAIN rows.values
    PROVE  SaysOption(f, rows, at)
<1>b. f \in FormShape(Nat \X Nat) /\ Len(f.dims) = N
  BY DEF ShowsRows
<1>a. f \in FormShape(Nat \X Nat) /\ Len(f.dims) = N /\ DOMAIN f.dims = 1 .. N
  BY <1>b, FormFacts
<1>d. ShowsDims(f, rows, N)
  BY DEF ShowsRows
<1>o. \A k \in 1 .. N : ShowsOptions(rows, f.dims[k].id, f.dims[k].options)
  BY DEF ShowsRows
<1>p. \A b \in DOMAIN rows.values :
          \E k \in 1 .. N : \E j \in DOMAIN f.dims[k].options : f.dims[k].options[j].id = b
  BY DEF ShowsRows
<1>1. at \in OptionIds(f)
  <2>1. PICK k \in 1 .. N : \E j \in DOMAIN f.dims[k].options : f.dims[k].options[j].id = at
    BY <1>p
  <2>2. PICK j \in DOMAIN f.dims[k].options : f.dims[k].options[j].id = at
    BY <2>1
  <2>3. <<k, j>> \in OptionPlaces(f) /\ OptionAt(f, <<k, j>>).id = at
    BY <1>a, <2>2, PlacesOfOptions
  <2>4. QED
    BY <2>3 DEF OptionIds
<1>2. PICK place : place = OptionRow(f, at)
  OBVIOUS
<1>3. place \in OptionPlaces(f) /\ OptionAt(f, place).id = at
  BY <1>a, <1>1, <1>2, OptionRowFacts
<1>4. PICK k \in 1 .. N : place[1] = k /\ place[2] \in DOMAIN f.dims[k].options
  BY <1>a, <1>3, PlacesOfOptions
<1>j. PICK j \in DOMAIN f.dims[k].options : place[2] = j
  BY <1>4
<1>5. OptionAt(f, place) = f.dims[k].options[j]
  BY <1>4, <1>j DEF OptionAt
<1>6. rows.values[at].dim = f.dims[k].id /\ rows.values[at].value = f.dims[k].options[j].value
  <2>1. ShowsOptions(rows, f.dims[k].id, f.dims[k].options)
    BY <1>o
  <2>2. f.dims[k].options[j].id = at
    BY <1>3, <1>5
  <2>3. QED
    BY <2>1, <2>2, ZenonT(30) DEF ShowsOptions
<1>7. f.dims[k].name = rows.dims[f.dims[k].id]
  BY <1>d DEF ShowsDims
<1>8. SnapshotLookup(f, at) = [dimension |-> f.dims[k].name, value |-> OptionAt(f, place).value]
  BY <1>a, <1>1, <1>2, <1>4, LookupFacts
<1>9. QED
  BY <1>1, <1>2, <1>3, <1>5, <1>6, <1>7, <1>8 DEF SaysOption

PicksShown(g, options, rows, N, P) ==
    /\ OneEach(g, 1 .. N, P)
    /\ \A n \in 1 .. N : /\ g[n] \in P /\ g[n].dim \in 1 .. N /\ g[n].value \in DOMAIN rows.values
                         /\ options[n].dim = g[n].dim /\ options[n].opt = g[n].value

LEMMA ShownPicks ==
    ASSUME NEW rows, NEW N \in Nat, NEW V \in Nat, RowsWhole(rows, N, V), NEW f, ShowsRows(f, rows, N, V),
           NEW v \in 1 .. V
    PROVE  \E g : PicksShown(g, f.variants[v].options, rows, N, rows.pivot[v])
<1>1. ShowsVariant(f.variants[v].options, N, rows.pivot[v])
  BY DEF ShowsRows
<1>2. PICK g : /\ OneEach(g, 1 .. N, rows.pivot[v])
               /\ f.variants[v].options = [n \in 1 .. N |-> [dim |-> g[n].dim, opt |-> g[n].value]]
  BY <1>1 DEF ShowsVariant
<1>3. \A n \in 1 .. N : g[n] \in rows.pivot[v]
  BY <1>2 DEF OneEach
<1>p. PivotWhole(rows, N, rows.pivot[v])
  BY WholeParts
<1>4. \A n \in 1 .. N : g[n].dim \in 1 .. N /\ g[n].value \in DOMAIN rows.values
  BY <1>3, <1>p DEF PivotWhole
<1>5. PICK dim, val : dim = [n \in 1 .. N |-> g[n].dim] /\ val = [n \in 1 .. N |-> g[n].value]
  OBVIOUS
<1>6. f.variants[v].options = [n \in 1 .. N |-> [dim |-> dim[n], opt |-> val[n]]]
  BY <1>2, <1>5
<1>7. \A n \in 1 .. N : f.variants[v].options[n].dim = dim[n] /\ f.variants[v].options[n].opt = val[n]
  BY <1>6
<1>8. \A n \in 1 .. N : f.variants[v].options[n].dim = g[n].dim /\ f.variants[v].options[n].opt = g[n].value
  BY <1>5, <1>7
<1>9. QED
  BY <1>2, <1>3, <1>4, <1>8 DEF PicksShown

\* It is taken, unless a variant that is for sale is sold out.
LEMMA ShownIsTaken ==
    ASSUME NEW rows, NEW N \in Nat, NEW V \in Nat, RowsWhole(rows, N, V), NEW f, ShowsRows(f, rows, N, V)
    PROVE  (WellFormedForm(f) \/ SoldOut(f)) /\ IdsKnown(f) /\ Resolved(f) /\ KeysTold(f)
<1>h. HasShape(f, N, V)
  BY ShownShape
<1>1. /\ f \in FormShape(Nat \X Nat) /\ Len(f.dims) = N /\ Len(f.variants) = V
      /\ DOMAIN f.dims = 1 .. N /\ DOMAIN f.variants = 1 .. V
      /\ \A v \in 1 .. V : DOMAIN f.variants[v].options = 1 .. N /\ Len(f.variants[v].options) = N
  BY <1>h DEF HasShape
<1>2. \A v \in 1 .. V : f.variants[v].active \in BOOLEAN /\ f.variants[v].stock \in Nat
  BY <1>1, FormFacts
<1>3. Resolved(f)
  <2>1. ASSUME NEW v \in 1 .. V, NEW n \in 1 .. N
        PROVE  /\ f.variants[v].options[n].dim \in DimensionIds(f)
               /\ f.variants[v].options[n].opt \in OptionIds(f)
    <3>p. PICK g : PicksShown(g, f.variants[v].options, rows, N, rows.pivot[v])
      BY ShownPicks
    <3>1. PICK i \in 1 .. N, at \in DOMAIN rows.values :
              f.variants[v].options[n].dim = i /\ f.variants[v].options[n].opt = at
      BY <3>p DEF PicksShown
    <3>2. i \in DimensionIds(f) /\ at \in OptionIds(f)
      BY ShownDimensions, ShownOption DEF SaysOption
    <3>3. QED
      BY <3>1, <3>2
  <2>2. QED
    BY <1>1, <2>1 DEF Resolved
<1>4. ASSUME ~SoldOut(f) PROVE WellFormedForm(f)
  <2>1. Distinct([i \in DOMAIN f.dims |-> f.dims[i].name])
    <3>1. ShowsDims(f, rows, N)
      BY DEF ShowsRows
    <3>w. DimsWhole(rows, N)
      BY WholeParts
    <3>i. \A k \in 1 .. N : f.dims[k].id \in 1 .. N /\ f.dims[k].name = rows.dims[f.dims[k].id]
      BY <3>1 DEF ShowsDims
    <3>n. \A i, j \in 1 .. N : rows.dims[i] = rows.dims[j] => i = j
      BY <3>w DEF DimsWhole
    <3>d. \A k, l \in 1 .. N : f.dims[k].name = f.dims[l].name => f.dims[k].id = f.dims[l].id
      BY <3>i, <3>n
    <3>2. \A k, l \in 1 .. N : f.dims[k].name = f.dims[l].name => k = l
      BY <3>1, <3>d DEF ShowsDims
    <3>3. QED
      BY <1>1, <3>2 DEF Distinct
  <2>2. ASSUME NEW i \in 1 .. N
        PROVE  Distinct([j \in DOMAIN f.dims[i].options |-> f.dims[i].options[j].value])
    <3>1. PICK options : options = f.dims[i].options
      OBVIOUS
    <3>2. ShowsOptions(rows, f.dims[i].id, options)
      BY <3>1 DEF ShowsRows
    <3>w. ValuesApart(rows, N)
      BY WholeParts
    <3>3. \A j, l \in DOMAIN options : options[j].value = options[l].value => options[j].id = options[l].id
      BY <3>2, <3>w DEF ShowsOptions, ValuesApart
    <3>4. \A j, l \in DOMAIN options : options[j].value = options[l].value => j = l
      BY <3>2, <3>3 DEF ShowsOptions
    <3>5. QED
      BY <3>1, <3>4 DEF Distinct
  <2>3. (Len(f.variants) = 1) = (f.dims = <<>>)
    <3>1. f.dims = <<>> <=> N = 0
      BY <1>1 DEF FormShape
    <3>2. V = 1 <=> N = 0
      BY WholeParts
    <3>3. QED
      BY <1>1, <3>1, <3>2
  <2>4. ASSUME NEW v \in 1 .. V
        PROVE  /\ Len(f.variants[v].options) = Len(f.dims)
               /\ Distinct([n \in DOMAIN f.variants[v].options |-> f.variants[v].options[n].dim])
               /\ f.variants[v].active => f.variants[v].stock > 0
    <3>p. PICK g : PicksShown(g, f.variants[v].options, rows, N, rows.pivot[v])
      BY ShownPicks
    <3>1. /\ OneEach(g, 1 .. N, rows.pivot[v])
          /\ \A n \in 1 .. N : g[n] \in rows.pivot[v] /\ f.variants[v].options[n].dim = g[n].dim
      BY <3>p DEF PicksShown
    <3>w. PivotWhole(rows, N, rows.pivot[v])
      BY WholeParts
    <3>2. \A p, q \in rows.pivot[v] : p.dim = q.dim => p = q
      BY <3>w DEF PivotWhole
    <3>3. \A m, n \in 1 .. N : g[m] = g[n] => m = n
      BY <3>1 DEF OneEach
    <3>4. \A m, n \in 1 .. N : f.variants[v].options[m].dim = f.variants[v].options[n].dim => m = n
      BY <3>1, <3>2, <3>3
    <3>5. Distinct([n \in DOMAIN f.variants[v].options |-> f.variants[v].options[n].dim])
      BY <1>1, <3>4 DEF Distinct
    <3>6. f.variants[v].active => f.variants[v].stock > 0
      BY <1>1, <1>2, <1>4 DEF SoldOut
    <3>7. QED
      BY <1>1, <3>5, <3>6
  <2>5. QED
    BY <1>1, <2>1, <2>2, <2>3, <2>4 DEF WellFormedForm
<1>5. f.stored = 1 .. V /\ \A v \in 1 .. V : f.variants[v].id = v
  BY DEF ShowsRows
<1>6. IdsKnown(f)
  BY <1>1, <1>5 DEF IdsKnown
<1>7. KeysTold(f)
  <2> SUFFICES ASSUME NEW v \in 1 .. V PROVE Lands(f, v) = v
    BY <1>1 DEF KeysTold
  <2>0. v \in f.stored /\ \A w \in 1 .. V : w # 0
    BY <1>5
  <2>1. \A w \in 1 .. V : Existing(f, w) /\ KnownAs(f, w) = w
    <3>1. \A w \in 1 .. V : Existing(f, w)
      BY <1>5, <2>0, Zenon DEF Existing
    <3>2. QED
      BY <1>5, <3>1, Zenon DEF KnownAs
  <2>2. resolveVariantKey(f, v) = v
    BY <1>5, <2>0, Zenon DEF resolveVariantKey
  <2>3. {w \in 1 .. V : KnownAs(f, w) = v} = {v}
    BY <2>1
  <2>4. {w \in {v} : ~Existing(f, w)} = {}
    BY <2>1
  <2>5. Lands(f, v) = Max({0} \cup {v})
    BY <1>1, <2>2, <2>3, <2>4, Zenon DEF Lands
  <2>6. Max({0} \cup {v}) = v
    <3>1. PICK S : S = {0} \cup {v}
      OBVIOUS
    <3>2. IsFiniteSet({0}) /\ IsFiniteSet({v})
      BY FS_Singleton
    <3>i. IsFiniteSet({0} \cup {v})
      BY <3>2, FS_Union
    <3>n. v \in Nat
      OBVIOUS
    <3>3. IsFiniteSet(S) /\ S \in SUBSET Nat /\ S # {}
      BY <3>1, <3>i, <3>n
    <3>4. Max(S) \in S /\ \A w \in S : w <= Max(S)
      BY <3>3, MaxFacts
    <3>5. QED
      BY <3>1, <3>4
  <2>7. QED
    BY <2>5, <2>6
<1>8. QED
  BY <1>3, <1>4, <1>6, <1>7

-----------------------------------------------------------------------------

\* A form that shows rows comes to rows of the same words, in the same order.
LEMMA ShownSnapshot ==
    ASSUME NEW rows, NEW N \in Nat, NEW V \in Nat, RowsWhole(rows, N, V), NEW f, ShowsRows(f, rows, N, V),
           NEW v \in 1 .. V
    PROVE  VariantSnapshot(f, v) = rows.snapshot[v]
<1>b. f \in FormShape(Nat \X Nat) /\ Len(f.dims) = N
  BY DEF ShowsRows
<1>1. PICK P, options : P = rows.pivot[v] /\ options = f.variants[v].options
  OBVIOUS
<1>2. PICK T : T = [p \in P |-> TrueWords(rows, p)]
  OBVIOUS
<1>3. PICK g : PicksShown(g, options, rows, N, P)
  BY <1>1, ShownPicks
<1>4. /\ OneEach(g, 1 .. N, P)
      /\ \A n \in 1 .. N : g[n] \in P /\ g[n].value \in DOMAIN rows.values /\ options[n].opt = g[n].value
  BY <1>3 DEF PicksShown
<1>5. \A n \in 1 .. N : SnapshotLookup(f, options[n].opt) = TrueWords(rows, g[n])
  <2> SUFFICES ASSUME NEW n \in 1 .. N PROVE SnapshotLookup(f, options[n].opt) = TrueWords(rows, g[n])
    OBVIOUS
  <2>1. PICK at \in DOMAIN rows.values : g[n].value = at
    BY <1>4
  <2>2. SnapshotLookup(f, at) = [dimension |-> rows.dims[rows.values[at].dim], value |-> rows.values[at].value]
    BY ShownOption, ZenonT(60) DEF SaysOption
  <2>3. options[n].opt = at
    BY <1>4, <2>1
  <2>4. QED
    BY <2>1, <2>2, <2>3 DEF TrueWords
<1>6. \A n \in 1 .. N : SnapshotLookup(f, options[n].opt) \in OptionWords
  <2>1. \A n \in 1 .. N : options[n].opt \in OptionIds(f)
    BY <1>4, ShownOption DEF SaysOption
  <2>2. QED
    BY <1>b, <2>1, LookupFacts
<1>7. DOMAIN options = 1 .. N
  <2>1. DOMAIN f.variants[v].options = 1 .. N
    <3>1. HasShape(f, N, V)
      BY ShownShape
    <3>2. QED
      BY <3>1 DEF HasShape
  <2>2. QED
    BY <1>1, <2>1
<1>8. T \in [P -> OptionWords]
  <2>1. ASSUME NEW p \in P PROVE TrueWords(rows, p) \in OptionWords
    <3>1. PICK n \in 1 .. N : g[n] = p
      BY <1>4 DEF OneEach
    <3>2. QED
      BY <1>5, <1>6, <3>1
  <2>2. QED
    BY <1>2, <2>1
<1>9. PICK order : /\ OneEach(order, 1 .. N, 1 .. N)
                   /\ VariantSnapshot(f, v) = [n \in 1 .. N |-> SnapshotLookup(f, options[order[n]].opt)]
                   /\ InOrder(VariantSnapshot(f, v), N)
  <2>1. DOMAIN f.variants[v].options = 1 .. N
    BY <1>1, <1>7
  <2>2. \A n \in 1 .. N : SnapshotLookup(f, f.variants[v].options[n].opt) \in OptionWords
    BY <1>1, <1>6
  <2>3. \E order : /\ OneEach(order, 1 .. N, 1 .. N)
                   /\ VariantSnapshot(f, v) =
                            [n \in 1 .. N |-> SnapshotLookup(f, f.variants[v].options[order[n]].opt)]
                   /\ InOrder(VariantSnapshot(f, v), N)
    BY <2>1, <2>2, SnapshotSorted
  <2>4. QED
    BY <1>1, <2>3
<1>10. PICK h : h = [n \in 1 .. N |-> g[order[n]]]
  OBVIOUS
<1>11. OneEach(h, 1 .. N, P)
  BY <1>4, <1>9, <1>10, OneEachThen
<1>12. \A n \in 1 .. N : order[n] \in 1 .. N /\ h[n] \in P
  BY <1>9, <1>11 DEF OneEach
<1>13. VariantSnapshot(f, v) = [n \in 1 .. N |-> T[h[n]]]
  <2>1. \A n \in 1 .. N : SnapshotLookup(f, options[order[n]].opt) = TrueWords(rows, h[n])
    BY <1>5, <1>10, <1>12
  <2>2. \A n \in 1 .. N : SnapshotLookup(f, options[order[n]].opt) = T[h[n]]
    BY <1>2, <1>12, <2>1
  <2>3. QED
    BY <1>9, <2>2, Zenon
<1>14. SnapshotWhole(rows, N, P, rows.snapshot[v])
  BY <1>1, WholeParts
<1>15. PICK k : /\ OneEach(k, 1 .. N, P)
                /\ rows.snapshot[v] = [n \in 1 .. N |-> TrueWords(rows, k[n])]
                /\ InOrder(rows.snapshot[v], N)
  BY <1>14 DEF SnapshotWhole
<1>16. rows.snapshot[v] = [n \in 1 .. N |-> T[k[n]]]
  <2>1. \A n \in 1 .. N : k[n] \in P
    BY <1>15 DEF OneEach
  <2>2. \A n \in 1 .. N : T[k[n]] = TrueWords(rows, k[n])
    BY <1>2, <2>1
  <2>3. QED
    BY <1>15, <2>2, Zenon
<1>17. Rising(T, h, N)
  BY <1>9, <1>13 DEF InOrder, Rising
<1>18. Rising(T, k, N)
  BY <1>15, <1>16 DEF InOrder, Rising
<1>19. \A n \in 1 .. N : T[h[n]] = T[k[n]]
  BY <1>8, <1>11, <1>15, <1>17, <1>18, SortedAlike
<1>20. QED
  BY <1>13, <1>16, <1>19

\* ... and so do the rows the filters read.
LEMMA ShownWords ==
    ASSUME NEW rows, NEW N \in Nat, NEW V \in Nat, RowsWhole(rows, N, V), NEW f, ShowsRows(f, rows, N, V),
           WellFormedForm(f), KeysTold(f), NEW v \in 1 .. V
    PROVE  {InWords(RowsOf(f), p) : p \in RowsOf(f).pivot[v]} = {InWords(rows, p) : p \in rows.pivot[v]}
<1>e. ASSUME NEW i \in 1 .. N
      PROVE  i \in DimensionIds(f) /\ DimensionRow(f, i) \in 1 .. N /\ f.dims[DimensionRow(f, i)].name = rows.dims[i]
  BY ShownDimensions, SMTT(60)
<1>b. f \in FormShape(Nat \X Nat) /\ Len(f.dims) = N /\ Len(f.variants) = V
  BY DEF ShowsRows
<1>s. DOMAIN f.dims = 1 .. N /\ DOMAIN f.variants = 1 .. V /\ DOMAIN f.variants[v].options = 1 .. N
  <2>1. DOMAIN f.dims = 1 .. N /\ DOMAIN f.variants = 1 .. V
    BY <1>b, FormFacts
  <2>2. DOMAIN f.variants[v].options = 1 .. N
    <3>1. HasShape(f, N, V)
      BY ShownShape
    <3>2. QED
      BY <3>1 DEF HasShape
  <2>3. QED
    BY <2>1, <2>2
<1>1. PICK P, options, fresh : P = rows.pivot[v] /\ options = f.variants[v].options /\ fresh = RowsOf(f)
  OBVIOUS
<1>3. PICK g : PicksShown(g, options, rows, N, P)
  BY <1>1, ShownPicks
<1>4. /\ OneEach(g, 1 .. N, P)
      /\ \A n \in 1 .. N : /\ g[n] \in P /\ g[n].dim \in 1 .. N /\ g[n].value \in DOMAIN rows.values
                           /\ options[n].dim = g[n].dim /\ options[n].opt = g[n].value
  BY <1>3 DEF PicksShown
<1>5. PICK row, val : /\ row = [n \in 1 .. N |-> DimensionRow(f, options[n].dim)]
                      /\ val = [n \in 1 .. N |-> OptionRow(f, options[n].opt)]
  OBVIOUS
<1>6. PICK pick : pick = [n \in 1 .. N |-> [dim |-> row[n], value |-> val[n], by |-> <<v, n>>]]
  OBVIOUS
<1>7. fresh.pivot[v] = {pick[n] : n \in 1 .. N}
  <2>1. fresh.pivot[v] = PicksOf(f, v)
    BY <1>b, <1>1, RowsTold
  <2>2. fresh.pivot[v] = {[dim |-> DimensionRow(f, options[n].dim), value |-> OptionRow(f, options[n].opt), by |-> <<v, n>>] :
                              n \in 1 .. N}
    BY <1>1, <1>s, <2>1, Zenon DEF PicksOf
  <2>3. \A n \in 1 .. N : pick[n] = [dim |-> DimensionRow(f, options[n].dim), value |-> OptionRow(f, options[n].opt), by |-> <<v, n>>]
    BY <1>5, <1>6
  <2>4. QED
    BY <2>2, <2>3
<1>8. \A n \in 1 .. N : InWords(fresh, pick[n]) = InWords(rows, g[n])
  <2> SUFFICES ASSUME NEW n \in 1 .. N PROVE InWords(fresh, pick[n]) = InWords(rows, g[n])
    OBVIOUS
  <2>1. PICK i \in 1 .. N, at \in DOMAIN rows.values : g[n].dim = i /\ g[n].value = at
    BY <1>4
  <2>2. row[n] = DimensionRow(f, i) /\ val[n] = OptionRow(f, at)
    BY <1>4, <1>5, <2>1
  <2>d. i \in DimensionIds(f) /\ DimensionRow(f, i) \in 1 .. N /\ f.dims[DimensionRow(f, i)].name = rows.dims[i]
    BY <1>e
  <2>3. row[n] \in 1 .. N /\ f.dims[row[n]].name = rows.dims[i]
    BY <2>2, <2>d
  <2>o. SaysOption(f, rows, at)
    BY ShownOption, SMTT(60)
  <2>4. val[n] \in OptionPlaces(f) /\ OptionAt(f, val[n]).value = rows.values[at].value
    BY <2>2, <2>o DEF SaysOption
  <2>5. fresh.dims[row[n]] = f.dims[row[n]].name
    BY <1>1, <1>s, <2>3 DEF RowsOf
  <2>6. fresh.values[val[n]].value = OptionAt(f, val[n]).value
    <3>1. fresh.values = [b \in OptionPlaces(f) |->
              [dim |-> DimensionRow(f, f.dims[b[1]].id), value |-> OptionAt(f, b).value]]
      BY <1>1 DEF RowsOf
    <3>2. fresh.values[val[n]] =
              [dim |-> DimensionRow(f, f.dims[val[n][1]].id), value |-> OptionAt(f, val[n]).value]
      BY <2>4, <3>1
    <3>3. QED
      BY <3>2
  <2>7. pick[n].dim = row[n] /\ pick[n].value = val[n]
    BY <1>6
  <2>8. QED
    BY <2>1, <2>3, <2>4, <2>5, <2>6, <2>7 DEF InWords
<1>9. \A n \in 1 .. N : g[n] \in P
  BY <1>4
<1>10. \A p \in P : \E n \in 1 .. N : g[n] = p
  BY <1>4 DEF OneEach
<1>11. {InWords(fresh, p) : p \in fresh.pivot[v]} = {InWords(fresh, pick[n]) : n \in 1 .. N}
  BY <1>7
<1>12. {InWords(rows, p) : p \in P} = {InWords(rows, g[n]) : n \in 1 .. N}
  BY <1>9, <1>10
<1>13. {InWords(fresh, pick[n]) : n \in 1 .. N} = {InWords(rows, g[n]) : n \in 1 .. N}
  BY <1>8
<1>14. {InWords(fresh, p) : p \in fresh.pivot[v]} = {InWords(rows, p) : p \in P}
  BY <1>11, <1>12, <1>13, Zenon
<1>15. QED
  BY <1>1, <1>14

LEMMA ShownRowsAlike ==
    ASSUME NEW rows, NEW N \in Nat, NEW V \in Nat, RowsWhole(rows, N, V), NEW f, ShowsRows(f, rows, N, V),
           WellFormedForm(f), Resolved(f), KeysTold(f)
    PROVE  /\ RowsWhole(RowsOf(f), N, V)
           /\ RowsOf(f).snapshot = rows.snapshot
           /\ InWordsAll(RowsOf(f)) = InWordsAll(rows)
<1>b. f \in FormShape(Nat \X Nat) /\ Len(f.dims) = N /\ Len(f.variants) = V
  BY DEF ShowsRows
<1>1. RowsWhole(RowsOf(f), N, V)
  BY <1>b, RowsMade
<1>2. PICK fresh : fresh = RowsOf(f)
  OBVIOUS
<1>3. DOMAIN f.variants = 1 .. V
  BY <1>b, FormFacts
<1>4. fresh.snapshot = rows.snapshot
  <2>1. fresh.snapshot = [v \in 1 .. V |-> VariantSnapshot(f, v)]
    BY <1>b, <1>2, RowsTold
  <2>2. rows.snapshot = [v \in 1 .. V |-> rows.snapshot[v]]
    BY WholeParts
  <2>3. \A v \in 1 .. V : VariantSnapshot(f, v) = rows.snapshot[v]
    BY ShownSnapshot, ZenonT(60)
  <2>4. fresh.snapshot = [v \in 1 .. V |-> rows.snapshot[v]]
    BY <2>1, <2>3
  <2>5. QED
    BY <2>2, <2>4, Zenon
<1>5. InWordsAll(fresh) = InWordsAll(rows)
  <2>1. DOMAIN fresh.pivot = 1 .. V
    BY <1>b, <1>2, RowsTold
  <2>2. DOMAIN rows.pivot = 1 .. V
    BY WholeParts
  <2>3. \A v \in 1 .. V : {InWords(fresh, p) : p \in fresh.pivot[v]} = {InWords(rows, p) : p \in rows.pivot[v]}
    BY <1>2, ShownWords
  <2>4. QED
    BY <2>1, <2>2, <2>3 DEF InWordsAll
<1>6. QED
  BY <1>1, <1>2, <1>4, <1>5

-----------------------------------------------------------------------------

LEMMA SeqMade ==
    ASSUME NEW S, NEW n \in Nat, NEW s \in [1 .. n -> S]
    PROVE  s \in Seq(S) /\ Len(s) = n
OBVIOUS

LEMMA Listing ==
    ASSUME NEW S, IsFiniteSet(S), NEW q \in SetToSeqs(S)
    PROVE  Cardinality(S) \in Nat /\ OneEach(q, 1 .. Cardinality(S), S)
<1>1. Cardinality(S) \in Nat
  BY FS_CardinalityType
<1>2. PICK k \in Nat : k = Cardinality(S)
  BY <1>1
<1>3. IsFiniteSet(1 .. k) /\ Cardinality(1 .. k) = k
  BY Counted
<1>4. q \in [1 .. k -> S] /\ \A x, y \in 1 .. k : q[x] = q[y] => x = y
  BY <1>2 DEF SetToSeqs
<1>5. OneEach(q, 1 .. k, S)
  BY <1>2, <1>3, <1>4, OneEachOfEqual
<1>6. QED
  BY <1>1, <1>2, <1>5

OptionShape(ids) == [id : ids, value : Nat]
DimensionShape(ids) == [id : Nat, name : Nat, options : Seq(OptionShape(ids))]
PickShape(ids) == [dim : Nat, opt : ids]
VariantShape(ids) == [id : Nat, clientId : Nat, active : BOOLEAN, stock : Nat, options : Seq(PickShape(ids))]

LEMMA ShapeParts ==
    ASSUME NEW ids
    PROVE  FormShape(ids) = [stored : SUBSET Nat, dims : Seq(DimensionShape(ids)),
                             variants : Seq(VariantShape(ids)) \ {<<>>}]
BY DEF FormShape, DimensionShape, OptionShape, VariantShape, PickShape

DimShown(rows, i, listing) ==
    [id |-> i, name |-> rows.dims[i],
     options |-> [j \in DOMAIN listing |-> [id |-> listing[j], value |-> rows.values[listing[j]].value]]]

PicksListed(listing) == [n \in DOMAIN listing |-> [dim |-> listing[n].dim, opt |-> listing[n].value]]

OptionsUnder(rows, i) == {at \in DOMAIN rows.values : rows.values[at].dim = i}

VariantShown(sent, v, listing) ==
    [id |-> v, clientId |-> v, active |-> sent.variants[v].active, stock |-> sent.variants[v].stock,
     options |-> PicksListed(listing)]

FormOf(sent, rows, dims, options, picks, N, V) ==
    [stored |-> 1 .. V,
     dims |-> [k \in 1 .. N |-> DimShown(rows, dims[k], options[dims[k]])],
     variants |-> [v \in 1 .. V |-> VariantShown(sent, v, picks[v])]]

OptionsListed(rows, options, N) == \A i \in 1 .. N : \E c \in Nat : OneEach(options[i], 1 .. c, OptionsUnder(rows, i))
VariantsListed(rows, picks, N, V) == \A v \in 1 .. V : OneEach(picks[v], 1 .. N, rows.pivot[v])

LEMMA ShowsThem ==
    ASSUME NEW ids, NEW sent \in FormShape(ids), NEW rows, NEW N \in Nat, NEW V \in Nat, RowsWhole(rows, N, V),
           Len(sent.variants) = V,
           NEW dims, OneEach(dims, 1 .. N, 1 .. N),
           NEW options, OptionsListed(rows, options, N), NEW picks, VariantsListed(rows, picks, N, V),
           NEW f, f = FormOf(sent, rows, dims, options, picks, N, V)
    PROVE  ShowsRows(f, rows, N, V)
<1> DEFINE places == Nat \X Nat
<1>1. \A k \in 1 .. N : dims[k] \in 1 .. N
  BY DEF OneEach
<1>2. ASSUME NEW i \in 1 .. N
      PROVE  /\ ShowsOptions(rows, i, DimShown(rows, i, options[i]).options)
             /\ DimShown(rows, i, options[i]) \in DimensionShape(places)
             /\ DimShown(rows, i, options[i]).id = i /\ DimShown(rows, i, options[i]).name = rows.dims[i]
             /\ \A at \in OptionsUnder(rows, i) :
                  \E j \in DOMAIN DimShown(rows, i, options[i]).options : DimShown(rows, i, options[i]).options[j].id = at
  <2>1. PICK c \in Nat : OneEach(options[i], 1 .. c, OptionsUnder(rows, i))
    BY DEF OptionsListed
  <2>2. PICK listing : listing = options[i]
    OBVIOUS
  <2>3. /\ listing \in [1 .. c -> OptionsUnder(rows, i)] /\ \A x, y \in 1 .. c : listing[x] = listing[y] => x = y
        /\ \A at \in OptionsUnder(rows, i) : \E x \in 1 .. c : listing[x] = at
    BY <2>1, <2>2 DEF OneEach
  <2>4. PICK words : words = [j \in 1 .. c |-> rows.values[listing[j]].value]
    OBVIOUS
  <2>5. PICK shown : shown = [j \in 1 .. c |-> [id |-> listing[j], value |-> words[j]]]
    OBVIOUS
  <2>6. DimShown(rows, i, listing) = [id |-> i, name |-> rows.dims[i], options |-> shown]
    <3>1. DOMAIN listing = 1 .. c
      BY <2>3
    <3>2. shown = [j \in 1 .. c |-> [id |-> listing[j], value |-> rows.values[listing[j]].value]]
      BY <2>4, <2>5
    <3>3. QED
      BY <3>1, <3>2, Zenon DEF DimShown
  <2>7. DOMAIN shown = 1 .. c /\ \A j \in 1 .. c : shown[j].id = listing[j] /\ shown[j].value = words[j]
    BY <2>5
  <2>8. \A j \in 1 .. c : /\ listing[j] \in DOMAIN rows.values /\ rows.values[listing[j]].dim = i
                          /\ words[j] = rows.values[listing[j]].value
    BY <2>3, <2>4 DEF OptionsUnder
  <2>9. ShowsOptions(rows, i, shown)
    BY <2>3, <2>7, <2>8 DEF ShowsOptions
  <2>10. ValuesApart(rows, N) /\ DimsWhole(rows, N)
    BY WholeParts
  <2>11. shown \in Seq(OptionShape(places))
    <3>1. \A j \in 1 .. c : listing[j] \in places /\ words[j] \in Nat
      BY <2>8, <2>10 DEF ValuesApart
    <3>2. shown \in [1 .. c -> OptionShape(places)]
      BY <2>5, <3>1 DEF OptionShape
    <3>3. QED
      BY <3>2, SeqMade
  <2>12. rows.dims[i] \in Nat /\ i \in Nat
    BY <2>10 DEF DimsWhole
  <2>13. [id |-> i, name |-> rows.dims[i], options |-> shown] \in DimensionShape(places)
    <3>1. PICK name \in Nat : name = rows.dims[i]
      BY <2>12
    <3>2. PICK O : O = Seq(OptionShape(places))
      OBVIOUS
    <3>3. [id |-> i, name |-> name, options |-> shown] \in [id : Nat, name : Nat, options : O]
      BY <2>11, <2>12, <3>2
    <3>4. QED
      BY <3>1, <3>2, <3>3 DEF DimensionShape
  <2>14. \A at \in OptionsUnder(rows, i) : \E j \in DOMAIN shown : shown[j].id = at
    BY <2>3, <2>7
  <2>15. PICK d : d = DimShown(rows, i, listing)
    OBVIOUS
  <2>16. d.id = i /\ d.name = rows.dims[i] /\ d.options = shown
    BY <2>6, <2>15
  <2>17. QED
    BY <2>2, <2>6, <2>9, <2>13, <2>14, <2>15, <2>16
<1>3. ASSUME NEW v \in 1 .. V
      PROVE  /\ PicksListed(picks[v]) \in Seq(PickShape(places))
             /\ ShowsVariant(PicksListed(picks[v]), N, rows.pivot[v])
  <2>1. PICK g : g = picks[v]
    OBVIOUS
  <2>2. OneEach(g, 1 .. N, rows.pivot[v]) /\ PivotWhole(rows, N, rows.pivot[v]) /\ ValuesApart(rows, N)
    BY <2>1, WholeParts DEF VariantsListed
  <2>3. DOMAIN g = 1 .. N /\ \A n \in 1 .. N : g[n] \in rows.pivot[v]
    BY <2>2 DEF OneEach
  <2>4. PicksListed(g) = [n \in 1 .. N |-> [dim |-> g[n].dim, opt |-> g[n].value]]
    BY <2>3, Zenon DEF PicksListed
  <2>5. ShowsVariant(PicksListed(g), N, rows.pivot[v])
    BY <2>2, <2>4, Zenon DEF ShowsVariant
  <2>6. PICK dim, val : dim = [n \in 1 .. N |-> g[n].dim] /\ val = [n \in 1 .. N |-> g[n].value]
    OBVIOUS
  <2>7. PicksListed(g) = [n \in 1 .. N |-> [dim |-> dim[n], opt |-> val[n]]]
    BY <2>4, <2>6
  <2>8. \A n \in 1 .. N : g[n].dim \in 1 .. N /\ g[n].value \in DOMAIN rows.values
    BY <2>2, <2>3 DEF PivotWhole
  <2>9. \A n \in 1 .. N : dim[n] \in Nat /\ val[n] \in places
    BY <2>2, <2>6, <2>8, SMTT(30) DEF ValuesApart
  <2>10. PicksListed(g) \in [1 .. N -> PickShape(places)]
    BY <2>7, <2>9 DEF PickShape
  <2>11. PicksListed(g) \in Seq(PickShape(places))
    BY <2>10, SeqMade
  <2>12. QED
    BY <2>1, <2>5, <2>11
<1>4. PICK a, b : /\ a = [k \in 1 .. N |-> DimShown(rows, dims[k], options[dims[k]])]
                  /\ b = [v \in 1 .. V |-> VariantShown(sent, v, picks[v])]
  OBVIOUS
<1>5. f.dims = a /\ f.variants = b /\ f.stored = 1 .. V /\ f = [stored |-> 1 .. V, dims |-> a, variants |-> b]
  BY <1>4 DEF FormOf
<1>6. a \in Seq(DimensionShape(places)) /\ Len(a) = N
  <2>1. a \in [1 .. N -> DimensionShape(places)]
    BY <1>1, <1>2, <1>4
  <2>2. QED
    BY <2>1, SeqMade
<1>7. \A v \in 1 .. V : /\ b[v] \in VariantShape(places) /\ b[v].options = PicksListed(picks[v])
                      /\ b[v].id = v /\ b[v].clientId = v
  <2> SUFFICES ASSUME NEW v \in 1 .. V
               PROVE  /\ b[v] \in VariantShape(places) /\ b[v].options = PicksListed(picks[v])
                      /\ b[v].id = v /\ b[v].clientId = v
    OBVIOUS
  <2>1. PICK listing \in Seq(PickShape(places)) : listing = PicksListed(picks[v])
    BY <1>3
  <2>2. PICK active \in BOOLEAN, stock \in Nat : active = sent.variants[v].active /\ stock = sent.variants[v].stock
    BY FormFacts
  <2>3. PICK r : r = [id |-> v, clientId |-> v, active |-> active, stock |-> stock, options |-> listing]
    OBVIOUS
  <2>4. b[v] = r
    BY <1>4, <2>1, <2>2, <2>3 DEF VariantShown
  <2>5. PICK O : O = Seq(PickShape(places))
    OBVIOUS
  <2>6. v \in Nat
    OBVIOUS
  <2>7. r \in [id : Nat, clientId : Nat, active : BOOLEAN, stock : Nat, options : O]
    BY <2>1, <2>2, <2>3, <2>5, <2>6
  <2>8. r.options = listing /\ r.id = v /\ r.clientId = v
    BY <2>3
  <2>9. QED
    BY <2>1, <2>4, <2>5, <2>7, <2>8 DEF VariantShape
<1>8. V # 0
  <2>1. sent.variants \in Seq(VariantShape(ids)) /\ sent.variants # <<>>
    BY ShapeParts
  <2>2. QED
    BY <2>1
<1>9. b \in Seq(VariantShape(places)) \ {<<>>} /\ Len(b) = V
  <2>1. b \in [1 .. V -> VariantShape(places)]
    BY <1>4, <1>7
  <2>2. b \in Seq(VariantShape(places)) /\ Len(b) = V
    BY <2>1, SeqMade
  <2>3. Len(<<>>) = 0
    OBVIOUS
  <2>4. QED
    BY <1>8, <2>2, <2>3
<1>10. f \in FormShape(places)
  <2>1. 1 .. V \in SUBSET Nat
    OBVIOUS
  <2>2. QED
    BY <1>5, <1>6, <1>9, <2>1, ShapeParts
<1>11. \A k \in 1 .. N : a[k] = DimShown(rows, dims[k], options[dims[k]])
  BY <1>4
<1>12. ShowsDims(f, rows, N)
  <2>1. \A k \in 1 .. N : a[k].id = dims[k] /\ a[k].name = rows.dims[dims[k]]
    BY <1>1, <1>2, <1>11
  <2>2. \A k \in 1 .. N : f.dims[k].id = dims[k] /\ f.dims[k].name = rows.dims[dims[k]]
    BY <1>5, <2>1
  <2>3. \A k, l \in 1 .. N : dims[k] = dims[l] => k = l
    BY DEF OneEach
  <2>4. \A i \in 1 .. N : \E k \in 1 .. N : dims[k] = i
    BY DEF OneEach
  <2>5. \A k \in 1 .. N : f.dims[k].id \in 1 .. N /\ f.dims[k].name = rows.dims[f.dims[k].id]
    BY <1>1, <2>2
  <2>6. \A k, l \in 1 .. N : f.dims[k].id = f.dims[l].id => k = l
    BY <2>2, <2>3
  <2>7. ASSUME NEW i \in 1 .. N PROVE \E k \in 1 .. N : f.dims[k].id = i
    <3>1. PICK k \in 1 .. N : dims[k] = i
      BY <2>4
    <3>2. f.dims[k].id = i
      BY <2>2, <3>1
    <3>3. QED
      BY <3>2
  <2>8. QED
    BY <2>5, <2>6, <2>7 DEF ShowsDims
<1>13. \A k \in 1 .. N : ShowsOptions(rows, f.dims[k].id, f.dims[k].options)
  BY <1>1, <1>2, <1>5, <1>11
<1>14. ASSUME NEW at \in DOMAIN rows.values
       PROVE  \E k \in 1 .. N : \E j \in DOMAIN f.dims[k].options : f.dims[k].options[j].id = at
  <2>1. PICK i \in 1 .. N : rows.values[at].dim = i
    BY WholeParts DEF ValuesApart
  <2>2. PICK k \in 1 .. N : dims[k] = i
    BY DEF OneEach
  <2>3. at \in OptionsUnder(rows, i)
    BY <2>1 DEF OptionsUnder
  <2>4. PICK d : d = DimShown(rows, i, options[i])
    OBVIOUS
  <2>5. PICK j \in DOMAIN d.options : d.options[j].id = at
    BY <1>2, <2>3, <2>4
  <2>6. f.dims[k] = d
    BY <1>5, <1>11, <2>2, <2>4
  <2>7. QED
    BY <2>5, <2>6
<1>15. \A v \in 1 .. V : ShowsVariant(f.variants[v].options, N, rows.pivot[v])
  BY <1>3, <1>5, <1>7
<1>16. f.stored = 1 .. V /\ \A v \in 1 .. V : f.variants[v].id = v /\ f.variants[v].clientId = v
  BY <1>5, <1>7
<1>17. QED
  BY <1>5, <1>6, <1>9, <1>10, <1>12, <1>13, <1>14, <1>15, <1>16 DEF ShowsRows

-----------------------------------------------------------------------------

\* What is written is nothing, or whole; once the form was shown, what was written
\* then and what is written now say the same.  Nothing is said of colliding variants.
FirstRound(f, rows, state, was) ==
    /\ was = Nothing /\ f \in FormShape(Nat) /\ state # "shown"
    /\ rows = Nothing => state # "written"
    /\ rows # Nothing => \E N \in Nat : RowsWhole(rows, N, Len(f.variants))

SecondRound(f, rows, state, was) ==
    \E N, V \in Nat :
        /\ RowsWhole(was, N, V) /\ ShowsRows(f, was, N, V) /\ RowsWhole(rows, N, V)
        /\ state \in {"shown", "written", "refused"}
        /\ state = "refused" => SoldOut(f)
        /\ rows.snapshot = was.snapshot /\ InWordsAll(rows) = InWordsAll(was)

FormInv ==
    \/ muddled
    \/ FirstRound(sentForm, written, formState, wasWritten)
    \/ SecondRound(sentForm, written, formState, wasWritten)

LEMMA NothingIsNotWhole ==
    ASSUME NEW rows, NEW N \in Nat, NEW V \in Nat, V # 0, RowsWhole(rows, N, V)
    PROVE  rows # Nothing
<1>1. DOMAIN rows.pivot = 1 .. V
  BY WholeParts
<1>2. DOMAIN Nothing.pivot = 1 .. 0
  BY DEF Nothing
<1>3. 1 \in 1 .. V
  OBVIOUS
<1>4. QED
  BY <1>1, <1>2, <1>3, SMTT(30)

LEMMA VariantsShown ==
    ASSUME NEW rows, NEW N, NEW V, NEW f, ShowsRows(f, rows, N, V)
    PROVE  V \in Nat \ {0} /\ f \in FormShape(Nat \X Nat) /\ Len(f.dims) = N /\ Len(f.variants) = V
<1>1. f \in FormShape(Nat \X Nat) /\ Len(f.dims) = N /\ Len(f.variants) = V
  BY DEF ShowsRows
<1>2. QED
  BY <1>1, FormFacts

\* A variant that is sold out leaves the rest of the form as it is.
LEMMA SoldForm ==
    ASSUME NEW ids, NEW f \in FormShape(ids), NEW v \in DOMAIN f.variants,
           NEW g, g = [f EXCEPT !.variants[v].stock = 0]
    PROVE  /\ g \in FormShape(ids) /\ g.dims = f.dims /\ Len(g.variants) = Len(f.variants) /\ g.stored = f.stored
           /\ \A u \in 1 .. Len(f.variants) :
                /\ g.variants[u].options = f.variants[u].options
                /\ g.variants[u].id = f.variants[u].id /\ g.variants[u].clientId = f.variants[u].clientId
<1>1. PICK D, E : D = Seq(DimensionShape(ids)) /\ E = VariantShape(ids)
  OBVIOUS
<1>2. f \in [stored : SUBSET Nat, dims : D, variants : Seq(E) \ {<<>>}]
  BY <1>1, ShapeParts
<1>3. PICK a \in Seq(E), d \in D, s \in SUBSET Nat : a = f.variants /\ d = f.dims /\ s = f.stored /\ a # <<>>
  BY <1>2
<1>4. PICK b : b = [a EXCEPT ![v].stock = 0]
  OBVIOUS
<1>5. g = [f EXCEPT !.variants = b]
  BY <1>3, <1>4
<1>6. g = [stored |-> s, dims |-> d, variants |-> b]
  BY <1>2, <1>3, <1>5
<1>7. \A r \in E : /\ [r EXCEPT !.stock = 0] \in E /\ [r EXCEPT !.stock = 0].options = r.options
                  /\ [r EXCEPT !.stock = 0].id = r.id /\ [r EXCEPT !.stock = 0].clientId = r.clientId
  BY <1>1 DEF VariantShape
<1>8. PICK n \in Nat : n = Len(a) /\ DOMAIN a = 1 .. n /\ v \in 1 .. n /\ \A u \in 1 .. n : a[u] \in E
  BY <1>3
<1>9. b = [u \in 1 .. n |-> IF u = v THEN [a[u] EXCEPT !.stock = 0] ELSE a[u]]
  BY <1>4, <1>8
<1>10. \A u \in 1 .. n : /\ b[u] \in E /\ b[u].options = a[u].options
                       /\ b[u].id = a[u].id /\ b[u].clientId = a[u].clientId
  <2> SUFFICES ASSUME NEW u \in 1 .. n
               PROVE  b[u] \in E /\ b[u].options = a[u].options /\ b[u].id = a[u].id /\ b[u].clientId = a[u].clientId
    OBVIOUS
  <2>1. PICK r \in E : r = a[u]
    BY <1>8
  <2>2. b[u] = IF u = v THEN [r EXCEPT !.stock = 0] ELSE r
    BY <1>9, <2>1
  <2>3. QED
    BY <1>7, <2>1, <2>2
<1>11. b \in Seq(E) /\ Len(b) = n
  <2>1. b \in [1 .. n -> E]
    BY <1>9, <1>10
  <2>2. QED
    BY <2>1, SeqMade
<1>12. b # <<>>
  <2>1. n # 0
    BY <1>3, <1>8
  <2>2. Len(<<>>) = 0
    OBVIOUS
  <2>3. Len(b) = n
    BY <1>11
  <2>4. QED
    BY <2>1, <2>2, <2>3, Zenon
<1>13. g \in FormShape(ids)
  <2>1. FormShape(ids) = [stored : SUBSET Nat, dims : D, variants : Seq(E) \ {<<>>}]
    BY <1>1, ShapeParts
  <2>2. QED
    BY <1>6, <1>11, <1>12, <2>1
<1>14. QED
  BY <1>3, <1>6, <1>8, <1>10, <1>11, <1>13

LEMMA SoldStillShows ==
    ASSUME NEW rows, NEW N \in Nat, NEW V \in Nat, NEW f, ShowsRows(f, rows, N, V), NEW v \in DOMAIN f.variants,
           NEW g, g = [f EXCEPT !.variants[v].stock = 0]
    PROVE  ShowsRows(g, rows, N, V)
<1>1. f \in FormShape(Nat \X Nat) /\ Len(f.dims) = N /\ Len(f.variants) = V
  BY VariantsShown
<1>2. /\ g \in FormShape(Nat \X Nat) /\ g.dims = f.dims /\ Len(g.variants) = V /\ g.stored = f.stored
      /\ \A u \in 1 .. V : /\ g.variants[u].options = f.variants[u].options
                          /\ g.variants[u].id = f.variants[u].id /\ g.variants[u].clientId = f.variants[u].clientId
  BY <1>1, SoldForm
<1>3. ShowsDims(g, rows, N)
  BY <1>2 DEF ShowsRows, ShowsDims
<1>4. \A u \in 1 .. V : ShowsVariant(g.variants[u].options, N, rows.pivot[u])
  BY <1>2 DEF ShowsRows
<1>5. \A k \in 1 .. N : ShowsOptions(rows, g.dims[k].id, g.dims[k].options)
  BY <1>2 DEF ShowsRows
<1>6. \A at \in DOMAIN rows.values :
          \E k \in 1 .. N : \E j \in DOMAIN g.dims[k].options : g.dims[k].options[j].id = at
  BY <1>2 DEF ShowsRows
<1>7. g.stored = 1 .. V /\ \A u \in 1 .. V : g.variants[u].id = u /\ g.variants[u].clientId = u
  BY <1>2 DEF ShowsRows
<1>8. QED
  BY <1>1, <1>2, <1>3, <1>4, <1>5, <1>6, <1>7 DEF ShowsRows

-----------------------------------------------------------------------------

LEMMA NothingListed ==
    ASSUME NEW s, DOMAIN s = {}, s = [k \in {} |-> s[k]]
    PROVE  s = <<>>
OBVIOUS

\* Rows that are called 1, 2 ... are listed in that order.
LEMMA CountedUp ==
    ASSUME NEW V \in Nat
    PROVE  SortedBy(1 .. V, {qr \in (1 .. V) \X (1 .. V) : qr[1] < qr[2]}) = [v \in 1 .. V |-> v]
<1>1. PICK S : S = 1 .. V
  OBVIOUS
<1>2. PICK R : R = {qr \in (1 .. V) \X (1 .. V) : qr[1] < qr[2]}
  OBVIOUS
<1>3. IsFiniteSet(S) /\ Cardinality(S) = V
  BY <1>1, Counted
<1>4. \A m, n \in 1 .. V : <<m, n>> \in R <=> m < n
  BY <1>2
<1>5. PutsInOrder(R, S)
  BY <1>1, <1>4 DEF PutsInOrder
<1>6. PICK t : t = SortedBy(S, R)
  OBVIOUS
<1>7. /\ t \in [1 .. Cardinality(S) -> S]
      /\ \A i, j \in 1 .. Cardinality(S) : i < j => <<t[i], t[j]>> \in R
      /\ \A i, j \in 1 .. Cardinality(S) : t[i] = t[j] => i = j
      /\ \A x \in S : \E i \in 1 .. Cardinality(S) : t[i] = x
  BY <1>3, <1>5, <1>6, SortedFacts
<1>8. /\ t \in [1 .. V -> 1 .. V]
      /\ \A i, j \in 1 .. V : i < j => t[i] < t[j]
      /\ OneEach(t, 1 .. V, 1 .. V)
  BY <1>1, <1>3, <1>4, <1>7 DEF OneEach
<1>9. PICK T, h : T = [p \in 1 .. V |-> [dimension |-> p, value |-> 0]] /\ h = [v \in 1 .. V |-> v]
  OBVIOUS
<1>10. T \in [1 .. V -> OptionWords]
  BY <1>9 DEF OptionWords
<1>11. OneEach(h, 1 .. V, 1 .. V)
  BY <1>9 DEF OneEach
<1>12. \A p, q \in 1 .. V : p < q => UpTo(T[p], T[q])
  BY <1>9 DEF UpTo, Before
<1>13. Rising(T, t, V) /\ Rising(T, h, V)
  BY <1>8, <1>9, <1>12 DEF Rising
<1>14. \A v \in 1 .. V : T[t[v]] = T[h[v]]
  <2>1. PICK P : P = 1 .. V
    OBVIOUS
  <2>2. T \in [P -> OptionWords] /\ OneEach(t, 1 .. V, P) /\ OneEach(h, 1 .. V, P)
    BY <1>8, <1>10, <1>11, <2>1
  <2>3. QED
    BY <1>13, <2>2, SortedAlike
<1>15. \A v \in 1 .. V : t[v] = v
  <2> SUFFICES ASSUME NEW v \in 1 .. V PROVE t[v] = v
    OBVIOUS
  <2>1. t[v] \in 1 .. V /\ T[t[v]].dimension = t[v] /\ T[v].dimension = v
    BY <1>8, <1>9
  <2>2. QED
    BY <1>9, <1>14, <2>1
<1>16. t = [v \in 1 .. V |-> v]
  BY <1>8, <1>15
<1>17. QED
  BY <1>1, <1>2, <1>6, <1>16

LEMMA FormIsShown ==
    ASSUME ShowForm, FirstRound(sentForm, written, formState, wasWritten)
    PROVE  SecondRound(sentForm', written', formState', wasWritten')
<1>1. PICK sent, rows, f : sent = sentForm /\ rows = written /\ f = sentForm'
  OBVIOUS
<1>2. formState = "written" /\ formState' = "shown" /\ written' = rows /\ wasWritten' = rows
  BY <1>1 DEF ShowForm
<1>3. sent \in FormShape(Nat) /\ rows # Nothing
  BY <1>1, <1>2 DEF FirstRound
<1>4. PICK N \in Nat : RowsWhole(rows, N, Len(sent.variants))
  BY <1>1, <1>3 DEF FirstRound
<1>5. PICK V \in Nat : V = Len(sent.variants) /\ DOMAIN sent.variants = 1 .. V
  BY <1>3, FormFacts
<1>6. RowsWhole(rows, N, V)
  BY <1>4, <1>5
<1>7. DimsWhole(rows, N) /\ ValuesApart(rows, N) /\ DOMAIN rows.pivot = 1 .. V
  BY <1>6, WholeParts
<1>8. DOMAIN rows.dims = 1 .. N
  BY <1>7 DEF DimsWhole
<1>s. ShownRows = [v \in 1 .. V |-> v] /\ DOMAIN ShownRows = 1 .. V /\ \A v \in 1 .. V : ShownRows[v] = v
  <2>1. ShownRows = [v \in 1 .. V |-> v]
    BY <1>1, <1>7, CountedUp DEF ShownRows
  <2>2. QED
    BY <2>1
<1>l. Len(ShownRows) = V
  <2>1. [v \in 1 .. V |-> v] \in [1 .. V -> Nat]
    OBVIOUS
  <2>2. QED
    BY <1>s, <2>1, SeqMade
<1>9. PICK dims \in SetToSeqs(DOMAIN rows.dims), options \in Orders(OptionsByDimension), picks \in Orders(rows.pivot) :
          f = IF V = 1
              THEN [stored |-> 1 .. V, dims |-> <<>>, variants |-> <<ShownVariant(ShownRows[1], <<>>)>>]
              ELSE [stored |-> 1 .. V,
                    dims |-> [k \in DOMAIN dims |-> ShownDimension(dims[k], options[dims[k]])],
                    variants |-> [k \in DOMAIN ShownRows |-> ShownVariant(ShownRows[k], picks[ShownRows[k]])]]
  <2>1. \E dims \in SetToSeqs(DOMAIN rows.dims), options \in Orders(OptionsByDimension), picks \in Orders(rows.pivot) :
          f = IF Len(ShownRows) = 1
              THEN [stored |-> DOMAIN rows.pivot, dims |-> <<>>, variants |-> <<ShownVariant(ShownRows[1], <<>>)>>]
              ELSE [stored |-> DOMAIN rows.pivot,
                    dims |-> [k \in DOMAIN dims |-> ShownDimension(dims[k], options[dims[k]])],
                    variants |-> [k \in DOMAIN ShownRows |-> ShownVariant(ShownRows[k], picks[ShownRows[k]])]]
    BY <1>1, Zenon DEF ShowForm
  <2>2. QED
    BY <1>7, <1>l, <2>1, Zenon
<1>10. OneEach(dims, 1 .. N, 1 .. N)
  <2>1. IsFiniteSet(1 .. N) /\ Cardinality(1 .. N) = N
    BY Counted
  <2>2. PICK S : S = 1 .. N
    OBVIOUS
  <2>3. OneEach(dims, 1 .. Cardinality(S), S)
    BY <1>8, <1>9, <2>1, <2>2, Listing
  <2>4. QED
    BY <2>1, <2>2, <2>3
<1>11. OptionsListed(rows, options, N)
  <2> SUFFICES ASSUME NEW i \in 1 .. N PROVE \E c \in Nat : OneEach(options[i], 1 .. c, OptionsUnder(rows, i))
    BY DEF OptionsListed
  <2>1. OptionsByDimension = [k \in 1 .. N |-> OptionsUnder(rows, k)]
    BY <1>1, <1>8 DEF OptionsByDimension, OptionsUnder
  <2>2. options[i] \in SetToSeqs(OptionsUnder(rows, i))
    <3>1. PICK sets : sets = OptionsByDimension
      OBVIOUS
    <3>2. options \in Orders(sets) /\ DOMAIN sets = 1 .. N /\ sets[i] = OptionsUnder(rows, i)
      BY <1>9, <2>1, <3>1
    <3>3. \A k \in DOMAIN sets : options[k] \in SetToSeqs(sets[k])
      BY <3>2 DEF Orders
    <3>4. QED
      BY <3>2, <3>3
  <2>3. IsFiniteSet(OptionsUnder(rows, i))
    BY <1>7, FS_Subset DEF ValuesApart, OptionsUnder
  <2>4. PICK S : S = OptionsUnder(rows, i)
    OBVIOUS
  <2>5. Cardinality(S) \in Nat /\ OneEach(options[i], 1 .. Cardinality(S), S)
    BY <2>2, <2>3, <2>4, Listing
  <2>6. QED
    BY <2>4, <2>5
<1>12. VariantsListed(rows, picks, N, V)
  <2> SUFFICES ASSUME NEW v \in 1 .. V PROVE OneEach(picks[v], 1 .. N, rows.pivot[v])
    BY DEF VariantsListed
  <2>1. PICK P : P = rows.pivot[v]
    OBVIOUS
  <2>2. SnapshotWhole(rows, N, P, rows.snapshot[v])
    BY <1>6, <2>1, WholeParts
  <2>3. PICK g : OneEach(g, 1 .. N, P)
    BY <2>2 DEF SnapshotWhole
  <2>4. IsFiniteSet(1 .. N) /\ Cardinality(1 .. N) = N
    BY Counted
  <2>5. IsFiniteSet(P) /\ Cardinality(P) = N
    BY <2>3, <2>4, OneEachCounts
  <2>6. picks[v] \in SetToSeqs(P)
    <3>1. PICK sets : sets = rows.pivot
      OBVIOUS
    <3>2. picks \in Orders(sets) /\ v \in DOMAIN sets /\ sets[v] = P
      BY <1>7, <1>9, <2>1, <3>1
    <3>3. \A k \in DOMAIN sets : picks[k] \in SetToSeqs(sets[k])
      BY <3>2 DEF Orders
    <3>4. QED
      BY <3>2, <3>3
  <2>7. OneEach(picks[v], 1 .. Cardinality(P), P)
    BY <2>5, <2>6, Listing
  <2>8. QED
    BY <2>1, <2>5, <2>7
<1>13. f = FormOf(sent, rows, dims, options, picks, N, V)
  <2>1. DOMAIN dims = 1 .. N
    BY <1>10 DEF OneEach
  <2>2. \A i, listing : ShownDimension(i, listing) = DimShown(rows, i, listing)
    BY <1>1, Zenon DEF ShownDimension, DimShown
  <2>3. \A v, listing : ShownVariant(v, listing) = VariantShown(sent, v, listing)
    BY <1>1, Zenon DEF ShownVariant, VariantShown, PicksListed
  <2>4. PICK A, B : /\ A = [k \in 1 .. N |-> DimShown(rows, dims[k], options[dims[k]])]
                    /\ B = [v \in 1 .. V |-> VariantShown(sent, v, picks[v])]
    OBVIOUS
  <2>5. FormOf(sent, rows, dims, options, picks, N, V) = [stored |-> 1 .. V, dims |-> A, variants |-> B]
    BY <2>4, Zenon DEF FormOf
  <2>6. CASE V = 1
    <3>1. N = 0
      BY <1>6, <2>6, WholeParts
    <3>2. A = <<>>
      <4>1. A = [k \in {} |-> DimShown(rows, dims[k], options[dims[k]])]
        BY <2>4, <3>1
      <4>2. DOMAIN A = {} /\ A = [k \in {} |-> A[k]]
        BY <4>1
      <4>3. QED
        BY <4>2, NothingListed
    <3>3. PicksListed(picks[1]) = <<>> /\ PicksListed(<<>>) = <<>>
      <4>1. OneEach(picks[1], 1 .. 0, rows.pivot[1])
        BY <1>12, <2>6, <3>1 DEF VariantsListed
      <4>2. DOMAIN picks[1] = {} /\ \A none : none = <<>> => DOMAIN none = {}
        BY <4>1 DEF OneEach
      <4>3. \A listing : DOMAIN listing = {} => PicksListed(listing) = <<>>
        <5> SUFFICES ASSUME NEW listing, DOMAIN listing = {} PROVE PicksListed(listing) = <<>>
          OBVIOUS
        <5>1. PICK s : s = PicksListed(listing)
          OBVIOUS
        <5>2. DOMAIN s = {} /\ s = [n \in {} |-> s[n]]
          BY <5>1 DEF PicksListed
        <5>3. QED
          BY <5>1, <5>2, NothingListed
      <4>4. QED
        BY <4>2, <4>3
    <3>4. VariantShown(sent, 1, picks[1]) = VariantShown(sent, 1, <<>>)
      BY <3>3 DEF VariantShown
    <3>5. B = <<VariantShown(sent, 1, <<>>)>>
      <4>1. B = [v \in 1 .. 1 |-> VariantShown(sent, 1, <<>>)]
        BY <2>4, <2>6, <3>4
      <4>2. QED
        BY <4>1
    <3>6. f = [stored |-> 1 .. V, dims |-> <<>>, variants |-> <<ShownVariant(ShownRows[1], <<>>)>>]
      BY <1>9, <2>6
    <3>7. ShownVariant(ShownRows[1], <<>>) = VariantShown(sent, 1, <<>>)
      BY <1>s, <2>3, <2>6
    <3>8. QED
      BY <2>5, <3>2, <3>5, <3>6, <3>7
  <2>7. CASE V # 1
    <3>1. f = [stored |-> 1 .. V,
               dims |-> [k \in 1 .. N |-> ShownDimension(dims[k], options[dims[k]])],
               variants |-> [v \in 1 .. V |-> ShownVariant(ShownRows[v], picks[ShownRows[v]])]]
      BY <1>s, <1>9, <2>1, <2>7, Zenon
    <3>2. [k \in 1 .. N |-> ShownDimension(dims[k], options[dims[k]])] = A
      BY <2>2, <2>4, Zenon
    <3>3. [v \in 1 .. V |-> ShownVariant(ShownRows[v], picks[ShownRows[v]])] = B
      BY <1>s, <2>3, <2>4, Zenon
    <3>4. QED
      BY <2>5, <3>1, <3>2, <3>3, Zenon
  <2>8. QED
    BY <2>6, <2>7
<1>14. ShowsRows(f, rows, N, V)
  BY <1>3, <1>5, <1>6, <1>10, <1>11, <1>12, <1>13, ShowsThem
<1>15. QED
  BY <1>1, <1>2, <1>6, <1>14 DEF SecondRound

LEMMA FormStarts == InitForm => FormInv
<1> SUFFICES ASSUME InitForm PROVE FormInv
  OBVIOUS
<1>1. sentForm \in FormShape(Nat)
  BY FormsAssumption DEF InitForm
<1>2. QED
  BY <1>1 DEF InitForm, FormInv, FirstRound

LEMMA FormStep == FormInv /\ [NextForm]_formVars => FormInv'
<1> SUFFICES ASSUME FormInv, [NextForm]_formVars PROVE FormInv'
  OBVIOUS
<1>m. muddled => muddled'
  BY DEF NextForm, SubmitForm, ShowForm, SellOut, formVars
<1>k. SUFFICES ASSUME ~muddled PROVE FormInv'
  BY <1>m DEF FormInv
<1>1. PICK f, f2, rows, was : f = sentForm /\ f2 = sentForm' /\ rows = written /\ was = wasWritten
  OBVIOUS
<1>2. CASE UNCHANGED formVars
  BY <1>2 DEF formVars, FormInv
<1>3. CASE ShowForm
  <2>1. FirstRound(sentForm, written, formState, wasWritten)
    <3>1. SUFFICES ASSUME SecondRound(f, rows, formState, was) PROVE FALSE
      BY <1>1, <1>k DEF FormInv
    <3>2. PICK N, V \in Nat : RowsWhole(was, N, V) /\ ShowsRows(f, was, N, V)
      BY <3>1 DEF SecondRound
    <3>3. V # 0
      BY <3>2, VariantsShown
    <3>4. was # Nothing
      BY <3>2, <3>3, NothingIsNotWhole
    <3>5. QED
      BY <1>1, <1>3, <3>4 DEF ShowForm
  <2>2. QED
    BY <1>3, <2>1, FormIsShown DEF FormInv
<1>4. CASE SubmitForm
  <2>1. f2 = f /\ wasWritten' = was /\ formState \in {"sent", "shown"}
    BY <1>1, <1>4 DEF SubmitForm
  <2>2. \/ ~(WellFormedForm(f) /\ IdsKnown(f)) /\ formState' = "refused" /\ written' = rows
        \/ WellFormedForm(f) /\ ~Resolved(f) /\ formState' = "failed" /\ written' = rows
        \/ WellFormedForm(f) /\ Resolved(f) /\ KeysTold(f) /\ formState' = "written" /\ written' = RowsOf(f)
        \/ muddled'
    BY <1>1, <1>4 DEF SubmitForm
  <2>3. CASE FirstRound(f, rows, formState, was)
    <3>1. was = Nothing /\ f \in FormShape(Nat)
      BY <2>3 DEF FirstRound
    <3>2. CASE written' = rows /\ formState' \in {"refused", "failed"}
      BY <1>1, <2>1, <2>3, <3>2 DEF FormInv, FirstRound
    <3>3. CASE WellFormedForm(f) /\ Resolved(f) /\ KeysTold(f) /\ formState' = "written" /\ written' = RowsOf(f)
      <4>1. Len(f.dims) \in Nat /\ Len(f.variants) \in Nat \ {0}
        BY <3>1, FormFacts
      <4>2. RowsWhole(RowsOf(f), Len(f.dims), Len(f.variants))
        BY <3>1, <3>3, RowsMade
      <4>3. RowsOf(f) # Nothing
        BY <4>1, <4>2, NothingIsNotWhole
      <4>4. FirstRound(f, RowsOf(f), "written", was)
        BY <3>1, <4>1, <4>2, <4>3 DEF FirstRound
      <4>5. QED
        BY <1>1, <2>1, <3>3, <4>4 DEF FormInv
    <3>4. QED
      BY <2>2, <3>2, <3>3 DEF FormInv
  <2>4. CASE SecondRound(f, rows, formState, was)
    <3>1. PICK N, V \in Nat : /\ RowsWhole(was, N, V) /\ ShowsRows(f, was, N, V) /\ RowsWhole(rows, N, V)
                              /\ rows.snapshot = was.snapshot /\ InWordsAll(rows) = InWordsAll(was)
      BY <2>4 DEF SecondRound
    <3>2. (WellFormedForm(f) \/ SoldOut(f)) /\ IdsKnown(f) /\ Resolved(f) /\ KeysTold(f)
      BY <3>1, ShownIsTaken
    <3>3. CASE ~WellFormedForm(f)
      <4>1. formState' = "refused" /\ written' = rows /\ SoldOut(f)
        BY <1>1, <1>4, <3>2, <3>3 DEF SubmitForm
      <4>2. SecondRound(f, rows, "refused", was)
        BY <3>1, <4>1 DEF SecondRound
      <4>3. QED
        BY <1>1, <2>1, <4>1, <4>2 DEF FormInv
    <3>4. CASE WellFormedForm(f)
      <4>1. formState' = "written" /\ written' = RowsOf(f)
        BY <1>1, <1>4, <3>2, <3>4 DEF SubmitForm
      <4>2. PICK fresh : fresh = RowsOf(f)
        OBVIOUS
      <4>3. RowsWhole(fresh, N, V) /\ fresh.snapshot = was.snapshot /\ InWordsAll(fresh) = InWordsAll(was)
        BY <3>1, <3>2, <3>4, <4>2, ShownRowsAlike
      <4>4. SecondRound(f, fresh, "written", was)
        BY <3>1, <4>3 DEF SecondRound
      <4>5. QED
        BY <1>1, <2>1, <4>1, <4>2, <4>4 DEF FormInv
    <3>5. QED
      BY <3>3, <3>4
  <2>5. QED
    BY <1>1, <1>k, <2>3, <2>4 DEF FormInv
<1>5. ASSUME NEW v \in DOMAIN written.pivot, SellOut(v) PROVE FormInv'
  <2>0. v \in DOMAIN f.variants
    <3>1. formState = "written"
      BY <1>5 DEF SellOut
    <3>2. CASE FirstRound(f, rows, formState, was)
      <4>1. f \in FormShape(Nat) /\ rows # Nothing /\ \E N \in Nat : RowsWhole(rows, N, Len(f.variants))
        BY <3>1, <3>2 DEF FirstRound
      <4>2. Len(f.variants) \in Nat /\ DOMAIN f.variants = 1 .. Len(f.variants)
        BY <4>1, FormFacts
      <4>3. QED
        BY <1>1, <4>1, <4>2, WholeParts
    <3>3. CASE SecondRound(f, rows, formState, was)
      <4>1. PICK N, V \in Nat : ShowsRows(f, was, N, V) /\ RowsWhole(rows, N, V)
        BY <3>3 DEF SecondRound
      <4>2. f \in FormShape(Nat \X Nat) /\ Len(f.variants) = V
        BY <4>1, VariantsShown
      <4>3. DOMAIN f.variants = 1 .. V
        BY <4>2, FormFacts
      <4>4. DOMAIN rows.pivot = 1 .. V
        BY <4>1, WholeParts
      <4>5. QED
        BY <1>1, <4>3, <4>4
    <3>4. QED
      BY <1>1, <1>k, <3>2, <3>3 DEF FormInv
  <2>1. f2 = [f EXCEPT !.variants[v].stock = 0] /\ v \in DOMAIN f.variants
    BY <1>1, <1>5, <2>0 DEF SellOut
  <2>2. /\ formState = "written" /\ formState' = "written" /\ written' = rows /\ wasWritten' = was
    BY <1>1, <1>5 DEF SellOut
  <2>3. CASE FirstRound(f, rows, formState, was)
    <3>1. f \in FormShape(Nat) /\ was = Nothing
      BY <2>3 DEF FirstRound
    <3>2. f2 \in FormShape(Nat) /\ Len(f2.variants) = Len(f.variants)
      BY <2>1, <3>1, SoldForm
    <3>3. rows # Nothing /\ \E N \in Nat : RowsWhole(rows, N, Len(f.variants))
      BY <2>2, <2>3 DEF FirstRound
    <3>4. FirstRound(f2, rows, "written", was)
      BY <3>1, <3>2, <3>3 DEF FirstRound
    <3>5. QED
      BY <1>1, <2>2, <3>4 DEF FormInv
  <2>4. CASE SecondRound(f, rows, formState, was)
    <3>1. PICK N, V \in Nat : /\ RowsWhole(was, N, V) /\ ShowsRows(f, was, N, V) /\ RowsWhole(rows, N, V)
                              /\ rows.snapshot = was.snapshot /\ InWordsAll(rows) = InWordsAll(was)
      BY <2>4 DEF SecondRound
    <3>2. ShowsRows(f2, was, N, V)
      BY <2>1, <3>1, SoldStillShows
    <3>3. SecondRound(f2, rows, "written", was)
      BY <3>1, <3>2 DEF SecondRound
    <3>4. QED
      BY <1>1, <2>2, <3>3 DEF FormInv
  <2>5. QED
    BY <1>1, <1>k, <2>3, <2>4 DEF FormInv
<1>6. QED
  BY <1>2, <1>3, <1>4, <1>5 DEF NextForm

LEMMA FormImplies == FormInv => FormsHold
<1> SUFFICES ASSUME FormInv, ~muddled PROVE FormsHold
  BY DEF FormsHold, OneValuePerDimension, SnapshotTellsPivot, UntouchedFormSaves
<1>1. PICK rows, was : rows = written /\ was = wasWritten
  OBVIOUS
<1>2. rows = Nothing \/ \E N, V \in Nat : RowsWhole(rows, N, V)
  <2>1. CASE FirstRound(sentForm, written, formState, wasWritten)
    <3>1. Len(sentForm.variants) \in Nat
      BY <2>1, FormFacts DEF FirstRound
    <3>2. QED
      BY <1>1, <2>1, <3>1 DEF FirstRound
  <2>2. CASE SecondRound(sentForm, written, formState, wasWritten)
    BY <1>1, <2>2 DEF SecondRound
  <2>3. QED
    BY <2>1, <2>2 DEF FormInv
<1>3. ASSUME rows = Nothing PROVE DOMAIN rows.pivot = {}
  BY <1>3 DEF Nothing
<1>4. OneValuePerDimension
  <2>1. ASSUME NEW N \in Nat, NEW V \in Nat, RowsWhole(rows, N, V), NEW v \in DOMAIN rows.pivot, NEW i \in DOMAIN rows.dims
        PROVE  \E p \in rows.pivot[v] : p.dim = i /\ \A q \in rows.pivot[v] : q.dim = i => q = p
    <3>1. v \in 1 .. V /\ i \in 1 .. N
      <4>1. v \in 1 .. V /\ DimsWhole(rows, N)
        BY <2>1, WholeParts
      <4>2. QED
        BY <2>1, <4>1 DEF DimsWhole
    <3>2. PivotWhole(rows, N, rows.pivot[v])
      BY <2>1, <3>1, WholeParts
    <3>3. QED
      BY <3>1, <3>2 DEF PivotWhole
  <2>2. QED
    BY <1>1, <1>2, <1>3, <2>1 DEF OneValuePerDimension
<1>5. SnapshotTellsPivot
  <2>1. ASSUME NEW N \in Nat, NEW V \in Nat, RowsWhole(rows, N, V), NEW v \in DOMAIN rows.pivot,
               \A p \in rows.pivot[v] : rows.values[p.value].dim = p.dim
        PROVE  ToSet(rows.snapshot[v]) = {InWords(rows, p) : p \in rows.pivot[v]}
    <3>1. v \in 1 .. V
      BY <2>1, WholeParts
    <3>2. SnapshotWhole(rows, N, rows.pivot[v], rows.snapshot[v])
      BY <2>1, <3>1, WholeParts
    <3>3. PICK g : OneEach(g, 1 .. N, rows.pivot[v]) /\ rows.snapshot[v] = [n \in 1 .. N |-> TrueWords(rows, g[n])]
      BY <3>2 DEF SnapshotWhole
    <3>4. \A p \in rows.pivot[v] : TrueWords(rows, p) = InWords(rows, p)
      BY <2>1, Zenon DEF TrueWords, InWords
    <3>5. ToSet(rows.snapshot[v]) = {TrueWords(rows, g[n]) : n \in 1 .. N}
      BY <3>3 DEF ToSet
    <3>6. \A n \in 1 .. N : g[n] \in rows.pivot[v]
      BY <3>3 DEF OneEach
    <3>7. \A p \in rows.pivot[v] : \E n \in 1 .. N : g[n] = p
      BY <3>3 DEF OneEach
    <3>8. QED
      BY <3>4, <3>5, <3>6, <3>7
  <2>2. QED
    BY <1>1, <1>2, <1>3, <2>1 DEF SnapshotTellsPivot
<1>6. UntouchedFormSaves
  <2>1. SUFFICES ASSUME was # Nothing
                 PROVE  /\ formState = "refused" => SoldOut(sentForm)
                        /\ formState # "failed" /\ written.snapshot = wasWritten.snapshot
                        /\ InWordsAll(written) = InWordsAll(wasWritten)
    BY <1>1 DEF UntouchedFormSaves, SoldOut, InWordsAll
  <2>2. SecondRound(sentForm, written, formState, wasWritten)
    BY <1>1, <2>1 DEF FormInv, FirstRound
  <2>3. QED
    BY <2>2 DEF SecondRound
<1>7. QED
  BY <1>4, <1>5, <1>6 DEF FormsHold

\* What a variant is found by, what its orders say of it and what its form shows agree,
\* however often the form is sent and in whatever order the rows came, as long as the
\* keys of the variants of no form collide.
THEOREM FormsCorrect == FormSpec => []FormsHold
<1>1. FormSpec => []FormInv
  BY FormStarts, FormStep, PTL DEF FormSpec
<1>2. QED
  BY <1>1, FormImplies, PTL

-----------------------------------------------------------------------------
(* The charts of the dashboard.                                            *)
-----------------------------------------------------------------------------

\* What div and mod are.
LEMMA DivMod ==
    ASSUME NEW n \in Nat, NEW d \in Nat \ {0}
    PROVE  n \div d \in Nat /\ n % d \in 0 .. d - 1 /\ n = d * (n \div d) + (n % d)
BY SMTT(30)

\* Which whole part a number has.
LEMMA DivIs ==
    ASSUME NEW n \in Nat, NEW d \in Nat \ {0}, NEW q \in Nat, NEW r \in 0 .. d - 1, n = d * q + r
    PROVE  n \div d = q
BY SMTT(30)

LEMMA DivGrows ==
    ASSUME NEW m \in Nat, NEW n \in Nat, m <= n, NEW d \in Nat \ {0}
    PROVE  m \div d <= n \div d
BY SMTT(30)

LEMMA DivMore ==
    ASSUME NEW n \in Nat, NEW d \in Nat \ {0}, NEW k \in Nat
    PROVE  (n + k * d) \div d = (n \div d) + k
BY SMTT(30)

\* The columns of a chart add up to the rows that fall into one.
CountsBy(W, key, D) == [d \in D |-> Cardinality({o \in W : key[o] = d})]

LEMMA ColumnsAddUp ==
    ASSUME NEW W, IsFiniteSet(W), NEW key, NEW D, IsFiniteSet(D)
    PROVE  SumFunction(CountsBy(W, key, D)) = Cardinality({o \in W : key[o] \in D})
<1> DEFINE count == CountsBy(W, key, D)
           Right(s) == SumFunctionOnSet(count, s) = Cardinality({o \in W : key[o] \in s})
           G == {s \in SUBSET D : Right(s)}
<1>1. \A d \in D : count[d] = Cardinality({o \in W : key[o] = d}) /\ count[d] \in Int
  <2> SUFFICES ASSUME NEW d \in D PROVE count[d] \in Int /\ count[d] = Cardinality({o \in W : key[o] = d})
    OBVIOUS
  <2>1. {o \in W : key[o] = d} \in SUBSET W
    OBVIOUS
  <2>2. Cardinality({o \in W : key[o] = d}) \in Nat
    BY <2>1, FS_Subset, FS_CardinalityType
  <2>3. QED
    BY <2>2 DEF CountsBy
<1> HIDE DEF count
<1>2. {} \in G
  <2>1. {o \in W : key[o] \in {}} = {}
    OBVIOUS
  <2>2. SumFunctionOnSet(count, {}) = 0
    BY SumEmpty
  <2>3. QED
    BY <2>1, <2>2, FS_EmptySet
<1>3. \A s \in G : \A x \in D \ s : s \cup {x} \in G
  <2> SUFFICES ASSUME NEW s \in G, NEW x \in D \ s PROVE s \cup {x} \in G
    OBVIOUS
  <2> DEFINE old == {o \in W : key[o] \in s}
             new == {o \in W : key[o] = x}
             both == {o \in W : key[o] \in s \cup {x}}
  <2>1. IsFiniteSet(s) /\ s \subseteq D
    BY FS_Subset
  <2>2. SumFunctionOnSet(count, s \cup {x}) = count[x] + SumFunctionOnSet(count, s)
    <3>1. \A y \in s \cup {x} : count[y] \in Int
      BY <1>1, <2>1
    <3>2. QED
      BY <2>1, <3>1, SumAdd
  <2>3. both = old \cup new /\ old \cap new = {} /\ old \in SUBSET W /\ new \in SUBSET W
    OBVIOUS
  <2>4. IsFiniteSet(old) /\ IsFiniteSet(new)
    BY <2>3, FS_Subset
  <2>5. Cardinality(old) \in Nat /\ Cardinality(new) \in Nat
    BY <2>4, FS_CardinalityType
  <2>6. Cardinality(both) = Cardinality(old) + Cardinality(new)
    <3>1. Cardinality(old \cup new) = Cardinality(old) + Cardinality(new) - Cardinality(old \cap new)
      BY <2>4, FS_Union
    <3>2. Cardinality(old \cap new) = 0
      BY <2>3, FS_EmptySet
    <3>3. both = old \cup new
      BY <2>3
    <3> HIDE DEF old, new, both
    <3>4. QED
      BY <2>5, <3>1, <3>2, <3>3
  <2>7. SumFunctionOnSet(count, s) = Cardinality(old)
    OBVIOUS
  <2>8. count[x] = Cardinality(new)
    BY <1>1
  <2>9. SumFunctionOnSet(count, s \cup {x}) = Cardinality(both)
    BY <2>2, <2>5, <2>6, <2>7, <2>8
  <2>10. QED
    BY <2>1, <2>9
<1>4. D \in G
  <2>1. G \in SUBSET SUBSET D
    OBVIOUS
  <2> HIDE DEF G
  <2>2. QED
    BY <1>2, <1>3, <2>1, AllSubsets
<1>5. DOMAIN count = D
  BY DEF count, CountsBy
<1>6. QED
  BY <1>4, <1>5 DEF SumFunction, count

\* A chart with a column for each of D.
LEMMA ChartIs ==
    ASSUME NEW W, NEW key, NEW D,
           NEW data, data = [d \in {key[o] : o \in W} |-> Cardinality({o \in W : key[o] = d})]
    PROVE  OrZero(data, D) = CountsBy(W, key, D)
<1> SUFFICES ASSUME NEW d \in D
             PROVE  (IF d \in DOMAIN data THEN data[d] ELSE 0) = Cardinality({o \in W : key[o] = d})
  BY DEF OrZero, CountsBy
<1>1. CASE d \in DOMAIN data
  BY <1>1
<1>2. CASE d \notin DOMAIN data
  <2>1. {o \in W : key[o] = d} = {}
    BY <1>2
  <2>2. QED
    BY <1>2, <2>1, FS_EmptySet
<1>3. QED
  BY <1>1, <1>2

\* If every column before the last is there, what is before it is counted, and
\* nothing is counted twice.
LEMMA ChartAddsUp ==
    ASSUME NEW W, IsFiniteSet(W), NEW key, NEW D, IsFiniteSet(D), NEW last \in Nat,
           \A o \in W : key[o] < last => key[o] \in D
    PROVE  /\ SumFunction(ColumnsBefore(CountsBy(W, key, D), last)) = Cardinality({o \in W : key[o] < last})
           /\ SumFunction(CountsBy(W, key, D)) <= Cardinality(W)
<1> DEFINE early == {d \in D : d < last}
<1>1. ColumnsBefore(CountsBy(W, key, D), last) = CountsBy(W, key, early)
  BY DEF ColumnsBefore, CountsBy
<1>2. {o \in W : key[o] \in early} = {o \in W : key[o] < last}
  OBVIOUS
<1>3. IsFiniteSet(early)
  BY FS_Subset
<1>4. SumFunction(CountsBy(W, key, early)) = Cardinality({o \in W : key[o] \in early})
  BY <1>3, ColumnsAddUp
<1>5. Cardinality({o \in W : key[o] \in D}) <= Cardinality(W)
  <2>1. {o \in W : key[o] \in D} \in SUBSET W
    OBVIOUS
  <2>2. QED
    BY <2>1, FS_Subset
<1>6. SumFunction(CountsBy(W, key, D)) = Cardinality({o \in W : key[o] \in D})
  BY ColumnsAddUp
<1>7. QED
  BY <1>1, <1>2, <1>4, <1>5, <1>6

-----------------------------------------------------------------------------

\* A column for every day of an order that is over where the window ends.
LEMMA DaysListed ==
    ASSUME NEW from \in Nat, NEW to \in Nat, from < to
    PROVE  LET days == {ServerDay(t) : t \in {from + k * DayLength : k \in 0 .. to} \cap from .. to - 1}
           IN  /\ IsFiniteSet(days)
               /\ \A t \in Nat : from <= t /\ (t + Ahead) \div DayLength < ServerDay(to)
                                   => (t + Ahead) \div DayLength \in days
<1> DEFINE hours == {from + k * DayLength : k \in 0 .. to} \cap from .. to - 1
           days == {ServerDay(t) : t \in hours}
<1>1. DayLength \in Nat \ {0} /\ Ahead \in Nat
  BY DashboardAssumption
<1>2. IsFiniteSet(days)
  <2>1. IsFiniteSet(hours)
    <3>1. IsFiniteSet(from .. to - 1) /\ hours \in SUBSET (from .. to - 1)
      BY FS_Interval
    <3> HIDE DEF hours
    <3>2. QED
      BY <3>1, FS_Subset
  <2> DEFINE day == [t \in hours |-> ServerDay(t)]
  <2>2. days = {day[t] : t \in hours}
    OBVIOUS
  <2> HIDE DEF hours, day
  <2>3. QED
    BY <2>1, <2>2, ImageFinite
<1>3. ASSUME NEW t \in Nat, from <= t, (t + Ahead) \div DayLength < ServerDay(to)
      PROVE  (t + Ahead) \div DayLength \in days
  <2> DEFINE q == (t + Ahead) \div DayLength
  <2>1. ServerDay(from) <= q /\ q \in Nat /\ ServerDay(from) \in Nat /\ ServerDay(to) \in Nat
    <3>1. from <= t + Ahead /\ t + Ahead \in Nat
      BY <1>1, <1>3
    <3>2. QED
      BY <1>1, <3>1, DivGrows, DivMod DEF ServerDay
  <2> DEFINE k == q - ServerDay(from)
             hour == from + k * DayLength
  <2>2. k \in Nat
    BY <2>1
  <2>3. hour < to /\ hour \in Nat
    <3>1. PICK f \in Nat : f = ServerDay(from)
      BY <2>1
    <3>2. PICK e \in Nat : e = ServerDay(to)
      BY <2>1
    <3>3. DayLength * f <= from /\ from < DayLength * f + DayLength
      BY <1>1, <3>1, DivMod DEF ServerDay
    <3>4. DayLength * e <= to
      BY <1>1, <3>2, DivMod DEF ServerDay
    <3>5. PICK n \in Nat : n = q
      BY <2>1
    <3>6. n < e /\ f <= n
      BY <1>3, <2>1, <3>1, <3>2, <3>5
    <3>7. hour = from + (n - f) * DayLength
      BY <3>1, <3>5
    <3>8. hour < DayLength * n + DayLength
      BY <1>1, <3>3, <3>6, <3>7, SMTT(30)
    <3>9. DayLength * n + DayLength <= DayLength * e
      BY <1>1, <3>6, SMTT(30)
    <3>10. hour \in Nat
      BY <1>1, <3>6, <3>7, SMTT(30)
    <3>11. DayLength * n + DayLength \in Nat /\ DayLength * e \in Nat
      BY <1>1
    <3>12. QED
      BY <3>4, <3>8, <3>9, <3>10, <3>11
  <2>4. ServerDay(hour) = ServerDay(from) + k
    BY <1>1, <2>2, DivMore DEF ServerDay
  <2>5. ServerDay(hour) = q
    BY <2>1, <2>4
  <2>6. from <= hour /\ k <= to
    <3>1. PICK n \in Nat : n = k
      BY <2>2
    <3>2. hour = from + n * DayLength
      BY <3>1
    <3>3. n <= n * DayLength
      BY <1>1, SMTT(30)
    <3>4. n * DayLength \in Nat
      BY <1>1
    <3>5. QED
      BY <2>3, <3>1, <3>2, <3>3, <3>4
  <2>7. hour \in hours
    BY <2>2, <2>3, <2>6
  <2>8. QED
    BY <2>5, <2>7
<1>4. QED
  BY <1>2, <1>3

\* A column for every month of an order that is over where the window ends.
LEMMA MonthsListed ==
    ASSUME NEW from \in Nat, NEW to \in Nat, from < to
    PROVE  LET first(m) == m * MonthDays * DayLength + (from % DayLength)
               months == {m \in ServerMonth(from) .. ServerMonth(to) : first(m) < to}
               month(t) == ((t + Ahead) \div DayLength) \div MonthDays
           IN  /\ IsFiniteSet(months)
               /\ \A t \in Nat : from <= t /\ month(t) < ServerMonth(to) => month(t) \in months
<1> DEFINE first(m) == m * MonthDays * DayLength + (from % DayLength)
           months == {m \in ServerMonth(from) .. ServerMonth(to) : first(m) < to}
           month(t) == ((t + Ahead) \div DayLength) \div MonthDays
<1>1. DayLength \in Nat \ {0} /\ MonthDays \in Nat \ {0} /\ Ahead \in Nat
  BY DashboardAssumption
<1>2. /\ ServerDay(from) \in Nat /\ ServerDay(to) \in Nat
      /\ ServerMonth(from) \in Nat /\ ServerMonth(to) \in Nat
  BY <1>1, DivMod DEF ServerMonth, ServerDay
<1>3. IsFiniteSet(months)
  <2>1. IsFiniteSet(ServerMonth(from) .. ServerMonth(to)) /\ months \in SUBSET (ServerMonth(from) .. ServerMonth(to))
    BY <1>2, FS_Interval
  <2> HIDE DEF months
  <2>2. QED
    BY <2>1, FS_Subset
<1>4. ASSUME NEW t \in Nat, from <= t, month(t) < ServerMonth(to)
      PROVE  month(t) \in months
  <2>1. PICK q \in Nat : q = (t + Ahead) \div DayLength
    BY <1>1, DivMod
  <2>2. ServerDay(from) <= q
    <3>1. from <= t + Ahead /\ t + Ahead \in Nat
      BY <1>1, <1>4
    <3>2. QED
      BY <1>1, <2>1, <3>1, DivGrows DEF ServerDay
  <2>3. PICK m \in Nat : m = q \div MonthDays
    BY <1>1, DivMod
  <2>4. ServerMonth(from) <= m
    BY <1>1, <1>2, <2>2, <2>3, DivGrows DEF ServerMonth
  <2>5. month(t) = m /\ m < ServerMonth(to)
    BY <1>4, <2>1, <2>3
  <2>6. PICK r \in 0 .. DayLength - 1 : r = from % DayLength
    BY <1>1, DivMod
  <2>7. PICK e \in Nat, d \in Nat : e = ServerMonth(to) /\ d = ServerDay(to)
    BY <1>2
  <2>8. MonthDays * e <= d /\ DayLength * d <= to
    BY <1>1, <2>7, DivMod DEF ServerMonth, ServerDay
  <2>9. m * MonthDays + 1 <= MonthDays * e
    <3>1. m + 1 <= e
      BY <2>5, <2>7
    <3>2. m * MonthDays + MonthDays <= MonthDays * e
      BY <1>1, <3>1, SMTT(30)
    <3>3. m * MonthDays \in Nat /\ MonthDays * e \in Nat
      BY <1>1
    <3>4. QED
      BY <1>1, <3>2, <3>3
  <2>10. PICK day \in Nat : day = m * MonthDays
    BY <1>1
  <2>11. day + 1 <= d
    <3>1. MonthDays * e \in Nat
      BY <1>1
    <3>2. QED
      BY <2>8, <2>9, <2>10, <3>1
  <2>12. day * DayLength + DayLength <= DayLength * d
    BY <1>1, <2>11, SMTT(30)
  <2>13. day * DayLength \in Nat /\ DayLength * d \in Nat
    BY <1>1
  <2>14. first(m) < to
    <3>1. first(m) = day * DayLength + r
      BY <2>6, <2>10
    <3>2. QED
      BY <1>1, <2>8, <2>12, <2>13, <3>1
  <2>15. QED
    BY <1>2, <2>4, <2>5, <2>14
<1>5. QED
  BY <1>3, <1>4

-----------------------------------------------------------------------------

\* An order that is paid was placed, and keeps its time.
OrdersPlaced ==
    /\ instant \in Nat \ {0} /\ createdAt \in [PaidOrders -> Nat]
    /\ paidOrders \subseteq PaidOrders /\ IsFiniteSet(paidOrders)
    /\ \A o \in paidOrders : createdAt[o] # Unplaced

ReportShape ==
    report = [asked |-> TRUE, pending |-> report.pending, from |-> report.from, to |-> report.to,
              steady |-> report.steady, ever |-> report.ever, summary |-> report.summary,
              days |-> report.days, months |-> report.months]

\* What was paid all the time is paid now, and what is paid now was once.
ReportTypeOK ==
    \/ report = NotAsked
    \/ /\ ReportShape
       /\ report.pending \subseteq Pending /\ report.from \in Nat /\ report.to \in Nat
       /\ report.from < report.to /\ report.steady \subseteq paidOrders /\ paidOrders \subseteq report.ever
       /\ report.ever \subseteq PaidOrders /\ IsFiniteSet(report.ever)
       /\ \A o \in report.ever : createdAt[o] # Unplaced

CountedSince(n, before, now) == n \in Nat /\ CountedMeanwhile(n, before, now)
AtMost(n, now) == n \in Nat /\ n <= Cardinality(now)

SummaryCounted ==
    "summary" \notin report.pending => CountedSince(report.summary, InWindow(report.steady), InWindow(report.ever))
DaysCounted ==
    "days" \notin report.pending =>
        /\ CountedSince(SumFunction(ColumnsBefore(report.days, ServerDay(report.to))), DayOver(report.steady), DayOver(report.ever))
        /\ AtMost(SumFunction(report.days), InWindow(report.ever))
MonthsCounted ==
    "months" \notin report.pending =>
        /\ CountedSince(SumFunction(ColumnsBefore(report.months, ServerMonth(report.to))), MonthOver(report.steady), MonthOver(report.ever))
        /\ AtMost(SumFunction(report.months), InWindow(report.ever))

DashboardInv ==
    OrdersPlaced /\ ReportTypeOK /\ (report.asked => SummaryCounted /\ DaysCounted /\ MonthsCounted)

LEMMA DashboardImplies == DashboardInv => ChartsTell
BY DEF DashboardInv, ChartsTell, SummaryCounted, DaysCounted, MonthsCounted, CountedSince, AtMost

LEMMA DashboardStarts == InitDashboard => DashboardInv
<1> SUFFICES ASSUME InitDashboard PROVE DashboardInv
  OBVIOUS
<1>1. OrdersPlaced
  BY FS_EmptySet DEF InitDashboard, OrdersPlaced, Unplaced
<1>2. report = NotAsked /\ ~report.asked
  BY DEF InitDashboard, NotAsked
<1>3. QED
  BY <1>1, <1>2 DEF DashboardInv, ReportTypeOK

LEMMA CountsGrow ==
    ASSUME NEW n, NEW steady, IsFiniteSet(steady), NEW less, less \subseteq steady,
           NEW ever, NEW more, IsFiniteSet(more), ever \subseteq more
    PROVE  /\ CountedSince(n, steady, ever) => CountedSince(n, less, more)
           /\ AtMost(n, ever) => AtMost(n, more)
<1>1. /\ Cardinality(ever) <= Cardinality(more) /\ Cardinality(more) \in Nat /\ Cardinality(ever) \in Nat
      /\ Cardinality(less) <= Cardinality(steady) /\ Cardinality(less) \in Nat /\ Cardinality(steady) \in Nat
  BY FS_Subset, FS_CardinalityType
<1>2. ASSUME n \in Nat, n <= Cardinality(ever) PROVE n <= Cardinality(more)
  BY <1>1, <1>2
<1>3. ASSUME n \in Nat, Cardinality(steady) <= n PROVE Cardinality(less) <= n
  BY <1>1, <1>3
<1>4. QED
  BY <1>2, <1>3 DEF CountedSince, CountedMeanwhile, AtMost

\* Less was paid all the time, more was once, and the orders stand where they stood.
PaidMoves ==
    /\ report.asked => /\ report'.asked /\ report'.steady \subseteq report.steady /\ report.ever \subseteq report'.ever
                       /\ IsFiniteSet(report'.ever)
                       /\ \A o \in report.ever : createdAt'[o] = createdAt[o]
                       /\ report'.pending = report.pending /\ report'.from = report.from /\ report'.to = report.to
                       /\ report'.summary = report.summary /\ report'.days = report.days
                       /\ report'.months = report.months
    /\ ~report.asked => ~report'.asked

LEMMA WindowsMove ==
    ASSUME ReportTypeOK, report.asked, PaidMoves
    PROVE  /\ InWindow(report.steady)' \subseteq InWindow(report.steady) /\ IsFiniteSet(InWindow(report.steady))
           /\ DayOver(report.steady)' \subseteq DayOver(report.steady) /\ IsFiniteSet(DayOver(report.steady))
           /\ MonthOver(report.steady)' \subseteq MonthOver(report.steady) /\ IsFiniteSet(MonthOver(report.steady))
           /\ InWindow(report.ever) \subseteq InWindow(report.ever)' /\ IsFiniteSet(InWindow(report.ever)')
           /\ DayOver(report.ever) \subseteq DayOver(report.ever)' /\ IsFiniteSet(DayOver(report.ever)')
           /\ MonthOver(report.ever) \subseteq MonthOver(report.ever)' /\ IsFiniteSet(MonthOver(report.ever)')
<1>1. report.steady \subseteq report.ever /\ IsFiniteSet(report.ever) /\ IsFiniteSet(report.steady)
  <2>1. report.steady \subseteq report.ever /\ IsFiniteSet(report.ever)
    BY DEF ReportTypeOK, NotAsked
  <2>2. QED
    BY <2>1, FS_Subset
<1>2. /\ report'.steady \subseteq report.steady /\ report.ever \subseteq report'.ever /\ IsFiniteSet(report'.ever)
      /\ report'.from = report.from /\ report'.to = report.to
      /\ \A o \in report.ever : createdAt'[o] = createdAt[o]
  BY DEF PaidMoves
<1>3. \A o \in report.ever : JakartaDay(o)' = JakartaDay(o) /\ JakartaMonth(o)' = JakartaMonth(o)
  BY <1>2 DEF JakartaDay, JakartaMonth
<1>4. /\ InWindow(report.steady)' \subseteq InWindow(report.steady) /\ InWindow(report.ever) \subseteq InWindow(report.ever)'
      /\ InWindow(report.steady)' \subseteq report.ever /\ InWindow(report.ever) \subseteq report.ever
  BY <1>1, <1>2 DEF InWindow, Window
<1>5. DayOver(report.steady)' \subseteq DayOver(report.steady) /\ DayOver(report.ever) \subseteq DayOver(report.ever)'
  BY <1>2, <1>3, <1>4 DEF DayOver
<1>6. MonthOver(report.steady)' \subseteq MonthOver(report.steady) /\ MonthOver(report.ever) \subseteq MonthOver(report.ever)'
  BY <1>2, <1>3, <1>4 DEF MonthOver
<1>7. /\ InWindow(report.ever)' \in SUBSET report'.ever /\ DayOver(report.ever)' \in SUBSET report'.ever
      /\ MonthOver(report.ever)' \in SUBSET report'.ever
      /\ InWindow(report.steady) \in SUBSET report.steady /\ DayOver(report.steady) \in SUBSET report.steady
      /\ MonthOver(report.steady) \in SUBSET report.steady
  BY DEF InWindow, DayOver, MonthOver, Window
<1>8. /\ IsFiniteSet(InWindow(report.ever)') /\ IsFiniteSet(DayOver(report.ever)') /\ IsFiniteSet(MonthOver(report.ever)')
      /\ IsFiniteSet(InWindow(report.steady)) /\ IsFiniteSet(DayOver(report.steady))
      /\ IsFiniteSet(MonthOver(report.steady))
  BY <1>1, <1>2, <1>7, FS_Subset
<1>9. QED
  BY <1>4, <1>5, <1>6, <1>8

LEMMA CountsStand ==
    ASSUME DashboardInv, PaidMoves, OrdersPlaced', ReportTypeOK'
    PROVE  DashboardInv'
<1> SUFFICES ASSUME report'.asked PROVE SummaryCounted' /\ DaysCounted' /\ MonthsCounted'
  BY DEF DashboardInv
<1>1. report.asked
  BY DEF PaidMoves
<1>2. /\ ReportTypeOK /\ SummaryCounted /\ DaysCounted /\ MonthsCounted
      /\ report'.pending = report.pending /\ report'.from = report.from /\ report'.to = report.to
      /\ report'.summary = report.summary /\ report'.days = report.days /\ report'.months = report.months
  BY <1>1 DEF DashboardInv, PaidMoves
<1>3. SummaryCounted'
  <2> SUFFICES ASSUME "summary" \notin report.pending
               PROVE  CountedSince(report'.summary, InWindow(report.steady)', InWindow(report.ever)')
    BY <1>2 DEF SummaryCounted
  <2>1. CountedSince(report.summary, InWindow(report.steady), InWindow(report.ever))
    BY <1>2 DEF SummaryCounted
  <2>2. QED
    BY <1>1, <1>2, <2>1, WindowsMove, CountsGrow
<1>4. DaysCounted'
  <2> DEFINE sum == SumFunction(ColumnsBefore(report.days, ServerDay(report.to)))
             all == SumFunction(report.days)
  <2> SUFFICES ASSUME "days" \notin report.pending
               PROVE  CountedSince(sum, DayOver(report.steady)', DayOver(report.ever)') /\ AtMost(all, InWindow(report.ever)')
    BY <1>2 DEF DaysCounted, ServerDay
  <2>1. CountedSince(sum, DayOver(report.steady), DayOver(report.ever)) /\ AtMost(all, InWindow(report.ever))
    BY <1>2 DEF DaysCounted
  <2> HIDE DEF sum, all
  <2>2. QED
    BY <1>1, <1>2, <2>1, WindowsMove, CountsGrow
<1>5. MonthsCounted'
  <2> DEFINE sum == SumFunction(ColumnsBefore(report.months, ServerMonth(report.to)))
             all == SumFunction(report.months)
  <2> SUFFICES ASSUME "months" \notin report.pending
               PROVE  CountedSince(sum, MonthOver(report.steady)', MonthOver(report.ever)') /\ AtMost(all, InWindow(report.ever)')
    BY <1>2 DEF MonthsCounted, ServerMonth, ServerDay
  <2>1. CountedSince(sum, MonthOver(report.steady), MonthOver(report.ever)) /\ AtMost(all, InWindow(report.ever))
    BY <1>2 DEF MonthsCounted
  <2> HIDE DEF sum, all
  <2>2. QED
    BY <1>1, <1>2, <2>1, WindowsMove, CountsGrow
<1>6. QED
  BY <1>3, <1>4, <1>5

-----------------------------------------------------------------------------

\* What the queries count now lies between what was paid all the time and at any.
LEMMA CountedNow ==
    ASSUME NEW steady, NEW now, NEW ever, IsFiniteSet(ever), steady \subseteq now, now \subseteq ever,
           NEW n, n = Cardinality(now)
    PROVE  CountedSince(n, steady, ever)
<1>1. IsFiniteSet(now) /\ Cardinality(now) <= Cardinality(ever)
  BY FS_Subset
<1>2. Cardinality(steady) <= Cardinality(now) /\ Cardinality(now) \in Nat
  BY <1>1, FS_Subset, FS_CardinalityType
<1>3. QED
  BY <1>1, <1>2 DEF CountedSince, CountedMeanwhile

LEMMA WindowFacts ==
    ASSUME DashboardInv, report.asked
    PROVE  /\ IsFiniteSet(InWindow(paidOrders)) /\ Cardinality(InWindow(paidOrders)) \in Nat
           /\ InWindow(report.steady) \subseteq InWindow(paidOrders) /\ InWindow(paidOrders) \subseteq InWindow(report.ever)
           /\ DayOver(report.steady) \subseteq DayOver(paidOrders) /\ DayOver(paidOrders) \subseteq DayOver(report.ever)
           /\ MonthOver(report.steady) \subseteq MonthOver(paidOrders) /\ MonthOver(paidOrders) \subseteq MonthOver(report.ever)
           /\ IsFiniteSet(InWindow(report.ever)) /\ IsFiniteSet(DayOver(report.ever)) /\ IsFiniteSet(MonthOver(report.ever))
           /\ report.from \in Nat /\ report.to \in Nat /\ report.from < report.to
           /\ \A o \in InWindow(paidOrders) : createdAt[o] \in Nat /\ report.from <= createdAt[o]
           /\ Cardinality(InWindow(paidOrders)) <= Cardinality(InWindow(report.ever))
           /\ Cardinality(InWindow(report.ever)) \in Nat
<1>1. /\ paidOrders \subseteq PaidOrders /\ createdAt \in [PaidOrders -> Nat]
      /\ report.steady \subseteq paidOrders /\ report.from \in Nat /\ report.to \in Nat /\ report.from < report.to
      /\ paidOrders \subseteq report.ever /\ IsFiniteSet(report.ever)
  BY DEF DashboardInv, OrdersPlaced, ReportTypeOK, NotAsked
<1>2. /\ InWindow(report.ever) \in SUBSET report.ever /\ DayOver(report.ever) \in SUBSET report.ever
      /\ MonthOver(report.ever) \in SUBSET report.ever
  BY DEF InWindow, DayOver, MonthOver, Window
<1>3. IsFiniteSet(InWindow(report.ever)) /\ IsFiniteSet(DayOver(report.ever)) /\ IsFiniteSet(MonthOver(report.ever))
  BY <1>1, <1>2, FS_Subset
<1>4. InWindow(report.steady) \subseteq InWindow(paidOrders) /\ InWindow(paidOrders) \subseteq InWindow(report.ever)
  BY <1>1 DEF InWindow, Window
<1>5. /\ DayOver(report.steady) \subseteq DayOver(paidOrders) /\ MonthOver(report.steady) \subseteq MonthOver(paidOrders)
      /\ DayOver(paidOrders) \subseteq DayOver(report.ever) /\ MonthOver(paidOrders) \subseteq MonthOver(report.ever)
  BY <1>4 DEF DayOver, MonthOver
<1>6. \A o \in InWindow(paidOrders) : createdAt[o] \in Nat /\ report.from <= createdAt[o]
  BY <1>1 DEF InWindow, Window
<1>7. IsFiniteSet(InWindow(paidOrders)) /\ Cardinality(InWindow(paidOrders)) <= Cardinality(InWindow(report.ever))
  BY <1>3, <1>4, FS_Subset
<1>8. Cardinality(InWindow(paidOrders)) \in Nat /\ Cardinality(InWindow(report.ever)) \in Nat
  BY <1>3, <1>7, FS_CardinalityType
<1>9. QED
  BY <1>1, <1>3, <1>4, <1>5, <1>6, <1>7, <1>8

LEMMA SumOfChart ==
    ASSUME NEW W, IsFiniteSet(W), NEW key, NEW D, IsFiniteSet(D)
    PROVE  SumFunction(CountsBy(W, key, D)) \in Nat
<1>1. {o \in W : key[o] \in D} \in SUBSET W
  OBVIOUS
<1>2. Cardinality({o \in W : key[o] \in D}) \in Nat
  BY <1>1, FS_Subset, FS_CardinalityType
<1>3. QED
  BY <1>2, ColumnsAddUp

LEMMA DaysAddUp ==
    ASSUME DashboardInv, report.asked,
           NEW chart, chart = fillMissingDays(getOrdersChart(report.from, report.to), report.from, report.to)
    PROVE  /\ CountedSince(SumFunction(ColumnsBefore(chart, ServerDay(report.to))), DayOver(report.steady), DayOver(report.ever))
           /\ AtMost(SumFunction(chart), InWindow(report.ever))
<1> DEFINE W == InWindow(paidOrders)
           key == [o \in W |-> JakartaDay(o)]
           data == [d \in {key[o] : o \in W} |-> Cardinality({o \in W : key[o] = d})]
           hours == {report.from + k * DayLength : k \in 0 .. report.to} \cap report.from .. report.to - 1
           D == {ServerDay(t) : t \in hours}
           last == ServerDay(report.to)
<1>1. getOrdersChart(report.from, report.to) = data
  BY DEF getOrdersChart, InWindow
<1>2. chart = OrZero(data, D)
  BY <1>1 DEF fillMissingDays
<1>3. /\ IsFiniteSet(D)
      /\ \A t \in Nat : report.from <= t /\ (t + Ahead) \div DayLength < last => (t + Ahead) \div DayLength \in D
  BY WindowFacts, DaysListed
<1>4. \A o \in W : key[o] < last => key[o] \in D
  BY <1>3, WindowFacts DEF JakartaDay
<1>5. IsFiniteSet(W) /\ last \in Nat
  BY WindowFacts, DashboardAssumption, DivMod DEF ServerDay
<1>6. {o \in W : key[o] < last} = DayOver(paidOrders)
  BY DEF DayOver
<1> HIDE DEF D, last
<1>7. chart = CountsBy(W, key, D)
  BY <1>2, ChartIs
<1> HIDE DEF key, W
<1>8. /\ SumFunction(ColumnsBefore(chart, last)) = Cardinality({o \in W : key[o] < last})
      /\ SumFunction(chart) <= Cardinality(W)
  BY <1>3, <1>4, <1>5, <1>7, ChartAddsUp
<1>9. SumFunction(chart) \in Nat
  BY <1>3, <1>5, <1>7, SumOfChart
<1>10. CountedSince(SumFunction(ColumnsBefore(chart, last)), DayOver(report.steady), DayOver(report.ever))
  BY <1>6, <1>8, WindowFacts, CountedNow
<1>11. SumFunction(chart) <= Cardinality(InWindow(report.ever))
  <2>1. Cardinality(W) <= Cardinality(InWindow(report.ever)) /\ Cardinality(W) \in Nat
        /\ Cardinality(InWindow(report.ever)) \in Nat
    BY WindowFacts DEF W
  <2>2. QED
    BY <1>8, <1>9, <2>1
<1>12. QED
  BY <1>9, <1>10, <1>11 DEF AtMost, last

LEMMA MonthsAddUp ==
    ASSUME DashboardInv, report.asked,
           NEW chart, chart = fillMissingMonths(getRevenueChart(report.from, report.to), report.from, report.to)
    PROVE  /\ CountedSince(SumFunction(ColumnsBefore(chart, ServerMonth(report.to))), MonthOver(report.steady), MonthOver(report.ever))
           /\ AtMost(SumFunction(chart), InWindow(report.ever))
<1> DEFINE W == InWindow(paidOrders)
           key == [o \in W |-> JakartaMonth(o)]
           data == [m \in {key[o] : o \in W} |-> Cardinality({o \in W : key[o] = m})]
           first(m) == m * MonthDays * DayLength + (report.from % DayLength)
           D == {m \in ServerMonth(report.from) .. ServerMonth(report.to) : first(m) < report.to}
           last == ServerMonth(report.to)
<1>1. getRevenueChart(report.from, report.to) = data
  BY DEF getRevenueChart, InWindow
<1>2. chart = OrZero(data, D)
  BY <1>1 DEF fillMissingMonths
<1>3. /\ IsFiniteSet(D)
      /\ \A t \in Nat : report.from <= t /\ ((t + Ahead) \div DayLength) \div MonthDays < last
                            => ((t + Ahead) \div DayLength) \div MonthDays \in D
  BY WindowFacts, MonthsListed
<1>4. \A o \in W : key[o] < last => key[o] \in D
  BY <1>3, WindowFacts DEF JakartaMonth, JakartaDay
<1>5. IsFiniteSet(W) /\ last \in Nat
  BY WindowFacts, DashboardAssumption, DivMod DEF ServerMonth, ServerDay
<1>6. {o \in W : key[o] < last} = MonthOver(paidOrders)
  BY DEF MonthOver
<1> HIDE DEF D, last
<1>7. chart = CountsBy(W, key, D)
  BY <1>2, ChartIs
<1> HIDE DEF key, W
<1>8. /\ SumFunction(ColumnsBefore(chart, last)) = Cardinality({o \in W : key[o] < last})
      /\ SumFunction(chart) <= Cardinality(W)
  BY <1>3, <1>4, <1>5, <1>7, ChartAddsUp
<1>9. SumFunction(chart) \in Nat
  BY <1>3, <1>5, <1>7, SumOfChart
<1>10. CountedSince(SumFunction(ColumnsBefore(chart, last)), MonthOver(report.steady), MonthOver(report.ever))
  BY <1>6, <1>8, WindowFacts, CountedNow
<1>11. SumFunction(chart) <= Cardinality(InWindow(report.ever))
  <2>1. Cardinality(W) <= Cardinality(InWindow(report.ever)) /\ Cardinality(W) \in Nat
        /\ Cardinality(InWindow(report.ever)) \in Nat
    BY WindowFacts DEF W
  <2>2. QED
    BY <1>8, <1>9, <2>1
<1>12. QED
  BY <1>9, <1>10, <1>11 DEF AtMost, last

\* An answer changes its part of the report and nothing else.
LEMMA AnswerStep ==
    ASSUME DashboardInv, AnswerSummary \/ AnswerDays \/ AnswerMonths
    PROVE  DashboardInv'
<1>1. report.asked /\ UNCHANGED <<instant, createdAt, paidOrders, expiring>> /\ ReportShape
  BY DEF AnswerSummary, AnswerDays, AnswerMonths, Answer, DashboardInv, ReportTypeOK, NotAsked
<1>2. /\ report'.asked = TRUE /\ report'.from = report.from /\ report'.to = report.to
      /\ report'.steady = report.steady /\ report'.ever = report.ever
      /\ report'.pending \subseteq report.pending /\ ReportShape'
  BY <1>1 DEF AnswerSummary, AnswerDays, AnswerMonths, Answer, ReportShape
<1>3. OrdersPlaced' /\ ReportTypeOK'
  BY <1>1, <1>2 DEF DashboardInv, OrdersPlaced, ReportTypeOK, NotAsked
<1>4. /\ InWindow(report.steady)' = InWindow(report.steady) /\ InWindow(report.ever)' = InWindow(report.ever)
      /\ DayOver(report.steady)' = DayOver(report.steady) /\ DayOver(report.ever)' = DayOver(report.ever)
      /\ MonthOver(report.steady)' = MonthOver(report.steady) /\ MonthOver(report.ever)' = MonthOver(report.ever)
      /\ ServerDay(report.to)' = ServerDay(report.to) /\ ServerMonth(report.to)' = ServerMonth(report.to)
  BY <1>1, <1>2 DEF InWindow, DayOver, MonthOver, Window, JakartaDay, JakartaMonth
<1>5. SummaryCounted /\ DaysCounted /\ MonthsCounted
  BY <1>1 DEF DashboardInv
<1>6. SummaryCounted'
  <2>1. CASE AnswerSummary
    <3>1. report'.summary = Cardinality(InWindow(paidOrders))
      BY <2>1, <1>1 DEF AnswerSummary, Answer, getSummary, InWindow, ReportShape
    <3>2. CountedSince(report'.summary, InWindow(report.steady), InWindow(report.ever))
      BY <1>1, <3>1, WindowFacts, CountedNow
    <3>3. QED
      BY <1>4, <3>2 DEF SummaryCounted
  <2>2. CASE AnswerDays \/ AnswerMonths
    <3>1. report'.summary = report.summary /\ ("summary" \in report.pending => "summary" \in report'.pending)
      BY <2>2, <1>1 DEF AnswerDays, AnswerMonths, Answer, ReportShape
    <3>2. QED
      BY <1>4, <1>5, <3>1 DEF SummaryCounted
  <2>3. QED
    BY <2>1, <2>2
<1>7. DaysCounted'
  <2>1. CASE AnswerDays
    <3>1. report'.days = fillMissingDays(getOrdersChart(report.from, report.to), report.from, report.to)
      BY <2>1, <1>1 DEF AnswerDays, Answer, ReportShape
    <3>2. /\ CountedSince(SumFunction(ColumnsBefore(report'.days, ServerDay(report.to))), DayOver(report.steady), DayOver(report.ever))
          /\ AtMost(SumFunction(report'.days), InWindow(report.ever))
      BY <1>1, <3>1, DaysAddUp
    <3>3. QED
      BY <1>4, <3>2 DEF DaysCounted
  <2>2. CASE AnswerSummary \/ AnswerMonths
    <3>1. report'.days = report.days /\ ("days" \in report.pending => "days" \in report'.pending)
      BY <2>2, <1>1 DEF AnswerSummary, AnswerMonths, Answer, ReportShape
    <3>2. QED
      BY <1>4, <1>5, <3>1 DEF DaysCounted
  <2>3. QED
    BY <2>1, <2>2
<1>8. MonthsCounted'
  <2>1. CASE AnswerMonths
    <3>1. report'.months = fillMissingMonths(getRevenueChart(report.from, report.to), report.from, report.to)
      BY <2>1, <1>1 DEF AnswerMonths, Answer, ReportShape
    <3>2. /\ CountedSince(SumFunction(ColumnsBefore(report'.months, ServerMonth(report.to))), MonthOver(report.steady), MonthOver(report.ever))
          /\ AtMost(SumFunction(report'.months), InWindow(report.ever))
      BY <1>1, <3>1, MonthsAddUp
    <3>3. QED
      BY <1>4, <3>2 DEF MonthsCounted
  <2>2. CASE AnswerSummary \/ AnswerDays
    <3>1. report'.months = report.months /\ ("months" \in report.pending => "months" \in report'.pending)
      BY <2>2, <1>1 DEF AnswerSummary, AnswerDays, Answer, ReportShape
    <3>2. QED
      BY <1>4, <1>5, <3>1 DEF MonthsCounted
  <2>3. QED
    BY <2>1, <2>2
<1>9. QED
  BY <1>3, <1>6, <1>7, <1>8 DEF DashboardInv

\* A step that moves no order that was placed and leaves the payments alone.
LEMMA OrdersStand ==
    ASSUME DashboardInv, OrdersPlaced', UNCHANGED <<paidOrders, report>>,
           \A o \in PaidOrders : createdAt[o] # Unplaced => createdAt'[o] = createdAt[o]
    PROVE  DashboardInv'
<1>1. ReportTypeOK
  BY DEF DashboardInv
<1>2. report.asked => \A o \in report.ever : createdAt'[o] = createdAt[o]
  BY <1>1 DEF ReportTypeOK, NotAsked
<1>3. ReportTypeOK'
  <2>1. CASE report = NotAsked
    BY <2>1 DEF ReportTypeOK
  <2>2. CASE report # NotAsked
    <3>1. ReportShape /\ report.asked
      BY <1>1, <2>2 DEF ReportTypeOK, ReportShape
    <3>2. ReportShape'
      BY <3>1 DEF ReportShape
    <3>3. QED
      BY <1>1, <1>2, <2>2, <3>1, <3>2 DEF ReportTypeOK
  <2>3. QED
    BY <2>1, <2>2
<1>4. PaidMoves
  BY <1>1, <1>2 DEF PaidMoves, ReportTypeOK, NotAsked
<1>5. QED
  BY <1>3, <1>4, CountsStand

\* A step that changes who paid and notes it.
LEMMA NoteKeeps ==
    ASSUME DashboardInv, OrdersPlaced', UNCHANGED createdAt, NotePaid
    PROVE  DashboardInv'
<1>1. ReportTypeOK
  BY DEF DashboardInv
<1>2. CASE report = NotAsked
  <2>1. report' = NotAsked
    BY <1>2 DEF NotePaid, NotAsked
  <2>2. ReportTypeOK' /\ PaidMoves
    BY <1>2, <2>1 DEF ReportTypeOK, PaidMoves, NotAsked
  <2>3. QED
    BY <2>2, CountsStand
<1>3. CASE report # NotAsked
  <2>1. /\ ReportShape /\ report.asked /\ report.ever \subseteq PaidOrders /\ IsFiniteSet(report.ever)
        /\ report.steady \subseteq paidOrders /\ paidOrders \subseteq report.ever
        /\ report.pending \subseteq Pending /\ report.from \in Nat /\ report.to \in Nat /\ report.from < report.to
        /\ \A o \in report.ever : createdAt[o] # Unplaced
    BY <1>1, <1>3 DEF ReportTypeOK, ReportShape
  <2>2. /\ ReportShape' /\ report'.asked /\ report'.pending = report.pending
        /\ report'.from = report.from /\ report'.to = report.to
        /\ report'.summary = report.summary /\ report'.days = report.days /\ report'.months = report.months
        /\ report'.steady = report.steady \cap paidOrders' /\ report'.ever = report.ever \cup paidOrders'
    BY <2>1 DEF NotePaid, ReportShape
  <2>3. /\ paidOrders' \subseteq PaidOrders /\ IsFiniteSet(paidOrders')
        /\ \A o \in paidOrders' : createdAt'[o] # Unplaced
    BY DEF OrdersPlaced
  <2>4. IsFiniteSet(report'.ever)
    <3>1. IsFiniteSet(report.ever) /\ IsFiniteSet(paidOrders')
      BY <2>1, <2>3
    <3>2. IsFiniteSet(report.ever \cup paidOrders')
      BY <3>1, FS_Union, Zenon
    <3>3. QED
      BY <2>2, <3>2
  <2>5. ReportTypeOK'
    BY <2>1, <2>2, <2>3, <2>4 DEF ReportTypeOK
  <2>6. PaidMoves
    BY <2>1, <2>2, <2>4 DEF PaidMoves
  <2>7. QED
    BY <2>5, <2>6, CountsStand
<1>4. QED
  BY <1>2, <1>3

LEMMA DashboardStep == DashboardInv /\ [NextDashboard]_dashboardVars => DashboardInv'
<1> SUFFICES ASSUME DashboardInv, [NextDashboard]_dashboardVars PROVE DashboardInv'
  OBVIOUS
<1>1. ASSUME NEW o \in PaidOrders, PlaceAt(o) PROVE DashboardInv'
  <2>1. OrdersPlaced /\ ReportTypeOK
    BY DEF DashboardInv
  <2>2. OrdersPlaced' /\ \A u \in PaidOrders : createdAt[u] # Unplaced => createdAt'[u] = createdAt[u]
    BY <1>1, <2>1 DEF OrdersPlaced, PlaceAt, Unplaced
  <2>3. UNCHANGED <<paidOrders, report>>
    BY <1>1 DEF PlaceAt
  <2>4. QED
    BY <2>1, <2>2, <2>3, OrdersStand
<1>2. ASSUME NEW o \in PaidOrders, PayLater(o) PROVE DashboardInv'
  <2>1. IsFiniteSet(paidOrders \cup {o})
    BY FS_AddElement DEF DashboardInv, OrdersPlaced
  <2>2. OrdersPlaced' /\ UNCHANGED createdAt /\ NotePaid
    BY <1>2, <2>1 DEF DashboardInv, OrdersPlaced, PayLater
  <2>3. QED
    BY <2>2, NoteKeeps
<1>w. CASE WriteExpired
  <2>1. paidOrders' = paidOrders \ expiring /\ paidOrders' \in SUBSET paidOrders
    BY <1>w DEF WriteExpired
  <2>2. IsFiniteSet(paidOrders')
    BY <2>1, FS_Subset DEF DashboardInv, OrdersPlaced
  <2>3. OrdersPlaced' /\ UNCHANGED createdAt /\ NotePaid
    BY <1>w, <2>1, <2>2 DEF DashboardInv, OrdersPlaced, WriteExpired
  <2>4. QED
    BY <2>3, NoteKeeps
<1>3. ASSUME TimePasses \/ (\E orders \in SUBSET PaidOrders : SelectExpired(orders)) \/ UNCHANGED dashboardVars
      PROVE  DashboardInv'
  <2>1. OrdersPlaced /\ ReportTypeOK
    BY DEF DashboardInv
  <2>2. UNCHANGED <<createdAt, paidOrders, report>> /\ instant' \in Nat \ {0}
    BY <1>3, <2>1 DEF TimePasses, SelectExpired, dashboardVars, OrdersPlaced
  <2>3. OrdersPlaced'
    BY <2>1, <2>2 DEF OrdersPlaced
  <2>4. QED
    BY <2>1, <2>2, <2>3, OrdersStand
<1>4. ASSUME NEW from \in 1 .. Horizon, NEW to \in 1 .. Horizon, from < to, AskDashboard(from, to)
      PROVE  DashboardInv'
  <2>1. OrdersPlaced'
    BY <1>4 DEF DashboardInv, OrdersPlaced, AskDashboard
  <2>2. ReportTypeOK' /\ report'.pending = Pending
    <3>1. ReportShape' /\ report'.pending = Pending /\ report'.from = from /\ report'.to = to
          /\ report'.steady = paidOrders /\ report'.ever = paidOrders /\ UNCHANGED <<createdAt, paidOrders>>
      BY <1>4 DEF AskDashboard, ReportShape
    <3>2. from \in Nat /\ to \in Nat
      BY DashboardAssumption
    <3>3. QED
      BY <1>4, <3>1, <3>2 DEF ReportTypeOK, DashboardInv, OrdersPlaced
  <2>3. SummaryCounted' /\ DaysCounted' /\ MonthsCounted'
    BY <2>2 DEF SummaryCounted, DaysCounted, MonthsCounted, Pending
  <2>4. QED
    BY <2>1, <2>2, <2>3 DEF DashboardInv
<1>5. QED
  BY <1>1, <1>2, <1>w, <1>3, <1>4, AnswerStep DEF NextDashboard

\* The summary and the charts of a dashboard count the same orders, but for those that
\* were paid, or lost their payment to the job that expires orders, while it was made,
\* and those of the day or month in which the window ends.
THEOREM DashboardCorrect == DashboardSpec => []ChartsTell
BY DashboardStarts, DashboardStep, DashboardImplies, PTL DEF DashboardSpec

-----------------------------------------------------------------------------
(* Lists by the number of a page.                                          *)
-----------------------------------------------------------------------------

\* A sum of nothing but noughts, and a part of a sum.
LEMMA SumOfNoughts ==
    ASSUME NEW S, IsFiniteSet(S), NEW f, \A x \in S : f[x] = 0
    PROVE  SumFunctionOnSet(f, S) = 0
<1> DEFINE G == {s \in SUBSET S : SumFunctionOnSet(f, s) = 0}
<1>1. {} \in G
  BY SumEmpty
<1>2. \A s \in G : \A x \in S \ s : s \cup {x} \in G
  <2> SUFFICES ASSUME NEW s \in G, NEW x \in S \ s PROVE SumFunctionOnSet(f, s \cup {x}) = 0
    OBVIOUS
  <2>1. IsFiniteSet(s) /\ \A y \in s \cup {x} : f[y] \in Int
    BY FS_Subset
  <2>2. SumFunctionOnSet(f, s \cup {x}) = f[x] + SumFunctionOnSet(f, s)
    BY <2>1, SumAdd
  <2>3. QED
    BY <2>2
<1>3. G \in SUBSET SUBSET S
  OBVIOUS
<1>4. S \in G
  <2> HIDE DEF G
  <2>1. QED
    BY <1>1, <1>2, <1>3, AllSubsets
<1>5. QED
  BY <1>4

LEMMA PartOfSum ==
    ASSUME NEW S, IsFiniteSet(S), NEW f, \A x \in S : f[x] \in Nat, NEW y \in S
    PROVE  f[y] <= SumFunctionOnSet(f, S) /\ SumFunctionOnSet(f, S) \in Nat
<1>1. SumFunctionOnSet(f, S) = f[y] + SumFunctionOnSet(f, S \ {y})
  <2>1. \A x \in S : f[x] \in Int
    OBVIOUS
  <2>2. QED
    BY <2>1, SumRemove
<1>2. SumFunctionOnSet(f, S \ {y}) \in Nat
  <2>1. IsFiniteSet(S \ {y}) /\ \A x \in S \ {y} : f[x] \in Nat
    BY FS_RemoveElement
  <2>2. QED
    BY <2>1, SumNat
<1>3. f[y] \in Nat
  OBVIOUS
<1>4. QED
  BY <1>1, <1>2, <1>3

-----------------------------------------------------------------------------

\* The rows of S, one after the other, none of them below one that follows it.
InListOrder(o, S, above) ==
    /\ o \in [1 .. Cardinality(S) -> S]
    /\ \A i, j \in 1 .. Cardinality(S) : i < j => o[i] # o[j] /\ <<o[j], o[i]>> \notin above

LEMMA EveryRowIsThere ==
    ASSUME NEW S, IsFiniteSet(S), NEW above, NEW o, InListOrder(o, S, above)
    PROVE  \A r \in S : \E i \in 1 .. Cardinality(S) : o[i] = r
<1>1. PICK n \in Nat : n = Cardinality(S)
  BY FS_CardinalityType
<1>2. \A i, j \in 1 .. n : o[i] = o[j] => i = j
  <2> SUFFICES ASSUME NEW i \in 1 .. n, NEW j \in 1 .. n, o[i] = o[j], i # j PROVE FALSE
    OBVIOUS
  <2>1. i < j \/ j < i
    OBVIOUS
  <2>2. QED
    BY <1>1, <2>1 DEF InListOrder
<1>3. o \in Injection(1 .. n, S)
  BY <1>1, <1>2 DEF InListOrder, Injection, IsInjective
<1>4. Cardinality(1 .. n) = Cardinality(S)
  BY <1>1, FS_Interval
<1>5. o \in Surjection(1 .. n, S)
  BY <1>3, <1>4, FS_Injection
<1>6. QED
  BY <1>1, <1>5 DEF Surjection

\* What stands before a row.
RowsBefore(o, i) == {o[j] : j \in 1 .. i - 1}

LEMMA RowsBeforeCounted ==
    ASSUME NEW S, IsFiniteSet(S), NEW above, NEW o, InListOrder(o, S, above), NEW i \in 1 .. Cardinality(S)
    PROVE  IsFiniteSet(RowsBefore(o, i)) /\ Cardinality(RowsBefore(o, i)) = i - 1 /\ RowsBefore(o, i) \subseteq S /\ o[i] \notin RowsBefore(o, i)
<1>1. PICK n \in Nat : n = Cardinality(S)
  BY FS_CardinalityType
<1>2. i \in 1 .. n /\ \A k, j \in 1 .. n : k < j => o[k] # o[j]
  BY <1>1 DEF InListOrder
<1> DEFINE g == [j \in 1 .. i - 1 |-> o[j]]
<1>3. \A k, j \in 1 .. i - 1 : g[k] = g[j] => k = j
  <2> SUFFICES ASSUME NEW k \in 1 .. i - 1, NEW j \in 1 .. i - 1, g[k] = g[j], k # j PROVE FALSE
    OBVIOUS
  <2>1. k < j \/ j < k
    OBVIOUS
  <2>2. QED
    BY <1>2, <2>1
<1>4. g \in Bijection(1 .. i - 1, RowsBefore(o, i))
  BY <1>3 DEF RowsBefore, Bijection, Injection, Surjection, IsInjective
<1>5. IsFiniteSet(1 .. i - 1) /\ Cardinality(1 .. i - 1) = i - 1
  BY <1>2, FS_Interval
<1>6. IsFiniteSet(RowsBefore(o, i)) /\ Cardinality(RowsBefore(o, i)) = Cardinality(1 .. i - 1)
  BY <1>4, <1>5, FS_Bijection DEF ExistsBijection
<1>7. RowsBefore(o, i) \subseteq S
  BY <1>1, <1>2 DEF InListOrder, RowsBefore
<1>8. o[i] \notin RowsBefore(o, i)
  BY <1>2 DEF RowsBefore
<1>9. QED
  BY <1>5, <1>6, <1>7, <1>8

\* r stands at place a of a listing.
PlacedAt(r, a, o, S, above) ==
    /\ IsFiniteSet(S) /\ above \in SUBSET (S \X S) /\ InListOrder(o, S, above)
    /\ a \in 1 .. Cardinality(S) /\ o[a] = r

\* A row that stands further back in one listing than in another: something is, or
\* may be, ahead of it there that was not surely ahead of it here.
LEMMA FurtherBack ==
    ASSUME NEW r, NEW S, NEW A, NEW o, NEW a, PlacedAt(r, a, o, S, A),
           NEW T, NEW B, NEW u, NEW b, PlacedAt(r, b, u, T, B), a < b
    PROVE  \E s \in T \ {r} : <<r, s>> \notin B /\ <<s, r>> \notin A
<1>1. /\ IsFiniteSet(S) /\ A \in SUBSET (S \X S) /\ InListOrder(o, S, A) /\ a \in 1 .. Cardinality(S) /\ o[a] = r
      /\ IsFiniteSet(T) /\ InListOrder(u, T, B) /\ b \in 1 .. Cardinality(T) /\ u[b] = r
      /\ Cardinality(S) \in Nat /\ Cardinality(T) \in Nat
  BY FS_CardinalityType DEF PlacedAt
<1>2. PICK s \in RowsBefore(u, b) : s \notin RowsBefore(o, a)
  <2> SUFFICES ASSUME RowsBefore(u, b) \subseteq RowsBefore(o, a) PROVE FALSE
    OBVIOUS
  <2>1. IsFiniteSet(RowsBefore(o, a)) /\ Cardinality(RowsBefore(o, a)) = a - 1
    BY <1>1, RowsBeforeCounted
  <2>2. Cardinality(RowsBefore(u, b)) = b - 1
    BY <1>1, RowsBeforeCounted
  <2>3. Cardinality(RowsBefore(u, b)) <= Cardinality(RowsBefore(o, a))
    BY <2>1, FS_Subset
  <2>4. QED
    BY <1>1, <2>1, <2>2, <2>3
<1>3. s \in T /\ s # r
  BY <1>1, <1>2, RowsBeforeCounted
<1>4. PICK c \in 1 .. b - 1 : s = u[c]
  BY <1>2 DEF RowsBefore
<1>5. <<r, s>> \notin B
  BY <1>1, <1>4 DEF InListOrder
<1>6. <<s, r>> \notin A
  <2>1. CASE s \notin S
    BY <1>1, <2>1
  <2>2. CASE s \in S
    <3>1. PICK d \in 1 .. Cardinality(S) : o[d] = s
      BY <1>1, <2>2, EveryRowIsThere
    <3>2. d # a
      BY <1>1, <1>3, <3>1
    <3>3. ~(d < a)
      BY <1>1, <1>2, <3>1 DEF RowsBefore
    <3>4. a < d
      BY <1>1, <3>2, <3>3
    <3>5. QED
      BY <1>1, <3>1, <3>4 DEF InListOrder
  <2>3. QED
    BY <2>1, <2>2
<1>7. QED
  BY <1>3, <1>5, <1>6

-----------------------------------------------------------------------------

\* Page n shows the rows from the one after those of the pages before it.
LEMMA PageShows ==
    ASSUME NEW S, IsFiniteSet(S), NEW above, NEW o, InListOrder(o, S, above), NEW n \in Nat \ {0}
    PROVE  /\ \A r : r \in ToSet(PageOf(o, n)) <=>
                        \E i \in 1 .. Cardinality(S) : o[i] = r /\ (n - 1) * PageLimit < i /\ i <= n * PageLimit
           /\ PageOf(o, n) = <<>> => Cardinality(S) <= (n - 1) * PageLimit
<1>1. PICK c \in Nat : c = Cardinality(S)
  BY FS_CardinalityType
<1>2. o \in Seq(S) /\ Len(o) = c
  BY <1>1 DEF InListOrder
<1>3. PICK from \in Nat, to \in Nat : from = (n - 1) * PageLimit /\ to = n * PageLimit
  <2>1. n - 1 \in Nat
    OBVIOUS
  <2>2. (n - 1) * PageLimit \in Nat /\ n * PageLimit \in Nat
    BY <2>1, ListAssumption
  <2>3. QED
    BY <2>2
<1>4. PICK end \in Nat : end = Min({to, c})
  BY MinFacts
<1>5. end <= to /\ end <= c /\ (end = to \/ end = c)
  <2>1. {to, c} \in SUBSET Nat /\ {to, c} # {}
    OBVIOUS
  <2>2. QED
    BY <1>4, <2>1, MinFacts
<1> DEFINE page == SubSeq(o, from + 1, end)
<1>6. PageOf(o, n) = page
  BY <1>2, <1>3, <1>4 DEF PageOf
<1>7. CASE end < from + 1
  <2>1. page = <<>>
    BY <1>2, <1>7
  <2>2. ToSet(page) = {}
    BY <2>1, NothingIn
  <2>3. \A i \in 1 .. c : ~(from < i /\ i <= to)
    BY <1>5, <1>7
  <2>4. from < to
    BY <1>3, ListAssumption, SMTT(30)
  <2>5. c <= from
    BY <1>5, <1>7, <2>4
  <2>6. QED
    BY <1>1, <1>3, <1>6, <2>2, <2>3, <2>5
<1>8. CASE from + 1 <= end
  <2>1. Len(page) = end - from /\ \A k \in 1 .. end - from : page[k] = o[from + k]
    <3>1. from + 1 \in 1 .. c /\ end \in 1 .. c /\ end - (from + 1) + 1 = end - from
      BY <1>5, <1>8
    <3>2. PICK first \in 1 .. c : first = from + 1
      BY <3>1
    <3>3. Len(SubSeq(o, first, end)) = end - first + 1 /\ \A k \in 1 .. end - first + 1 : SubSeq(o, first, end)[k] = o[first + k - 1]
      BY <1>2, <1>5, <1>8, <3>1, <3>2
    <3>4. \A k \in 1 .. end - from : first + k - 1 = from + k
      BY <3>2
    <3>5. page = SubSeq(o, first, end) /\ end - first + 1 = end - from
      BY <3>1, <3>2
    <3> HIDE DEF page
    <3>6. QED
      BY <3>3, <3>4, <3>5
  <2>2. DOMAIN page = 1 .. end - from
    BY <1>2, <1>5, <1>8
  <2>3. ToSet(page) = {o[from + k] : k \in 1 .. end - from}
    BY <2>1, <2>2 DEF ToSet
  <2>4. \A r : r \in {o[from + k] : k \in 1 .. end - from} <=> \E i \in 1 .. c : o[i] = r /\ from < i /\ i <= to
    <3> SUFFICES ASSUME NEW r PROVE r \in {o[from + k] : k \in 1 .. end - from} <=> \E i \in 1 .. c : o[i] = r /\ from < i /\ i <= to
      OBVIOUS
    <3>1. ASSUME NEW k \in 1 .. end - from, r = o[from + k] PROVE \E i \in 1 .. c : o[i] = r /\ from < i /\ i <= to
      <4>1. from + k \in 1 .. c /\ from < from + k /\ from + k <= to
        BY <1>5
      <4>2. QED
        BY <3>1, <4>1
    <3>2. ASSUME NEW i \in 1 .. c, o[i] = r, from < i, i <= to PROVE r \in {o[from + k] : k \in 1 .. end - from}
      <4>1. i - from \in 1 .. end - from /\ from + (i - from) = i
        BY <1>5, <3>2
      <4>2. QED
        BY <3>2, <4>1
    <3>3. QED
      BY <3>1, <3>2
  <2>5. page # <<>>
    <3> HIDE DEF page
    <3>1. page = <<>> => Len(page) = 0
      OBVIOUS
    <3>2. QED
      BY <1>8, <2>1, <3>1
  <2>6. QED
    BY <1>1, <1>3, <1>6, <2>3, <2>4, <2>5
<1>9. QED
  BY <1>4, <1>7, <1>8

-----------------------------------------------------------------------------

ProductRow(p) ==
    /\ p = [status |-> p.status, variants |-> p.variants]
    /\ p.variants = [n \in DOMAIN p.variants |-> p.variants[n]] /\ IsFiniteSet(DOMAIN p.variants)
    /\ \A n \in DOMAIN p.variants : p.variants[n] \in VariantShapes

RecordsOK ==
    /\ DOMAIN records \subseteq ListRows
    /\ list = "products" => question \in ProductQueries /\ \A r \in DOMAIN records : ProductRow(records[r])

\* A page is cut out of one of the orders that its query allows.
ListedPage(p, n) ==
    /\ p.listed \subseteq ListRows /\ p.above \subseteq p.listed \X p.listed
    /\ \E o : InListOrder(o, p.listed, p.above) /\ p.shown = PageOf(o, n)

PagesListed ==
    /\ IsSeq(pages)
    /\ \A n \in 1 .. Len(pages) : ListedPage(pages[n], n) /\ pages[n].counted \subseteq ListRows
    /\ \A n \in 1 .. Len(pages) - 1 : HasNext(n, Cardinality(pages[n].counted))

\* Who asks for a page was told that there is one.
AnswersListed ==
    /\ answered = [rows |-> answered.rows, total |-> answered.total]
    /\ answered.rows # Unread => TurnsOn /\ ListedPage(answered.rows, PageNumber)
    /\ answered.total # Unread => TurnsOn /\ answered.total.counted \subseteq ListRows

ListsInv == list \in Lists /\ RecordsOK /\ PagesListed /\ AnswersListed

LEMMA RowsAreFinite ==
    ASSUME NEW S \in SUBSET ListRows
    PROVE  IsFiniteSet(S) /\ Cardinality(S) \in Nat
BY ListAssumption, FS_Subset, FS_CardinalityType

LEMMA TwiceOvertaken ==
    ASSUME PagesListed PROVE TwiceOnlyIfOvertaken
<1> SUFFICES ASSUME NEW i \in 1 .. Len(pages), NEW j \in 1 .. Len(pages), i < j,
                    NEW r, r \in ToSet(pages[i].shown), r \in ToSet(pages[j].shown)
             PROVE  \E s \in ListRows : MayBeAbove(pages[j], s, r) /\ ~SurelyAbove(pages[i], s, r)
  BY SeqFacts DEF PagesListed, TwiceOnlyIfOvertaken
<1>1. ListedPage(pages[i], i) /\ ListedPage(pages[j], j) /\ Len(pages) \in Nat
  BY SeqFacts DEF PagesListed
<1>2. PICK o : InListOrder(o, pages[i].listed, pages[i].above) /\ pages[i].shown = PageOf(o, i)
  BY <1>1 DEF ListedPage
<1>3. PICK u : InListOrder(u, pages[j].listed, pages[j].above) /\ pages[j].shown = PageOf(u, j)
  BY <1>1 DEF ListedPage
<1>4. PICK S, T, A, B : S = pages[i].listed /\ T = pages[j].listed /\ A = pages[i].above /\ B = pages[j].above
  OBVIOUS
<1>5. S \in SUBSET ListRows /\ T \in SUBSET ListRows /\ A \in SUBSET (S \X S)
  BY <1>1, <1>4 DEF ListedPage
<1>6. IsFiniteSet(S) /\ IsFiniteSet(T) /\ Cardinality(S) \in Nat /\ Cardinality(T) \in Nat
  BY <1>5, RowsAreFinite
<1>7. InListOrder(o, S, A) /\ InListOrder(u, T, B) /\ i \in Nat \ {0} /\ j \in Nat \ {0}
  BY <1>1, <1>2, <1>3, <1>4
<1>8. PICK a \in 1 .. Cardinality(S) : o[a] = r /\ a <= i * PageLimit
  BY <1>2, <1>6, <1>7, PageShows
<1>9. PICK b \in 1 .. Cardinality(T) : u[b] = r /\ (j - 1) * PageLimit < b
  BY <1>3, <1>6, <1>7, PageShows
<1>10. a < b
  <2>1. i * PageLimit <= (j - 1) * PageLimit
    BY <1>7, ListAssumption, SMTT(30)
  <2>2. i * PageLimit \in Nat /\ (j - 1) * PageLimit \in Nat
    BY <1>7, ListAssumption
  <2>3. QED
    BY <1>6, <1>8, <1>9, <2>1, <2>2
<1>11. \E s \in T \ {r} : <<r, s>> \notin B /\ <<s, r>> \notin A
  <2>1. PlacedAt(r, a, o, S, A)
    BY <1>5, <1>6, <1>7, <1>8 DEF PlacedAt
  <2>2. B \in SUBSET (T \X T)
    BY <1>1, <1>4 DEF ListedPage
  <2>3. PlacedAt(r, b, u, T, B)
    BY <1>6, <1>7, <1>9, <2>2 DEF PlacedAt
  <2>4. QED
    BY <1>10, <2>1, <2>3, FurtherBack
<1>12. QED
  BY <1>4, <1>5, <1>11 DEF MayBeAbove, SurelyAbove

LEMMA EmptyWasLeft ==
    ASSUME PagesListed PROVE EmptyOnlyIfLeft
<1> SUFFICES ASSUME NEW i \in 2 .. Len(pages), pages[i].shown = <<>>, pages[i - 1].counted \subseteq pages[i].listed
             PROVE  FALSE
  BY DEF EmptyOnlyIfLeft
<1>1. Len(pages) \in Nat
  BY SeqFacts DEF PagesListed
<1>2. i \in 1 .. Len(pages) /\ i - 1 \in 1 .. Len(pages) - 1
  BY <1>1
<1>3. ListedPage(pages[i], i) /\ HasNext(i - 1, Cardinality(pages[i - 1].counted))
  BY <1>2 DEF PagesListed
<1>4. PICK o : InListOrder(o, pages[i].listed, pages[i].above) /\ pages[i].shown = PageOf(o, i)
  BY <1>3 DEF ListedPage
<1>5. pages[i].listed \in SUBSET ListRows
  BY <1>3 DEF ListedPage
<1>6. IsFiniteSet(pages[i].listed) /\ Cardinality(pages[i].listed) \in Nat /\ i \in Nat \ {0}
  BY <1>5, RowsAreFinite
<1>7. Cardinality(pages[i].listed) <= (i - 1) * PageLimit
  BY <1>4, <1>6, PageShows
<1>8. Cardinality(pages[i - 1].counted) <= Cardinality(pages[i].listed) /\ Cardinality(pages[i - 1].counted) \in Nat
  BY <1>6, FS_Subset, FS_CardinalityType
<1>9. (i - 1) * PageLimit < Cardinality(pages[i - 1].counted)
  BY <1>3 DEF HasNext
<1>10. (i - 1) * PageLimit \in Nat
  BY <1>6, ListAssumption
<1>11. QED
  BY <1>6, <1>7, <1>8, <1>9, <1>10

\* A row that is on none of its pages is behind the first, and not behind the last.
LEMMA MissedPassed ==
    ASSUME PagesListed PROVE MissedOnlyIfPassed
<1> DEFINE last == Len(pages)
<1> SUFFICES ASSUME pages # <<>>, ~TurnsOn, NEW r, \A i \in 1 .. last : r \in pages[i].listed /\ r \notin ToSet(pages[i].shown),
                    pages[last].listed \subseteq pages[last].counted
             PROVE  \E i \in 1 .. last - 1, s \in ListRows : MayBeAbove(pages[i], s, r) /\ ~SurelyAbove(pages[i + 1], s, r)
  <2>1. DOMAIN pages = 1 .. last
    BY SeqFacts DEF PagesListed
  <2>2. QED
    BY <2>1 DEF MissedOnlyIfPassed
<1>1. last \in Nat \ {0}
  BY SeqFacts DEF PagesListed
<1>2. \A i \in 1 .. last : \E o, a :
        /\ InListOrder(o, pages[i].listed, pages[i].above)
        /\ a \in 1 .. Cardinality(pages[i].listed) /\ o[a] = r
        /\ a <= (i - 1) * PageLimit \/ i * PageLimit < a
  <2> SUFFICES ASSUME NEW i \in 1 .. last
               PROVE  \E o, a : /\ InListOrder(o, pages[i].listed, pages[i].above)
                                /\ a \in 1 .. Cardinality(pages[i].listed) /\ o[a] = r
                                /\ a <= (i - 1) * PageLimit \/ i * PageLimit < a
    OBVIOUS
  <2>1. ListedPage(pages[i], i) /\ i \in Nat \ {0}
    BY <1>1 DEF PagesListed
  <2>2. PICK o : InListOrder(o, pages[i].listed, pages[i].above) /\ pages[i].shown = PageOf(o, i)
    BY <2>1 DEF ListedPage
  <2>3. pages[i].listed \in SUBSET ListRows
    BY <2>1 DEF ListedPage
  <2>4. IsFiniteSet(pages[i].listed) /\ Cardinality(pages[i].listed) \in Nat
    BY <2>3, RowsAreFinite
  <2>5. PICK a \in 1 .. Cardinality(pages[i].listed) : o[a] = r
    BY <2>2, <2>4, EveryRowIsThere
  <2>6. ~((i - 1) * PageLimit < a /\ a <= i * PageLimit)
    BY <2>1, <2>2, <2>4, <2>5, PageShows
  <2>7. (i - 1) * PageLimit \in Nat /\ i * PageLimit \in Nat /\ a \in Nat
    <3>1. i - 1 \in Nat /\ i \in Nat /\ PageLimit \in Nat
      BY <2>1, ListAssumption
    <3>2. QED
      BY <2>4, <3>1
  <2>8. a <= (i - 1) * PageLimit \/ i * PageLimit < a
    BY <2>6, <2>7
  <2>9. QED
    BY <2>2, <2>5, <2>8
<1> DEFINE Behind(i, o, a) == /\ InListOrder(o, pages[i].listed, pages[i].above)
                              /\ a \in 1 .. Cardinality(pages[i].listed) /\ o[a] = r /\ i * PageLimit < a
           NotBehind(i, o, a) == /\ InListOrder(o, pages[i].listed, pages[i].above)
                                 /\ a \in 1 .. Cardinality(pages[i].listed) /\ o[a] = r /\ a <= (i - 1) * PageLimit
           Early == {i \in 1 .. last : \E o, a : NotBehind(i, o, a)}
<1>3. \A i \in 1 .. last : i \in Early \/ \E o, a : Behind(i, o, a)
  BY <1>2
<1>4. last \in Early
  <2>1. last \in 1 .. last
    BY <1>1
  <2> SUFFICES ASSUME NEW o, NEW a, Behind(last, o, a) PROVE FALSE
    BY <1>3, <2>1
  <2>2. ~(last * PageLimit < Cardinality(pages[last].counted))
    BY DEF TurnsOn, HasNext
  <2>3. pages[last].counted \in SUBSET ListRows
    BY <2>1 DEF PagesListed
  <2>4. IsFiniteSet(pages[last].counted) /\ Cardinality(pages[last].counted) \in Nat
    BY <2>3, RowsAreFinite
  <2>5. Cardinality(pages[last].listed) <= Cardinality(pages[last].counted) /\ Cardinality(pages[last].listed) \in Nat
    BY <2>4, FS_Subset, FS_CardinalityType
  <2>6. last * PageLimit \in Nat
    <3>1. last \in Nat /\ PageLimit \in Nat
      BY <1>1, ListAssumption
    <3>2. QED
      BY <3>1
  <2>7. QED
    BY <2>2, <2>4, <2>5, <2>6
<1>5. PICK k \in Early : \A m \in Early : k <= m
  <2>1. Early \in SUBSET Nat /\ Early # {}
    BY <1>1, <1>4
  <2> HIDE DEF Early
  <2>2. QED
    BY <2>1, LeastNumber
<1>6. PICK o, a : NotBehind(k, o, a)
  OBVIOUS
<1>7. k \in 1 .. last /\ k # 1
  <2>1. k = 1 => (k - 1) * PageLimit = 0
    BY ListAssumption
  <2>2. pages[k].listed \in SUBSET ListRows
    BY DEF PagesListed, ListedPage
  <2>3. Cardinality(pages[k].listed) \in Nat
    BY <2>2, RowsAreFinite
  <2>4. QED
    BY <1>6, <2>1, <2>3
<1>8. PICK i \in 1 .. last - 1 : k = i + 1
  <2> HIDE DEF Early
  <2>1. k \in Int /\ 1 <= k /\ k <= last /\ k # 1
    BY <1>7
  <2>2. k - 1 \in 1 .. last - 1 /\ k = (k - 1) + 1
    BY <1>1, <2>1
  <2>3. QED
    BY <2>2
<1>9. i \in 1 .. last /\ i \notin Early
  <2>1. ~(k <= i)
    BY <1>1, <1>8
  <2> HIDE DEF Early
  <2>2. QED
    BY <1>1, <1>5, <2>1
<1>10. PICK u, b : Behind(i, u, b)
  BY <1>3, <1>9
<1>11. PICK S, T, A, B : S = pages[k].listed /\ T = pages[i].listed /\ A = pages[k].above /\ B = pages[i].above
  OBVIOUS
<1>12. S \in SUBSET ListRows /\ T \in SUBSET ListRows /\ A \in SUBSET (S \X S)
  BY <1>7, <1>9, <1>11 DEF PagesListed, ListedPage
<1>13. IsFiniteSet(S) /\ IsFiniteSet(T) /\ Cardinality(S) \in Nat /\ Cardinality(T) \in Nat
  BY <1>12, RowsAreFinite
<1>14. /\ InListOrder(o, S, A) /\ a \in 1 .. Cardinality(S) /\ o[a] = r /\ a <= i * PageLimit
       /\ InListOrder(u, T, B) /\ b \in 1 .. Cardinality(T) /\ u[b] = r /\ i * PageLimit < b
  <2>1. k - 1 = i
    BY <1>1, <1>8
  <2>2. QED
    BY <1>6, <1>10, <1>11, <2>1
<1>15. a < b
  <2>1. i * PageLimit \in Nat
    <3>1. i \in Nat /\ PageLimit \in Nat
      BY <1>1, <1>8, ListAssumption
    <3>2. QED
      BY <3>1
  <2>2. QED
    BY <1>13, <1>14, <2>1
<1>16. \E s \in T \ {r} : <<r, s>> \notin B /\ <<s, r>> \notin A
  <2>1. PlacedAt(r, a, o, S, A)
    BY <1>12, <1>13, <1>14 DEF PlacedAt
  <2>2. B \in SUBSET (T \X T)
    BY <1>9, <1>11 DEF PagesListed, ListedPage
  <2>3. PlacedAt(r, b, u, T, B)
    BY <1>13, <1>14, <2>2 DEF PlacedAt
  <2>4. QED
    BY <1>15, <2>1, <2>3, FurtherBack
<1>17. \E s \in ListRows : MayBeAbove(pages[i], s, r) /\ ~SurelyAbove(pages[k], s, r)
  BY <1>11, <1>12, <1>14, <1>16 DEF MayBeAbove, SurelyAbove
<1>18. QED
  BY <1>8, <1>17

-----------------------------------------------------------------------------

\* Rows and number are filtered alike, but for variants that are archived.
LEMMA CountsTell ==
    ASSUME list \in Lists PROVE CountTells
<1> SUFFICES ASSUME NEW r, r \in RowsFound(records) \ RowsCounted(records) \/ r \in RowsCounted(records) \ RowsFound(records)
             PROVE  list = "products" /\ \E n \in DOMAIN records[r].variants : records[r].variants[n].status = "ARCHIVED"
  BY DEF CountTells
<1>1. list = "products"
  BY DEF Lists, RowsFound, RowsCounted, CountOrders, CountOwnOrders, CountCustomers, CountAccounts
<1>2. r \in GetAll(records, question) \ GetCount(records, question) \/ r \in GetCount(records, question) \ GetAll(records, question)
  BY <1>1 DEF RowsFound, RowsCounted
<1>3. ASSUME \A n \in DOMAIN records[r].variants : records[r].variants[n].status # "ARCHIVED" PROVE FALSE
  <2>1. Joined(records[r], question, NotArchived) = Joined(records[r], question, ProductStatuses)
    BY <1>3 DEF Joined, NotArchived
  <2>2. QED
    BY <1>2, <2>1 DEF GetAll, GetCount
<1>4. QED
  BY <1>1, <1>3

LEMMA FiltersAreTold ==
    ASSUME RecordsOK PROVE FilterTells
<1> SUFFICES ASSUME list = "products", NEW r \in RowsFound(records)
             PROVE  LET p    == records[r]
                        live == {n \in DOMAIN p.variants : p.variants[n].status # "ARCHIVED"}
                    IN  /\ question.stock = "IN_STOCK" => \E n \in live : p.variants[n].stock > 0
                        /\ question.search = "none" =>
                              /\ question.stock = "OUT_OF_STOCK" => \A n \in live : p.variants[n].stock = 0
                              /\ question.stock = "LOW_STOCK" => \A n \in live : p.variants[n].stock < LowStock
                              /\ \A n \in live : p.variants[n].price >= question.priceMin
  BY DEF FilterTells
<1>1. r \in GetAll(records, question)
  BY DEF RowsFound
<1>2. PICK p : p = records[r]
  OBVIOUS
<1>3. PICK live : live = {n \in DOMAIN p.variants : p.variants[n].status # "ARCHIVED"}
  OBVIOUS
<1>4. PICK joined : joined = Joined(p, question, NotArchived)
  OBVIOUS
<1>5. ProductRow(p) /\ buildProductFilter(p, question, joined)
  BY <1>1, <1>2, <1>4 DEF GetAll, RecordsOK
<1>6. \A n \in DOMAIN p.variants : /\ p.variants[n].status \in ProductStatuses
                                   /\ p.variants[n].stock \in Nat /\ p.variants[n].price \in Nat
  BY <1>5 DEF ProductRow, VariantShapes
<1>7. joined \subseteq live /\ (question.search = "none" => joined = live)
  BY <1>3, <1>4, <1>6 DEF Joined, NotArchived
<1>8. IsFiniteSet(joined) /\ joined \subseteq DOMAIN p.variants
  <2>1. joined \in SUBSET DOMAIN p.variants
    BY <1>3, <1>7
  <2>2. QED
    BY <1>5, <2>1, FS_Subset DEF ProductRow
<1>9. PICK stock : stock = [n \in DOMAIN p.variants |-> p.variants[n].stock]
  OBVIOUS
<1>10. StockOf(p, joined) = SumFunctionOnSet(stock, joined)
  BY <1>9 DEF StockOf
<1>11. \A n \in joined : stock[n] = p.variants[n].stock /\ stock[n] \in Nat
  BY <1>6, <1>8, <1>9
<1>12. question.stock = "IN_STOCK" => \E n \in live : p.variants[n].stock > 0
  <2> SUFFICES ASSUME question.stock = "IN_STOCK", \A n \in joined : ~(p.variants[n].stock > 0) PROVE FALSE
    BY <1>7
  <2>1. \A n \in joined : stock[n] = 0
    BY <1>11
  <2>2. SumFunctionOnSet(stock, joined) = 0
    BY <1>8, <2>1, SumOfNoughts
  <2>3. QED
    BY <1>5, <1>10, <2>2 DEF buildProductFilter
<1>13. \A n \in joined : stock[n] <= StockOf(p, joined) /\ StockOf(p, joined) \in Nat
  BY <1>8, <1>10, <1>11, PartOfSum
<1>14. question.stock = "OUT_OF_STOCK" => \A n \in joined : p.variants[n].stock = 0
  BY <1>5, <1>11, <1>13 DEF buildProductFilter
<1>15. question.stock = "LOW_STOCK" => \A n \in joined : p.variants[n].stock < LowStock
  <2>1. LowStock \in Nat
    BY ListAssumption
  <2>2. question.stock = "LOW_STOCK" => StockOf(p, joined) < LowStock
    BY <1>5 DEF buildProductFilter
  <2>3. QED
    BY <1>11, <1>13, <2>1, <2>2
<1>16. \A n \in joined : p.variants[n].price >= question.priceMin
  <2> SUFFICES ASSUME NEW n \in joined PROVE p.variants[n].price >= question.priceMin
    OBVIOUS
  <2>1. PricesOf(p, joined) \in SUBSET Nat /\ p.variants[n].price \in PricesOf(p, joined)
    BY <1>6, <1>8 DEF PricesOf
  <2>2. Min(PricesOf(p, joined)) <= p.variants[n].price /\ Min(PricesOf(p, joined)) \in Nat
    BY <2>1, MinFacts
  <2>3. Min(PricesOf(p, joined)) >= question.priceMin
    BY <1>5 DEF buildProductFilter
  <2>4. question.priceMin \in Nat /\ p.variants[n].price \in Nat
    BY <1>6, <1>8, ListAssumption DEF RecordsOK
  <2>5. QED
    BY <2>2, <2>3, <2>4
<1>17. QED
  BY <1>2, <1>3, <1>7, <1>12, <1>14, <1>15, <1>16

LEMMA ListsImply == ListsInv => ListsTell
BY TwiceOvertaken, MissedPassed, EmptyWasLeft, CountsTell, FiltersAreTold DEF ListsInv, ListsTell

-----------------------------------------------------------------------------

LEMMA ShapedRow ==
    ASSUME NEW p \in ProductShapes PROVE ProductRow(p)
<1>1. p \in [status : ProductStatuses, variants : Seq(VariantShapes)]
  BY ListAssumption
<1>2. p = [status |-> p.status, variants |-> p.variants] /\ p.variants \in Seq(VariantShapes)
  BY <1>1
<1>3. PICK S : S = VariantShapes
  OBVIOUS
<1>4. PICK w \in Seq(S) : w = p.variants
  BY <1>2, <1>3
<1>5. DOMAIN w = 1 .. Len(w) /\ Len(w) \in Nat /\ \A n \in DOMAIN w : w[n] \in S
  OBVIOUS
<1>6. w = [n \in DOMAIN w |-> w[n]]
  OBVIOUS
<1>7. IsFiniteSet(DOMAIN w)
  BY <1>5, FS_Interval
<1>8. QED
  BY <1>2, <1>3, <1>4, <1>5, <1>6, <1>7 DEF ProductRow

LEMMA NothingAsked ==
    ASSUME pages = <<>>, answered = [rows |-> Unread, total |-> Unread]
    PROVE  PagesListed /\ AnswersListed
<1>1. Len(pages) = 0 /\ IsSeq(pages)
  BY NoSeq
<1>2. QED
  BY <1>1 DEF PagesListed, AnswersListed

LEMMA ListsStart == InitLists => ListsInv
<1> SUFFICES ASSUME InitLists PROVE ListsInv
  OBVIOUS
<1>1. list \in Lists /\ PagesListed /\ AnswersListed
  BY NothingAsked DEF InitLists
<1>2. PICK n \in ListRows : records \in [{r \in ListRows : r <= n} -> FirstRecords]
  BY DEF InitLists
<1>3. DOMAIN records \subseteq ListRows /\ \A r \in DOMAIN records : records[r] \in FirstRecords
  BY <1>2
<1>4. list = "products" => question \in ProductQueries /\ FirstRecords = ProductShapes
  BY DEF InitLists, ListQuestions, FirstRecords
<1>5. RecordsOK
  BY <1>3, <1>4, ShapedRow DEF RecordsOK
<1>6. QED
  BY <1>1, <1>5 DEF ListsInv

\* The table changes: what was asked and answered stays.
LEMMA TablesChange ==
    ASSUME ListsInv, RecordsOK', UNCHANGED <<list, question, answered, pages>>
    PROVE  ListsInv'
<1>1. PagesListed'
  BY DEF ListsInv, PagesListed
<1>2. AnswersListed'
  BY DEF ListsInv, AnswersListed, TurnsOn, PageNumber
<1>3. QED
  BY <1>1, <1>2 DEF ListsInv

LEMMA RowChanges ==
    ASSUME ListsInv, NEW r \in ListRows, NEW record, ChangeRow(r, record), list = "products" => ProductRow(record)
    PROVE  ListsInv'
<1>1. /\ DOMAIN records' = DOMAIN records \cup {r}
      /\ \A x \in DOMAIN records' : records'[x] = record \/ (x \in DOMAIN records /\ records'[x] = records[x])
      /\ UNCHANGED <<list, question, answered, pages>>
  BY DEF ChangeRow
<1>2. RecordsOK'
  BY <1>1 DEF ListsInv, RecordsOK
<1>3. QED
  BY <1>1, <1>2, TablesChange

LEMMA CreateStep == ASSUME ListsInv, CreateRow PROVE ListsInv'
<1>1. PICK record \in NewRecords : ChangeRow(Min(ListRows \ DOMAIN records), record)
  BY DEF CreateRow
<1>2. Min(ListRows \ DOMAIN records) \in ListRows
  <2>1. ListRows \ DOMAIN records \in SUBSET Nat /\ ListRows \ DOMAIN records # {}
    BY ListAssumption DEF CreateRow
  <2>2. QED
    BY <2>1, MinFacts
<1>3. list = "products" => ProductRow(record)
  BY <1>1, ShapedRow DEF NewRecords
<1>4. QED
  BY <1>1, <1>2, <1>3, RowChanges

\* One thing about a variant changes.
LEMMA VariantChanges ==
    ASSUME NEW p, ProductRow(p), NEW n \in DOMAIN p.variants, NEW v \in VariantShapes,
           NEW q, q = [p EXCEPT !.variants[n] = v]
    PROVE  ProductRow(q)
<1>1. /\ p = [status |-> p.status, variants |-> p.variants] /\ p.variants = [m \in DOMAIN p.variants |-> p.variants[m]]
      /\ IsFiniteSet(DOMAIN p.variants) /\ \A m \in DOMAIN p.variants : p.variants[m] \in VariantShapes
  BY DEF ProductRow
<1>2. PICK w : w = [p.variants EXCEPT ![n] = v]
  OBVIOUS
<1>3. DOMAIN w = DOMAIN p.variants /\ w = [m \in DOMAIN w |-> w[m]] /\ \A m \in DOMAIN w : w[m] \in VariantShapes
  BY <1>1, <1>2
<1>4. q = [status |-> p.status, variants |-> w]
  BY <1>1, <1>2
<1>5. q.variants = w /\ q.status = p.status
  BY <1>4
<1>6. QED
  BY <1>1, <1>3, <1>4, <1>5 DEF ProductRow

\* A bulk change of status.
LEMMA StatusChanges ==
    ASSUME NEW p, ProductRow(p), NEW status, NEW q, q = UpdateStatus(p, status)
    PROVE  ProductRow(q)
<1>1. PICK V : V = p.variants
  OBVIOUS
<1>2. IsFiniteSet(DOMAIN V) /\ \A n \in DOMAIN V : V[n] \in VariantShapes
  BY <1>1 DEF ProductRow
<1>3. PICK w : w = [n \in DOMAIN V |-> [V[n] EXCEPT !.status = IF @ = "ARCHIVED" THEN @
                                                                 ELSE IF status = "ACTIVE" THEN "ACTIVE" ELSE "INACTIVE"]]
  OBVIOUS
<1>4. DOMAIN w = DOMAIN V /\ w = [n \in DOMAIN w |-> w[n]] /\ \A n \in DOMAIN w : w[n] \in VariantShapes
  <2>1. DOMAIN w = DOMAIN V /\ w = [n \in DOMAIN w |-> w[n]]
    BY <1>3
  <2>2. ASSUME NEW n \in DOMAIN w PROVE w[n] \in VariantShapes
    <3>1. PICK v \in VariantShapes : v = V[n]
      BY <1>2, <2>1
    <3>2. w[n] = [v EXCEPT !.status = IF v.status = "ARCHIVED" THEN v.status
                                      ELSE IF status = "ACTIVE" THEN "ACTIVE" ELSE "INACTIVE"]
      BY <1>3, <2>1, <3>1
    <3>3. QED
      BY <3>2 DEF VariantShapes, ProductStatuses
  <2>3. QED
    BY <2>1, <2>2
<1>5. q = [status |-> status, variants |-> w]
  BY <1>1, <1>3 DEF UpdateStatus, ProductRow
<1>6. q.variants = w /\ q.status = status
  BY <1>5
<1>7. QED
  BY <1>2, <1>4, <1>5, <1>6 DEF ProductRow

LEMMA AlteredShape ==
    ASSUME NEW v \in VariantShapes PROVE Altered(v) \subseteq VariantShapes
<1>1. \A price \in Prices : price \in Nat
  BY ListAssumption
<1>2. \A status \in ProductStatuses : [v EXCEPT !.status = status] \in VariantShapes
  BY DEF VariantShapes
<1>3. \A price \in Prices : [v EXCEPT !.price = price] \in VariantShapes
  BY <1>1 DEF VariantShapes
<1>4. [v EXCEPT !.stock = @ + 1] \in VariantShapes
  BY DEF VariantShapes
<1>5. QED
  BY <1>2, <1>3, <1>4 DEF Altered

\* What the form leaves of a product, and an order.
LEMMA ProductsStayProducts ==
    ASSUME NEW p, ProductRow(p), NEW q \in FormSaved(p) \cup UnitTaken(p)
    PROVE  ProductRow(q)
<1>1. \A n \in DOMAIN p.variants : p.variants[n] \in VariantShapes
  BY DEF ProductRow
<1>2. ASSUME NEW status, q = [p EXCEPT !.status = status] PROVE ProductRow(q)
  <2>1. q = [status |-> status, variants |-> p.variants]
    BY <1>2 DEF ProductRow
  <2>2. q.status = status /\ q.variants = p.variants
    BY <2>1
  <2>3. QED
    BY <2>1, <2>2 DEF ProductRow
<1>3. ASSUME NEW n \in DOMAIN p.variants, NEW v \in Altered(p.variants[n]), q = [p EXCEPT !.variants[n] = v]
      PROVE  ProductRow(q)
  BY <1>1, <1>3, AlteredShape, VariantChanges
<1>4. ASSUME NEW n \in DOMAIN p.variants, p.variants[n].stock > 0, q = [p EXCEPT !.variants[n].stock = @ - 1]
      PROVE  ProductRow(q)
  <2>1. PICK v \in VariantShapes : v = p.variants[n]
    BY <1>1
  <2>2. [v EXCEPT !.stock = @ - 1] \in VariantShapes
    BY <1>4, <2>1 DEF VariantShapes
  <2>3. q = [p EXCEPT !.variants[n] = [v EXCEPT !.stock = @ - 1]]
    BY <1>4, <2>1 DEF ProductRow
  <2>4. QED
    BY <2>2, <2>3, VariantChanges
<1>5. CASE q \in UnitTaken(p)
  BY <1>4, <1>5 DEF UnitTaken
<1>6. CASE q \in FormSaved(p)
  BY <1>2, <1>3, <1>6 DEF FormSaved
<1>7. QED
  BY <1>5, <1>6

LEMMA EditStep == ASSUME ListsInv, NEW r \in DOMAIN records, EditProductRow(r) PROVE ListsInv'
<1>1. list = "products" /\ r \in ListRows /\ ProductRow(records[r])
  BY DEF EditProductRow, ListsInv, RecordsOK
<1>2. PICK q \in {UpdateStatus(records[r], status) : status \in ProductStatuses}
                    \cup FormSaved(records[r]) \cup UnitTaken(records[r]) : ChangeRow(r, q)
  BY DEF EditProductRow
<1>3. ProductRow(q)
  BY <1>1, <1>2, StatusChanges, ProductsStayProducts
<1>4. QED
  BY <1>1, <1>2, <1>3, RowChanges

LEMMA MoveStep == ASSUME ListsInv, NEW r \in DOMAIN records, MoveOrderRow(r) PROVE ListsInv'
<1>1. PICK record : ChangeRow(r, record)
  BY DEF MoveOrderRow
<1>2. list # "products" /\ r \in ListRows
  BY DEF MoveOrderRow, ListsInv, RecordsOK
<1>3. QED
  BY <1>1, <1>2, RowChanges

LEMMA RemoveStep == ASSUME ListsInv, NEW r \in DOMAIN records, RemoveImageRow(r) PROVE ListsInv'
<1>1. RecordsOK' /\ UNCHANGED <<list, question, answered, pages>>
  BY DEF RemoveImageRow, ListsInv, RecordsOK
<1>2. QED
  BY <1>1, TablesChange

-----------------------------------------------------------------------------

LEMMA FoundAreThere ==
    ASSUME ListsInv
    PROVE  RowsFound(records) \subseteq ListRows /\ RowsCounted(records) \subseteq ListRows
<1>1. /\ RowsFound(records) \subseteq DOMAIN records
      /\ RowsCounted(records) \subseteq DOMAIN records
  BY DEF ListsInv, Lists, RowsFound, RowsCounted, GetAll, GetCount, GetOrders, CountOrders, GetOwnOrders,
         CountOwnOrders, GetCustomers, CountCustomers, GetAccounts, CountAccounts
<1>2. QED
  BY <1>1 DEF ListsInv, RecordsOK

LEMMA ReadRowsStep == ASSUME ListsInv, ReadRows PROVE ListsInv'
<1>1. PICK S : S = RowsFound(records)
  OBVIOUS
<1>2. PICK A : A = {e \in RowsFound(records) \X RowsFound(records) : RowAbove(records, e[1], e[2])}
  OBVIOUS
<1>3. PICK o \in SortedRows(records, S) :
         answered' = [answered EXCEPT !.rows = [read |-> TRUE, shown |-> PageOf(o, PageNumber), listed |-> S, above |-> A]]
  BY <1>1, <1>2 DEF ReadRows
<1>4. UNCHANGED <<list, question, records, pages, listChanges>> /\ TurnsOn
  BY DEF ReadRows
<1>5. S \in SUBSET ListRows /\ A \subseteq S \X S
  BY <1>1, <1>2, FoundAreThere
<1>6. Cardinality(S) \in Nat
  BY <1>5, RowsAreFinite
<1>7. InListOrder(o, S, A)
  <2>1. o \in [1 .. Cardinality(S) -> S]
    BY <1>3 DEF SortedRows
  <2>2. \A i, j \in 1 .. Cardinality(S) : i < j => o[i] # o[j] /\ ~RowAbove(records, o[j], o[i])
    BY <1>3, <2>1 DEF SortedRows
  <2>3. QED
    BY <1>2, <2>1, <2>2 DEF InListOrder
<1>8. answered = [rows |-> answered.rows, total |-> answered.total]
  BY DEF ListsInv, AnswersListed
<1>9. /\ answered'.rows = [read |-> TRUE, shown |-> PageOf(o, PageNumber), listed |-> S, above |-> A]
      /\ answered'.total = answered.total /\ answered' = [rows |-> answered'.rows, total |-> answered'.total]
  BY <1>3, <1>8
<1>10. ListedPage(answered'.rows, PageNumber)
  BY <1>5, <1>7, <1>9 DEF ListedPage
<1>11. PageNumber' = PageNumber /\ TurnsOn' /\ PagesListed' /\ RecordsOK' /\ list' \in Lists
  BY <1>4 DEF PageNumber, TurnsOn, PagesListed, RecordsOK, ListsInv
<1>12. answered'.total # Unread => answered'.total.counted \subseteq ListRows
  BY <1>9 DEF ListsInv, AnswersListed
<1>13. ListedPage(answered.rows, PageNumber)'
  BY <1>10, <1>11 DEF ListedPage
<1>14. QED
  BY <1>9, <1>11, <1>12, <1>13 DEF ListsInv, AnswersListed

LEMMA ReadTotalStep == ASSUME ListsInv, ReadTotal PROVE ListsInv'
<1>1. UNCHANGED <<list, question, records, pages, listChanges>> /\ TurnsOn
  BY DEF ReadTotal
<1>2. answered = [rows |-> answered.rows, total |-> answered.total]
  BY DEF ListsInv, AnswersListed
<1>3. /\ answered'.total = [read |-> TRUE, counted |-> RowsCounted(records)]
      /\ answered'.rows = answered.rows /\ answered' = [rows |-> answered'.rows, total |-> answered'.total]
  BY <1>2 DEF ReadTotal
<1>4. answered'.total.counted \subseteq ListRows
  BY <1>3, FoundAreThere
<1>5. PageNumber' = PageNumber /\ TurnsOn' /\ PagesListed' /\ RecordsOK' /\ list' \in Lists
  BY <1>1 DEF PageNumber, TurnsOn, PagesListed, RecordsOK, ListsInv
<1>6. answered'.rows # Unread => ListedPage(answered.rows, PageNumber)'
  BY <1>3, <1>5 DEF ListsInv, AnswersListed, ListedPage
<1>7. QED
  BY <1>3, <1>4, <1>5, <1>6 DEF ListsInv, AnswersListed

LEMMA ShowStep == ASSUME ListsInv, ShowPage PROVE ListsInv'
<1>1. PICK page : page = [shown   |-> answered.rows.shown, listed  |-> answered.rows.listed,
                          above   |-> answered.rows.above, counted |-> answered.total.counted]
  OBVIOUS
<1>2. /\ pages' = Append(pages, page) /\ answered' = [rows |-> Unread, total |-> Unread]
      /\ UNCHANGED <<list, question, records, listChanges>>
      /\ answered.rows # Unread /\ answered.total # Unread
  BY <1>1 DEF ShowPage
<1>3. TurnsOn /\ ListedPage(answered.rows, PageNumber) /\ answered.total.counted \subseteq ListRows
  BY <1>2 DEF ListsInv, AnswersListed
<1>4. ListedPage(page, Len(pages) + 1) /\ page.counted \subseteq ListRows
  BY <1>1, <1>3 DEF ListedPage, PageNumber
<1>5. IsSeq(pages) /\ Len(pages) \in Nat /\ (pages = <<>> <=> Len(pages) = 0)
  BY SeqFacts DEF ListsInv, PagesListed
<1>6. /\ IsSeq(pages') /\ Len(pages') = Len(pages) + 1 /\ pages'[Len(pages) + 1] = page
      /\ \A i \in 1 .. Len(pages) : pages'[i] = pages[i]
  BY <1>2, <1>5, AppendFacts
<1>7. \A n \in 1 .. Len(pages') : ListedPage(pages'[n], n) /\ pages'[n].counted \subseteq ListRows
  <2> SUFFICES ASSUME NEW n \in 1 .. Len(pages) + 1 PROVE ListedPage(pages'[n], n) /\ pages'[n].counted \subseteq ListRows
    BY <1>6
  <2>1. CASE n = Len(pages) + 1
    BY <1>4, <1>6, <2>1
  <2>2. CASE n \in 1 .. Len(pages)
    BY <1>6, <2>2 DEF ListsInv, PagesListed
  <2>3. QED
    BY <1>5, <2>1, <2>2
<1>8. \A n \in 1 .. Len(pages') - 1 : HasNext(n, Cardinality(pages'[n].counted))
  <2> SUFFICES ASSUME NEW n \in 1 .. Len(pages) PROVE HasNext(n, Cardinality(pages'[n].counted))
    BY <1>5, <1>6
  <2>1. CASE n = Len(pages)
    BY <1>3, <1>5, <1>6, <2>1 DEF TurnsOn
  <2>2. CASE n \in 1 .. Len(pages) - 1
    BY <1>6, <2>2 DEF ListsInv, PagesListed
  <2>3. QED
    BY <1>5, <2>1, <2>2
<1>9. PagesListed'
  BY <1>6, <1>7, <1>8 DEF PagesListed, ListedPage
<1>10. AnswersListed' /\ RecordsOK' /\ list' \in Lists
  BY <1>2 DEF AnswersListed, ListsInv, RecordsOK
<1>11. QED
  BY <1>9, <1>10 DEF ListsInv

LEMMA ListsStep == ListsInv /\ [NextLists]_listVars => ListsInv'
<1> SUFFICES ASSUME ListsInv, [NextLists]_listVars PROVE ListsInv'
  OBVIOUS
<1>1. CASE UNCHANGED listVars
  <2>1. RecordsOK' /\ UNCHANGED <<list, question, answered, pages>>
    BY <1>1 DEF listVars, ListsInv, RecordsOK
  <2>2. QED
    BY <2>1, TablesChange
<1>2. QED
  BY <1>1, ReadRowsStep, ReadTotalStep, ShowStep, CreateStep, EditStep, MoveStep, RemoveStep DEF NextLists

\* Turning pages repeats and misses rows only as the lists' orders and their changes
\* explain, and a list and its number speak of the same rows.
THEOREM ListsCorrect == ListsSpec => []ListsTell
BY ListsStart, ListsStep, ListsImply, PTL DEF ListsSpec

-----------------------------------------------------------------------------
(* The back office as the runs explore it.                                 *)
-----------------------------------------------------------------------------

\* One part moves at a time and the others stay: each is its own specification.
LEMMA OfficeIsMarketing == OfficeSpec => MarketingSpec
<1>1. OfficeInit => InitMarketing
  BY DEF OfficeInit
<1>2. [OfficeNext]_officeVars => [NextMarketing]_bannerVars
  BY DEF OfficeNext, officeVars
<1>3. QED
  BY <1>1, <1>2, PTL DEF OfficeSpec, MarketingSpec

LEMMA OfficeIsCollections == OfficeSpec => CollectionsSpec
<1>1. OfficeInit => InitCollections
  BY DEF OfficeInit
<1>2. [OfficeNext]_officeVars => [NextCollections]_collectionVars
  BY DEF OfficeNext, officeVars
<1>3. QED
  BY <1>1, <1>2, PTL DEF OfficeSpec, CollectionsSpec

\* What the shop puts in the window is there, leads somewhere and is what the tags tell.
THEOREM WindowCorrect == OfficeSpec => []WindowHolds
<1>1. MarketingHolds /\ CollectionsHold => WindowHolds
  BY DEF WindowHolds
<1>2. QED
  BY <1>1, OfficeIsMarketing, OfficeIsCollections, MarketingCorrect, CollectionsCorrect, PTL

LEMMA OfficeIsPresets == OfficeSpec => PresetSpec
<1>1. OfficeInit => InitPresets
  BY DEF OfficeInit
<1>2. [OfficeNext]_officeVars => [NextPresets]_presetVars
  BY DEF OfficeNext, officeVars
<1>3. QED
  BY <1>1, <1>2, PTL DEF OfficeSpec, PresetSpec

\* The form that stands still while the other parts are looked at is a form, too.
LEMMA OfficeHasForms == OfficeInit => FormInv
<1> SUFFICES ASSUME OfficeInit, focus # "form" PROVE FormInv
  BY FormStarts DEF OfficeInit
<1>1. /\ sentForm = [stored |-> {}, dims |-> <<>>, variants |-> <<Offered(0, 1, <<>>)>>]
      /\ written = Nothing /\ formState = "sent" /\ wasWritten = Nothing
  BY DEF OfficeInit
<1>2. PICK D, O : D = Seq(DimensionShape(Nat)) /\ O = Seq(PickShape(Nat))
  OBVIOUS
<1>3. <<>> \in D /\ <<>> \in O
  <2>1. \A S : <<>> \in Seq(S)
    OBVIOUS
  <2>2. QED
    BY <1>2, <2>1
<1>4. PICK none \in O : none = <<>>
  BY <1>3
<1>5. Offered(0, 1, none) \in [id : Nat, clientId : Nat, active : BOOLEAN, stock : Nat, options : O]
  BY DEF Offered
<1>6. PICK E : E = VariantShape(Nat)
  OBVIOUS
<1>7. PICK only \in E : only = Offered(0, 1, <<>>)
  BY <1>2, <1>4, <1>5, <1>6 DEF VariantShape
<1>8. <<only>> \in Seq(E) \ {<<>>}
  OBVIOUS
<1>9. sentForm \in [stored : SUBSET Nat, dims : D, variants : Seq(E) \ {<<>>}]
  BY <1>1, <1>3, <1>7, <1>8
<1>10. sentForm \in FormShape(Nat)
  BY <1>2, <1>6, <1>9, ShapeParts
<1>11. QED
  BY <1>1, <1>10 DEF FormInv, FirstRound

\* What the product form offers is what was saved, and what is made of it is what it says.
THEOREM ProductFormsCorrect == OfficeSpec => []ProductFormsHold
<1>1. OfficeSpec => []FormInv
  <2>1. [OfficeNext]_officeVars => [NextForm]_formVars
    BY DEF OfficeNext, officeVars
  <2>2. QED
    BY <2>1, OfficeHasForms, FormStep, PTL DEF OfficeSpec
<1>2. PresetsHold /\ FormsHold => ProductFormsHold
  BY DEF ProductFormsHold
<1>3. QED
  BY <1>1, <1>2, FormImplies, OfficeIsPresets, PresetsCorrect, PTL

LEMMA OfficeIsDashboard == OfficeSpec => DashboardSpec
<1>1. OfficeInit => InitDashboard
  BY DEF OfficeInit
<1>2. [OfficeNext]_officeVars => [NextDashboard]_dashboardVars
  BY DEF OfficeNext, officeVars
<1>3. QED
  BY <1>1, <1>2, PTL DEF OfficeSpec, DashboardSpec

LEMMA OfficeHasLists == OfficeInit => ListsInv
<1> SUFFICES ASSUME OfficeInit, focus # "lists" PROVE ListsInv
  BY ListsStart DEF OfficeInit
<1>1. list = "images" /\ records = <<>> /\ pages = <<>> /\ answered = [rows |-> Unread, total |-> Unread]
  BY DEF OfficeInit
<1>2. DOMAIN records = {}
  BY <1>1
<1>3. list \in Lists /\ RecordsOK
  BY <1>1, <1>2 DEF Lists, RecordsOK
<1>4. QED
  BY <1>1, <1>3, NothingAsked DEF ListsInv

\* What administrators are told of orders, products and people is what is there.
THEOREM ReportsCorrect == OfficeSpec => []ReportsTell
<1>1. OfficeSpec => []ListsInv
  <2>1. [OfficeNext]_officeVars => [NextLists]_listVars
    BY DEF OfficeNext, officeVars
  <2>2. QED
    BY <2>1, OfficeHasLists, ListsStep, PTL DEF OfficeSpec
<1>2. ChartsTell /\ ListsTell => ReportsTell
  BY DEF ReportsTell
<1>3. QED
  BY <1>1, <1>2, ListsImply, OfficeIsDashboard, DashboardCorrect, PTL
=============================================================================
