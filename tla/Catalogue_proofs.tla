-------------------------- MODULE Catalogue_proofs --------------------------
(***************************************************************************)
(* Proofs about ProductEditor, for any number of forms, options, variants  *)
(* and units; about CategoryTree, for any tree of three levels, editors    *)
(* and edits; and about what a client of the shop reads and keeps: its     *)
(* lists, its menu, a product's page and its filters, for any number of    *)
(* products, prices, pages and changes.                                    *)
(***************************************************************************)
EXTENDS MCCatalogue, DataTheorems

-----------------------------------------------------------------------------
(* One product and its variants.                                           *)
-----------------------------------------------------------------------------

LEMMA LenIsDomain ==
    ASSUME NEW S, NEW n \in Nat, NEW l \in [1 .. n -> S] PROVE l \in Seq(S) /\ Len(l) = n /\ DOMAIN l = 1 .. n
PROOF OBVIOUS

VariantRows ==
    [status : {"ACTIVE", "INACTIVE", "ARCHIVED"}, primary : BOOLEAN, stock : Nat, shelf : Int,
     option : Options \cup {NoOption}, snapshot : Options \cup {NoOption}, taken : Nat, guessed : BOOLEAN]

LEMMA RowFacts ==
    ASSUME NEW r \in VariantRows
    PROVE  /\ r.status \in {"ACTIVE", "INACTIVE", "ARCHIVED"} /\ r.primary \in BOOLEAN
           /\ r.stock \in Nat /\ r.shelf \in Int /\ r.taken \in Nat /\ r.guessed \in BOOLEAN
           /\ r.option \in Options \cup {NoOption} /\ r.snapshot \in Options \cup {NoOption}
PROOF BY DEF VariantRows

EditorTypeOK ==
    /\ product \in [status : {"none", "ACTIVE", "INACTIVE"}, multi : BOOLEAN]
    /\ variant \in Seq(VariantRows)
    /\ form = [e \in FormIds |-> form[e]]
    /\ \A e \in FormIds : form[e].at = "shown" =>
        /\ DOMAIN form[e].stock \subseteq 1 .. Len(variant)
        /\ form[e].stock \in [DOMAIN form[e].stock -> Nat]

EditorInv ==
    /\ EditorTypeOK
    /\ ~Exists => variant = <<>>
    /\ ShopCanShow
    /\ StockIsOnTheShelf

-----------------------------------------------------------------------------

\* A step that moves units, or nothing.
LEMMA UnitsMove ==
    ASSUME EditorInv, product' = product, form' = form, variant' \in Seq(VariantRows),
           DOMAIN variant' = DOMAIN variant, StockIsOnTheShelf',
           \A v \in DOMAIN variant :
              /\ variant'[v].status = variant[v].status /\ variant'[v].primary = variant[v].primary
              /\ variant'[v].option = variant[v].option /\ variant'[v].snapshot = variant[v].snapshot
    PROVE  EditorInv'
PROOF
<1>1. Live' = Live
  BY DEF Live, Shown
<1>2. Len(variant') = Len(variant)
  BY DEF EditorInv, EditorTypeOK
<1>3. EditorTypeOK'
  BY <1>2 DEF EditorInv, EditorTypeOK
<1>4. ShopCanShow'
  <2>1. Live \subseteq DOMAIN variant
    BY DEF Live
  <2> QED BY <1>1, <2>1 DEF EditorInv, ShopCanShow, Exists
<1>5. (~Exists => variant = <<>>)'
  BY <1>2 DEF EditorInv, EditorTypeOK, Exists
<1> QED BY <1>3, <1>4, <1>5 DEF EditorInv

LEMMA TakeAndReturn ==
    ASSUME EditorInv, NEW v \in DOMAIN variant, TakeUnit(v) \/ ReturnUnit(v)
    PROVE  EditorInv'
PROOF
<1>1. product' = product /\ form' = form
  BY DEF TakeUnit, ReturnUnit
<1>2. variant[v] \in VariantRows /\ variant \in Seq(VariantRows)
  BY DEF EditorInv, EditorTypeOK
<1>3. PICK row :
        /\ variant' = [variant EXCEPT ![v] = row]
        /\ \/ /\ variant[v].stock > 0
              /\ row = [variant[v] EXCEPT !.stock = @ - 1, !.shelf = @ - 1, !.taken = @ + 1]
           \/ /\ variant[v].taken > 0
              /\ row = [variant[v] EXCEPT !.stock = @ + 1, !.shelf = @ + 1, !.taken = @ - 1]
  BY <1>2 DEF TakeUnit, ReturnUnit
<1>4. /\ row \in VariantRows
      /\ row.status = variant[v].status /\ row.primary = variant[v].primary
      /\ row.option = variant[v].option /\ row.snapshot = variant[v].snapshot
      /\ row.guessed = variant[v].guessed
      /\ row.stock - variant[v].stock = row.shelf - variant[v].shelf
  <2> DEFINE old == variant[v]
  <2>1. old.stock \in Nat /\ old.shelf \in Int /\ old.taken \in Nat
    BY <1>2, RowFacts
  <2>2. CASE old.stock > 0 /\ row = [old EXCEPT !.stock = @ - 1, !.shelf = @ - 1, !.taken = @ + 1]
    <3>1. old.stock - 1 \in Nat /\ old.shelf - 1 \in Int /\ old.taken + 1 \in Nat
      BY <2>1, <2>2
    <3>2. /\ row \in VariantRows
          /\ row.status = old.status /\ row.primary = old.primary /\ row.option = old.option
          /\ row.snapshot = old.snapshot /\ row.guessed = old.guessed
          /\ row.stock = old.stock - 1 /\ row.shelf = old.shelf - 1
      BY <1>2, <2>2, <3>1 DEF VariantRows
    <3> QED BY <2>1, <3>2
  <2>3. CASE old.taken > 0 /\ row = [old EXCEPT !.stock = @ + 1, !.shelf = @ + 1, !.taken = @ - 1]
    <3>1. old.stock + 1 \in Nat /\ old.shelf + 1 \in Int /\ old.taken - 1 \in Nat
      BY <2>1, <2>3
    <3>2. /\ row \in VariantRows
          /\ row.status = old.status /\ row.primary = old.primary /\ row.option = old.option
          /\ row.snapshot = old.snapshot /\ row.guessed = old.guessed
          /\ row.stock = old.stock + 1 /\ row.shelf = old.shelf + 1
      BY <1>2, <2>3, <3>1 DEF VariantRows
    <3> QED BY <2>1, <3>2
  <2> QED BY <1>3, <2>2, <2>3
<1>5. variant'[v] = row /\ DOMAIN variant' = DOMAIN variant /\ \A w \in DOMAIN variant \ {v} : variant'[w] = variant[w]
  BY <1>2, <1>3
<1>6. variant' \in Seq(VariantRows)
  BY <1>2, <1>3, <1>4
<1>7. \A w \in DOMAIN variant : variant[w].stock \in Int /\ variant[w].shelf \in Int
  <2>1. ASSUME NEW w \in DOMAIN variant PROVE variant[w] \in VariantRows
    BY <1>2
  <2> QED BY <2>1, RowFacts
<1>8. row.stock \in Int /\ row.shelf \in Int
  BY <1>4, RowFacts
<1>9. StockIsOnTheShelf'
  BY <1>4, <1>5, <1>7, <1>8 DEF EditorInv, StockIsOnTheShelf
<1> QED BY <1>1, <1>4, <1>5, <1>6, <1>9, UnitsMove

LEMMA FormKeeps ==
    ASSUME EditorInv, NEW e \in FormIds, OpenForm(e) \/ LeaveForm(e)
    PROVE  EditorInv'
PROOF
<1>1. UNCHANGED <<product, variant>>
  BY DEF OpenForm, LeaveForm
<1>2. CASE OpenForm(e)
  <2>1. form' = [form EXCEPT ![e] = [at |-> "shown", new |-> ~Exists, stock |-> [v \in Live |-> variant[v].stock]]]
    BY <1>2 DEF OpenForm
  <2>2. /\ form'[e].stock = [v \in Live |-> variant[v].stock]
        /\ \A x \in FormIds \ {e} : form'[x] = form[x]
        /\ form' = [x \in FormIds |-> form'[x]]
    BY <2>1 DEF EditorInv, EditorTypeOK
  <2>3. Live \subseteq 1 .. Len(variant) /\ \A v \in Live : variant[v].stock \in Nat
    <3>1. Live \subseteq 1 .. Len(variant)
      BY DEF EditorInv, EditorTypeOK, Live
    <3>2. ASSUME NEW v \in Live PROVE variant[v] \in VariantRows
      BY DEF EditorInv, EditorTypeOK, Live
    <3> QED BY <3>1, <3>2, RowFacts
  <2>4. EditorTypeOK'
    BY <1>1, <2>2, <2>3 DEF EditorInv, EditorTypeOK
  <2> QED BY <1>1, <2>4 DEF EditorInv, Exists, ShopCanShow, Live, Shown, StockIsOnTheShelf
<1>3. CASE LeaveForm(e)
  <2>1. form' = [form EXCEPT ![e] = Closed]
    BY <1>3 DEF LeaveForm
  <2>2. /\ form'[e].at # "shown"
        /\ \A x \in FormIds \ {e} : form'[x] = form[x]
        /\ form' = [x \in FormIds |-> form'[x]]
    BY <2>1 DEF EditorInv, EditorTypeOK, Closed
  <2>3. EditorTypeOK'
    BY <1>1, <2>2 DEF EditorInv, EditorTypeOK
  <2> QED BY <1>1, <2>3 DEF EditorInv, Exists, ShopCanShow, Live, Shown, StockIsOnTheShelf
<1> QED BY <1>2, <1>3

LEMMA StatusKeeps ==
    ASSUME EditorInv, NEW status \in ProductStatus, UpdateStatus(status)
    PROVE  EditorInv'
PROOF
<1> DEFINE to == IF status = "ACTIVE" THEN "ACTIVE" ELSE "INACTIVE"
<1>1. /\ Exists /\ form' = form
      /\ product' = [product EXCEPT !.status = status]
      /\ variant' = [v \in DOMAIN variant |-> IF Shown(v) THEN [variant[v] EXCEPT !.status = to] ELSE variant[v]]
  BY DEF UpdateStatus
<1>2. variant \in Seq(VariantRows) /\ DOMAIN variant = 1 .. Len(variant)
      /\ product \in [status : {"none", "ACTIVE", "INACTIVE"}, multi : BOOLEAN]
  BY DEF EditorInv, EditorTypeOK
<1>3. /\ to \in {"ACTIVE", "INACTIVE"} /\ (status = "ACTIVE" => to = "ACTIVE")
      /\ status \in {"ACTIVE", "INACTIVE"}
  BY DEF ProductStatus
<1> HIDE DEF to
<1>4. ASSUME NEW v \in DOMAIN variant
      PROVE  /\ variant'[v] \in VariantRows
             /\ variant'[v].primary = variant[v].primary /\ variant'[v].option = variant[v].option
             /\ variant'[v].snapshot = variant[v].snapshot /\ variant'[v].stock = variant[v].stock
             /\ variant'[v].shelf = variant[v].shelf /\ variant'[v].guessed = variant[v].guessed
             /\ variant'[v].status = IF Shown(v) THEN to ELSE "ARCHIVED"
  <2>1. variant[v] \in VariantRows
    BY <1>2
  <2>2. variant'[v] = IF Shown(v) THEN [variant[v] EXCEPT !.status = to] ELSE variant[v]
    BY <1>1
  <2>3. [variant[v] EXCEPT !.status = to] \in VariantRows
    BY <1>3, <2>1 DEF VariantRows
  <2> QED BY <2>1, <2>2, <2>3 DEF Shown, VariantRows
<1>5. variant' \in [1 .. Len(variant) -> VariantRows] /\ Len(variant) \in Nat
  BY <1>1, <1>2, <1>4
<1>6. variant' \in Seq(VariantRows) /\ Len(variant') = Len(variant) /\ DOMAIN variant' = DOMAIN variant
  BY <1>2, <1>5, LenIsDomain
<1>7. Live' = Live
  BY <1>3, <1>4, <1>6 DEF Live, Shown
<1>8. /\ product' \in [status : {"none", "ACTIVE", "INACTIVE"}, multi : BOOLEAN]
      /\ product'.status = status /\ product'.multi = product.multi
  BY <1>1, <1>2, <1>3
<1>9. EditorTypeOK'
  BY <1>1, <1>6, <1>8 DEF EditorInv, EditorTypeOK
<1>10. ShopCanShow' /\ Exists'
  <2>1. PICK p \in Live : variant[p].primary /\ \A v \in Live \ {p} : ~variant[v].primary
    BY <1>1 DEF EditorInv, ShopCanShow
  <2>2. \A v \in Live : v \in DOMAIN variant /\ Shown(v)
    BY DEF Live
  <2>3. product'.status = "ACTIVE" => variant'[p].status = "ACTIVE"
    BY <1>3, <1>4, <1>8, <2>2
  <2>4. variant'[p].primary /\ \A v \in Live \ {p} : ~variant'[v].primary
    BY <1>4, <2>1, <2>2
  <2>5. Exists'
    BY <1>3, <1>8 DEF Exists
  <2>6. product'.multi = (Cardinality(Live') > 1)
    BY <1>1, <1>7, <1>8 DEF EditorInv, ShopCanShow
  <2>7. ASSUME NEW v \in DOMAIN variant'
        PROVE  /\ variant'[v].option # NoOption <=> v \in Live' /\ product'.multi
               /\ v \in Live' => variant'[v].snapshot = variant'[v].option
    BY <1>1, <1>4, <1>6, <1>7, <1>8 DEF EditorInv, ShopCanShow
  <2> QED BY <1>7, <2>3, <2>4, <2>5, <2>6, <2>7 DEF ShopCanShow
<1>11. StockIsOnTheShelf'
  BY <1>4, <1>6 DEF EditorInv, StockIsOnTheShelf
<1> QED BY <1>9, <1>10, <1>11 DEF EditorInv

\* What a save writes, row by row.
LEMMA RowsWritten ==
    ASSUME EditorInv, NEW D, NEW rows, NEW primary, NEW was \in [D -> Nat], NEW status,
           Write(status, rows, primary, was),
           \A v \in DOMAIN rows :
              /\ rows[v].status \in {"ACTIVE", "INACTIVE"} /\ rows[v].option \in Options \cup {NoOption}
              /\ rows[v].stock \in Nat
    PROVE  /\ \A v \in DOMAIN rows :
                /\ v \in DOMAIN was \/ v \notin DOMAIN variant =>
                     /\ variant'[v] \in VariantRows /\ variant'[v].status = rows[v].status
                     /\ (variant'[v].primary <=> v = primary)
                     /\ variant'[v].option = rows[v].option /\ variant'[v].snapshot = rows[v].option
                     /\ ~variant'[v].guessed => variant'[v].stock = variant'[v].shelf
           /\ \A v \in DOMAIN variant \ DOMAIN rows :
                /\ variant'[v] \in VariantRows /\ variant'[v].status = "ARCHIVED"
                /\ variant'[v].option = NoOption
                /\ ~variant'[v].guessed => variant'[v].stock = variant'[v].shelf
PROOF
<1> DEFINE kept == DOMAIN rows \cap DOMAIN was
<1>1. kept \subseteq Live
  BY DEF Write
<1>2. variant' = [v \in DOMAIN variant \cup DOMAIN rows |->
            IF v \in kept THEN UpdateExisting(v, rows[v], was[v], primary)
            ELSE IF v \in DOMAIN rows THEN InsertNew(v, rows[v], primary)
            ELSE ArchiveMissing(kept, v)]
  BY DEF Write
<1>3. \A v \in DOMAIN variant : variant[v] \in VariantRows
  BY DEF EditorInv, EditorTypeOK
<1>4. ASSUME NEW v \in kept
      PROVE  /\ variant'[v] \in VariantRows /\ variant'[v].status = rows[v].status
             /\ (variant'[v].primary <=> v = primary)
             /\ variant'[v].option = rows[v].option /\ variant'[v].snapshot = rows[v].option
             /\ ~variant'[v].guessed => variant'[v].stock = variant'[v].shelf
  <2> DEFINE old == variant[v]
  <2> DEFINE new == UpdateExisting(v, rows[v], was[v], primary)
  <2>1. variant'[v] = new /\ v \in DOMAIN rows /\ v \in D /\ was[v] \in Nat
    BY <1>2
  <2>2. old \in VariantRows /\ v \in DOMAIN variant
    BY <1>1, <1>3 DEF Live
  <2>3. /\ old.stock \in Nat /\ old.shelf \in Int /\ old.taken \in Nat /\ old.guessed \in BOOLEAN
        /\ (~old.guessed => old.stock = old.shelf)
    BY <2>2, RowFacts DEF EditorInv, StockIsOnTheShelf
  <2>4. old.shelf + rows[v].stock - was[v] \in Int
    BY <2>1, <2>3
  <2>5. /\ rows[v].status \in {"ACTIVE", "INACTIVE"} /\ rows[v].option \in Options \cup {NoOption}
        /\ rows[v].stock \in Nat /\ (v = primary) \in BOOLEAN
        /\ (old.guessed \/ old.stock # was[v]) \in BOOLEAN
    BY <2>1
  <2>6. /\ new \in VariantRows /\ new.status = rows[v].status /\ (new.primary <=> v = primary)
        /\ new.option = rows[v].option /\ new.snapshot = rows[v].option
        /\ new.stock = rows[v].stock /\ new.shelf = old.shelf + rows[v].stock - was[v]
        /\ (new.guessed <=> old.guessed \/ old.stock # was[v])
    BY <2>2, <2>4, <2>5, ZenonT(60) DEF UpdateExisting, VariantRows
  <2> HIDE DEF new, old
  <2>7. ~new.guessed => new.stock = new.shelf
    BY <2>1, <2>3, <2>5, <2>6
  <2> QED BY <2>1, <2>6, <2>7
<1>5. ASSUME NEW v \in DOMAIN rows, v \notin kept
      PROVE  /\ variant'[v] \in VariantRows /\ variant'[v].status = rows[v].status
             /\ (variant'[v].primary <=> v = primary)
             /\ variant'[v].option = rows[v].option /\ variant'[v].snapshot = rows[v].option
             /\ ~variant'[v].guessed => variant'[v].stock = variant'[v].shelf
  <2>1. variant'[v] = InsertNew(v, rows[v], primary)
    BY <1>2, <1>5
  <2>2. /\ rows[v].status \in {"ACTIVE", "INACTIVE"} /\ rows[v].option \in Options \cup {NoOption}
        /\ rows[v].stock \in Nat /\ rows[v].stock \in Int /\ (v = primary) \in BOOLEAN
    BY <1>5
  <2>3. PICK first \in BOOLEAN : (first <=> v = primary)
        /\ variant'[v] = [status |-> rows[v].status, primary |-> first, stock |-> rows[v].stock,
                          option |-> rows[v].option, snapshot |-> rows[v].option,
                          shelf |-> rows[v].stock, taken |-> 0, guessed |-> FALSE]
    BY <2>1, <2>2 DEF InsertNew
  <2> QED BY <2>2, <2>3 DEF VariantRows
<1>6. ASSUME NEW v \in DOMAIN variant \ DOMAIN rows
      PROVE  /\ variant'[v] \in VariantRows /\ variant'[v].status = "ARCHIVED"
             /\ variant'[v].option = NoOption
             /\ ~variant'[v].guessed => variant'[v].stock = variant'[v].shelf
  <2> DEFINE old == variant[v]
  <2>1. variant'[v] = ArchiveMissing(kept, v)
    BY <1>2
  <2>2. old \in VariantRows /\ (~old.guessed => old.stock = old.shelf)
    BY <1>3 DEF EditorInv, StockIsOnTheShelf
  <2>3. CASE Shown(v)
    <3>1. variant'[v] = [old EXCEPT !.status = "ARCHIVED", !.option = NoOption]
      BY <2>1, <2>3 DEF ArchiveMissing
    <3> QED BY <2>2, <3>1 DEF VariantRows
  <2>4. CASE ~Shown(v)
    <3>1. variant'[v] = old /\ old.status = "ARCHIVED" /\ v \notin Live
      BY <2>1, <2>4 DEF ArchiveMissing, Shown, Live
    <3>2. Exists
      BY DEF EditorInv
    <3>3. old.option = NoOption
      BY <3>1, <3>2 DEF EditorInv, ShopCanShow
    <3> QED BY <2>2, <3>1, <3>3
  <2> QED BY <2>3, <2>4
<1> QED BY <1>4, <1>5, <1>6

LEMMA SaveFormKeeps ==
    ASSUME EditorInv, NEW e \in FormIds, SaveForm(e)
    PROVE  EditorInv'
PROOF
<1> DEFINE was == form[e].stock
<1> DEFINE n0 == Len(variant)
<1>1. PICK status \in ProductStatus, S \in SUBSET DOMAIN was, n \in 0 .. MaxRows :
        LET ids == S \cup {n0 + i : i \in 1 .. n} IN
        /\ Cardinality(ids) \in 1 .. MaxRows
        /\ n0 + n <= MaxVariants
        /\ \E primary \in ids, arrived \in SUBSET S,
              sent \in [ids -> [status : {"ACTIVE", "INACTIVE"}, option : IF Cardinality(ids) = 1 THEN {NoOption} ELSE Options]] :
            /\ \A v \in arrived : was[v] < MaxStock
            /\ \A v, w \in ids : sent[v].option = sent[w].option => v = w
            /\ Write(status,
                    [v \in ids |-> [status |-> sent[v].status, option |-> sent[v].option,
                        stock |-> IF v \in S \ arrived THEN was[v] ELSE IF v \in S THEN was[v] + 1 ELSE 1]],
                    primary, was)
  BY DEF SaveForm
<1> DEFINE ids == S \cup {n0 + i : i \in 1 .. n}
<1>2. PICK primary \in ids, arrived \in SUBSET S,
            sent \in [ids -> [status : {"ACTIVE", "INACTIVE"}, option : IF Cardinality(ids) = 1 THEN {NoOption} ELSE Options]] :
            /\ \A v \in arrived : was[v] < MaxStock
            /\ \A v, w \in ids : sent[v].option = sent[w].option => v = w
            /\ Write(status,
                    [v \in ids |-> [status |-> sent[v].status, option |-> sent[v].option,
                        stock |-> IF v \in S \ arrived THEN was[v] ELSE IF v \in S THEN was[v] + 1 ELSE 1]],
                    primary, was)
  BY <1>1
<1> DEFINE rows == [v \in ids |-> [status |-> sent[v].status, option |-> sent[v].option,
                        stock |-> IF v \in S \ arrived THEN was[v] ELSE IF v \in S THEN was[v] + 1 ELSE 1]]
<1>3. /\ DOMAIN was \subseteq 1 .. n0 /\ was \in [DOMAIN was -> Nat]
      /\ n0 \in Nat /\ DOMAIN variant = 1 .. n0 /\ n \in Nat
  BY EditorAssumption DEF SaveForm, EditorInv, EditorTypeOK
<1>4. /\ form' = [x \in FormIds |-> form'[x]] /\ form'[e].at # "shown"
      /\ \A x \in FormIds \ {e} : form'[x] = form[x]
  BY DEF SaveForm, EditorInv, EditorTypeOK, Closed
<1>5. /\ DOMAIN rows = ids
      /\ \A v \in ids :
              /\ rows[v].status \in {"ACTIVE", "INACTIVE"} /\ rows[v].option \in Options \cup {NoOption}
              /\ rows[v].stock \in Nat
  <2>1. ASSUME NEW v \in ids
        PROVE  /\ rows[v].status \in {"ACTIVE", "INACTIVE"} /\ rows[v].option \in Options \cup {NoOption}
               /\ rows[v].stock \in Nat
    <3>1. sent[v].status \in {"ACTIVE", "INACTIVE"} /\ sent[v].option \in Options \cup {NoOption}
      BY <1>2
    <3>2. v \in S => was[v] \in Nat
      BY <1>3
    <3> QED BY <3>1, <3>2
  <2> QED BY <2>1
<1> HIDE DEF rows
<1>6. Write(status, rows, primary, was)
  BY <1>2 DEF rows
<1>7. Cardinality(ids) \in 1 .. MaxRows /\ primary \in ids
  BY <1>1, <1>2
<1>8. /\ \A v \in ids : v \in DOMAIN was \/ v \notin DOMAIN variant
      /\ 1 .. n0 \cup ids = 1 .. n0 + n
      /\ n0 + n \in Nat
  <2>1. \A v \in ids : v \in S \/ v \in n0 + 1 .. n0 + n
    BY <1>3
  <2>2. ASSUME NEW v \in n0 + 1 .. n0 + n PROVE v \in ids
    <3>1. v - n0 \in 1 .. n /\ v = n0 + (v - n0)
      BY <1>3
    <3> QED BY <3>1
  <2> HIDE DEF ids
  <2>3. S \subseteq DOMAIN was /\ S \subseteq 1 .. n0
    BY <1>3
  <2> QED BY <1>3, <2>1, <2>2, <2>3
<1>9. ids \subseteq 1 .. n0 + n
  BY <1>8
<1> HIDE DEF ids, was
<1>10. /\ \A v \in ids :
              /\ variant'[v] \in VariantRows /\ variant'[v].status = rows[v].status
              /\ (variant'[v].primary <=> v = primary)
              /\ variant'[v].option = rows[v].option /\ variant'[v].snapshot = rows[v].option
              /\ ~variant'[v].guessed => variant'[v].stock = variant'[v].shelf
       /\ \A v \in (1 .. n0) \ ids :
              /\ variant'[v] \in VariantRows /\ variant'[v].status = "ARCHIVED"
              /\ variant'[v].option = NoOption
              /\ ~variant'[v].guessed => variant'[v].stock = variant'[v].shelf
  BY <1>3, <1>5, <1>6, <1>8, RowsWritten
<1>11. /\ \A v \in 1 .. n0 + n : variant'[v] \in VariantRows
       /\ \A v \in (1 .. n0 + n) \ ids : v \in (1 .. n0) \ ids
  BY <1>8, <1>10
<1>12. variant' \in [1 .. n0 + n -> VariantRows]
  <2>1. variant' = [v \in DOMAIN variant \cup DOMAIN rows |-> variant'[v]]
    BY <1>6 DEF Write
  <2>2. variant' = [v \in 1 .. n0 + n |-> variant'[v]]
    BY <1>3, <1>5, <1>8, <2>1
  <2> QED BY <1>11, <2>2
<1>13. variant' \in Seq(VariantRows) /\ Len(variant') = n0 + n /\ DOMAIN variant' = 1 .. n0 + n
  BY <1>8, <1>12, LenIsDomain
<1>14. Live' = ids
  BY <1>5, <1>9, <1>10, <1>11, <1>13 DEF Live, Shown
<1>15. /\ Accepted(status, rows, primary)
       /\ product' = [status |-> status, multi |-> Cardinality(ids) > 1]
       /\ status \in {"ACTIVE", "INACTIVE"}
  BY <1>5, <1>6 DEF Write, ProductStatus
<1>16. EditorTypeOK'
  <2>1. product' \in [status : {"none", "ACTIVE", "INACTIVE"}, multi : BOOLEAN]
    BY <1>15
  <2>2. ASSUME NEW x \in FormIds, form'[x].at = "shown"
        PROVE  /\ DOMAIN form'[x].stock \subseteq 1 .. Len(variant')
               /\ form'[x].stock \in [DOMAIN form'[x].stock -> Nat]
    BY <1>3, <1>4, <1>13, <2>2 DEF EditorInv, EditorTypeOK
  <2> QED BY <1>4, <1>13, <2>1, <2>2 DEF EditorTypeOK
<1>17. product'.status = status /\ product'.multi = (Cardinality(ids) > 1) /\ Exists'
  BY <1>15 DEF Exists
<1>18. ShopCanShow'
  <2>1. /\ primary \in Live' /\ variant'[primary].primary /\ \A v \in Live' \ {primary} : ~variant'[v].primary
        /\ product'.status = "ACTIVE" => variant'[primary].status = "ACTIVE"
    BY <1>7, <1>10, <1>14, <1>15, <1>17 DEF Accepted
  <2>2. ASSUME NEW v \in DOMAIN variant'
        PROVE  /\ variant'[v].option # NoOption <=> v \in Live' /\ product'.multi
               /\ v \in Live' => variant'[v].snapshot = variant'[v].option
    <3>1. CASE v \in ids
      <4>1. rows[v].option = NoOption <=> Cardinality(ids) = 1
        BY <1>5, <1>15, <3>1 DEF Accepted
      <4>2. Cardinality(ids) = 1 <=> ~(Cardinality(ids) > 1)
        BY <1>7, EditorAssumption
      <4> QED BY <1>10, <1>14, <1>17, <3>1, <4>1, <4>2
    <3>2. CASE v \notin ids
      BY <1>10, <1>11, <1>13, <1>14, <3>2
    <3> QED BY <3>1, <3>2
  <2> QED BY <1>14, <1>17, <2>1, <2>2 DEF ShopCanShow
<1>19. StockIsOnTheShelf'
  BY <1>10, <1>11, <1>13 DEF StockIsOnTheShelf
<1> QED BY <1>16, <1>17, <1>18, <1>19 DEF EditorInv

LEMMA EditorInitKeeps == ASSUME InitEditor PROVE EditorInv
PROOF
<1>1. PICK p \in Products \cup {NoProduct} :
        /\ product = [status |-> p.status, multi |-> Len(p.variant) > 1]
        /\ variant = p.variant
  BY DEF InitEditor
<1>2. form = [e \in FormIds |-> form[e]] /\ \A e \in FormIds : form[e].at # "shown"
  BY DEF InitEditor, Closed
<1>3. CASE p = NoProduct
  <2>1. /\ product.status = "none" /\ product.multi \in BOOLEAN /\ variant = <<>>
        /\ product \in [status : {"none", "ACTIVE", "INACTIVE"}, multi : BOOLEAN]
    BY <1>1, <1>3 DEF NoProduct
  <2>2. DOMAIN variant = {} /\ variant \in Seq(VariantRows)
    BY <2>1
  <2> QED BY <1>2, <2>1, <2>2 DEF EditorInv, EditorTypeOK, Exists, ShopCanShow, StockIsOnTheShelf
<1>4. CASE p \in Products
  <2> DEFINE Fresh == [status : {"ACTIVE", "INACTIVE"}, primary : BOOLEAN, stock : Nat, shelf : Nat,
                       option : Options \cup {0}, snapshot : Options \cup {0},
                       taken : {0}, guessed : {FALSE}]
  <2>1. ASSUME NEW r \in Fresh PROVE r \in VariantRows
    <3>1. r = [status |-> r.status, primary |-> r.primary, stock |-> r.stock, shelf |-> r.shelf,
               option |-> r.option, snapshot |-> r.snapshot, taken |-> r.taken, guessed |-> r.guessed]
      OBVIOUS
    <3>2. r.status \in {"ACTIVE", "INACTIVE", "ARCHIVED"} /\ r.primary \in BOOLEAN
      OBVIOUS
    <3>3. r.stock \in Nat /\ r.shelf \in Int /\ r.taken \in Nat
      OBVIOUS
    <3>4. r.guessed \in BOOLEAN
      OBVIOUS
    <3>5. r.option \in Options \cup {NoOption} /\ r.snapshot \in Options \cup {NoOption}
      BY DEF NoOption
    <3> HIDE DEF Fresh
    <3> QED BY <3>1, <3>2, <3>3, <3>4, <3>5 DEF VariantRows
  <2>2. \A r \in Fresh : r.status # "ARCHIVED"
    OBVIOUS
  <2>3. /\ p.status \in {"ACTIVE", "INACTIVE"} /\ p.variant \in Seq(Fresh)
        /\ \E v \in DOMAIN p.variant :
            /\ \A w \in DOMAIN p.variant : p.variant[w].primary <=> w = v
            /\ p.status = "ACTIVE" => p.variant[v].status = "ACTIVE"
        /\ \A v \in DOMAIN p.variant :
            /\ p.variant[v].option = 0 <=> Len(p.variant) = 1
            /\ p.variant[v].snapshot = p.variant[v].option
            /\ p.variant[v].shelf = p.variant[v].stock
    BY <1>4, ProductsAssumption
  <2> HIDE DEF Fresh
  <2>4. variant \in Seq(Fresh) /\ DOMAIN variant = 1 .. Len(variant) /\ Len(variant) \in Nat
    BY <1>1, <2>3
  <2>5. variant \in Seq(VariantRows)
    BY <2>1, <2>4
  <2>6. Live = 1 .. Len(variant)
    BY <2>2, <2>4 DEF Live, Shown
  <2>7. Cardinality(Live) = Len(variant)
    BY <2>4, <2>6, FS_Interval
  <2>8. /\ product \in [status : {"none", "ACTIVE", "INACTIVE"}, multi : BOOLEAN]
        /\ product.status = p.status /\ product.multi = (Len(variant) > 1) /\ Exists
    BY <1>1, <2>3 DEF Exists
  <2>9. EditorTypeOK
    BY <1>2, <2>5, <2>8 DEF EditorTypeOK
  <2>10. ShopCanShow
    <3>1. \A v \in DOMAIN variant : variant[v].option # NoOption <=> Len(variant) > 1
      <4>1. ASSUME NEW v \in DOMAIN variant PROVE variant[v].option # NoOption <=> Len(variant) > 1
        <5>1. Len(variant) >= 1
          BY <2>4
        <5>2. variant[v].option = 0 <=> Len(variant) = 1
          BY <1>1, <2>3
        <5> QED BY <2>4, <5>1, <5>2 DEF NoOption
      <4> QED BY <4>1
    <3>2. /\ \E v \in Live :
               /\ variant[v].primary /\ \A w \in Live \ {v} : ~variant[w].primary
               /\ product.status = "ACTIVE" => variant[v].status = "ACTIVE"
          /\ \A v \in DOMAIN variant : variant[v].snapshot = variant[v].option
      BY <1>1, <2>3, <2>4, <2>6, <2>8, SMTT(30)
    <3> QED BY <2>4, <2>6, <2>7, <2>8, <3>1, <3>2 DEF ShopCanShow
  <2>11. StockIsOnTheShelf
    BY <1>1, <2>3 DEF StockIsOnTheShelf
  <2> QED BY <2>8, <2>9, <2>10, <2>11 DEF EditorInv
<1> QED BY <1>1, <1>3, <1>4

LEMMA EditorInvariant == EditorSpec => []EditorInv
PROOF
<1>1. InitEditor => EditorInv
  BY EditorInitKeeps
<1>2. ASSUME EditorInv, [NextEditor]_editorVars PROVE EditorInv'
  <2>1. CASE UNCHANGED editorVars
    <3>1. UNCHANGED <<product, variant, form>>
      BY <2>1 DEF editorVars
    <3> QED BY <1>2, <3>1, UnitsMove DEF EditorInv, EditorTypeOK, StockIsOnTheShelf
  <2> QED BY <1>2, <2>1, FormKeeps, SaveFormKeeps, StatusKeeps, TakeAndReturn DEF NextEditor
<1> QED BY <1>1, <1>2, PTL DEF EditorSpec

\* However many forms are open and however old they are: the shop finds a primary
\* variant to show and to sell, orders keep the option that the pages offer, and
\* the stock is what is on the shelf but where a save overwrote what had moved.
THEOREM ProductStaysInOrder == EditorSpec => []EditorHolds
PROOF
<1>1. EditorInv => EditorHolds
  BY DEF EditorInv, EditorHolds
<1> QED BY <1>1, EditorInvariant, PTL

-----------------------------------------------------------------------------
(* Paths, and what a rename makes of them.                                 *)
-----------------------------------------------------------------------------

\* A path is below that of its parent, or not below at all.
LEMMA PrefixOfAppend ==
    ASSUME NEW s, IsSeq(s), NEW t, IsSeq(t), NEW x
    PROVE  IsStrictPrefix(s, Append(t, x)) <=> s = t \/ IsStrictPrefix(s, t)
PROOF
<1> DEFINE u == Append(t, x)
<1>1. IsSeq(u) /\ Len(u) = Len(t) + 1 /\ \A i \in 1 .. Len(t) : u[i] = t[i]
  BY AppendFacts
<1> HIDE DEF u
<1>2. Len(s) \in Nat /\ Len(t) \in Nat
  BY SeqFacts
<1>3. IsPrefix(s, t) <=> Len(s) <= Len(t) /\ \A i \in 1 .. Len(s) : s[i] = t[i]
  BY PrefixFacts
<1>4. IsPrefix(s, u) <=> Len(s) <= Len(u) /\ \A i \in 1 .. Len(s) : s[i] = u[i]
  BY <1>1, PrefixFacts
<1>5. IsStrictPrefix(s, u) => IsPrefix(s, t)
  <2>1. SUFFICES ASSUME IsPrefix(s, u), s # u PROVE IsPrefix(s, t)
    BY DEF IsStrictPrefix
  <2>2. Len(s) # Len(u)
    BY <1>1, <1>4, <2>1, SameSeq
  <2> QED BY <1>1, <1>2, <1>3, <1>4, <2>1, <2>2
<1>6. IsPrefix(s, t) => IsStrictPrefix(s, u)
  BY <1>1, <1>2, <1>3, <1>4 DEF IsStrictPrefix
<1>7. IsPrefix(t, t)
  BY <1>2, PrefixFacts
<1> QED BY <1>5, <1>6, <1>7 DEF u, IsStrictPrefix

LEMMA PrefixLen ==
    ASSUME NEW s, IsSeq(s), NEW t, IsSeq(t), IsStrictPrefix(s, t)
    PROVE  Len(s) < Len(t)
PROOF
<1>1. Len(s) <= Len(t) /\ \A i \in 1 .. Len(s) : s[i] = t[i]
  BY PrefixFacts DEF IsStrictPrefix
<1>2. Len(s) # Len(t)
  BY <1>1, SameSeq DEF IsStrictPrefix
<1> QED BY <1>1, <1>2, SeqFacts

\* Replacing the front of a path replaces the front of its parent's.
Replaced(s, old, new) == new \o Rest(s, Len(old))

Extends(u, t, x) == u = Append(t, x)

LEMMA ReplaceInAppend ==
    ASSUME NEW new, IsSeq(new), NEW t, IsSeq(t), NEW old, IsSeq(old), Len(old) <= Len(t),
           NEW x, NEW u, Extends(u, t, x)
    PROVE  Replaced(u, old, new) = Append(Replaced(t, old, new), x)
PROOF
<1> DEFINE n == Len(old)
           r == Rest(t, n)
           q == Rest(u, n)
           left == new \o q
           front == new \o r
           right == Append(front, x)
<1>1. IsSeq(u) /\ Len(u) = Len(t) + 1 /\ u[Len(t) + 1] = x /\ \A i \in 1 .. Len(t) : u[i] = t[i]
  BY AppendFacts DEF Extends
<1>2. Len(t) \in Nat /\ Len(new) \in Nat /\ n \in Nat /\ n <= Len(t)
  BY SeqFacts
<1> HIDE DEF n
<1>3. IsSeq(r) /\ Len(r) = Len(t) - n /\ \A i \in 1 .. Len(t) - n : r[i] = t[n + i]
  BY <1>2, RestFacts
<1>4. IsSeq(q) /\ Len(q) = Len(u) - n /\ \A i \in 1 .. Len(u) - n : q[i] = u[n + i]
  <2>1. IsSeq(u) /\ n \in Nat /\ n <= Len(u)
    BY <1>1, <1>2
  <2> QED BY <2>1, RestFacts
<1> HIDE DEF q, r
<1>5. /\ IsSeq(left) /\ Len(left) = Len(new) + Len(q)
      /\ \A i \in 1 .. Len(new) + Len(q) : left[i] = IF i <= Len(new) THEN new[i] ELSE q[i - Len(new)]
  BY <1>4, JoinFacts
<1>6. /\ IsSeq(front) /\ Len(front) = Len(new) + Len(r)
      /\ \A i \in 1 .. Len(new) + Len(r) : front[i] = IF i <= Len(new) THEN new[i] ELSE r[i - Len(new)]
  BY <1>3, JoinFacts
<1> HIDE DEF left, front
<1>7. /\ IsSeq(right) /\ Len(right) = Len(front) + 1 /\ right[Len(front) + 1] = x
      /\ \A i \in 1 .. Len(front) : right[i] = front[i]
  BY <1>6, AppendFacts
<1> HIDE DEF right
<1>8. Len(left) = Len(right)
  BY <1>1, <1>2, <1>3, <1>4, <1>5, <1>6, <1>7
<1>9. ASSUME NEW i \in 1 .. Len(left) PROVE left[i] = right[i]
  <2>1. CASE i <= Len(new)
    <3>1. i \in 1 .. Len(new) + Len(q) /\ i \in 1 .. Len(new) + Len(r)
      BY <1>2, <1>3, <1>4, <1>9, <2>1
    <3>2. left[i] = new[i]
      BY <1>5, <2>1, <3>1
    <3>3. right[i] = front[i] /\ front[i] = new[i]
      BY <1>6, <1>7, <2>1, <3>1
    <3> QED BY <3>2, <3>3
  <2>2. CASE i > Len(new) /\ i <= Len(front)
    <3>1. left[i] = q[i - Len(new)] /\ right[i] = r[i - Len(new)]
      <4>1. i \in 1 .. Len(new) + Len(q) /\ i \in 1 .. Len(new) + Len(r) /\ ~(i <= Len(new))
        BY <1>2, <1>3, <1>4, <1>5, <1>6, <1>9, <2>2
      <4>2. left[i] = q[i - Len(new)]
        BY <1>5, <4>1
      <4>3. right[i] = front[i]
        BY <1>6, <1>7, <4>1
      <4> QED BY <1>6, <4>1, <4>2, <4>3
    <3>2. i - Len(new) \in 1 .. Len(t) - n /\ i - Len(new) \in 1 .. Len(u) - n
      BY <1>1, <1>2, <1>3, <1>6, <2>2
    <3>3. q[i - Len(new)] = u[n + (i - Len(new))] /\ r[i - Len(new)] = t[n + (i - Len(new))]
      BY <1>3, <1>4, <3>2
    <3>4. n + (i - Len(new)) \in 1 .. Len(t)
      BY <1>2, <3>2
    <3> QED BY <1>1, <3>1, <3>3, <3>4
  <2>3. CASE i > Len(front)
    <3>1. i = Len(front) + 1
      BY <1>2, <1>3, <1>6, <1>7, <1>8, <1>9, <2>3, SMTT(30)
    <3>2. left[i] = q[Len(t) - n + 1]
      BY <1>1, <1>2, <1>3, <1>4, <1>5, <1>6, <1>9, <3>1
    <3>3. q[Len(t) - n + 1] = u[n + (Len(t) - n + 1)]
      <4>1. Len(t) - n + 1 \in 1 .. Len(u) - n
        BY <1>1, <1>2
      <4> QED BY <1>4, <4>1
    <3>4. n + (Len(t) - n + 1) = Len(t) + 1
      BY <1>2
    <3> QED BY <1>1, <1>7, <3>1, <3>2, <3>3, <3>4
  <2> QED BY <1>2, <1>3, <1>5, <1>6, <1>9, <2>1, <2>2, <2>3
<1> QED BY <1>5, <1>7, <1>8, <1>9, SameSeq DEF left, front, right, q, r, n, Replaced

LEMMA NothingLeft ==
    ASSUME NEW new, IsSeq(new), NEW t, IsSeq(t)
    PROVE  Replaced(t, t, new) = new
PROOF
<1> DEFINE q == Rest(t, Len(t))
<1>1. Len(t) \in Nat /\ Len(new) \in Nat
  BY SeqFacts
<1>2. IsSeq(q) /\ Len(q) = 0
  BY <1>1, RestFacts
<1> HIDE DEF q
<1>3. /\ IsSeq(new \o q) /\ Len(new \o q) = Len(new)
      /\ \A i \in 1 .. Len(new) : (new \o q)[i] = new[i]
  BY <1>1, <1>2, JoinFacts
<1> QED BY <1>1, <1>3, SameSeq DEF q, Replaced
-----------------------------------------------------------------------------
(* The tree of categories.                                                 *)
-----------------------------------------------------------------------------

\* What is at or above a category, and the paths of a parent.
Above(t, c) == ToSet(t[c].idPath)
IdsAt(t, p) == IF p = Root THEN <<>> ELSE t[p].idPath
SlugsAt(t, p) == IF p = Root THEN <<>> ELSE t[p].slugPath

IsRow(t, c) ==
    /\ t[c] = [parent |-> t[c].parent, slug |-> t[c].slug, status |-> t[c].status, stamp |-> t[c].stamp,
               idPath |-> t[c].idPath, slugPath |-> t[c].slugPath]
    /\ t[c].parent \in DOMAIN t \cup {Root}
    /\ IsSeq(t[c].idPath) /\ Len(t[c].idPath) <= MaxDepth
    /\ t[c].idPath = Append(IdsAt(t, t[c].parent), c)
    /\ IsSeq(t[c].slugPath) /\ t[c].slugPath # <<>>

\* What is above a category is a chain, and everything in it but the category
\* itself has a child there.
Lineage(t, c) ==
    /\ c \in Above(t, c) /\ Above(t, c) \subseteq DOMAIN t
    /\ \A x \in Above(t, c) : Above(t, x) \subseteq Above(t, c)
    /\ \A x, y \in Above(t, c) : x \in Above(t, y) \/ y \in Above(t, x)
    /\ \A x \in Above(t, c) \ {c} :
        /\ \E k \in Above(t, c) : t[k].parent = x
        /\ Len(t[x].idPath) < Len(t[c].idPath)

IsTree(t) ==
    /\ DOMAIN t \subseteq Categories
    /\ \A c \in DOMAIN t : IsRow(t, c) /\ Lineage(t, c)
    /\ \A c, d \in DOMAIN t : t[c].slugPath = t[d].slugPath => c = d

\* A request with other values in the fields that its steps write.
WithFields(ask, at, slug, old, path, rows, met) ==
    [at |-> at, id |-> ask.id, parent |-> ask.parent, base |-> ask.base, status |-> ask.status, retry |-> ask.retry,
     stamp |-> ask.stamp, slug |-> slug, old |-> old, path |-> path, rows |-> rows, met |-> met]

\* A request goes by rows that have been there, and holds those it has written
\* or hangs a row below.
EditHolds(t, g, ask) ==
    /\ ask = WithFields(ask, ask.at, ask.slug, ask.old, ask.path, ask.rows, ask.met)
    /\ ask.at \in {"begin", "read", "inserted", "written", "matched"}
    /\ ask.id \in g \cup {Root} /\ ask.parent \in g \cup {Root}
    /\ ask.id \in DOMAIN t => ask.parent = t[ask.id].parent
    /\ ask.at = "inserted" => ask.id = Root /\ ask.parent \in DOMAIN t \cup {Root}
    /\ ask.at \in {"written", "matched"} => ask.id \in DOMAIN t
    /\ ask.at \in {"read", "inserted"} /\ ask.id = Root /\ ask.parent \in DOMAIN t =>
            Len(t[ask.parent].idPath) < MaxDepth

\* An edit at or above c has committed since the request read.
CrossedAt(t, ask, c) == ask.met \cap Above(t, c) # {}

\* What a rename has read and found is still true where it has met no edit.
PathsHold(t, ask) ==
    ask.id # Root /\ ask.at \in {"read", "written", "matched"} =>
    /\ IsSeq(ask.old) /\ ask.old # <<>>
    /\ ask.id \in DOMAIN t => t[ask.id].slugPath = ask.old \/ CrossedAt(t, ask, ask.id)
    /\ ask.at = "matched" =>
        /\ IsSeq(ask.path) /\ ask.path # <<>>
        /\ ask.path = Append(SlugsAt(t, ask.parent), ask.slug) \/ CrossedAt(t, ask, ask.id)
        /\ \A c \in DOMAIN t \ ({ask.id} \cup ask.rows) : IsStrictPrefix(ask.old, t[c].slugPath) => CrossedAt(t, ask, c)

RowsAgree(t, X) == \A c \in DOMAIN t \ X : t[c].slugPath = Append(SlugsAt(t, t[c].parent), t[c].slug)

TreeInv ==
    /\ IsTree(category)
    /\ Ids \subseteq given /\ given \subseteq Categories
    /\ edit = [e \in Editors |-> edit[e]]
    /\ \A e \in Editors :
        edit[e] # Idle => EditHolds(category, given, edit[e]) /\ PathsHold(category, edit[e])
    /\ RowsAgree(category, torn)

-----------------------------------------------------------------------------

\* The parent is above, and what is above it.
LEMMA ParentAbove ==
    ASSUME NEW t, IsTree(t), NEW c \in DOMAIN t, t[c].parent # Root
    PROVE  /\ t[c].parent \in DOMAIN t /\ t[c].parent # c
           /\ Above(t, c) = Above(t, t[c].parent) \cup {c}
           /\ t[c].parent \in Above(t, c)
           /\ Above(t, t[c].parent) \subseteq Above(t, c)
PROOF
<1> DEFINE p == t[c].parent
<1>1. p \in DOMAIN t /\ IsRow(t, c) /\ IsRow(t, p) /\ Lineage(t, p)
  BY DEF IsTree, IsRow
<1>2. IsSeq(t[p].idPath) /\ t[c].idPath = Append(t[p].idPath, c)
  BY <1>1 DEF IsRow, IdsAt
<1>3. Len(t[c].idPath) = Len(t[p].idPath) + 1 /\ ToSet(t[c].idPath) = ToSet(t[p].idPath) \cup {c} /\ Len(t[p].idPath) \in Nat
  BY <1>2, AppendFacts, SeqFacts
<1>4. p # c
  BY <1>3
<1>5. p \in Above(t, p)
  BY <1>1 DEF Lineage
<1> QED BY <1>1, <1>3, <1>4, <1>5 DEF Above

LEMMA RootAbove ==
    ASSUME NEW t, NEW c, t[c].idPath = Append(IdsAt(t, t[c].parent), c), t[c].parent = Root
    PROVE  Above(t, c) = {c}
PROOF BY NoSeq, NothingIn, AppendFacts DEF Above, IdsAt

\* A row below one with a lineage has one.
LEMMA RowLineage ==
    ASSUME NEW t, NEW c \in DOMAIN t, \A d \in DOMAIN t : IsRow(t, d),
           t[c].parent # Root => Lineage(t, t[c].parent)
    PROVE  Lineage(t, c)
PROOF
<1> DEFINE p == t[c].parent
<1>1. IsRow(t, c) /\ p \in DOMAIN t \cup {Root} /\ t[c].idPath = Append(IdsAt(t, p), c)
  BY DEF IsRow
<1>2. CASE p = Root
  <2>1. Above(t, c) = {c}
    BY <1>1, <1>2, RootAbove
  <2> QED BY <2>1 DEF Lineage
<1>3. CASE p # Root
  <2>1. p \in DOMAIN t /\ IsRow(t, p) /\ Lineage(t, p)
    BY <1>1, <1>3
  <2>2. IsSeq(t[p].idPath) /\ t[c].idPath = Append(t[p].idPath, c)
    BY <1>1, <1>3, <2>1 DEF IsRow, IdsAt
  <2>3. Len(t[c].idPath) = Len(t[p].idPath) + 1 /\ Above(t, c) = Above(t, p) \cup {c}
    BY <2>2, AppendFacts DEF Above
  <2>4. \A x \in DOMAIN t : Len(t[x].idPath) \in Nat
    BY SeqFacts DEF IsRow
  <2>5. p \in Above(t, p) /\ Above(t, p) \subseteq DOMAIN t
    BY <2>1 DEF Lineage
  <2>6. \A x \in Above(t, c) : Above(t, x) \subseteq Above(t, c)
    BY <2>1, <2>3 DEF Lineage
  <2>7. \A x, y \in Above(t, c) : x \in Above(t, y) \/ y \in Above(t, x)
    BY <2>1, <2>3 DEF Lineage
  <2>8. ASSUME NEW x \in Above(t, c) \ {c}
        PROVE  (\E k \in Above(t, c) : t[k].parent = x) /\ Len(t[x].idPath) < Len(t[c].idPath)
    <3>1. x \in Above(t, p) /\ x \in DOMAIN t /\ p \in DOMAIN t
      BY <2>3, <2>5
    <3>2. CASE x = p
      BY <2>3, <2>4, <3>1, <3>2
    <3>3. CASE x # p
      <4>1. (\E k \in Above(t, p) : t[k].parent = x) /\ Len(t[x].idPath) < Len(t[p].idPath)
        BY <2>1, <3>1, <3>3 DEF Lineage
      <4> QED BY <2>3, <2>4, <3>1, <4>1
    <3> QED BY <3>2, <3>3
  <2> QED BY <2>3, <2>5, <2>6, <2>7, <2>8 DEF Lineage
<1> QED BY <1>2, <1>3

\* The trees to begin with.
LEMMA GrownTree ==
    ASSUME NEW t, Grown(t), CategoryAssumption
    PROVE  IsTree(t) /\ RowsAgree(t, {})
PROOF
<1> DEFINE above(c) == IF t[c].parent = Root THEN [idPath |-> <<>>, slugPath |-> <<>>] ELSE t[t[c].parent]
<1>1. ASSUME NEW c \in DOMAIN t
      PROVE  /\ t[c].parent \in DOMAIN t \cup {Root}
             /\ t[c].idPath \in Seq(Categories) /\ Len(t[c].idPath) <= MaxDepth /\ t[c].slugPath \in Seq(Bases \X Nat)
             /\ t[c] = [parent |-> t[c].parent, slug |-> t[c].slug, status |-> t[c].status, stamp |-> t[c].stamp,
                        idPath |-> Append(above(c).idPath, c), slugPath |-> Append(above(c).slugPath, t[c].slug)]
  BY <1>1 DEF Grown
<1>2. ASSUME NEW c \in DOMAIN t
      PROVE  t[c].idPath = Append(above(c).idPath, c) /\ t[c].slugPath = Append(above(c).slugPath, t[c].slug)
  <2> DEFINE i == Append(above(c).idPath, c)
             s == Append(above(c).slugPath, t[c].slug)
  <2> HIDE DEF i, s
  <2>1. t[c] = [parent |-> t[c].parent, slug |-> t[c].slug, status |-> t[c].status, stamp |-> t[c].stamp,
                idPath |-> i, slugPath |-> s]
    BY <1>1 DEF i, s
  <2>2. t[c].idPath = i /\ t[c].slugPath = s
    BY <2>1
  <2> QED BY <2>2 DEF i, s
<1>3. ASSUME NEW c \in DOMAIN t
      PROVE  above(c).idPath = IdsAt(t, t[c].parent) /\ above(c).slugPath = SlugsAt(t, t[c].parent)
  BY DEF IdsAt, SlugsAt
<1> HIDE DEF above
<1>4. ASSUME NEW c \in DOMAIN t PROVE IsRow(t, c)
  <2>1. IsSeq(t[c].idPath) /\ IsSeq(t[c].slugPath)
    BY <1>1, SeqOfAny
  <2>2. IsSeq(above(c).slugPath)
    BY <1>1, <1>3, NoSeq, SeqOfAny DEF SlugsAt
  <2>3. t[c].slugPath # <<>>
    BY <1>2, <2>2, AppendFacts
  <2>4. t[c] = [parent |-> t[c].parent, slug |-> t[c].slug, status |-> t[c].status, stamp |-> t[c].stamp,
                idPath |-> t[c].idPath, slugPath |-> t[c].slugPath]
    BY <1>1, <1>2
  <2> QED BY <1>1, <1>2, <1>3, <2>1, <2>3, <2>4 DEF IsRow
<1> DEFINE Q(n) == \A c \in DOMAIN t : Len(t[c].idPath) <= n => Lineage(t, c)
<1>5. ASSUME NEW c \in DOMAIN t, t[c].parent # Root
      PROVE  t[c].parent \in DOMAIN t /\ Len(t[c].idPath) = Len(t[t[c].parent].idPath) + 1
  BY <1>4, <1>5, AppendFacts DEF IsRow, IdsAt
<1>6. \A c \in DOMAIN t : Len(t[c].idPath) \in Nat /\ Len(t[c].idPath) <= 3 /\ Len(t[c].idPath) # 0
  <2>1. ASSUME NEW c \in DOMAIN t PROVE IsSeq(IdsAt(t, t[c].parent))
    BY <1>4, NoSeq DEF IsRow, IdsAt
  <2> QED BY <1>4, <2>1, SeqFacts, AppendFacts DEF IsRow, MaxDepth
<1>7. Q(0)
  BY <1>6
<1>8. ASSUME NEW n \in Nat, Q(n) PROVE Q(n + 1)
  <2>1. ASSUME NEW c \in DOMAIN t, Len(t[c].idPath) <= n + 1 PROVE Lineage(t, c)
    <3>1. t[c].parent # Root => Lineage(t, t[c].parent)
      BY <1>5, <1>6, <1>8, <2>1
    <3> QED BY <1>4, <3>1, RowLineage
  <2> QED BY <2>1
<1>9. Q(1) /\ Q(2) /\ Q(3)
  <2> HIDE DEF Q
  <2>1. Q(0 + 1)
    BY <1>7, <1>8
  <2>2. Q(1 + 1)
    BY <1>8, <2>1
  <2>3. Q(2 + 1)
    BY <1>8, <2>2
  <2> QED BY <2>1, <2>2, <2>3
<1>10. IsTree(t)
  BY <1>4, <1>6, <1>9 DEF IsTree, Grown
<1>11. RowsAgree(t, {})
  BY <1>2, <1>3 DEF RowsAgree
<1> QED BY <1>10, <1>11

LEMMA TreeInit ==
    ASSUME InitTree PROVE TreeInv
PROOF
<1>1. Grown(category) /\ given = Ids /\ edit = [e \in Editors |-> Idle] /\ torn = {}
  BY TreesAssumption DEF InitTree
<1>2. IsTree(category) /\ RowsAgree(category, torn)
  BY <1>1, GrownTree, CategoryAssumption
<1>3. \A e \in Editors : edit[e] = Idle
  BY <1>1
<1> QED BY <1>1, <1>2, <1>3 DEF TreeInv, Grown, Ids

LEMMA TreeHolds ==
    ASSUME TreeInv PROVE TreeInOrder
PROOF
<1> SUFFICES ASSUME NEW c \in Ids
             PROVE  /\ category[c].parent \in Ids \cup {Root}
                    /\ Len(category[c].idPath) <= MaxDepth
                    /\ category[c].idPath =
                          Append(IF category[c].parent = Root THEN <<>> ELSE category[category[c].parent].idPath, c)
                    /\ \A d \in Links(c) : Page(category[d].slugPath) = {d}
                    /\ c \notin torn => category[c].slugPath = Append(PathOf(category[c].parent), category[c].slug)
  BY DEF TreeInOrder
<1>1. IsRow(category, c)
  BY DEF TreeInv, IsTree, Ids
<1>2. \A d \in Links(c) : Page(category[d].slugPath) = {d}
  BY DEF TreeInv, IsTree, Links, Page, Children, Ids
<1>3. c \notin torn => category[c].slugPath = Append(PathOf(category[c].parent), category[c].slug)
  BY DEF TreeInv, RowsAgree, SlugsAt, PathOf, Ids
<1> QED BY <1>1, <1>2, <1>3 DEF IsRow, IdsAt, Ids

-----------------------------------------------------------------------------

\* What the steps of a request make of it.
LEMMA EditExcept ==
    ASSUME NEW ask, ask = WithFields(ask, ask.at, ask.slug, ask.old, ask.path, ask.rows, ask.met), NEW x
    PROVE  /\ [ask EXCEPT !.at = x] = WithFields(ask, x, ask.slug, ask.old, ask.path, ask.rows, ask.met)
           /\ [ask EXCEPT !.met = x] = WithFields(ask, ask.at, ask.slug, ask.old, ask.path, ask.rows, x)
PROOF BY DEF WithFields

LEMMA EditMatches ==
    ASSUME NEW ask, ask = WithFields(ask, ask.at, ask.slug, ask.old, ask.path, ask.rows, ask.met),
           NEW at, NEW path, NEW rows
    PROVE  [ask EXCEPT !.at = at, !.path = path, !.rows = rows] =
               WithFields(ask, at, ask.slug, ask.old, path, rows, ask.met)
PROOF
<1> DEFINE a == [ask EXCEPT !.at = at]
           b == [a EXCEPT !.path = path]
           c == [b EXCEPT !.rows = rows]
<1>1. [ask EXCEPT !.at = at, !.path = path, !.rows = rows] = c
  BY DEF a, b, c
<1>2. a = WithFields(ask, at, ask.slug, ask.old, ask.path, ask.rows, ask.met)
  BY DEF WithFields
<1> HIDE DEF a
<1>3. b = WithFields(ask, at, ask.slug, ask.old, path, ask.rows, ask.met)
  BY <1>2 DEF WithFields
<1> HIDE DEF b
<1>4. c = WithFields(ask, at, ask.slug, ask.old, path, rows, ask.met)
  BY <1>3 DEF WithFields
<1> HIDE DEF c
<1> QED BY <1>1, <1>4

\* Steps of one request that leave the rows alone.
LEMMA OneEdits ==
    ASSUME TreeInv, UNCHANGED <<category, given, torn>>, NEW e \in Editors, NEW r,
           edit' = [edit EXCEPT ![e] = r],
           r # Idle => EditHolds(category, given, r) /\ PathsHold(category, r)
    PROVE  TreeInv'
PROOF
<1>1. edit = [f \in Editors |-> edit[f]]
  BY DEF TreeInv
<1>2. edit' = [f \in Editors |-> edit'[f]] /\ \A f \in Editors : edit'[f] = IF f = e THEN r ELSE edit[f]
  <2> DEFINE E == [f \in Editors |-> edit[f]]
  <2>1. [E EXCEPT ![e] = r] = [f \in Editors |-> IF f = e THEN r ELSE edit[f]]
    OBVIOUS
  <2> QED BY <1>1, <2>1
<1>3. ASSUME NEW f \in Editors, edit'[f] # Idle
      PROVE  EditHolds(category, given, edit'[f]) /\ PathsHold(category, edit'[f])
  BY <1>2, <1>3 DEF TreeInv
<1>4. IsTree(category) /\ Ids \subseteq given /\ given \subseteq Categories /\ RowsAgree(category, torn)
  BY DEF TreeInv
<1>5. Ids' = Ids
  BY DEF Ids
<1> QED BY <1>2, <1>3, <1>4, <1>5 DEF TreeInv

\* What an edit that is not idle has.
LEMMA EditFacts ==
    ASSUME TreeInv, NEW e \in Editors, edit[e].at # "idle"
    PROVE  EditHolds(category, given, edit[e]) /\ PathsHold(category, edit[e])
PROOF
<1>1. edit[e] # Idle
  BY DEF Idle
<1> QED BY <1>1 DEF TreeInv

LEMMA AskStep ==
    ASSUME TreeInv, NEW e \in Editors, Ask(e), CategoryAssumption PROVE TreeInv'
PROOF
<1>1. PICK base \in Bases, status \in Statuses, id \in Ids \cup {Root}, parent \in Ids \cup {Root} :
        /\ id # Root => parent = category[id].parent
        /\ edit' = [edit EXCEPT ![e] = Asked(id, parent, base, status, TRUE)]
  BY DEF Ask
<1> DEFINE r == Asked(id, parent, base, status, TRUE)
<1>2. Ids \subseteq given /\ given \subseteq Categories
  BY DEF TreeInv
<1>3. 0 \notin given
  BY <1>2 DEF CategoryAssumption
<1>4. EditHolds(category, given, r)
  BY <1>1, <1>2, <1>3 DEF EditHolds, WithFields, Asked, Ids, Root
<1>5. PathsHold(category, r)
  BY DEF PathsHold, Asked
<1> QED BY <1>1, <1>4, <1>5, OneEdits DEF Ask

LEMMA RollBackStep ==
    ASSUME TreeInv, NEW e \in Editors, RollBack(e), CategoryAssumption PROVE TreeInv'
PROOF
<1> DEFINE ask == edit[e]
           r == Asked(ask.id, ask.parent, ask.base, ask.status, FALSE)
           s == IF ask.retry THEN r ELSE Idle
<1>1. Conflict(ask) /\ edit' = [edit EXCEPT ![e] = s] /\ UNCHANGED <<category, given, torn>>
  BY DEF RollBack
<1>2. ask.at # "idle"
  BY <1>1 DEF Conflict
<1>3. EditHolds(category, given, ask)
  BY <1>2, EditFacts
<1>4. EditHolds(category, given, r)
  BY <1>3 DEF EditHolds, WithFields, Asked
<1>5. PathsHold(category, r)
  BY DEF PathsHold, Asked
<1> HIDE DEF r
<1>6. s # Idle => EditHolds(category, given, s) /\ PathsHold(category, s)
  BY <1>4, <1>5
<1> HIDE DEF s
<1> QED BY <1>1, <1>6, OneEdits

LEMMA GiveUpStep ==
    ASSUME TreeInv, NEW e \in Editors, Refuse(e) \/ Fail(e) PROVE TreeInv'
PROOF
<1>1. edit' = [edit EXCEPT ![e] = Idle] /\ UNCHANGED <<category, given, torn>>
  BY DEF Refuse, Fail
<1> QED BY <1>1, OneEdits

LEMMA ReadStep ==
    ASSUME TreeInv, NEW e \in Editors, Read(e) PROVE TreeInv'
PROOF
<1> DEFINE ask == edit[e]
           slug == FreeSlug(ask.parent, ask.base, ask.id)
           old == PathOf(ask.id)
           none == {}
           a == [ask EXCEPT !.at = "read"]
           u == [a EXCEPT !.met = none]
           v == [u EXCEPT !.old = old]
           r == [v EXCEPT !.slug = slug]
<1>1. /\ ask.at = "begin"
      /\ IF ask.id = Root THEN DepthAccepted(ask.parent) ELSE ask.id \in Ids
      /\ UNCHANGED <<category, given, torn>>
  BY DEF Read
<1>2. edit' = [edit EXCEPT ![e] = r]
  BY DEF Read, a, u, v, r
<1>3. EditHolds(category, given, ask)
  BY <1>1, EditFacts
<1>9. old = PathOf(ask.id) /\ none = {}
  OBVIOUS
<1> HIDE DEF ask, slug, old, none
<1>4. r = WithFields(ask, "read", slug, old, ask.path, ask.rows, none)
  <2>1. ask = WithFields(ask, ask.at, ask.slug, ask.old, ask.path, ask.rows, ask.met)
    BY <1>3 DEF EditHolds
  <2>2. a = WithFields(ask, "read", ask.slug, ask.old, ask.path, ask.rows, ask.met)
    BY <2>1, EditExcept
  <2> HIDE DEF a
  <2>3. u = WithFields(ask, "read", ask.slug, ask.old, ask.path, ask.rows, none)
    BY <2>2 DEF WithFields
  <2> HIDE DEF u
  <2>4. v = WithFields(ask, "read", ask.slug, old, ask.path, ask.rows, none)
    BY <2>3 DEF WithFields
  <2> HIDE DEF v
  <2> QED BY <2>4 DEF WithFields
<1> HIDE DEF r
<1>5. r.at = "read" /\ r.id = ask.id /\ r.parent = ask.parent /\ r.old = PathOf(ask.id) /\ r.met = {}
  BY <1>4, <1>9 DEF WithFields
<1>6. r = WithFields(r, r.at, r.slug, r.old, r.path, r.rows, r.met)
  BY <1>4 DEF WithFields
<1>7. EditHolds(category, given, r)
  BY <1>1, <1>3, <1>5, <1>6 DEF EditHolds, DepthAccepted, Ids
<1>8. PathsHold(category, r)
  <2>1. SUFFICES ASSUME r.id # Root
                 PROVE  IsSeq(r.old) /\ r.old # <<>> /\ (r.id \in DOMAIN category => category[r.id].slugPath = r.old)
    BY <1>5 DEF PathsHold
  <2>2. r.id \in Ids /\ r.old = category[r.id].slugPath
    BY <1>1, <1>5, <2>1 DEF PathOf
  <2>3. IsRow(category, r.id)
    BY <2>2 DEF TreeInv, IsTree, Ids
  <2> QED BY <2>2, <2>3 DEF IsRow
<1> QED BY <1>1, <1>2, <1>7, <1>8, OneEdits

LEMMA InsertStep ==
    ASSUME TreeInv, NEW e \in Editors, Insert(e) PROVE TreeInv'
PROOF
<1> DEFINE ask == edit[e]
           r == [ask EXCEPT !.at = "inserted"]
<1>1. ask.at = "read" /\ ask.id = Root /\ ask.parent \in Ids \cup {Root} /\ UNCHANGED <<category, given, torn>>
  BY DEF Insert
<1>2. edit' = [edit EXCEPT ![e] = r]
  BY DEF Insert
<1>3. EditHolds(category, given, ask)
  BY <1>1, EditFacts
<1> HIDE DEF ask
<1>4. r = WithFields(ask, "inserted", ask.slug, ask.old, ask.path, ask.rows, ask.met)
  BY <1>3, EditExcept DEF EditHolds
<1> HIDE DEF r
<1>5. EditHolds(category, given, r)
  BY <1>1, <1>3, <1>4 DEF EditHolds, WithFields, Ids
<1>6. PathsHold(category, r)
  BY <1>1, <1>4 DEF PathsHold, WithFields
<1> QED BY <1>1, <1>2, <1>5, <1>6, OneEdits

LEMMA WriteSlugStep ==
    ASSUME TreeInv, NEW e \in Editors, WriteSlug(e) PROVE TreeInv'
PROOF
<1> DEFINE ask == edit[e]
           r == [ask EXCEPT !.at = "written"]
<1>1. ask.at = "read" /\ ask.id \in Ids /\ UNCHANGED <<category, given, torn>>
  BY DEF WriteSlug
<1>2. edit' = [edit EXCEPT ![e] = r]
  BY DEF WriteSlug
<1>3. EditHolds(category, given, ask) /\ PathsHold(category, ask)
  BY <1>1, EditFacts
<1> HIDE DEF ask
<1>4. r = WithFields(ask, "written", ask.slug, ask.old, ask.path, ask.rows, ask.met)
  BY <1>3, EditExcept DEF EditHolds
<1> HIDE DEF r
<1>5. EditHolds(category, given, r)
  BY <1>1, <1>3, <1>4 DEF EditHolds, WithFields, Ids
<1>6. r.at = "written" /\ r.id = ask.id /\ r.old = ask.old /\ r.met = ask.met
  BY <1>4 DEF WithFields
<1>7. PathsHold(category, r)
  BY <1>1, <1>3, <1>6 DEF PathsHold, CrossedAt
<1> QED BY <1>1, <1>2, <1>5, <1>7, OneEdits

LEMMA MatchStep ==
    ASSUME TreeInv, NEW e \in Editors, Match(e), CategoryAssumption PROVE TreeInv'
PROOF
<1> DEFINE ask == edit[e]
           path == Append(PathOf(ask.parent), ask.slug)
           rows == SubtreeRows(ask)
           r == [ask EXCEPT !.at = "matched", !.path = path, !.rows = rows]
<1>1. ask.at = "written" /\ UNCHANGED <<category, given, torn>>
  BY DEF Match
<1>2. edit' = [edit EXCEPT ![e] = r]
  BY DEF Match
<1>3. EditHolds(category, given, ask) /\ PathsHold(category, ask)
  BY <1>1, EditFacts
<1>4. rows = {c \in Ids \ {ask.id} : IsStrictPrefix(ask.old, category[c].slugPath)}
  BY DEF SubtreeRows
<1> HIDE DEF ask, rows
<1>5. ask.id \in Ids /\ ask.parent = category[ask.id].parent
  BY <1>1, <1>3 DEF EditHolds, Ids
<1>6. ask.id # Root
  BY <1>5 DEF TreeInv, IsTree, Ids, CategoryAssumption, Root
<1>7. IsSeq(path) /\ path # <<>> /\ path = Append(SlugsAt(category, ask.parent), ask.slug)
  <2>1. IsRow(category, ask.id)
    BY <1>5 DEF TreeInv, IsTree, Ids
  <2>2. ask.parent # Root => IsRow(category, ask.parent)
    BY <1>5, <2>1 DEF TreeInv, IsTree, Ids, IsRow
  <2>3. IsSeq(PathOf(ask.parent))
    BY <2>2, NoSeq DEF PathOf, IsRow
  <2> QED BY <2>3, AppendFacts DEF PathOf, SlugsAt
<1> HIDE DEF path
<1>8. r = WithFields(ask, "matched", ask.slug, ask.old, path, rows, ask.met)
  <2>1. ask = WithFields(ask, ask.at, ask.slug, ask.old, ask.path, ask.rows, ask.met)
    BY <1>3 DEF EditHolds
  <2> QED BY <2>1, EditMatches
<1> HIDE DEF r
<1>9. EditHolds(category, given, r)
  BY <1>1, <1>3, <1>5, <1>6, <1>8 DEF EditHolds, WithFields, Ids
<1>10. /\ r.at = "matched" /\ r.id = ask.id /\ r.old = ask.old /\ r.met = ask.met /\ r.path = path /\ r.rows = rows
       /\ r.parent = ask.parent /\ r.slug = ask.slug
  BY <1>8 DEF WithFields
<1>11. PathsHold(category, r)
  <2>1. /\ IsSeq(ask.old) /\ ask.old # <<>>
        /\ ask.id \in DOMAIN category => category[ask.id].slugPath = ask.old \/ CrossedAt(category, ask, ask.id)
    BY <1>1, <1>3, <1>6 DEF PathsHold
  <2>2. CrossedAt(category, r, ask.id) <=> CrossedAt(category, ask, ask.id)
    BY <1>10 DEF CrossedAt
  <2>3. \A c \in DOMAIN category \ ({r.id} \cup r.rows) : ~IsStrictPrefix(r.old, category[c].slugPath)
    BY <1>4, <1>10 DEF Ids
  <2> QED BY <1>7, <1>10, <2>1, <2>2, <2>3 DEF PathsHold
<1> QED BY <1>1, <1>2, <1>9, <1>11, OneEdits

-----------------------------------------------------------------------------
(* The steps that change the rows, and the requests that they overtake.    *)

\* The rows keep their place, and those away from the categories C their paths.
MovedOnly(t, u, C) ==
    /\ \A c \in DOMAIN t \cap DOMAIN u : u[c].idPath = t[c].idPath /\ u[c].parent = t[c].parent
    /\ \A c \in DOMAIN u : C \cap Above(u, c) = {} => c \in DOMAIN t /\ u[c].slugPath = t[c].slugPath

Meets(ask, new, C) ==
    new = WithFields(ask, ask.at, ask.slug, ask.old, ask.path, ask.rows, ask.met \cup C)

\* A request that is overtaken by an edit of the categories C.
LEMMA EditSurvives ==
    ASSUME NEW t, NEW u, NEW g, NEW h, NEW C, NEW ask, NEW new,
           IsTree(t), IsTree(u), Root \notin DOMAIN u, g \subseteq h, g \cap DOMAIN u \subseteq DOMAIN t,
           MovedOnly(t, u, C), Meets(ask, new, C),
           EditHolds(t, g, ask), PathsHold(t, ask),
           ask.at \in {"written", "matched"} => ask.id \in DOMAIN u,
           ask.at = "inserted" => ask.parent \in DOMAIN u \cup {Root}
    PROVE  EditHolds(u, h, new) /\ PathsHold(u, new)
PROOF
<1>1. /\ new.at = ask.at /\ new.id = ask.id /\ new.parent = ask.parent /\ new.slug = ask.slug /\ new.old = ask.old
      /\ new.path = ask.path /\ new.rows = ask.rows /\ new.met = ask.met \cup C
  BY DEF Meets, WithFields
<1>2. new = WithFields(new, new.at, new.slug, new.old, new.path, new.rows, new.met)
  BY DEF Meets, WithFields
<1>3. EditHolds(u, h, new)
  <2>1. ask.id \in g \cup {Root} /\ ask.parent \in g \cup {Root}
    BY DEF EditHolds
  <2>2. ask.id \in DOMAIN u => ask.id \in DOMAIN t /\ ask.parent = u[ask.id].parent
    BY <2>1 DEF EditHolds, MovedOnly
  <2>3. ask.parent \in DOMAIN u => ask.parent \in DOMAIN t /\ u[ask.parent].idPath = t[ask.parent].idPath
    BY <2>1 DEF MovedOnly
  <2> QED BY <1>1, <1>2, <2>1, <2>2, <2>3 DEF EditHolds
<1>4. ASSUME NEW c \in DOMAIN u, c \in DOMAIN t, CrossedAt(t, ask, c) PROVE CrossedAt(u, new, c)
  BY <1>1, <1>4 DEF CrossedAt, Above, MovedOnly
<1>5. ASSUME NEW c \in DOMAIN u, ~CrossedAt(u, new, c)
      PROVE  c \in DOMAIN t /\ u[c].slugPath = t[c].slugPath /\ ~CrossedAt(t, ask, c)
  <2>1. C \cap Above(u, c) = {}
    BY <1>1, <1>5 DEF CrossedAt
  <2> QED BY <1>4, <1>5, <2>1 DEF MovedOnly
<1>6. ASSUME ask.id # Root, ask.at \in {"read", "written", "matched"}
      PROVE  /\ IsSeq(new.old) /\ new.old # <<>>
             /\ new.id \in DOMAIN u => u[new.id].slugPath = new.old \/ CrossedAt(u, new, new.id)
  <2>1. /\ IsSeq(ask.old) /\ ask.old # <<>>
        /\ ask.id \in DOMAIN t => t[ask.id].slugPath = ask.old \/ CrossedAt(t, ask, ask.id)
    BY <1>6 DEF PathsHold
  <2> QED BY <1>1, <1>5, <2>1
<1>7. ASSUME ask.id # Root, ask.at = "matched"
      PROVE  /\ IsSeq(new.path) /\ new.path # <<>>
             /\ new.path = Append(SlugsAt(u, new.parent), new.slug) \/ CrossedAt(u, new, new.id)
             /\ \A c \in DOMAIN u \ ({new.id} \cup new.rows) :
                    IsStrictPrefix(new.old, u[c].slugPath) => CrossedAt(u, new, c)
  <2>1. /\ IsSeq(ask.path) /\ ask.path # <<>>
        /\ ask.path = Append(SlugsAt(t, ask.parent), ask.slug) \/ CrossedAt(t, ask, ask.id)
        /\ \A c \in DOMAIN t \ ({ask.id} \cup ask.rows) : IsStrictPrefix(ask.old, t[c].slugPath) => CrossedAt(t, ask, c)
    BY <1>7 DEF PathsHold
  <2>2. \A c \in DOMAIN u \ ({new.id} \cup new.rows) : IsStrictPrefix(new.old, u[c].slugPath) => CrossedAt(u, new, c)
    BY <1>1, <1>5, <2>1
  <2>3. ASSUME ~CrossedAt(u, new, ask.id) PROVE ask.path = Append(SlugsAt(u, ask.parent), ask.slug)
    <3>1. ask.id \in DOMAIN u /\ ask.id \in DOMAIN t /\ ask.parent = t[ask.id].parent /\ ask.parent = u[ask.id].parent
      BY <1>5, <1>7, <2>3 DEF EditHolds, MovedOnly
    <3>2. ask.path = Append(SlugsAt(t, ask.parent), ask.slug)
      BY <1>5, <2>1, <2>3, <3>1
    <3>3. CASE ask.parent = Root
      BY <3>2, <3>3 DEF SlugsAt
    <3>4. CASE ask.parent # Root
      <4>1. ask.parent \in DOMAIN u /\ Above(u, ask.parent) \subseteq Above(u, ask.id)
        BY <3>1, <3>4, ParentAbove
      <4>2. ~CrossedAt(u, new, ask.parent)
        BY <2>3, <4>1 DEF CrossedAt
      <4>3. u[ask.parent].slugPath = t[ask.parent].slugPath
        BY <1>5, <4>1, <4>2
      <4> QED BY <3>2, <3>4, <4>3 DEF SlugsAt
    <3> QED BY <3>3, <3>4
  <2> QED BY <1>1, <2>1, <2>2, <2>3
<1>8. PathsHold(u, new)
  BY <1>1, <1>6, <1>7 DEF PathsHold
<1> QED BY <1>3, <1>8

\* What a commit leaves of the requests.
LEMMA DoneEdits ==
    ASSUME TreeInv, NEW e \in Editors, NEW C, edit' = Done(C, e)
    PROVE  /\ edit' = [f \in Editors |-> edit'[f]] /\ edit'[e] = Idle
           /\ \A f \in Editors \ {e} :
                edit'[f] = IF edit[f].at = "idle" THEN edit[f]
                           ELSE WithFields(edit[f], edit[f].at, edit[f].slug, edit[f].old, edit[f].path, edit[f].rows,
                                           edit[f].met \cup C)
PROOF
<1> DEFINE met(f) == IF f # e /\ edit[f].at # "idle" THEN [edit[f] EXCEPT !.met = edit[f].met \cup C] ELSE edit[f]
           M == [f \in Editors |-> met(f)]
<1>1. edit' = [M EXCEPT ![e] = Idle]
  BY DEF Done, Met
<1> HIDE DEF met
<1>2. edit' = [f \in Editors |-> edit'[f]] /\ \A f \in Editors : edit'[f] = IF f = e THEN Idle ELSE met(f)
  BY <1>1
<1>3. ASSUME NEW f \in Editors \ {e}, edit[f].at # "idle"
      PROVE  met(f) = WithFields(edit[f], edit[f].at, edit[f].slug, edit[f].old, edit[f].path, edit[f].rows,
                                 edit[f].met \cup C)
  <2>1. edit[f] = WithFields(edit[f], edit[f].at, edit[f].slug, edit[f].old, edit[f].path, edit[f].rows, edit[f].met)
    BY <1>3, EditFacts DEF EditHolds
  <2> DEFINE x == edit[f].met \cup C
  <2>2. met(f) = [edit[f] EXCEPT !.met = x]
    BY <1>3 DEF met
  <2> HIDE DEF x
  <2>3. met(f) = WithFields(edit[f], edit[f].at, edit[f].slug, edit[f].old, edit[f].path, edit[f].rows, x)
    BY <2>1, <2>2, EditExcept
  <2> QED BY <2>3 DEF x
<1>4. ASSUME NEW f \in Editors \ {e}, edit[f].at = "idle" PROVE met(f) = edit[f]
  BY <1>4 DEF met
<1> QED BY <1>2, <1>3, <1>4

\* Rows whose slugs alone change are a tree as before.
LEMMA SameShape ==
    ASSUME NEW t, NEW u, IsTree(t), DOMAIN u = DOMAIN t,
           \A c \in DOMAIN t :
            /\ u[c] = [parent |-> t[c].parent, slug |-> u[c].slug, status |-> u[c].status, stamp |-> u[c].stamp,
                       idPath |-> t[c].idPath, slugPath |-> u[c].slugPath]
            /\ IsSeq(u[c].slugPath) /\ u[c].slugPath # <<>>,
           \A c, d \in DOMAIN t : u[c].slugPath = u[d].slugPath => c = d
    PROVE  IsTree(u) /\ \A c \in DOMAIN t : u[c].idPath = t[c].idPath /\ u[c].parent = t[c].parent
PROOF
<1>1. \A c \in DOMAIN t : u[c].idPath = t[c].idPath /\ u[c].parent = t[c].parent
  OBVIOUS
<1>2. \A c \in DOMAIN t : Above(u, c) = Above(t, c) /\ IsRow(t, c) /\ Lineage(t, c)
  BY <1>1 DEF Above, IsTree
<1>3. ASSUME NEW c \in DOMAIN t PROVE IsRow(u, c)
  <2>1. u[c] = [parent |-> u[c].parent, slug |-> u[c].slug, status |-> u[c].status, stamp |-> u[c].stamp,
                idPath |-> u[c].idPath, slugPath |-> u[c].slugPath]
    BY <1>1
  <2>2. /\ t[c].parent \in DOMAIN t \cup {Root}
        /\ IsSeq(t[c].idPath) /\ Len(t[c].idPath) <= MaxDepth
        /\ t[c].idPath = Append(IdsAt(t, t[c].parent), c)
    BY <1>2 DEF IsRow
  <2>3. IdsAt(u, t[c].parent) = IdsAt(t, t[c].parent)
    BY <1>1, <2>2 DEF IdsAt
  <2> QED BY <1>1, <2>1, <2>2, <2>3 DEF IsRow
<1>4. ASSUME NEW c \in DOMAIN t PROVE Lineage(u, c)
  <2>1. Above(t, c) \subseteq DOMAIN t
    BY <1>2 DEF Lineage
  <2> QED BY <1>1, <1>2, <2>1 DEF Lineage
<1> QED BY <1>1, <1>3, <1>4 DEF IsTree

\* Below the row of a rename, and away from what crossed it, a request's path
\* is right in the end if its parent's was in the beginning.
LEMMA RenamedPaths ==
    ASSUME TreeInv, NEW e \in Editors, CommitRename(e), CategoryAssumption,
           NEW c \in Ids, c \notin torn', category'[c].parent = category[c].parent,
           category'[c].slug = IF c = edit[e].id THEN edit[e].slug ELSE category[c].slug,
           \A d \in Ids :
                category'[d].slugPath = IF d = edit[e].id THEN edit[e].path ELSE Rewritten(edit[e], d)
    PROVE  category'[c].slugPath = Append(SlugsAt(category', category'[c].parent), category'[c].slug)
PROOF
<1> DEFINE ask == edit[e]
           p == category[c].parent
<1>1. ask.at = "matched" /\ torn' = torn \cup Crossing(ask)
  BY DEF CommitRename
<1>2. EditHolds(category, given, ask) /\ PathsHold(category, ask)
  BY <1>1, EditFacts
<1>3. ask.id \in Ids /\ ask.parent = category[ask.id].parent
  BY <1>1, <1>2 DEF EditHolds, Ids
<1>4. Root \notin Ids
  BY DEF TreeInv, IsTree, Ids, CategoryAssumption, Root
<1>5. /\ IsSeq(ask.old) /\ ask.old # <<>> /\ IsSeq(ask.path) /\ ask.path # <<>>
      /\ category[ask.id].slugPath = ask.old \/ CrossedAt(category, ask, ask.id)
      /\ ask.path = Append(SlugsAt(category, ask.parent), ask.slug) \/ CrossedAt(category, ask, ask.id)
      /\ \A d \in Ids \ ({ask.id} \cup ask.rows) :
            IsStrictPrefix(ask.old, category[d].slugPath) => CrossedAt(category, ask, d)
  BY <1>1, <1>2, <1>3, <1>4 DEF PathsHold, Ids
<1>6. /\ IsTree(category) /\ \A d \in Ids : IsRow(category, d) /\ Lineage(category, d)
      /\ \A d, k \in Ids : category[d].slugPath = category[k].slugPath => d = k
  BY DEF TreeInv, IsTree, Ids
<1>7. p \in Ids \cup {Root}
  BY <1>6 DEF IsRow, Ids
<1>8. p # Root =>
        /\ p \in Ids /\ p # c /\ Above(category, c) = Above(category, p) \cup {c}
        /\ p \in Above(category, c) /\ Above(category, p) \subseteq Above(category, c)
  BY <1>6, ParentAbove DEF Ids
<1>9. c \notin torn /\ category[c].slugPath = Append(SlugsAt(category, p), category[c].slug)
  <2>1. c \notin torn
    BY <1>1
  <2> QED BY <2>1 DEF TreeInv, RowsAgree, Ids
<1> DEFINE own == {ask.id} \cup Strangers(ask)
           met == ask.met \cap Ids
           Crosses(S, R) == {d \in S : \E k \in R : d \in Below(k) \/ k \in Below(d)}
<1>10. \A d \in Strangers(ask) \cup Crosses(own, met) \cup Crosses(met, own) : c \notin Below(d)
  BY <1>1 DEF Crossing
<1>11. \A d, k \in Ids : d \in Below(k) <=> k \in Above(category, d)
  BY DEF Below, Above
<1>12. ASSUME NEW d \in Strangers(ask) PROVE d \in Ids /\ d \notin Above(category, c)
  BY <1>10, <1>11 DEF Strangers
<1>13. ASSUME ask.id \in Above(category, c), NEW d \in Above(category, c) PROVE ~CrossedAt(category, ask, d)
  <2>1. SUFFICES ASSUME NEW k \in ask.met \cap Above(category, d) PROVE FALSE
    BY DEF CrossedAt
  <2>2. k \in Above(category, c) /\ k \in Ids
    BY <1>6, <1>13, <2>1 DEF Lineage, Ids
  <2>3. ask.id \in Above(category, k) \/ k \in Above(category, ask.id)
    BY <1>6, <1>13, <2>2 DEF Lineage
  <2>4. ask.id \in Crosses(own, met)
    BY <1>3, <1>11, <2>1, <2>2, <2>3
  <2> QED BY <1>3, <1>10, <1>11, <1>13, <2>4
<1> HIDE DEF own, met, Crosses
\* A row above c that is not below the rename's is left alone.
<1>14. ASSUME NEW d \in Above(category, c) \cap Ids, ask.id \notin Above(category, d)
       PROVE  d # ask.id /\ category'[d].slugPath = category[d].slugPath
  <2>1. d \notin Strangers(ask)
    BY <1>12, <1>14
  <2>2. ~StillMatches(ask, d)
    BY <1>3, <1>11, <1>14, <2>1 DEF Strangers
  <2>3. d # ask.id
    BY <1>3, <1>6, <1>14 DEF Lineage
  <2> QED BY <1>14, <2>2, <2>3 DEF Rewritten
<1>15. c \in Above(category, c)
  BY <1>6 DEF Lineage
<1>16. CASE ask.id \notin Above(category, c)
  <2>1. c # ask.id /\ category'[c].slugPath = category[c].slugPath
    BY <1>14, <1>15, <1>16
  <2>2. CASE p = Root
    BY <1>9, <2>1, <2>2 DEF SlugsAt
  <2>3. CASE p # Root
    <3>1. category'[p].slugPath = category[p].slugPath
      BY <1>8, <1>14, <1>16, <2>3
    <3> QED BY <1>9, <2>1, <2>3, <3>1 DEF SlugsAt
  <2> QED BY <2>2, <2>3
<1>17. CASE c = ask.id
  <2>1. ~CrossedAt(category, ask, c)
    BY <1>13, <1>15, <1>17
  <2>2. category'[c].slugPath = Append(SlugsAt(category, p), ask.slug) /\ category'[c].slug = ask.slug
    BY <1>3, <1>5, <1>17, <2>1
  <2>3. CASE p = Root
    BY <2>2, <2>3 DEF SlugsAt
  <2>4. CASE p # Root
    <3>1. ask.id \notin Above(category, p)
      <4>1. SUFFICES ASSUME c \in Above(category, p) PROVE FALSE
        BY <1>17
      <4>2. Len(category[c].idPath) < Len(category[p].idPath)
        BY <1>6, <1>8, <2>4, <4>1 DEF Lineage
      <4>3. Len(category[p].idPath) < Len(category[c].idPath)
        BY <1>6, <1>8, <2>4 DEF Lineage
      <4>4. Len(category[p].idPath) \in Nat /\ Len(category[c].idPath) \in Nat
        BY <1>6, <1>8, <2>4, SeqFacts DEF IsRow
      <4> QED BY <4>2, <4>3, <4>4
    <3>2. category'[p].slugPath = category[p].slugPath
      BY <1>8, <1>14, <2>4, <3>1
    <3> QED BY <2>2, <2>4, <3>2 DEF SlugsAt
  <2> QED BY <2>3, <2>4
<1>18. CASE ask.id \in Above(category, c) /\ c # ask.id
  <2>1. p \in Ids /\ p # Root /\ ask.id \in Above(category, p)
    <3>1. p # Root
      <4>1. category[c].idPath = Append(IdsAt(category, p), c)
        BY <1>6 DEF IsRow
      <4> QED BY <1>18, <4>1, RootAbove
    <3> QED BY <1>8, <1>18, <3>1
  <2>2. category[ask.id].slugPath = ask.old
    BY <1>5, <1>13, <1>18
  <2> DEFINE s == category[p].slugPath
             x == category[c].slug
             t == category[c].slugPath
  <2>3. IsSeq(s) /\ IsSeq(t) /\ t = Append(s, x) /\ category'[c].slug = x
    BY <1>6, <1>9, <1>18, <2>1 DEF IsRow, SlugsAt
  <2>4. category'[c].slugPath = Rewritten(ask, c) /\ SlugsAt(category', p) = category'[p].slugPath
    BY <1>18, <2>1 DEF SlugsAt
  <2>5. IsStrictPrefix(ask.old, t) <=> ask.old = s \/ IsStrictPrefix(ask.old, s)
    BY <1>5, <2>3, PrefixOfAppend
  <2>6. ~CrossedAt(category, ask, c) /\ ~CrossedAt(category, ask, p)
    BY <1>8, <1>13, <1>15, <1>18, <2>1
  <2>7. IsStrictPrefix(ask.old, t) <=> StillMatches(ask, c)
    BY <1>5, <1>18, <2>6 DEF StillMatches
  <2>11. IsSeq(s) /\ Extends(t, s, x)
    BY <2>3 DEF Extends
  <2>8. CASE ask.old = s
    <3>1. p = ask.id
      BY <1>3, <1>6, <2>1, <2>2, <2>8
    <3>2. category'[p].slugPath = ask.path
      BY <2>1, <3>1
    <3>3. Rewritten(ask, c) = Replaced(t, s, ask.path)
      BY <2>5, <2>7, <2>8 DEF Rewritten, Replaced, Rest
    <3>4. Len(s) \in Nat
      BY <2>3, SeqFacts
    <3>5. Replaced(t, s, ask.path) = Append(Replaced(s, s, ask.path), x)
      BY <1>5, <2>11, <3>4, ReplaceInAppend, SMTT(30)
    <3>6. Replaced(s, s, ask.path) = ask.path
      BY <1>5, <2>3, NothingLeft
    <3> QED BY <2>3, <2>4, <3>2, <3>3, <3>5, <3>6
  <2>9. CASE IsStrictPrefix(ask.old, s)
    <3>1. p # ask.id
      BY <2>2, <2>9 DEF IsStrictPrefix
    <3>2. StillMatches(ask, p)
      BY <1>5, <2>1, <2>6, <2>9, <3>1 DEF StillMatches
    <3>3. category'[p].slugPath = Replaced(s, ask.old, ask.path)
      BY <2>1, <3>1, <3>2 DEF Rewritten, Replaced, Rest
    <3>4. Rewritten(ask, c) = Replaced(t, ask.old, ask.path)
      BY <2>5, <2>7, <2>9 DEF Rewritten, Replaced, Rest
    <3>5. Len(ask.old) <= Len(s)
      BY <1>5, <2>3, <2>9, PrefixLen, SeqFacts, SMTT(30)
    <3>6. Replaced(t, ask.old, ask.path) = Append(Replaced(s, ask.old, ask.path), x)
      BY <1>5, <2>11, <3>5, ReplaceInAppend
    <3> QED BY <2>3, <2>4, <3>3, <3>4, <3>6
  <2>10. CASE ask.old # s /\ ~IsStrictPrefix(ask.old, s)
    <3>1. p # ask.id
      BY <2>2, <2>10
    <3>2. ~StillMatches(ask, p) /\ ~StillMatches(ask, c)
      BY <2>5, <2>7, <2>10 DEF StillMatches
    <3>3. category'[p].slugPath = s /\ Rewritten(ask, c) = t
      BY <2>1, <3>1, <3>2 DEF Rewritten
    <3> QED BY <2>3, <2>4, <3>3
  <2> QED BY <2>8, <2>9, <2>10
<1> QED BY <1>16, <1>17, <1>18

LEMMA CommitRenameStep ==
    ASSUME TreeInv, NEW e \in Editors, CommitRename(e), CategoryAssumption PROVE TreeInv'
PROOF
<1> DEFINE ask == edit[e]
           C == {ask.id} \cup Strangers(ask)
           row(c) == IF c = ask.id
                     THEN [category[c] EXCEPT !.slug = ask.slug, !.slugPath = ask.path, !.status = ask.status,
                                              !.stamp = ask.stamp]
                     ELSE [category[c] EXCEPT !.slugPath = Rewritten(ask, c),
                                              !.stamp = IF StillMatches(ask, c) THEN ask.stamp ELSE category[c].stamp]
<1>1. /\ ask.at = "matched" /\ given' = given /\ edit' = Done(C, e)
      /\ \A c, d \in Ids : category'[c].slugPath = category'[d].slugPath => c = d
  BY DEF CommitRename
<1>2. category' = [c \in Ids |-> row(c)]
  BY DEF CommitRename
<1>3. EditHolds(category, given, ask) /\ PathsHold(category, ask)
  BY <1>1, EditFacts
<1>4. IsTree(category) /\ \A c \in Ids : IsRow(category, c) /\ Lineage(category, c)
  BY DEF TreeInv, IsTree, Ids
<1>5. Ids' = Ids /\ DOMAIN category' = Ids /\ \A c \in Ids : category'[c] = row(c)
  BY <1>2 DEF Ids
<1> HIDE DEF C
<1>6. ASSUME NEW c \in Ids
      PROVE  /\ category'[c] = [parent |-> category[c].parent, slug |-> category'[c].slug,
                                status |-> category'[c].status, stamp |-> category'[c].stamp,
                                idPath |-> category[c].idPath, slugPath |-> category'[c].slugPath]
             /\ category'[c].parent = category[c].parent
             /\ category'[c].slug = (IF c = ask.id THEN ask.slug ELSE category[c].slug)
             /\ category'[c].slugPath = (IF c = ask.id THEN ask.path ELSE Rewritten(ask, c))
  <2> DEFINE q == Rewritten(ask, c)
             m == IF StillMatches(ask, c) THEN ask.stamp ELSE category[c].stamp
             k == category[c]
             a == [k EXCEPT !.slugPath = q]
             b == [a EXCEPT !.stamp = m]
             u == [k EXCEPT !.slug = ask.slug]
             v == [u EXCEPT !.slugPath = ask.path]
             w == [v EXCEPT !.status = ask.status]
             z == [w EXCEPT !.stamp = ask.stamp]
  <2>1. category'[c] = IF c = ask.id THEN z ELSE b
    BY <1>5 DEF z, w, v, u, b, a
  <2>2. k = [parent |-> k.parent, slug |-> k.slug, status |-> k.status, stamp |-> k.stamp,
             idPath |-> k.idPath, slugPath |-> k.slugPath]
    BY <1>4 DEF IsRow
  <2> HIDE DEF ask, q, m, k
  <2>3. b = [parent |-> k.parent, slug |-> k.slug, status |-> k.status, stamp |-> m,
             idPath |-> k.idPath, slugPath |-> q]
    <3>1. a = [parent |-> k.parent, slug |-> k.slug, status |-> k.status, stamp |-> k.stamp,
               idPath |-> k.idPath, slugPath |-> q]
      BY <2>2
    <3> HIDE DEF a
    <3> QED BY <3>1
  <2>4. z = [parent |-> k.parent, slug |-> ask.slug, status |-> ask.status, stamp |-> ask.stamp,
             idPath |-> k.idPath, slugPath |-> ask.path]
    <3>1. u = [parent |-> k.parent, slug |-> ask.slug, status |-> k.status, stamp |-> k.stamp,
               idPath |-> k.idPath, slugPath |-> k.slugPath]
      BY <2>2
    <3> HIDE DEF u
    <3>2. v = [parent |-> k.parent, slug |-> ask.slug, status |-> k.status, stamp |-> k.stamp,
               idPath |-> k.idPath, slugPath |-> ask.path]
      BY <3>1
    <3> HIDE DEF v
    <3>3. w = [parent |-> k.parent, slug |-> ask.slug, status |-> ask.status, stamp |-> k.stamp,
               idPath |-> k.idPath, slugPath |-> ask.path]
      BY <3>2
    <3> HIDE DEF w
    <3> QED BY <3>3
  <2> HIDE DEF z, b
  <2> QED BY <2>1, <2>3, <2>4 DEF k, q
<1> HIDE DEF row
<1>7. \A c \in Ids : category'[c].parent = category[c].parent
  BY <1>6
<1>8. ask.id \in Ids /\ Root \notin Ids
  BY <1>1, <1>3 DEF EditHolds, TreeInv, IsTree, Ids, CategoryAssumption, Root
<1>9. IsSeq(ask.path) /\ ask.path # <<>> /\ IsSeq(ask.old)
  BY <1>1, <1>3, <1>8 DEF PathsHold
<1>10. ASSUME NEW c \in Ids PROVE IsSeq(category'[c].slugPath) /\ category'[c].slugPath # <<>>
  <2>1. IsSeq(category[c].slugPath) /\ category[c].slugPath # <<>>
    BY <1>4 DEF IsRow
  <2>2. StillMatches(ask, c) => IsSeq(Rewritten(ask, c)) /\ Rewritten(ask, c) # <<>>
    <3>1. SUFFICES ASSUME StillMatches(ask, c) PROVE IsSeq(Rewritten(ask, c)) /\ Rewritten(ask, c) # <<>>
      OBVIOUS
    <3>2. Len(ask.old) \in Nat /\ Len(ask.old) <= Len(category[c].slugPath)
      BY <1>9, <2>1, <3>1, PrefixLen, SeqFacts DEF StillMatches
    <3> DEFINE r == Rest(category[c].slugPath, Len(ask.old))
    <3>3. IsSeq(r)
      BY <2>1, <3>2, RestFacts
    <3>4. Rewritten(ask, c) = ask.path \o r
      BY <3>1 DEF Rewritten, Rest
    <3> HIDE DEF r
    <3> QED BY <1>9, <3>3, <3>4, JoinFacts
  <2>3. ~StillMatches(ask, c) => Rewritten(ask, c) = category[c].slugPath
    BY DEF Rewritten
  <2> QED BY <1>6, <1>9, <2>1, <2>2, <2>3
<1>11. IsTree(category') /\ \A c \in Ids : category'[c].idPath = category[c].idPath
  BY <1>1, <1>4, <1>5, <1>6, <1>10, SameShape DEF Ids
<1>12. RowsAgree(category', torn')
  BY <1>5, <1>6, <1>7, RenamedPaths DEF RowsAgree
<1>13. ASSUME NEW c \in Ids, C \cap Above(category', c) = {}
       PROVE  category'[c].slugPath = category[c].slugPath
  <2>1. Above(category', c) = Above(category, c) /\ c \in Above(category, c)
    BY <1>4, <1>11 DEF Above, Lineage
  <2>2. c # ask.id /\ c \notin Strangers(ask) /\ c \notin Below(ask.id)
    BY <1>8, <1>13, <2>1 DEF C, Below, Above
  <2>3. ~StillMatches(ask, c)
    BY <2>2 DEF Strangers
  <2> QED BY <1>6, <2>2, <2>3 DEF Rewritten
<1>14. /\ edit' = [f \in Editors |-> edit'[f]] /\ edit'[e] = Idle
       /\ \A f \in Editors \ {e} :
            edit'[f] = IF edit[f].at = "idle" THEN edit[f]
                       ELSE WithFields(edit[f], edit[f].at, edit[f].slug, edit[f].old, edit[f].path, edit[f].rows,
                                       edit[f].met \cup C)
  BY <1>1, DoneEdits
<1>15. ASSUME NEW f \in Editors, edit'[f] # Idle
       PROVE  EditHolds(category', given', edit'[f]) /\ PathsHold(category', edit'[f])
  <2>1. f # e
    BY <1>14, <1>15
  <2>2. edit[f].at # "idle"
    <3>1. SUFFICES ASSUME edit[f].at = "idle" PROVE FALSE
      OBVIOUS
    <3>2. edit[f] # Idle
      BY <1>14, <1>15, <2>1, <3>1
    <3> QED BY <3>1, <3>2 DEF TreeInv, EditHolds
  <2>3. EditHolds(category, given, edit[f]) /\ PathsHold(category, edit[f])
    BY <2>2, EditFacts
  <2>4. edit'[f] = WithFields(edit[f], edit[f].at, edit[f].slug, edit[f].old, edit[f].path, edit[f].rows,
                              edit[f].met \cup C)
    BY <1>14, <2>1, <2>2
  <2>5. /\ edit[f].at \in {"written", "matched"} => edit[f].id \in Ids
        /\ edit[f].at = "inserted" => edit[f].parent \in Ids \cup {Root}
    BY <2>3 DEF EditHolds, Ids
  <2>6. EditHolds(category', given, edit'[f]) /\ PathsHold(category', edit'[f])
    <3> DEFINE u == category'
               new == edit'[f]
    <3>1. DOMAIN u = DOMAIN category /\ IsTree(u) /\ Root \notin DOMAIN u
      BY <1>5, <1>8, <1>11 DEF Ids
    <3>2. /\ \A c \in DOMAIN category \cap DOMAIN u : u[c].idPath = category[c].idPath /\ u[c].parent = category[c].parent
          /\ \A c \in DOMAIN u : C \cap Above(u, c) = {} => c \in DOMAIN category /\ u[c].slugPath = category[c].slugPath
      BY <1>7, <1>11, <1>13, <3>1 DEF Ids
    <3>3. /\ edit[f].at \in {"written", "matched"} => edit[f].id \in DOMAIN u
          /\ edit[f].at = "inserted" => edit[f].parent \in DOMAIN u \cup {Root}
      BY <2>5, <3>1 DEF Ids
    <3> HIDE DEF u, new
    <3>4. new = WithFields(edit[f], edit[f].at, edit[f].slug, edit[f].old, edit[f].path, edit[f].rows,
                           edit[f].met \cup C)
      BY <2>4 DEF new
    <3> DEFINE was == edit[f]
    <3>5. /\ IsTree(category) /\ given \subseteq given /\ given \cap DOMAIN u \subseteq DOMAIN category
          /\ EditHolds(category, given, was) /\ PathsHold(category, was)
          /\ new = WithFields(was, was.at, was.slug, was.old, was.path, was.rows, was.met \cup C)
          /\ was.at \in {"written", "matched"} => was.id \in DOMAIN u
          /\ was.at = "inserted" => was.parent \in DOMAIN u \cup {Root}
      BY <1>4, <2>3, <3>1, <3>3, <3>4
    <3> HIDE DEF was
    <3>7. MovedOnly(category, u, C) /\ Meets(was, new, C)
      BY <3>2, <3>5 DEF MovedOnly, Meets
    <3>6. EditHolds(u, given, new) /\ PathsHold(u, new)
      BY <3>1, <3>5, <3>7, EditSurvives
    <3> QED BY <3>6 DEF u, new
  <2> QED BY <1>1, <2>6
<1>16. Ids \subseteq given /\ given \subseteq Categories
  BY DEF TreeInv
<1> QED BY <1>1, <1>5, <1>11, <1>12, <1>14, <1>15, <1>16 DEF TreeInv

LEMMA CommitCreateStep ==
    ASSUME TreeInv, NEW e \in Editors, CommitCreate(e), CategoryAssumption PROVE TreeInv'
PROOF
<1> DEFINE ask == edit[e]
           path == Append(PathOf(ask.parent), ask.slug)
           row(id) == [parent |-> ask.parent, slug |-> ask.slug, status |-> ask.status, stamp |-> ask.stamp,
                       idPath |-> Append(IF ask.parent = Root THEN <<>> ELSE category[ask.parent].idPath, id),
                       slugPath |-> path]
<1>1. PICK id \in Categories \ given :
        /\ \A c \in Categories \ given : id <= c
        /\ ~PathTaken(path, id)
        /\ category' = [c \in Ids \cup {id} |-> IF c # id THEN category[c] ELSE row(id)]
        /\ given' = given \cup {id}
        /\ edit' = Done({id}, e)
  BY DEF CommitCreate
<1>2. ask.at = "inserted" /\ torn' = torn
  BY DEF CommitCreate
<1>3. EditHolds(category, given, ask)
  BY <1>2, EditFacts
<1>4. IsTree(category) /\ \A c \in Ids : IsRow(category, c) /\ Lineage(category, c)
  BY DEF TreeInv, IsTree, Ids
<1>5. Ids \subseteq given /\ given \subseteq Categories /\ id \notin given /\ id \in Categories
  BY <1>1 DEF TreeInv
<1>6. Root \notin given /\ id # Root
  BY <1>5 DEF CategoryAssumption, Root
<1> DEFINE u == category'
           p == ask.parent
<1>7. DOMAIN u = Ids \cup {id} /\ (\A c \in Ids : u[c] = category[c]) /\ u[id] = row(id)
  BY <1>1, <1>5
<1>8. p \in Ids \cup {Root} /\ p # id /\ (p # Root => Len(category[p].idPath) < MaxDepth)
  BY <1>2, <1>3, <1>5, <1>6 DEF EditHolds, Ids
<1>9. ~\E c \in Ids : category[c].slugPath = path
  BY <1>1, <1>5 DEF PathTaken
<1>10. path = Append(SlugsAt(category, p), ask.slug) /\ IsSeq(path) /\ path # <<>>
  <2>1. IsSeq(PathOf(p))
    BY <1>4, <1>8, NoSeq DEF PathOf, IsRow
  <2> QED BY <2>1, AppendFacts DEF PathOf, SlugsAt
<1> DEFINE ids == Append(IdsAt(category, p), id)
<1>11. IsSeq(ids) /\ Len(ids) <= MaxDepth
  <2>1. IsSeq(IdsAt(category, p)) /\ Len(IdsAt(category, p)) < MaxDepth
    <3>1. CASE p = Root
      BY <3>1, NoSeq, SeqFacts DEF IdsAt, MaxDepth
    <3>2. CASE p # Root
      BY <1>4, <1>8, <3>2 DEF IdsAt, IsRow
    <3> QED BY <3>1, <3>2
  <2>2. Len(IdsAt(category, p)) \in Nat
    BY <2>1, SeqFacts
  <2> QED BY <2>1, <2>2, AppendFacts DEF MaxDepth
<1>12. u[id].parent = p /\ u[id].slug = ask.slug /\ u[id].idPath = ids /\ u[id].slugPath = path
  <2>1. row(id).idPath = ids
    BY DEF IdsAt
  <2>2. row(id).parent = p /\ row(id).slug = ask.slug /\ row(id).slugPath = path
    OBVIOUS
  <2> HIDE DEF row, ids
  <2> QED BY <1>7, <2>1, <2>2
<1>13. u[id] = [parent |-> u[id].parent, slug |-> u[id].slug, status |-> u[id].status, stamp |-> u[id].stamp,
                idPath |-> u[id].idPath, slugPath |-> u[id].slugPath]
  BY <1>7
<1> HIDE DEF row, path, ids, u
<1>14. IdsAt(u, p) = IdsAt(category, p) /\ SlugsAt(u, p) = SlugsAt(category, p)
  BY <1>7, <1>8 DEF IdsAt, SlugsAt
<1>15. ASSUME NEW c \in DOMAIN u PROVE IsRow(u, c)
  <2>1. CASE c = id
    <3>1. u[c].idPath = Append(IdsAt(u, p), c)
      BY <1>12, <1>14, <2>1 DEF ids
    <3> QED BY <1>7, <1>8, <1>10, <1>11, <1>12, <1>13, <2>1, <3>1 DEF IsRow
  <2>2. CASE c # id
    <3>1. c \in Ids /\ u[c] = category[c] /\ IsRow(category, c)
      BY <1>4, <1>7, <2>2
    <3>2. category[c].parent \in Ids \cup {Root}
      BY <3>1 DEF IsRow, Ids
    <3>3. IdsAt(u, category[c].parent) = IdsAt(category, category[c].parent)
      BY <1>7, <3>2 DEF IdsAt
    <3> QED BY <1>7, <3>1, <3>2, <3>3 DEF IsRow
  <2> QED BY <2>1, <2>2
<1>16. \A c \in Ids : Above(u, c) = Above(category, c) /\ Above(category, c) \subseteq Ids
  BY <1>4, <1>7 DEF Above, Lineage, Ids
<1>17. ASSUME NEW c \in Ids PROVE Lineage(u, c)
  BY <1>4, <1>7, <1>16, <1>17 DEF Lineage
<1>18. Lineage(u, id)
  <2>1. u[id].parent # Root => Lineage(u, u[id].parent)
    BY <1>8, <1>12, <1>17
  <2> QED BY <1>7, <1>15, <2>1, RowLineage
<1>19. ASSUME NEW c \in DOMAIN u, NEW d \in DOMAIN u, u[c].slugPath = u[d].slugPath PROVE c = d
  <2>1. \A x, y \in Ids : category[x].slugPath = category[y].slugPath => x = y
    BY DEF TreeInv, IsTree, Ids
  <2> QED BY <1>7, <1>9, <1>12, <1>19, <2>1
<1>20. IsTree(u)
  BY <1>5, <1>7, <1>15, <1>17, <1>18, <1>19 DEF IsTree
<1>21. RowsAgree(u, torn)
  <2>1. SUFFICES ASSUME NEW c \in DOMAIN u \ torn PROVE u[c].slugPath = Append(SlugsAt(u, u[c].parent), u[c].slug)
    BY DEF RowsAgree
  <2>2. CASE c = id
    BY <1>10, <1>12, <1>14, <2>2
  <2>3. CASE c # id
    <3>1. c \in Ids /\ u[c] = category[c] /\ category[c].parent \in Ids \cup {Root}
      BY <1>4, <1>7, <2>3 DEF IsRow, Ids
    <3>2. category[c].slugPath = Append(SlugsAt(category, category[c].parent), category[c].slug)
      BY <2>1, <3>1 DEF TreeInv, RowsAgree, Ids
    <3>3. SlugsAt(u, category[c].parent) = SlugsAt(category, category[c].parent)
      BY <1>7, <3>1 DEF SlugsAt
    <3> QED BY <3>1, <3>2, <3>3
  <2> QED BY <2>2, <2>3
<1> DEFINE C == {id}
<1>22. id \in Above(u, id)
  BY <1>18 DEF Lineage
<1>23. MovedOnly(category, u, C)
  BY <1>7, <1>22 DEF MovedOnly, Ids
<1>24. /\ edit' = [f \in Editors |-> edit'[f]] /\ edit'[e] = Idle
       /\ \A f \in Editors \ {e} :
            edit'[f] = IF edit[f].at = "idle" THEN edit[f]
                       ELSE WithFields(edit[f], edit[f].at, edit[f].slug, edit[f].old, edit[f].path, edit[f].rows,
                                       edit[f].met \cup C)
  BY <1>1, DoneEdits
<1> HIDE DEF C
<1>25. ASSUME NEW f \in Editors, edit'[f] # Idle
       PROVE  EditHolds(u, given', edit'[f]) /\ PathsHold(u, edit'[f])
  <2>1. f # e
    BY <1>24, <1>25
  <2>2. edit[f].at # "idle"
    <3>1. SUFFICES ASSUME edit[f].at = "idle" PROVE FALSE
      OBVIOUS
    <3>2. edit[f] # Idle
      BY <1>24, <1>25, <2>1, <3>1
    <3> QED BY <3>1, <3>2 DEF TreeInv, EditHolds
  <2>3. EditHolds(category, given, edit[f]) /\ PathsHold(category, edit[f])
    BY <2>2, EditFacts
  <2> DEFINE was == edit[f]
             new == edit'[f]
             later == given'
  <2>4. Meets(was, new, C)
    BY <1>24, <2>1, <2>2 DEF Meets
  <2>5. /\ was.at \in {"written", "matched"} => was.id \in DOMAIN u
        /\ was.at = "inserted" => was.parent \in DOMAIN u \cup {Root}
    BY <1>7, <2>3 DEF EditHolds, Ids
  <2>6. Root \notin DOMAIN u /\ given \subseteq later /\ given \cap DOMAIN u \subseteq DOMAIN category
    BY <1>1, <1>5, <1>6, <1>7 DEF Ids
  <2> HIDE DEF was, new, later
  <2>7. EditHolds(category, given, was) /\ PathsHold(category, was)
    BY <2>3 DEF was
  <2>8. EditHolds(u, later, new) /\ PathsHold(u, new)
    BY <1>4, <1>20, <1>23, <2>4, <2>5, <2>6, <2>7, EditSurvives
  <2> QED BY <2>8 DEF new, later
<1>26. Ids' \subseteq given' /\ given' \subseteq Categories
  BY <1>1, <1>5, <1>7 DEF Ids, u
<1> QED BY <1>2, <1>20, <1>21, <1>24, <1>25, <1>26 DEF TreeInv, u

LEMMA RemoveCategoryStep ==
    ASSUME TreeInv, NEW c \in Ids, RemoveCategory(c), CategoryAssumption PROVE TreeInv'
PROOF
<1> DEFINE u == category'
<1>1. /\ Children(c) = {} /\ ~Written(c, Root) /\ ~HeldAsParent(c, Root)
      /\ given' = given /\ edit' = edit /\ torn' = torn \ {c}
  BY DEF RemoveCategory
<1>2. DOMAIN u = Ids \ {c} /\ \A d \in Ids \ {c} : u[d] = category[d]
  BY DEF RemoveCategory
<1>3. IsTree(category) /\ \A d \in Ids : IsRow(category, d) /\ Lineage(category, d)
  BY DEF TreeInv, IsTree, Ids
<1>4. Ids \subseteq given /\ given \subseteq Categories /\ Root \notin Ids
  BY DEF TreeInv, CategoryAssumption, Root
<1> HIDE DEF u
<1>5. ASSUME NEW d \in Ids \ {c} PROVE Above(category, d) \subseteq Ids \ {c} /\ category[d].parent \in (Ids \ {c}) \cup {Root}
  <2>1. Above(category, d) \subseteq Ids
    BY <1>3 DEF Lineage, Ids
  <2>2. c \notin Above(category, d)
    <3>1. SUFFICES ASSUME c \in Above(category, d) PROVE FALSE
      OBVIOUS
    <3>2. PICK k \in Above(category, d) : category[k].parent = c
      BY <1>3, <1>5, <3>1 DEF Lineage
    <3> QED BY <1>1, <2>1, <3>2 DEF Children
  <2>3. category[d].parent \in Ids \cup {Root} /\ category[d].parent # c
    BY <1>1, <1>3, <1>5 DEF IsRow, Children, Ids
  <2> QED BY <2>1, <2>2, <2>3
<1>6. ASSUME NEW d \in DOMAIN u
      PROVE  /\ IdsAt(u, category[d].parent) = IdsAt(category, category[d].parent)
             /\ SlugsAt(u, category[d].parent) = SlugsAt(category, category[d].parent)
  BY <1>2, <1>5, <1>6 DEF IdsAt, SlugsAt
<1>7. ASSUME NEW d \in DOMAIN u PROVE IsRow(u, d)
  <2>1. IsRow(category, d) /\ u[d] = category[d] /\ category[d].parent \in DOMAIN u \cup {Root}
    BY <1>2, <1>3, <1>5, <1>7
  <2> QED BY <1>6, <2>1 DEF IsRow
<1>8. ASSUME NEW d \in DOMAIN u PROVE Lineage(u, d)
  <2>1. /\ Lineage(category, d) /\ Above(u, d) = Above(category, d) /\ Above(category, d) \subseteq DOMAIN u
        /\ \A x \in Above(category, d) : Above(u, x) = Above(category, x) /\ u[x] = category[x]
    BY <1>2, <1>3, <1>5, <1>8 DEF Above
  <2> QED BY <1>2, <2>1, <1>8 DEF Lineage
<1>9. \A d, k \in DOMAIN u : u[d].slugPath = u[k].slugPath => d = k
  <2>1. \A d, k \in Ids : category[d].slugPath = category[k].slugPath => d = k
    BY DEF TreeInv, IsTree, Ids
  <2> QED BY <1>2, <2>1
<1>10. IsTree(u)
  BY <1>2, <1>4, <1>7, <1>8, <1>9 DEF IsTree
<1>11. RowsAgree(u, torn')
  <2>1. SUFFICES ASSUME NEW d \in DOMAIN u \ torn' PROVE u[d].slugPath = Append(SlugsAt(u, u[d].parent), u[d].slug)
    BY DEF RowsAgree
  <2>2. d \in Ids \ torn /\ u[d] = category[d]
    BY <1>1, <1>2, <2>1
  <2>3. category[d].slugPath = Append(SlugsAt(category, category[d].parent), category[d].slug)
    BY <2>2 DEF TreeInv, RowsAgree, Ids
  <2> QED BY <1>6, <2>1, <2>2, <2>3
<1> DEFINE C == {}
<1>12. MovedOnly(category, u, C)
  BY <1>2 DEF MovedOnly, Ids
<1>13. ASSUME NEW f \in Editors, edit[f] # Idle
       PROVE  EditHolds(u, given, edit[f]) /\ PathsHold(u, edit[f])
  <2>1. EditHolds(category, given, edit[f]) /\ PathsHold(category, edit[f])
    BY <1>13 DEF TreeInv
  <2> DEFINE was == edit[f]
  <2>2. Meets(was, was, C)
    <3>1. was = WithFields(was, was.at, was.slug, was.old, was.path, was.rows, was.met)
      BY <2>1 DEF EditHolds
    <3>2. was.met \cup C = was.met
      OBVIOUS
    <3> QED BY <3>1, <3>2 DEF Meets
  <2>3. f \in Others(Root)
    BY DEF Others, CategoryAssumption, Root
  <2>4. /\ was.at \in {"written", "matched"} => was.id \in DOMAIN u
        /\ was.at = "inserted" => was.parent \in DOMAIN u \cup {Root}
    BY <1>1, <1>2, <2>1, <2>3 DEF EditHolds, Ids, Written, HeldAsParent
  <2>5. Root \notin DOMAIN u /\ given \subseteq given /\ given \cap DOMAIN u \subseteq DOMAIN category
    BY <1>2, <1>4 DEF Ids
  <2> HIDE DEF was, C
  <2>6. EditHolds(category, given, was) /\ PathsHold(category, was)
    BY <2>1 DEF was
  <2>7. EditHolds(u, given, was) /\ PathsHold(u, was)
    BY <1>3, <1>10, <1>12, <2>2, <2>4, <2>5, <2>6, EditSurvives
  <2> QED BY <2>7 DEF was
<1>14. Ids' \subseteq given' /\ given' \subseteq Categories
  BY <1>1, <1>2, <1>4 DEF Ids, u
<1>15. edit' = [f \in Editors |-> edit'[f]]
  BY <1>1 DEF TreeInv
<1> QED BY <1>1, <1>10, <1>11, <1>13, <1>14, <1>15 DEF TreeInv, u

LEMMA TreeStep ==
    ASSUME TreeInv, [NextTree]_treeVars, CategoryAssumption PROVE TreeInv'
PROOF
<1>1. CASE \E e \in Editors : Ask(e)
  BY <1>1, AskStep
<1>2. CASE \E e \in Editors : Read(e)
  BY <1>2, ReadStep
<1>3. CASE \E e \in Editors : Refuse(e) \/ Fail(e)
  BY <1>3, GiveUpStep
<1>4. CASE \E e \in Editors : Insert(e)
  BY <1>4, InsertStep
<1>5. CASE \E e \in Editors : CommitCreate(e)
  BY <1>5, CommitCreateStep
<1>6. CASE \E e \in Editors : WriteSlug(e)
  BY <1>6, WriteSlugStep
<1>7. CASE \E e \in Editors : Match(e)
  BY <1>7, MatchStep
<1>8. CASE \E e \in Editors : CommitRename(e)
  BY <1>8, CommitRenameStep
<1>9. CASE \E e \in Editors : RollBack(e)
  BY <1>9, RollBackStep
<1>10. CASE \E c \in Ids : RemoveCategory(c)
  BY <1>10, RemoveCategoryStep
<1>11. CASE FetchMenu \/ Second \/ UNCHANGED treeVars
  <2>1. UNCHANGED <<category, given, edit, torn>>
    BY <1>11 DEF FetchMenu, Second, treeVars
  <2> QED BY <2>1 DEF TreeInv, Ids
<1> QED BY <1>1, <1>2, <1>3, <1>4, <1>5, <1>6, <1>7, <1>8, <1>9, <1>10, <1>11 DEF NextTree

\* The tree is in order whatever edits run at a time.
THEOREM TreeStaysInOrder == TreeSpec => []TreeInOrder
PROOF
<1>1. InitTree => TreeInv
  BY TreeInit
<1>2. TreeInv /\ [NextTree]_treeVars => TreeInv'
  BY TreeStep, CategoryAssumption
<1>3. TreeInv => TreeInOrder
  BY TreeHolds
<1> QED BY <1>1, <1>2, <1>3, PTL DEF TreeSpec

-----------------------------------------------------------------------------
(* The list of filters in Redis, and a product's page.                     *)
-----------------------------------------------------------------------------

FiltersInv == saver = [e \in Savers |-> saver[e]] /\ FiltersLagBehind

\* A list that is not what the tables say was put there late, or has a save before it
\* that has yet to delete it.
LEMMA FiltersStay == FilterSpec => []FiltersInv
<1>1. InitFilters => FiltersInv
  BY DEF InitFilters, FiltersInv, FiltersLagBehind
<1>2. ASSUME FiltersInv, [NextFilters]_filterVars PROVE FiltersInv'
  <2>1. CASE \E e \in Savers : SaveOptions(e) \/ InvalidateVariantCache(e) \/ LoseInvalidation(e)
    <3>1. PICK e \in Savers : SaveOptions(e) \/ InvalidateVariantCache(e) \/ LoseInvalidation(e)
      BY <2>1
    <3>2. saver' = [f \in Savers |-> saver'[f]] /\ (SaveOptions(e) => saver'[e] = "saved")
      BY <1>2, <3>1 DEF FiltersInv, SaveOptions, InvalidateVariantCache, LoseInvalidation
    <3>3. QED
      BY <1>2, <3>1, <3>2 DEF FiltersInv, FiltersLagBehind, SaveOptions, InvalidateVariantCache, LoseInvalidation
  <2>2. CASE \E r \in Shoppers : ReadFilters(r) \/ FillFilters(r)
    BY <1>2, <2>2 DEF FiltersInv, FiltersLagBehind, ReadFilters, FillFilters
  <2>3. CASE ExpireFilters \/ UNCHANGED filterVars
    BY <1>2, <2>3 DEF FiltersInv, FiltersLagBehind, ExpireFilters, filterVars
  <2>4. QED
    BY <1>2, <2>1, <2>2, <2>3 DEF NextFilters
<1>3. QED
  BY <1>1, <1>2, PTL DEF FilterSpec

-----------------------------------------------------------------------------

\* A stamp that no transaction will write again.
Used(s) == s \in Nat /\ s < moment /\ \A w \in Writers : writer[w] # Nobody => writer[w].since # s

WritersApart ==
    /\ moment \in Nat /\ writer = [w \in Writers |-> writer[w]]
    /\ \A w \in Writers : writer[w] # Nobody => writer[w].since \in Nat /\ writer[w].since < moment
    /\ \A w, x \in Writers : w # x /\ writer[w] # Nobody /\ writer[x] # Nobody => writer[w].since # writer[x].since

\* What is on sale was written with one form.
OneForm ==
    /\ DOMAIN onSale = {"status", "stamp", "form"} /\ Used(onSale.stamp)
    /\ sold = [v \in PageVariants |-> sold[v]]
    /\ \A v \in PageVariants :
        /\ DOMAIN sold[v] = {"status", "stock", "stamp", "form"} /\ sold[v].form = onSale.form
        /\ Used(sold[v].stamp)

\* What was read of a product that has not been written since is all of one form.
ReadTells ==
    /\ reading.at # "none" => Used(reading.stamp)
    /\ reading.at # "none" /\ reading.stamp = onSale.stamp =>
        /\ reading.status = onSale.status /\ reading.form = onSale.form
        /\ reading.at # "variants" => reading.variants = {onSale.form}
        /\ reading.at = "images" => reading.dimensions = onSale.form

DetailTells ==
    \/ keptDetail = NotRead
    \/ \E s, l : /\ keptDetail.tag = <<s, l>> /\ Used(s)
                 /\ s = onSale.stamp => keptDetail.parts = {onSale.form} /\ keptDetail.status = onSale.status

VariantTells ==
    \/ keptVariant = NotRead
    \/ \E v, s, k : /\ keptVariant.tag = <<v, s, k>> /\ Used(s)
                    /\ v \in PageVariants /\ sold[v].stamp = s => keptVariant.view = VariantView(v)

PageInv == WritersApart /\ OneForm /\ ReadTells /\ DetailTells /\ VariantTells

LEMMA PageImplies == PageInv => PagesHold
<1>1. ASSUME DetailTells PROVE TagTellsProduct
  BY <1>1 DEF DetailTells, TagTellsProduct
<1>2. ASSUME VariantTells PROVE TagTellsVariant
  <2> SUFFICES ASSUME keptVariant # NotRead, NEW v \in PageVariants, keptVariant.tag = VariantSeed(v)
               PROVE  keptVariant.view = VariantView(v)
    BY DEF TagTellsVariant
  <2>1. PICK x, s, k : /\ keptVariant.tag = <<x, s, k>>
                       /\ x \in PageVariants /\ sold[x].stamp = s => keptVariant.view = VariantView(x)
    BY <1>2 DEF VariantTells
  <2>2. x = v /\ s = sold[v].stamp
    BY <2>1 DEF VariantSeed
  <2>3. QED
    BY <2>1, <2>2
<1>3. QED
  BY <1>1, <1>2 DEF PageInv, PagesHold

LEMMA PageStart == InitPage => PageInv
<1> SUFFICES ASSUME InitPage PROVE PageInv
  OBVIOUS
<1>1. WritersApart /\ Used(0)
  BY DEF InitPage, WritersApart, Used
<1>2. OneForm
  BY <1>1 DEF InitPage, OneForm
<1>3. ReadTells /\ DetailTells /\ VariantTells
  BY DEF InitPage, ReadTells, DetailTells, VariantTells, NotRead
<1>4. QED
  BY <1>1, <1>2, <1>3 DEF PageInv

\* Nothing is written, and what was read is kept.
LEMMA TellsStill ==
    ASSUME ReadTells, DetailTells, VariantTells, UNCHANGED <<onSale, sold, reading, keptDetail, keptVariant>>,
           \A s : Used(s) => Used(s)'
    PROVE  ReadTells' /\ DetailTells' /\ VariantTells'
<1>1. ReadTells'
  <2>1. PICK s : s = reading.stamp
    OBVIOUS
  <2>2. Used(s) => Used(s)'
    OBVIOUS
  <2>3. Used(s) <=> Used(reading.stamp)
    BY <2>1
  <2>4. Used(s)' <=> Used(reading.stamp)'
    BY <2>1 DEF Used
  <2>5. QED
    BY <2>2, <2>3, <2>4 DEF ReadTells
<1>2. DetailTells'
  <2>1. CASE keptDetail = NotRead
    BY <2>1 DEF DetailTells, NotRead
  <2>2. ASSUME NEW s, NEW l, keptDetail.tag = <<s, l>>, Used(s),
               s = onSale.stamp => keptDetail.parts = {onSale.form} /\ keptDetail.status = onSale.status
        PROVE  DetailTells'
    <3>1. Used(s)'
      BY <2>2
    <3>2. QED
      BY <2>2, <3>1 DEF DetailTells
  <2>3. QED
    BY <2>1, <2>2 DEF DetailTells
<1>3. VariantTells'
  <2>1. CASE keptVariant = NotRead
    BY <2>1 DEF VariantTells, NotRead
  <2>2. ASSUME NEW v, NEW s, NEW k, keptVariant.tag = <<v, s, k>>, Used(s),
               v \in PageVariants /\ sold[v].stamp = s => keptVariant.view = VariantView(v)
        PROVE  VariantTells'
    <3>1. Used(s)' /\ VariantView(v)' = VariantView(v)
      BY <2>2 DEF VariantView, VariantWarning
    <3>2. QED
      BY <2>2, <3>1 DEF VariantTells
  <2>3. QED
    BY <2>1, <2>2 DEF VariantTells
<1>4. QED
  BY <1>1, <1>2, <1>3

LEMMA RowsStill ==
    ASSUME OneForm, UNCHANGED <<onSale, sold>>, \A s : Used(s) => Used(s)'
    PROVE  OneForm'
<1>1. PICK s : s = onSale.stamp
  OBVIOUS
<1>2. Used(onSale.stamp)'
  <2>1. Used(s) /\ Used(s)'
    BY <1>1 DEF OneForm
  <2>2. QED
    BY <1>1, <2>1 DEF Used
<1>3. ASSUME NEW v \in PageVariants PROVE Used(sold[v].stamp)'
  <2>1. PICK t : t = sold[v].stamp
    OBVIOUS
  <2>2. Used(t) /\ Used(t)'
    BY <2>1 DEF OneForm
  <2>3. QED
    BY <2>1, <2>2 DEF Used
<1>4. QED
  BY <1>2, <1>3 DEF OneForm

LEMMA BeginStep == ASSUME PageInv, NEW w \in Writers, NEW op, BeginWrite(w, op) PROVE PageInv'
<1>1. PICK entry : entry = [op |-> op, since |-> moment]
  OBVIOUS
<1>2. /\ moment \in Nat /\ moment' = moment + 1 /\ writer' = [writer EXCEPT ![w] = entry] /\ entry.since = moment
      /\ writer = [x \in Writers |-> writer[x]]
  BY <1>1 DEF PageInv, WritersApart, BeginWrite
<1>3. writer' = [x \in Writers |-> writer'[x]] /\ writer'[w] = entry /\ \A x \in Writers \ {w} : writer'[x] = writer[x]
  BY <1>2
<1>4. WritersApart'
  <2>1. \A x \in Writers : writer'[x] # Nobody => writer'[x].since \in Nat /\ writer'[x].since < moment'
    BY <1>2, <1>3 DEF PageInv, WritersApart
  <2>2. \A x, y \in Writers : x # y /\ writer'[x] # Nobody /\ writer'[y] # Nobody => writer'[x].since # writer'[y].since
    BY <1>2, <1>3 DEF PageInv, WritersApart
  <2>3. QED
    BY <1>2, <1>3, <2>1, <2>2 DEF WritersApart
<1>5. \A s : Used(s) => Used(s)'
  BY <1>2, <1>3 DEF Used
<1>6. QED
  BY <1>4, <1>5, TellsStill, RowsStill DEF PageInv, BeginWrite

\* A transaction ends: rows that it has written have its stamp.
LEMMA WriteStep ==
    ASSUME PageInv, NEW w \in Writers, writer[w] # Nobody, writer' = [writer EXCEPT ![w] = Nobody],
           UNCHANGED <<reading, keptDetail, keptVariant, moment>>,
           NEW since, since = writer[w].since,
           DOMAIN onSale' = {"status", "stamp", "form"}, sold' = [v \in PageVariants |-> sold'[v]],
           \A v \in PageVariants : DOMAIN sold'[v] = {"status", "stock", "stamp", "form"} /\ sold'[v].form = onSale'.form,
           onSale' = onSale \/ (onSale'.stamp = since /\ \A v \in PageVariants : sold'[v].stamp = since),
           \A v \in PageVariants : sold'[v] = sold[v] \/ sold'[v].stamp = since
    PROVE  PageInv'
<1>1. writer' = [x \in Writers |-> writer'[x]] /\ writer'[w] = Nobody /\ \A x \in Writers \ {w} : writer'[x] = writer[x]
  BY DEF PageInv, WritersApart
<1>2. WritersApart'
  BY <1>1 DEF PageInv, WritersApart
<1>3. \A s : Used(s) => Used(s)' /\ s # since
  BY <1>1 DEF Used
<1>4. Used(since)'
  BY <1>1 DEF Used, PageInv, WritersApart
<1>5. OneForm'
  <2>1. Used(onSale.stamp)'
    <3>1. PICK s : s = onSale'.stamp
      OBVIOUS
    <3>2. Used(s)'
      <4>1. CASE s = since
        BY <1>4, <4>1
      <4>2. CASE onSale' = onSale
        BY <1>3, <3>1, <4>2 DEF PageInv, OneForm
      <4>3. QED
        BY <3>1, <4>1, <4>2
    <3>3. QED
      BY <3>1, <3>2 DEF Used
  <2>2. ASSUME NEW v \in PageVariants PROVE Used(sold[v].stamp)'
    <3>1. PICK s : s = sold'[v].stamp
      OBVIOUS
    <3>2. Used(s)'
      <4>1. CASE s = since
        BY <1>4, <4>1
      <4>2. CASE sold'[v] = sold[v]
        BY <1>3, <3>1, <4>2 DEF PageInv, OneForm
      <4>3. QED
        BY <3>1, <4>1, <4>2
    <3>3. QED
      BY <3>1, <3>2 DEF Used
  <2>3. QED
    BY <2>1, <2>2 DEF OneForm
<1>6. ReadTells'
  <2>1. PICK s : s = reading.stamp
    OBVIOUS
  <2>2. reading.at # "none" => Used(s) /\ Used(s)' /\ s # since
    BY <1>3, <2>1 DEF PageInv, ReadTells
  <2>3. reading'.at # "none" => Used(reading.stamp)'
    BY <2>1, <2>2 DEF Used
  <2>4. QED
    BY <2>1, <2>2, <2>3 DEF PageInv, ReadTells
<1>7. DetailTells'
  <2>1. CASE keptDetail = NotRead
    BY <2>1 DEF DetailTells, NotRead
  <2>2. ASSUME NEW s, NEW l, keptDetail.tag = <<s, l>>, Used(s),
               s = onSale.stamp => keptDetail.parts = {onSale.form} /\ keptDetail.status = onSale.status
        PROVE  DetailTells'
    <3>1. Used(s)' /\ s # since
      BY <1>3, <2>2
    <3>2. QED
      BY <2>2, <3>1 DEF DetailTells
  <2>3. QED
    BY <2>1, <2>2 DEF PageInv, DetailTells
<1>8. VariantTells'
  <2>1. CASE keptVariant = NotRead
    BY <2>1 DEF VariantTells, NotRead
  <2>2. ASSUME NEW v, NEW s, NEW k, keptVariant.tag = <<v, s, k>>, Used(s),
               v \in PageVariants /\ sold[v].stamp = s => keptVariant.view = VariantView(v)
        PROVE  VariantTells'
    <3>1. Used(s)' /\ s # since
      BY <1>3, <2>2
    <3>2. ASSUME v \in PageVariants, sold'[v].stamp = s PROVE keptVariant'.view = VariantView(v)'
      <4>1. sold'[v] = sold[v] /\ onSale' = onSale
        BY <3>1, <3>2
      <4>2. VariantView(v)' = VariantView(v)
        BY <4>1 DEF VariantView, VariantWarning
      <4>3. QED
        BY <2>2, <3>2, <4>1, <4>2
    <3>3. QED
      BY <2>2, <3>1, <3>2 DEF VariantTells
  <2>3. QED
    BY <2>1, <2>2 DEF PageInv, VariantTells
<1>9. QED
  BY <1>2, <1>5, <1>6, <1>7, <1>8 DEF PageInv

LEMMA SaveContentStep ==
    ASSUME PageInv, NEW w \in Writers, NEW status, NEW offer, NEW stock, SaveContent(w, status, offer, stock)
    PROVE  PageInv'
<1>1. writer[w] # Nobody
  BY DEF SaveContent, EndWrite, Nobody
<1>2. PICK since, n : since = writer[w].since /\ n = onSale.form + 1
  OBVIOUS
<1>3. onSale' = [status |-> status, stamp |-> since, form |-> n]
  BY <1>2 DEF SaveContent
<1>4. sold' = [v \in PageVariants |-> [status |-> offer, stock |-> stock, stamp |-> since, form |-> n]]
  BY <1>2 DEF SaveContent
<1>5. \A v \in PageVariants : DOMAIN sold'[v] = {"status", "stock", "stamp", "form"} /\ sold'[v].form = onSale'.form /\ sold'[v].stamp = since
  BY <1>3, <1>4
<1>6. DOMAIN onSale' = {"status", "stamp", "form"} /\ onSale'.stamp = since
  BY <1>3
<1>7. sold' = [v \in PageVariants |-> sold'[v]]
  BY <1>4
<1>8. QED
  BY <1>1, <1>2, <1>5, <1>6, <1>7, WriteStep DEF SaveContent, EndWrite

LEMMA RowsRewritten ==
    ASSUME NEW row, DOMAIN row = {"status", "stock", "stamp", "form"}, NEW status, NEW stock, NEW stamp, NEW p, NEW q,
           p = [row EXCEPT !.status = status, !.stamp = stamp], q = [row EXCEPT !.stock = stock, !.stamp = stamp]
    PROVE  /\ DOMAIN p = {"status", "stock", "stamp", "form"} /\ p.form = row.form /\ p.stamp = stamp
           /\ DOMAIN q = {"status", "stock", "stamp", "form"} /\ q.form = row.form /\ q.stamp = stamp
OBVIOUS

LEMMA SwitchStatusStep ==
    ASSUME PageInv, NEW w \in Writers, NEW status, SwitchStatus(w, status) PROVE PageInv'
<1>1. writer[w] # Nobody
  <2>1. EndWrite(w, "switch")
    BY DEF SwitchStatus
  <2>2. QED
    BY <2>1 DEF EndWrite, Nobody
<1>2. PICK since : since = writer[w].since
  OBVIOUS
<1>3. onSale' = [onSale EXCEPT !.status = status, !.stamp = since]
  BY <1>2 DEF SwitchStatus
<1>4. DOMAIN onSale' = {"status", "stamp", "form"} /\ onSale'.stamp = since /\ onSale'.form = onSale.form
  BY <1>3 DEF PageInv, OneForm
<1>5. sold' = [v \in PageVariants |-> sold'[v]]
  BY DEF SwitchStatus
<1>6. ASSUME NEW v \in PageVariants
      PROVE  DOMAIN sold'[v] = {"status", "stock", "stamp", "form"} /\ sold'[v].form = onSale'.form /\ sold'[v].stamp = since
  <2>1. PICK row, p : row = sold[v] /\ p = sold'[v]
    OBVIOUS
  <2>2. DOMAIN row = {"status", "stock", "stamp", "form"} /\ row.form = onSale.form
    BY <2>1 DEF PageInv, OneForm
  <2>3. p = [row EXCEPT !.status = status, !.stamp = since]
    BY <1>2, <2>1 DEF SwitchStatus
  <2>4. DOMAIN p = {"status", "stock", "stamp", "form"} /\ p.form = row.form /\ p.stamp = since
    BY <2>2, <2>3, RowsRewritten
  <2>5. QED
    BY <1>4, <2>1, <2>2, <2>4
<1>7. writer' = [writer EXCEPT ![w] = Nobody] /\ UNCHANGED <<reading, keptDetail, keptVariant, moment>>
  BY DEF SwitchStatus, EndWrite
<1>8. QED
  BY <1>1, <1>2, <1>4, <1>5, <1>6, <1>7, WriteStep

LEMMA MoveStockStep ==
    ASSUME PageInv, NEW w \in Writers, NEW v \in PageVariants, NEW stock, MoveStock(w, v, stock) PROVE PageInv'
<1>1. writer[w] # Nobody
  BY DEF MoveStock, EndWrite, Nobody
<1>2. PICK since : since = writer[w].since
  OBVIOUS
<1>3. onSale' = onSale /\ DOMAIN onSale' = {"status", "stamp", "form"} /\ sold = [x \in PageVariants |-> sold[x]]
  BY DEF MoveStock, PageInv, OneForm
<1>4. PICK old, row : old = sold[v] /\ row = [old EXCEPT !.stock = stock, !.stamp = since]
  OBVIOUS
<1>5. sold' = [sold EXCEPT ![v] = row]
  BY <1>2, <1>3, <1>4 DEF MoveStock
<1>6. sold' = [x \in PageVariants |-> sold'[x]] /\ sold'[v] = row /\ \A x \in PageVariants \ {v} : sold'[x] = sold[x]
  BY <1>3, <1>5
<1>7. DOMAIN row = {"status", "stock", "stamp", "form"} /\ row.form = onSale'.form /\ row.stamp = since
  <2>1. DOMAIN old = {"status", "stock", "stamp", "form"} /\ old.form = onSale'.form
    BY <1>3, <1>4 DEF PageInv, OneForm
  <2>2. DOMAIN row = {"status", "stock", "stamp", "form"} /\ row.form = old.form /\ row.stamp = since
    BY <1>4, <2>1, RowsRewritten
  <2>3. QED
    BY <2>1, <2>2
<1>8. \A x \in PageVariants : DOMAIN sold'[x] = {"status", "stock", "stamp", "form"} /\ sold'[x].form = onSale'.form
  BY <1>3, <1>6, <1>7 DEF PageInv, OneForm
<1>9. /\ writer' = [writer EXCEPT ![w] = Nobody] /\ UNCHANGED <<reading, keptDetail, keptVariant, moment>>
      /\ \A x \in PageVariants : sold'[x] = sold[x] \/ sold'[x].stamp = since
  BY <1>6, <1>7 DEF MoveStock, EndWrite
<1>10. QED
  BY <1>1, <1>2, <1>3, <1>6, <1>8, <1>9, WriteStep

-----------------------------------------------------------------------------

LEMMA UsedStill == ASSUME UNCHANGED <<writer, moment>>, NEW s, Used(s) PROVE Used(s)'
BY DEF Used

\* A request reads: rows and transactions stay.
LEMMA SelectStep ==
    ASSUME PageInv, UNCHANGED <<onSale, sold, writer, moment>>, ReadTells', DetailTells', VariantTells'
    PROVE  PageInv'
<1>1. WritersApart'
  BY DEF PageInv, WritersApart
<1>2. \A s : Used(s) => Used(s)'
  BY UsedStill
<1>3. QED
  BY <1>1, <1>2, RowsStill DEF PageInv

LEMMA ReadingStep == ASSUME PageInv, ReadProduct \/ ReadVariants \/ ReadDimensions PROVE PageInv'
<1>1. UNCHANGED <<onSale, sold, writer, keptDetail, keptVariant, moment>>
  BY DEF ReadProduct, ReadVariants, ReadDimensions
<1>2. \A s : Used(s) => Used(s)'
  BY <1>1, UsedStill
<1>3. PICK s : s = reading'.stamp
  OBVIOUS
<1>4. ReadTells'
  <2>1. CASE ReadProduct
    <3>1. /\ reading'.at = "variants" /\ reading'.status = onSale.status /\ reading'.form = onSale.form
          /\ reading'.stamp = onSale.stamp
      BY <2>1 DEF ReadProduct
    <3>2. Used(s) /\ Used(s)'
      BY <1>2, <1>3, <3>1 DEF PageInv, OneForm
    <3>3. Used(reading.stamp)'
      BY <1>3, <3>2 DEF Used
    <3>4. QED
      BY <1>1, <3>1, <3>3 DEF ReadTells
  <2>2. CASE ReadVariants
    <3>1. /\ reading.at = "variants" /\ reading'.at = "dimensions" /\ reading'.status = reading.status
          /\ reading'.form = reading.form /\ reading'.stamp = reading.stamp
          /\ reading'.variants = {sold[v].form : v \in PageVariants}
      BY <2>2 DEF ReadVariants
    <3>2. Used(s) /\ Used(s)'
      BY <1>2, <1>3, <3>1 DEF PageInv, ReadTells
    <3>3. Used(reading.stamp)'
      BY <1>3, <3>2 DEF Used
    <3>4. \A v \in PageVariants : sold[v].form = onSale.form
      BY DEF PageInv, OneForm
    <3>5. {sold[v].form : v \in PageVariants} = {onSale.form}
      BY <3>4, PageAssumption
    <3>6. QED
      BY <1>1, <3>1, <3>3, <3>5 DEF PageInv, ReadTells
  <2>3. CASE ReadDimensions
    <3>1. /\ reading.at = "dimensions" /\ reading'.at = "images" /\ reading'.status = reading.status
          /\ reading'.form = reading.form /\ reading'.stamp = reading.stamp
          /\ reading'.variants = reading.variants /\ reading'.dimensions = onSale.form
      BY <2>3 DEF ReadDimensions
    <3>2. Used(s) /\ Used(s)'
      BY <1>2, <1>3, <3>1 DEF PageInv, ReadTells
    <3>3. Used(reading.stamp)'
      BY <1>3, <3>2 DEF Used
    <3>4. QED
      BY <1>1, <3>1, <3>3 DEF PageInv, ReadTells
  <2>4. QED
    BY <2>1, <2>2, <2>3
<1>5. DetailTells' /\ VariantTells'
  <2>1. ASSUME NEW x, NEW l, keptDetail.tag = <<x, l>>, Used(x),
               x = onSale.stamp => keptDetail.parts = {onSale.form} /\ keptDetail.status = onSale.status
        PROVE  DetailTells'
    BY <1>1, <1>2, <2>1 DEF DetailTells
  <2>2. ASSUME NEW v, NEW x, NEW k, keptVariant.tag = <<v, x, k>>, Used(x),
               v \in PageVariants /\ sold[v].stamp = x => keptVariant.view = VariantView(v)
        PROVE  VariantTells'
    <3>1. Used(x)' /\ VariantView(v)' = VariantView(v)
      BY <1>1, <1>2, <2>2 DEF VariantView, VariantWarning
    <3>2. QED
      BY <1>1, <2>2, <3>1 DEF VariantTells
  <2>3. DetailTells'
    BY <1>1, <2>1 DEF PageInv, DetailTells
  <2>4. VariantTells'
    BY <1>1, <2>2 DEF PageInv, VariantTells
  <2>5. QED
    BY <2>3, <2>4
<1>6. QED
  BY <1>1, <1>4, <1>5, SelectStep

LEMMA ReadImagesStep == ASSUME PageInv, ReadImages PROVE PageInv'
<1>1. UNCHANGED <<onSale, sold, writer, keptVariant, moment>> /\ reading'.at = "none" /\ reading.at = "images"
  BY DEF ReadImages, NotRead
<1>2. \A s : Used(s) => Used(s)'
  BY <1>1, UsedStill
<1>3. ReadTells'
  BY <1>1 DEF ReadTells
<1>4. DetailTells'
  <2>1. CASE keptDetail' = keptDetail
    <3>1. ASSUME NEW x, NEW l, keptDetail.tag = <<x, l>>, Used(x),
                 x = onSale.stamp => keptDetail.parts = {onSale.form} /\ keptDetail.status = onSale.status
          PROVE  DetailTells'
      BY <1>1, <1>2, <2>1, <3>1 DEF DetailTells
    <3>2. QED
      BY <1>1, <2>1, <3>1 DEF PageInv, DetailTells
  <2>2. CASE keptDetail' # keptDetail
    <3>1. PICK s, l : s = reading.stamp /\ l = reading.latest
      OBVIOUS
    <3>2. /\ keptDetail'.tag = <<s, l>> /\ keptDetail'.status = reading.status
          /\ keptDetail'.parts = {reading.form, reading.dimensions, onSale.form} \cup reading.variants
      BY <2>2, <3>1 DEF ReadImages, DetailSeed
    <3>3. Used(s)'
      BY <1>1, <1>2, <3>1 DEF PageInv, ReadTells
    <3>4. s = onSale.stamp => keptDetail'.parts = {onSale.form} /\ keptDetail'.status = onSale.status
      BY <1>1, <3>1, <3>2 DEF PageInv, ReadTells
    <3>5. QED
      BY <1>1, <3>2, <3>3, <3>4 DEF DetailTells
  <2>3. QED
    BY <2>1, <2>2
<1>5. VariantTells'
  <2>1. ASSUME NEW v, NEW x, NEW k, keptVariant.tag = <<v, x, k>>, Used(x),
               v \in PageVariants /\ sold[v].stamp = x => keptVariant.view = VariantView(v)
        PROVE  VariantTells'
    <3>1. Used(x)' /\ VariantView(v)' = VariantView(v)
      BY <1>1, <1>2, <2>1 DEF VariantView, VariantWarning
    <3>2. QED
      BY <1>1, <2>1, <3>1 DEF VariantTells
  <2>2. QED
    BY <1>1, <2>1 DEF PageInv, VariantTells
<1>6. QED
  BY <1>1, <1>3, <1>4, <1>5, SelectStep

LEMMA FetchVariantStep == ASSUME PageInv, NEW v \in PageVariants, FetchVariant(v) PROVE PageInv'
<1>1. UNCHANGED <<onSale, sold, writer, reading, keptDetail, moment>>
  BY DEF FetchVariant
<1>2. \A s : Used(s) => Used(s)'
  BY <1>1, UsedStill
<1>3. VariantTells'
  <2>1. PICK s, k : s = sold[v].stamp /\ k = sold[v].stock
    OBVIOUS
  <2>2. keptVariant'.tag = <<v, s, k>> /\ keptVariant'.view = VariantView(v)
    BY <2>1 DEF FetchVariant, VariantSeed
  <2>3. Used(s)'
    BY <1>2, <2>1 DEF PageInv, OneForm
  <2>4. VariantView(v)' = VariantView(v)
    BY <1>1 DEF VariantView, VariantWarning
  <2>5. QED
    BY <2>2, <2>3, <2>4 DEF VariantTells
<1>4. ReadTells'
  <2>1. PICK s : s = reading.stamp
    OBVIOUS
  <2>2. reading.at # "none" => Used(s) /\ Used(s)'
    BY <1>2, <2>1 DEF PageInv, ReadTells
  <2>3. reading.at # "none" => Used(reading.stamp)'
    BY <1>1, <2>1, <2>2 DEF Used
  <2>4. QED
    BY <1>1, <2>3 DEF PageInv, ReadTells
<1>5. DetailTells'
  <2>1. ASSUME NEW x, NEW l, keptDetail.tag = <<x, l>>, Used(x),
               x = onSale.stamp => keptDetail.parts = {onSale.form} /\ keptDetail.status = onSale.status
        PROVE  DetailTells'
    BY <1>1, <1>2, <2>1 DEF DetailTells
  <2>2. QED
    BY <1>1, <2>1 DEF PageInv, DetailTells
<1>6. QED
  BY <1>1, <1>3, <1>4, <1>5, SelectStep

LEMMA PageStep == PageInv /\ [NextProductPage]_pageVars => PageInv'
<1> SUFFICES ASSUME PageInv, [NextProductPage]_pageVars PROVE PageInv'
  OBVIOUS
<1>1. CASE UNCHANGED pageVars
  <2>1. UNCHANGED <<onSale, sold, writer, reading, keptDetail, keptVariant, moment>>
    BY <1>1 DEF pageVars
  <2>2. \A s : Used(s) => Used(s)'
    BY <2>1, UsedStill
  <2>3. QED
    BY <2>1, <2>2, TellsStill, SelectStep DEF PageInv
<1>2. CASE NextProductPage
  BY <1>2, BeginStep, SaveContentStep, SwitchStatusStep, MoveStockStep, ReadingStep, ReadImagesStep, FetchVariantStep
     DEF NextProductPage
<1>3. QED
  BY <1>1, <1>2

\* A page that a client is told to keep is all of one form, the present one, and a
\* variant's detail that it is told to keep is what it would be told now.
THEOREM PagesTell == PageSpec => []PagesHold
BY PageStart, PageStep, PageImplies, PTL DEF PageSpec

-----------------------------------------------------------------------------
(* The menu that a client of the shop keeps.                               *)
-----------------------------------------------------------------------------

\* The menu and the tag of rows as they were.
ActiveIn(t) == {c \in DOMAIN t : t[c].status = "ACTIVE"}
OpenIn(t) == {c \in DOMAIN t : \A p \in ToSet(t[c].idPath) \cap DOMAIN t : t[p].status = "ACTIVE"}
MenuIn(t) == {[id |-> c, parent |-> t[c].parent, slug |-> t[c].slug, path |-> t[c].slugPath] : c \in OpenIn(t)}
NewestIn(t) ==
    IF ActiveIn(t) = {} THEN -1
    ELSE CHOOSE s \in {t[c].stamp : c \in ActiveIn(t)} : \A c \in ActiveIn(t) : t[c].stamp <= s

\* Rows with everything above them.
Whole(t) == IsFiniteSet(DOMAIN t) /\ \A c \in DOMAIN t : c \in Above(t, c) /\ Above(t, c) \subseteq DOMAIN t

\* All of a row but its stamp.
SameRow(t, u, c) ==
    /\ u[c].parent = t[c].parent /\ u[c].slug = t[c].slug /\ u[c].status = t[c].status
    /\ u[c].idPath = t[c].idPath /\ u[c].slugPath = t[c].slugPath

\* No row and no edit is of a second that is still to come.
StampsPast ==
    /\ clock \in Nat /\ IsFiniteSet(Ids)
    /\ \A c \in Ids : category[c].stamp \in Nat /\ category[c].stamp <= clock
    /\ \A e \in Editors : edit[e] # Idle => edit[e].stamp \in Nat /\ edit[e].stamp <= clock

\* Rows of t that have a stamp of a client's second or before are still as they were.
Unwritten(t, when) == \A c \in Ids : category[c].stamp <= when => c \in DOMAIN t /\ SameRow(t, category, c)

\* t is what a client fetched.
Fetched(t) ==
    /\ Whole(t) /\ \A c \in DOMAIN t : t[c].stamp \in Nat /\ t[c].stamp <= menuCopy.when
    /\ menuCopy.menu = MenuIn(t) /\ menuCopy.tag = [newest |-> NewestIn(t), total |-> Cardinality(ActiveIn(t))]
    /\ menuCopy.when \in Nat
    /\ ~menuCopy.late => Unwritten(t, menuCopy.when)

MenuInv ==
    /\ StampsPast
    /\ menuCopy.kept => DOMAIN menuCopy = {"kept", "tag", "menu", "when", "late"} /\ \E t : Fetched(t)

LEMMA TagIs == MenuTag = [newest |-> NewestIn(category), total |-> Cardinality(ActiveIn(category))] /\ Menu = MenuIn(category)
BY DEF MenuTag, Menu, NewestIn, ActiveIn, MenuIn, OpenIn, Ids

\* The newest stamp is of a row, and none is newer.
LEMMA NewestIsOf ==
    ASSUME NEW t, IsFiniteSet(DOMAIN t), \A c \in DOMAIN t : t[c].stamp \in Nat, ActiveIn(t) # {}
    PROVE  /\ \E c \in ActiveIn(t) : NewestIn(t) = t[c].stamp
           /\ \A c \in ActiveIn(t) : t[c].stamp <= NewestIn(t)
<1> DEFINE A == ActiveIn(t)
           f == [c \in A |-> t[c].stamp]
           T == {f[c] : c \in A}
<1>1. IsFiniteSet(A) /\ A \subseteq DOMAIN t
  BY FS_Subset DEF ActiveIn
<1>2. \A c \in A : f[c] = t[c].stamp
  OBVIOUS
<1>3. T = {t[c].stamp : c \in A}
  OBVIOUS
<1> HIDE DEF A, f
<1>4. IsFiniteSet(T)
  BY <1>1, ImageFinite
<1>5. T \in SUBSET Nat /\ T # {}
  BY <1>1, <1>2 DEF A
<1>6. PICK n \in T : \A m \in T : m <= n
  BY <1>4, <1>5, LargestNumber
<1>7. NewestIn(t) = CHOOSE s \in T : \A c \in A : t[c].stamp <= s
  BY <1>3 DEF NewestIn, A
<1>8. \A c \in A : t[c].stamp <= n
  BY <1>2, <1>6
<1>9. NewestIn(t) \in T /\ \A c \in A : t[c].stamp <= NewestIn(t)
  BY <1>6, <1>7, <1>8
<1>10. QED
  BY <1>2, <1>9 DEF A

\* Menus of rows that are the same where they are active.
LEMMA MenusAgree ==
    ASSUME NEW t, NEW u, Whole(t), Whole(u), ActiveIn(u) = ActiveIn(t),
           \A c \in ActiveIn(u) : SameRow(t, u, c)
    PROVE  MenuIn(u) = MenuIn(t)
<1>1. ASSUME NEW w, Whole(w) PROVE \A c : c \in OpenIn(w) <=> c \in ActiveIn(w) /\ Above(w, c) \subseteq ActiveIn(w)
  BY <1>1 DEF Whole, OpenIn, ActiveIn, Above
<1>2. OpenIn(u) = OpenIn(t) /\ \A c \in OpenIn(u) : SameRow(t, u, c)
  <2>1. \A c \in ActiveIn(u) : Above(u, c) = Above(t, c)
    BY DEF SameRow, Above
  <2>2. \A c : c \in OpenIn(u) <=> c \in ActiveIn(u) /\ Above(u, c) \subseteq ActiveIn(u)
    BY <1>1
  <2>3. \A c : c \in OpenIn(t) <=> c \in ActiveIn(t) /\ Above(t, c) \subseteq ActiveIn(t)
    BY <1>1
  <2>4. QED
    BY <2>1, <2>2, <2>3
<1>3. QED
  BY <1>2 DEF MenuIn, SameRow

\* A newest stamp of the client's second or before, and as many rows: the same rows.
LEMMA TreeIsWhole == ASSUME TreeInv, StampsPast PROVE Whole(category)
BY DEF TreeInv, StampsPast, IsTree, Lineage, Whole, Ids

LEMMA MenuImplies == ASSUME TreeInv, MenuInv PROVE TagTellsMenu
<1> SUFFICES ASSUME menuCopy.kept, menuCopy.tag = MenuTag, ~menuCopy.late PROVE menuCopy.menu = Menu
  BY DEF TagTellsMenu
<1>1. PICK t : Fetched(t)
  BY DEF MenuInv
<1>2. Whole(category) /\ Whole(t) /\ StampsPast
  BY <1>1, TreeIsWhole DEF Fetched, MenuInv
<1> DEFINE A == ActiveIn(category)
           B == ActiveIn(t)
<1>3. IsFiniteSet(A) /\ IsFiniteSet(B) /\ A \subseteq DOMAIN category /\ B \subseteq DOMAIN t
  BY <1>2, FS_Subset DEF Whole, ActiveIn
<1>4. NewestIn(category) = NewestIn(t) /\ Cardinality(A) = Cardinality(B)
  <2>1. menuCopy.tag = [newest |-> NewestIn(t), total |-> Cardinality(ActiveIn(t))]
    BY <1>1 DEF Fetched
  <2>2. menuCopy.tag = [newest |-> NewestIn(category), total |-> Cardinality(ActiveIn(category))]
    BY TagIs
  <2>3. QED
    BY <2>1, <2>2
<1>5. A = {} <=> B = {}
  BY <1>3, <1>4, FS_EmptySet
<1>6. ASSUME NEW c \in A PROVE c \in B /\ SameRow(t, category, c)
  <2>1. B # {}
    BY <1>5, <1>6
  <2>2. \A d \in DOMAIN t : t[d].stamp \in Nat /\ t[d].stamp <= menuCopy.when
    BY <1>1 DEF Fetched
  <2>3. PICK d \in B : NewestIn(t) = t[d].stamp
    BY <1>2, <2>1, <2>2, NewestIsOf DEF Whole
  <2>4. \A x \in DOMAIN category : category[x].stamp \in Nat
    BY <1>2 DEF StampsPast, Ids
  <2>5. category[c].stamp <= NewestIn(category)
    BY <1>2, <1>6, <2>4, NewestIsOf DEF Whole
  <2>6. category[c].stamp <= menuCopy.when
    <3>1. category[c].stamp \in Nat /\ t[d].stamp \in Nat /\ t[d].stamp <= menuCopy.when /\ menuCopy.when \in Nat
      BY <1>1, <1>3, <1>6, <2>2, <2>3, <2>4 DEF Fetched
    <3>2. category[c].stamp <= t[d].stamp
      BY <1>4, <2>3, <2>5
    <3> HIDE DEF A, B
    <3>3. QED
      BY <3>1, <3>2
  <2>7. c \in DOMAIN t /\ SameRow(t, category, c)
    BY <1>1, <1>3, <1>6, <2>6 DEF Fetched, Unwritten, Ids
  <2>8. QED
    BY <1>6, <2>7 DEF ActiveIn, SameRow
<1>7. A = B
  <2>1. A \subseteq B
    BY <1>6
  <2>2. QED
    BY <1>3, <1>4, <2>1, FS_Subset
<1>8. MenuIn(category) = MenuIn(t)
  BY <1>2, <1>6, <1>7, MenusAgree
<1>9. QED
  BY <1>1, <1>8, TagIs DEF Fetched

-----------------------------------------------------------------------------

LEMMA MenuStart == ASSUME InitTree PROVE MenuInv
<1>1. Grown(category) /\ clock = 0 /\ ~menuCopy.kept /\ edit = [e \in Editors |-> Idle]
  BY TreesAssumption DEF InitTree
<1>2. IsFiniteSet(Ids) /\ \A c \in Ids : category[c].stamp = 0
  BY <1>1 DEF Grown, Ids
<1>3. QED
  BY <1>1, <1>2 DEF MenuInv, StampsPast

\* Steps that write no row, and at most one edit with a stamp that is not ahead.
LEMMA EditStamped ==
    ASSUME TreeInv, MenuInv, UNCHANGED <<category, clock, menuCopy>>, NEW e \in Editors, NEW r, edit' = [edit EXCEPT ![e] = r],
           r # Idle => r.stamp \in Nat /\ r.stamp <= clock
    PROVE  MenuInv'
<1>1. StampsPast'
  BY DEF TreeInv, MenuInv, StampsPast, Ids
<1>2. \A t : Fetched(t) => Fetched(t)'
  BY DEF Fetched, Unwritten, Ids
<1>3. QED
  BY <1>1, <1>2 DEF MenuInv

\* A request that goes on keeps its stamp.
LEMMA StampKept ==
    ASSUME TreeInv, MenuInv, NEW e \in Editors, edit[e].at # "idle"
    PROVE  /\ edit[e].stamp \in Nat /\ edit[e].stamp <= clock
           /\ DOMAIN edit[e] = {"at", "id", "parent", "base", "status", "retry", "stamp", "slug", "old", "path", "rows", "met"}
<1>1. edit[e] # Idle
  BY DEF Idle
<1>2. edit[e] = WithFields(edit[e], edit[e].at, edit[e].slug, edit[e].old, edit[e].path, edit[e].rows, edit[e].met)
  BY EditFacts DEF EditHolds
<1>3. QED
  BY <1>1, <1>2 DEF WithFields, MenuInv, StampsPast

LEMMA MenuAsk == ASSUME TreeInv, MenuInv, NEW e \in Editors, Ask(e) PROVE MenuInv'
<1>1. PICK base \in Bases, status \in Statuses, id \in Ids \cup {Root}, parent \in Ids \cup {Root} :
        edit' = [edit EXCEPT ![e] = Asked(id, parent, base, status, TRUE)]
  BY DEF Ask
<1> DEFINE r == Asked(id, parent, base, status, TRUE)
<1>2. r.stamp = clock /\ clock \in Nat
  BY DEF Asked, MenuInv, StampsPast
<1>3. UNCHANGED <<category, clock, menuCopy>>
  BY DEF Ask
<1> HIDE DEF r
<1>4. r.stamp \in Nat /\ r.stamp <= clock
  BY <1>2
<1>5. edit' = [edit EXCEPT ![e] = r]
  BY <1>1 DEF r
<1>6. QED
  BY <1>3, <1>4, <1>5, EditStamped

LEMMA MenuRollBack == ASSUME TreeInv, MenuInv, NEW e \in Editors, RollBack(e) PROVE MenuInv'
<1> DEFINE ask == edit[e]
           again == Asked(ask.id, ask.parent, ask.base, ask.status, FALSE)
           r == IF ask.retry THEN again ELSE Idle
<1>1. edit' = [edit EXCEPT ![e] = r] /\ UNCHANGED <<category, clock, menuCopy>>
  BY DEF RollBack
<1>2. again.stamp = clock /\ clock \in Nat
  BY DEF Asked, MenuInv, StampsPast
<1> HIDE DEF again
<1>3. r # Idle => r.stamp \in Nat /\ r.stamp <= clock
  BY <1>2
<1> HIDE DEF r
<1>4. QED
  BY <1>1, <1>3, EditStamped

LEMMA MenuGiveUp == ASSUME TreeInv, MenuInv, NEW e \in Editors, Refuse(e) \/ Fail(e) PROVE MenuInv'
<1>1. edit' = [edit EXCEPT ![e] = Idle] /\ UNCHANGED <<category, clock, menuCopy>>
  BY DEF Refuse, Fail
<1>2. QED
  BY <1>1, EditStamped

LEMMA MenuGoesOn ==
    ASSUME TreeInv, MenuInv, NEW e \in Editors, Read(e) \/ Insert(e) \/ WriteSlug(e) \/ Match(e)
    PROVE  MenuInv'
<1>1. edit[e].at # "idle" /\ UNCHANGED <<category, clock, menuCopy>>
  BY DEF Read, Insert, WriteSlug, Match
<1>2. \E r : edit' = [edit EXCEPT ![e] = r] /\ r.stamp = edit[e].stamp
  <2>1. CASE Read(e)
    <3> DEFINE ask == edit[e]
               a == [ask EXCEPT !.at = "read"]
               u == [a EXCEPT !.met = {}]
               v == [u EXCEPT !.old = PathOf(ask.id)]
               r == [v EXCEPT !.slug = FreeSlug(ask.parent, ask.base, ask.id)]
    <3>1. edit' = [edit EXCEPT ![e] = r]
      BY <2>1 DEF Read
    <3>2. a.stamp = ask.stamp /\ u.stamp = a.stamp /\ v.stamp = u.stamp /\ r.stamp = v.stamp
      BY <1>1, StampKept
    <3>3. QED
      BY <3>1, <3>2
  <2>2. CASE Insert(e) \/ WriteSlug(e)
    <3>1. PICK at : edit' = [edit EXCEPT ![e].at = at]
      BY <2>2 DEF Insert, WriteSlug
    <3>2. [edit[e] EXCEPT !.at = at].stamp = edit[e].stamp
      BY <1>1, StampKept
    <3>3. QED
      BY <3>1, <3>2
  <2>3. CASE Match(e)
    <3>1. PICK path, rows : edit' = [edit EXCEPT ![e].at = "matched", ![e].path = path, ![e].rows = rows]
      BY <2>3 DEF Match
    <3> DEFINE a == [edit[e] EXCEPT !.at = "matched"]
               u == [a EXCEPT !.path = path]
               r == [u EXCEPT !.rows = rows]
    <3>2. edit' = [edit EXCEPT ![e] = r]
      BY <3>1
    <3>3. a.stamp = edit[e].stamp /\ u.stamp = a.stamp /\ r.stamp = u.stamp
      BY <1>1, StampKept
    <3>4. QED
      BY <3>2, <3>3
  <2>4. QED
    BY <2>1, <2>2, <2>3
<1>3. PICK r : edit' = [edit EXCEPT ![e] = r] /\ r.stamp = edit[e].stamp
  BY <1>2
<1>4. edit[e].stamp \in Nat /\ edit[e].stamp <= clock
  BY <1>1, StampKept
<1>5. QED
  BY <1>1, <1>3, <1>4, EditStamped

\* Rows of u have the stamp s, or are as they are in t.
Restamped(t, u, s) ==
    \A c \in DOMAIN u : u[c].stamp = s \/ (c \in DOMAIN t /\ u[c].stamp = t[c].stamp /\ SameRow(t, u, c))

\* A commit: the rows that it writes have its stamp, the others are as they were.
LEMMA MenuCommits ==
    ASSUME TreeInv, MenuInv, NEW e \in Editors, edit[e].at # "idle", UNCHANGED clock, menuCopy' = Stamped(edit[e].stamp),
           IsFiniteSet(Ids'), \A f \in Editors : edit'[f] # Idle => edit[f] # Idle /\ edit'[f].stamp = edit[f].stamp,
           Restamped(category, category', edit[e].stamp)
    PROVE  MenuInv'
<1> DEFINE s == edit[e].stamp
<1>1. s \in Nat /\ s <= clock /\ StampsPast
  BY StampKept DEF MenuInv
<1>2. StampsPast'
  BY <1>1 DEF StampsPast, Restamped, Ids
<1>3. ASSUME menuCopy'.kept
      PROVE  DOMAIN menuCopy' = {"kept", "tag", "menu", "when", "late"} /\ \E t : Fetched(t)'
  <2>1. menuCopy.kept
    BY <1>3 DEF Stamped
  <2>2. DOMAIN menuCopy = {"kept", "tag", "menu", "when", "late"}
    BY <2>1 DEF MenuInv
  <2>3. PICK t : Fetched(t)
    BY <2>1 DEF MenuInv
  <2>4. CASE s <= menuCopy.when
    <3>1. menuCopy' = [menuCopy EXCEPT !.late = TRUE]
      BY <2>1, <2>4 DEF Stamped
    <3>2. Fetched(t)'
      BY <2>2, <2>3, <3>1 DEF Fetched
    <3>3. QED
      BY <2>2, <3>1, <3>2
  <2>5. CASE ~(s <= menuCopy.when)
    <3>1. menuCopy' = menuCopy
      BY <2>1, <2>5 DEF Stamped
    <3>2. ASSUME Unwritten(t, menuCopy.when) PROVE Unwritten(t, menuCopy.when)'
      <4>1. SUFFICES ASSUME NEW c \in Ids', category'[c].stamp <= menuCopy.when PROVE c \in DOMAIN t /\ SameRow(t, category', c)
        BY <3>1 DEF Unwritten
      <4>2. c \in Ids /\ category'[c].stamp = category[c].stamp /\ SameRow(category, category', c)
        BY <2>5, <4>1 DEF Restamped, Ids
      <4>3. c \in DOMAIN t /\ SameRow(t, category, c)
        BY <3>2, <4>1, <4>2 DEF Unwritten
      <4>4. QED
        BY <4>2, <4>3 DEF SameRow
    <3>3. Fetched(t)'
      BY <2>3, <3>1, <3>2 DEF Fetched
    <3>4. QED
      BY <2>2, <3>1, <3>3
  <2>6. QED
    BY <2>4, <2>5
<1>4. QED
  BY <1>2, <1>3 DEF MenuInv

\* The other requests keep their stamps.
LEMMA DoneStamps ==
    ASSUME TreeInv, NEW e \in Editors, NEW C, edit' = Done(C, e)
    PROVE  \A f \in Editors : edit'[f] # Idle => edit[f] # Idle /\ edit'[f].stamp = edit[f].stamp
<1> SUFFICES ASSUME NEW f \in Editors, edit'[f] # Idle PROVE edit[f] # Idle /\ edit'[f].stamp = edit[f].stamp
  OBVIOUS
<1>1. f # e
  BY DoneEdits
<1>2. CASE edit[f].at = "idle"
  BY <1>1, <1>2, DoneEdits
<1>3. CASE edit[f].at # "idle"
  <2>1. edit'[f] = WithFields(edit[f], edit[f].at, edit[f].slug, edit[f].old, edit[f].path, edit[f].rows, edit[f].met \cup C)
    BY <1>1, <1>3, DoneEdits
  <2>2. QED
    BY <1>3, <2>1 DEF WithFields, Idle
<1>4. QED
  BY <1>2, <1>3

LEMMA MenuCommitCreate == ASSUME TreeInv, MenuInv, NEW e \in Editors, CommitCreate(e) PROVE MenuInv'
<1> DEFINE ask == edit[e]
           path == Append(PathOf(ask.parent), ask.slug)
           above == IF ask.parent = Root THEN <<>> ELSE category[ask.parent].idPath
<1>1. ask.at = "inserted" /\ UNCHANGED clock /\ menuCopy' = Stamped(ask.stamp)
  BY DEF CommitCreate
<1>2. PICK id \in Categories \ given :
        /\ category' = [c \in Ids \cup {id} |->
                IF c # id THEN category[c]
                ELSE [parent |-> ask.parent, slug |-> ask.slug, status |-> ask.status, stamp |-> ask.stamp,
                      idPath |-> Append(above, id), slugPath |-> path]]
        /\ edit' = Done({id}, e)
  BY DEF CommitCreate
<1> HIDE DEF path, above
<1>3. Ids' = Ids \cup {id}
  BY <1>2 DEF Ids
<1>4. \A f \in Editors : edit'[f] # Idle => edit[f] # Idle /\ edit'[f].stamp = edit[f].stamp
  BY <1>2, DoneStamps
<1>5. IsFiniteSet(Ids')
  BY <1>3, FS_AddElement DEF MenuInv, StampsPast
<1>6. ASSUME NEW c \in Ids'
      PROVE  \/ category'[c].stamp = ask.stamp
             \/ c \in Ids /\ category'[c].stamp = category[c].stamp /\ SameRow(category, category', c)
  <2>1. CASE c = id
    BY <1>2, <1>3, <2>1
  <2>2. CASE c # id
    <3>1. c \in Ids /\ category'[c] = category[c]
      BY <1>2, <1>3, <2>2
    <3>2. QED
      BY <3>1 DEF SameRow
  <2>3. QED
    BY <2>1, <2>2
<1>7. edit[e].at # "idle" /\ clock' = clock /\ menuCopy' = Stamped(edit[e].stamp)
  BY <1>1
<1>8. Restamped(category, category', edit[e].stamp)
  BY <1>6 DEF Restamped, Ids
<1>9. QED
  BY <1>4, <1>5, <1>7, <1>8, MenuCommits

LEMMA MenuCommitRename == ASSUME TreeInv, MenuInv, NEW e \in Editors, CommitRename(e) PROVE MenuInv'
<1> DEFINE ask == edit[e]
           C == {ask.id} \cup Strangers(ask)
           written(c) == [category[c] EXCEPT !.slug = ask.slug, !.slugPath = ask.path, !.status = ask.status, !.stamp = ask.stamp]
           moved(c) == [category[c] EXCEPT !.slugPath = Rewritten(ask, c), !.stamp = IF StillMatches(ask, c) THEN ask.stamp ELSE @]
<1>1. ask.at = "matched" /\ UNCHANGED clock /\ menuCopy' = Stamped(ask.stamp) /\ edit' = Done(C, e)
  BY DEF CommitRename
<1>2. category' = [c \in Ids |-> IF c = ask.id THEN written(c) ELSE moved(c)]
  BY DEF CommitRename
<1>3. Ids' = Ids
  BY <1>2 DEF Ids
<1> HIDE DEF C
<1>4. \A f \in Editors : edit'[f] # Idle => edit[f] # Idle /\ edit'[f].stamp = edit[f].stamp
  BY <1>1, DoneStamps
<1>5. IsFiniteSet(Ids')
  BY <1>3 DEF MenuInv, StampsPast
<1>6. ASSUME NEW c \in Ids'
      PROVE  \/ category'[c].stamp = ask.stamp
             \/ c \in Ids /\ category'[c].stamp = category[c].stamp /\ SameRow(category, category', c)
  <2>1. c \in Ids /\ IsRow(category, c)
    BY <1>3 DEF TreeInv, IsTree, Ids
  <2>2. DOMAIN category[c] = {"parent", "slug", "status", "stamp", "idPath", "slugPath"}
    BY <2>1 DEF IsRow
  <2>3. CASE c = ask.id
    BY <1>2, <2>1, <2>2, <2>3
  <2>4. CASE c # ask.id /\ StillMatches(ask, c)
    BY <1>2, <2>1, <2>2, <2>4
  <2>5. CASE c # ask.id /\ ~StillMatches(ask, c)
    <3>1. category'[c] = moved(c) /\ Rewritten(ask, c) = category[c].slugPath
      BY <1>2, <2>1, <2>5 DEF Rewritten
    <3>2. category'[c].stamp = category[c].stamp /\ SameRow(category, category', c)
      BY <2>2, <2>5, <3>1 DEF SameRow
    <3>3. QED
      BY <2>1, <3>2
  <2>6. QED
    BY <2>3, <2>4, <2>5
<1>7. edit[e].at # "idle" /\ clock' = clock /\ menuCopy' = Stamped(edit[e].stamp)
  BY <1>1
<1>8. Restamped(category, category', edit[e].stamp)
  BY <1>6 DEF Restamped, Ids
<1>9. QED
  BY <1>4, <1>5, <1>7, <1>8, MenuCommits

LEMMA MenuRemove == ASSUME TreeInv, MenuInv, NEW c \in Ids, RemoveCategory(c) PROVE MenuInv'
<1>1. UNCHANGED <<edit, clock, menuCopy>> /\ Ids' = Ids \ {c} /\ \A d \in Ids' : category'[d] = category[d]
  BY DEF RemoveCategory, Ids
<1>2. IsFiniteSet(Ids')
  BY <1>1, FS_Subset DEF MenuInv, StampsPast
<1>3. StampsPast'
  BY <1>1, <1>2 DEF MenuInv, StampsPast
<1>4. \A t : Fetched(t) => Fetched(t)'
  BY <1>1 DEF Fetched, Unwritten, SameRow
<1>5. QED
  BY <1>1, <1>3, <1>4 DEF MenuInv

LEMMA MenuFetch == ASSUME TreeInv, MenuInv, FetchMenu PROVE MenuInv'
<1>1. menuCopy' = [kept |-> TRUE, tag |-> MenuTag, menu |-> Menu, when |-> clock, late |-> FALSE]
      /\ UNCHANGED <<category, edit, clock>>
  BY DEF FetchMenu
<1>2. StampsPast /\ StampsPast'
  BY <1>1 DEF MenuInv, StampsPast, Ids
<1>3. Whole(category)
  BY <1>2, TreeIsWhole
<1>4. PICK t : t = category
  OBVIOUS
<1>5. \A c \in DOMAIN t : t[c].stamp \in Nat /\ t[c].stamp <= clock
  BY <1>2, <1>4 DEF StampsPast, Ids
<1>6. Unwritten(t, clock)'
  BY <1>1, <1>4 DEF Unwritten, SameRow, Ids
<1>7. Fetched(t)'
  <2>1. /\ menuCopy'.menu = Menu /\ menuCopy'.tag = MenuTag /\ menuCopy'.when = clock /\ clock \in Nat
    BY <1>1, <1>2 DEF StampsPast
  <2>2. MenuTag = [newest |-> NewestIn(t), total |-> Cardinality(ActiveIn(t))] /\ Menu = MenuIn(t)
    BY <1>4, TagIs
  <2>3. Whole(t) /\ Unwritten(t, menuCopy.when)'
    BY <1>1, <1>3, <1>4, <1>6, <2>1 DEF Unwritten
  <2>4. QED
    BY <1>5, <2>1, <2>2, <2>3 DEF Fetched
<1>8. QED
  BY <1>1, <1>2, <1>7 DEF MenuInv

LEMMA MenuSecond == ASSUME MenuInv, Second PROVE MenuInv'
<1>1. clock' = clock + 1 /\ UNCHANGED <<category, edit, menuCopy>>
  BY DEF Second
<1>2. StampsPast'
  BY <1>1 DEF MenuInv, StampsPast, Ids
<1>3. \A t : Fetched(t) => Fetched(t)'
  BY <1>1 DEF Fetched, Unwritten, Ids
<1>4. QED
  BY <1>1, <1>2, <1>3 DEF MenuInv

\* A client whose tag still fits has the menu of today.
THEOREM TagTellsTheMenu == TreeSpec => []TagTellsMenu
<1>1. InitTree => TreeInv /\ MenuInv
  BY TreeInit, MenuStart
<1>2. ASSUME TreeInv, MenuInv, [NextTree]_treeVars PROVE TreeInv' /\ MenuInv'
  <2>1. TreeInv'
    BY <1>2, TreeStep, CategoryAssumption
  <2>2. CASE \E e \in Editors : Ask(e) \/ RollBack(e)
    BY <1>2, <2>2, <2>1, MenuAsk, MenuRollBack
  <2>3. CASE \E e \in Editors : Refuse(e) \/ Fail(e)
    BY <1>2, <2>3, <2>1, MenuGiveUp
  <2>4. CASE \E e \in Editors : Read(e) \/ Insert(e) \/ WriteSlug(e) \/ Match(e)
    BY <1>2, <2>4, <2>1, MenuGoesOn
  <2>5. CASE \E e \in Editors : CommitCreate(e) \/ CommitRename(e)
    BY <1>2, <2>5, <2>1, MenuCommitCreate, MenuCommitRename
  <2>6. CASE \E c \in Ids : RemoveCategory(c)
    BY <1>2, <2>6, <2>1, MenuRemove
  <2>7. CASE FetchMenu \/ Second
    BY <1>2, <2>7, <2>1, MenuFetch, MenuSecond
  <2>8. CASE UNCHANGED treeVars
    <3>1. UNCHANGED <<category, edit, clock, menuCopy>>
      BY <2>8 DEF treeVars
    <3>2. StampsPast'
      BY <1>2, <3>1 DEF MenuInv, StampsPast, Ids
    <3>3. \A t : Fetched(t) => Fetched(t)'
      BY <3>1 DEF Fetched, Unwritten, Ids
    <3>4. MenuInv'
      BY <1>2, <3>1, <3>2, <3>3 DEF MenuInv
    <3>5. QED
      BY <2>1, <3>4
  <2>9. QED
    BY <1>2, <2>1, <2>2, <2>3, <2>4, <2>5, <2>6, <2>7, <2>8 DEF NextTree
<1>3. TreeInv /\ MenuInv => TagTellsMenu
  BY MenuImplies
<1>4. QED
  BY <1>1, <1>2, <1>3, PTL DEF TreeSpec

-----------------------------------------------------------------------------
(* A walk from page to page.                                               *)
-----------------------------------------------------------------------------

\* What the query sees of a product is a row with numbers.
ItemsSeen ==
    /\ item = [p \in Items |-> item[p]]
    /\ \A p \in Items : /\ DOMAIN item[p] = {"listed", "price", "created", "productStamp", "variantStamp"}
                        /\ item[p].price \in Nat /\ item[p].created \in Nat

IsQuery(q) == q.sort \in {"created_at", "price", "search_rank"} /\ q.dir \in {"asc", "desc"}

LEMMA BeforeOrders ==
    ASSUME ItemsSeen, NEW q, IsQuery(q), ListingAssumption
    PROVE  /\ \A p \in Items : SortColumn(q.sort, p) \in Nat /\ p \in Nat
           /\ \A p \in Items : ~Before(q, p, p)
           /\ \A p, r \in Items : p # r => Before(q, p, r) \/ Before(q, r, p)
           /\ \A p, r, s \in Items : Before(q, p, r) /\ Before(q, r, s) => Before(q, p, s)
<1> DEFINE f == [p \in Items |-> SortColumn(q.sort, p)]
<1>1. \A p \in Items : f[p] \in Nat /\ p \in Nat /\ f[p] = SortColumn(q.sort, p)
  BY DEF ItemsSeen, SortColumn, ListingAssumption
<1>2. \A p, r \in Items : Before(q, p, r) <=>
          IF q.dir = "asc" THEN f[p] < f[r] \/ (f[p] = f[r] /\ p < r) ELSE f[p] > f[r] \/ (f[p] = f[r] /\ p > r)
  BY DEF Before
<1> HIDE DEF f
<1>3. \A p \in Items : ~Before(q, p, p)
  BY <1>1, <1>2
<1>4. \A p, r \in Items : p # r => Before(q, p, r) \/ Before(q, r, p)
  BY <1>1, <1>2
<1>5. \A p, r, s \in Items : Before(q, p, r) /\ Before(q, r, s) => Before(q, p, s)
  BY <1>1, <1>2
<1>6. QED
  BY <1>1, <1>3, <1>4, <1>5

\* The products that a request finds, and the page that it is answered with.
Found(q, cursor) == {p \in Listed : AfterCursor(q, cursor, p)}

PageShows(q, cursor, page, more) ==
    /\ page \in Seq(Found(q, cursor))
    /\ \A i, j \in 1 .. Len(page) : i < j => Before(q, page[i], page[j])
    /\ ~more => \A p \in Found(q, cursor) : \E i \in 1 .. Len(page) : page[i] = p
    /\ more => /\ Len(page) # 0
               /\ \A p \in Found(q, cursor) : Before(q, p, page[Len(page)]) => \E i \in 1 .. Len(page) : page[i] = p

LEMMA PageFacts ==
    ASSUME ItemsSeen, NEW q, IsQuery(q), NEW cursor, ListingAssumption
    PROVE  Len(Rows(q, cursor)) \in Nat /\ PageShows(q, cursor, PageOf(Rows(q, cursor)), Len(Rows(q, cursor)) > Limit)
<1> DEFINE S == Found(q, cursor)
           R == {pair \in S \X S : Before(q, pair[1], pair[2])}
           n == Cardinality(S)
           s == SortedBy(S, R)
           m == IF Len(s) > Limit THEN Limit + 1 ELSE Len(s)
           rows == SubSeq(s, 1, m)
           k == IF Len(rows) > Limit THEN Limit ELSE Len(rows)
           page == SubSeq(rows, 1, k)
<1>1. S \subseteq Items /\ IsFiniteSet(S)
  BY FS_Subset DEF Found, Listed, ListingAssumption
<1>2. Rows(q, cursor) = rows /\ PageOf(rows) = page
  BY DEF Rows, PageOf, Found
<1> HIDE DEF S
<1>3. \A p, r \in S : <<p, r>> \in R <=> Before(q, p, r)
  OBVIOUS
<1>4. PutsInOrder(R, S)
  BY <1>1, <1>3, BeforeOrders DEF PutsInOrder
<1> HIDE DEF R
<1>5. /\ s \in [1 .. n -> S] /\ n \in Nat
      /\ \A i, j \in 1 .. n : i < j => <<s[i], s[j]>> \in R
      /\ \A x \in S : \E i \in 1 .. n : s[i] = x
  BY <1>1, <1>4, SortedFacts
<1> HIDE DEF s, n
<1>6. s \in Seq(S) /\ Len(s) = n /\ DOMAIN s = 1 .. n
  BY <1>5
<1>7. Limit \in Nat /\ Limit # 0
  BY DEF ListingAssumption
<1>8. m \in Nat /\ m <= n /\ (m > Limit => m = Limit + 1) /\ (m <= Limit => m = n)
  BY <1>5, <1>6, <1>7
<1> HIDE DEF m
<1>9. rows \in Seq(S) /\ Len(rows) = m /\ \A i \in 1 .. m : rows[i] = s[i]
  BY <1>5, <1>6, <1>8
<1> HIDE DEF rows
<1>10. k \in Nat /\ k <= m /\ (m > Limit => k = Limit) /\ (m <= Limit => k = n)
  BY <1>7, <1>8, <1>9
<1> HIDE DEF k
<1>11. page \in Seq(S) /\ Len(page) = k /\ \A i \in 1 .. k : page[i] = s[i]
  BY <1>8, <1>9, <1>10
<1> HIDE DEF page
<1>12. \A i, j \in 1 .. k : i \in 1 .. n /\ (i < j => Before(q, page[i], page[j]))
  <2>1. ASSUME NEW i \in 1 .. k, NEW j \in 1 .. k, i < j PROVE Before(q, page[i], page[j])
    <3>1. i \in 1 .. n /\ j \in 1 .. n
      BY <1>5, <1>8, <1>10
    <3>2. <<s[i], s[j]>> \in R /\ s[i] \in S /\ s[j] \in S
      BY <1>5, <2>1, <3>1
    <3>3. QED
      BY <1>3, <1>11, <3>2
  <2>2. \A i \in 1 .. k : i \in 1 .. n
    BY <1>5, <1>8, <1>10
  <2>3. QED
    BY <2>1, <2>2
<1>13. ASSUME m <= Limit, NEW p \in S PROVE \E i \in 1 .. k : page[i] = p
  BY <1>5, <1>10, <1>11, <1>13
<1>14. ASSUME m > Limit, NEW p \in S, Before(q, p, page[k]) PROVE \E i \in 1 .. k : page[i] = p
  <2>1. k = Limit /\ k \in 1 .. n /\ k \in 1 .. k
    BY <1>5, <1>7, <1>8, <1>10, <1>14
  <2>2. PICK i \in 1 .. n : s[i] = p
    BY <1>5
  <2>3. page[k] = s[k] /\ s[k] \in S
    BY <1>5, <1>11, <2>1
  <2>4. CASE i <= k
    <3>1. i \in 1 .. k
      BY <2>4, <1>10
    <3>2. QED
      BY <1>11, <2>2, <3>1
  <2>5. CASE i > k
    <3>1. <<s[k], s[i]>> \in R
      BY <1>5, <2>1, <2>5
    <3>2. Before(q, s[k], p)
      BY <1>3, <2>2, <2>3, <3>1
    <3>3. s[k] \in Items /\ p \in Items
      BY <1>1, <2>3
    <3>4. QED
      BY <1>14, <2>3, <3>2, <3>3, BeforeOrders
  <2>6. QED
    BY <1>5, <1>10, <2>4, <2>5
<1>15. m > Limit => k # 0
  BY <1>7, <1>10
<1>16. PageShows(q, cursor, page, m > Limit)
  BY <1>7, <1>8, <1>10, <1>11, <1>12, <1>13, <1>14, <1>15 DEF PageShows, S
<1>17. QED
  BY <1>2, <1>8, <1>9, <1>16

\* What a cursor has of the last product of a page.
CursorOf(q, last) ==
    [at |-> "after", id |-> last,
     value |-> IF q.sort = "created_at" THEN (SortColumn(q.sort, last) \div Millisecond) * Millisecond ELSE SortColumn(q.sort, last)]

LEMMA Milliseconds ==
    ASSUME NEW v \in Nat
    PROVE  /\ (v \div Millisecond) * Millisecond \in Nat /\ (v \div Millisecond) * Millisecond <= v
           /\ \A a \in Nat : (v \div Millisecond) * Millisecond <= a /\ a <= v => a \div Millisecond = v \div Millisecond
BY DEF Millisecond

\* It tells what comes after, but for products of the same millisecond.
LEMMA CursorTells ==
    ASSUME ItemsSeen, NEW q, IsQuery(q), ListingAssumption, NEW last \in Items, NEW p \in Items
    PROVE  /\ Before(q, last, p) =>
                \/ AfterCursor(q, CursorOf(q, last), p)
                \/ q.sort = "created_at" /\ q.dir = "desc" /\ SameMillisecond(p, last)
           /\ (q.sort = "created_at" => q.dir = "desc") /\ AfterCursor(q, CursorOf(q, last), p) => Before(q, last, p)
<1>1. PICK a, v, w : /\ a = SortColumn(q.sort, p) /\ v = SortColumn(q.sort, last)
                     /\ w = IF q.sort = "created_at" THEN (v \div Millisecond) * Millisecond ELSE v
  OBVIOUS
<1>2. a \in Nat /\ v \in Nat /\ p \in Nat /\ last \in Nat
  BY <1>1, BeforeOrders
<1>3. w \in Nat /\ w <= v /\ (q.sort # "created_at" => w = v) /\ (w <= a /\ a <= v => q.sort # "created_at" \/ a \div Millisecond = v \div Millisecond)
  BY <1>1, <1>2, Milliseconds
<1>4. Before(q, last, p) <=> IF q.dir = "asc" THEN v < a \/ (v = a /\ last < p) ELSE v > a \/ (v = a /\ last > p)
  BY <1>1 DEF Before
<1>5. AfterCursor(q, CursorOf(q, last), p) <=>
        IF q.dir = "asc" THEN a > w \/ (a = w /\ p > last) ELSE a < w \/ (a = w /\ p < last)
  BY <1>1 DEF AfterCursor, CursorOf, NoCursor
<1>6. q.sort = "created_at" /\ a \div Millisecond = v \div Millisecond => SameMillisecond(p, last)
  BY <1>1 DEF SameMillisecond, SortColumn
<1>7. q.dir # "asc" => q.dir = "desc"
  BY DEF IsQuery
<1>8. QED
  BY <1>2, <1>3, <1>4, <1>5, <1>6, <1>7

\* A product has been shown, or cannot be told from one that has.
Accounted(q, seen, p) ==
    \/ \E i \in 1 .. Len(seen) : seen[i] = p
    \/ /\ q.sort = "created_at" /\ q.dir = "desc"
       /\ \E i \in 1 .. Len(seen) : SameMillisecond(p, seen[i])

InOrder(q, seen) ==
    (q.sort = "created_at" => q.dir = "desc") => \A i, j \in 1 .. Len(seen) : i < j => Before(q, seen[i], seen[j])

\* What a walk has yet to show comes after its cursor, and all that does comes after what it has shown.
Pending(q, cursor, seen) ==
    /\ seen \in Seq(Listed) /\ InOrder(q, seen)
    /\ \A p \in Listed : p \in Found(q, cursor) \/ Accounted(q, seen, p)
    /\ (q.sort = "created_at" => q.dir = "desc") =>
            \A p \in Found(q, cursor) : \A i \in 1 .. Len(seen) : Before(q, seen[i], p)

WalkGoes(at, q, cursor, seen) ==
    /\ seen \in Seq(Listed) /\ InOrder(q, seen)
    /\ at = "done" => \A p \in Listed : Accounted(q, seen, p)
    /\ at = "going" =>
        /\ Len(seen) # 0 /\ cursor = CursorOf(q, seen[Len(seen)])
        /\ \A p \in Listed : Before(q, p, seen[Len(seen)]) => Accounted(q, seen, p)

LEMMA GoingPends ==
    ASSUME ItemsSeen, NEW q, IsQuery(q), ListingAssumption, NEW cursor, NEW seen, WalkGoes("going", q, cursor, seen)
    PROVE  Pending(q, cursor, seen)
<1>1. /\ seen \in Seq(Listed) /\ InOrder(q, seen) /\ Len(seen) # 0 /\ cursor = CursorOf(q, seen[Len(seen)])
      /\ \A p \in Listed : Before(q, p, seen[Len(seen)]) => Accounted(q, seen, p)
  BY DEF WalkGoes
<1>2. Len(seen) \in 1 .. Len(seen) /\ Listed \subseteq Items /\ \A i \in 1 .. Len(seen) : seen[i] \in Listed
  BY <1>1 DEF Listed
<1>3. PICK last \in Listed : last = seen[Len(seen)] /\ cursor = CursorOf(q, last)
  BY <1>1, <1>2
<1>4. ASSUME NEW p \in Listed PROVE p \in Found(q, cursor) \/ Accounted(q, seen, p)
  <2>1. CASE p = last
    BY <1>2, <1>3, <2>1 DEF Accounted
  <2>2. CASE Before(q, p, last)
    BY <1>1, <1>3, <2>2
  <2>3. CASE Before(q, last, p)
    <3>1. AfterCursor(q, cursor, p) \/ (q.sort = "created_at" /\ q.dir = "desc" /\ SameMillisecond(p, last))
      BY <1>2, <1>3, <2>3, CursorTells
    <3>2. QED
      BY <1>2, <1>3, <3>1 DEF Found, Accounted
  <2>4. QED
    BY <1>2, <2>1, <2>2, <2>3, BeforeOrders
<1>5. ASSUME q.sort = "created_at" => q.dir = "desc", NEW p \in Found(q, cursor), NEW i \in 1 .. Len(seen)
      PROVE  Before(q, seen[i], p)
  <2>1. p \in Listed /\ p \in Items /\ AfterCursor(q, cursor, p)
    BY <1>2 DEF Found
  <2>2. Before(q, last, p)
    BY <1>2, <1>3, <1>5, <2>1, CursorTells
  <2>3. i = Len(seen) \/ Before(q, seen[i], last)
    BY <1>1, <1>2, <1>3, <1>5 DEF InOrder
  <2>4. seen[i] \in Items /\ last \in Items
    BY <1>2
  <2>5. QED
    BY <1>3, <2>1, <2>2, <2>3, <2>4, BeforeOrders
<1>6. QED
  BY <1>1, <1>4, <1>5 DEF Pending

LEMMA FirstPends ==
    ASSUME NEW q PROVE Pending(q, NoCursor, <<>>)
BY DEF Pending, InOrder, Found, AfterCursor

\* One more page.
LEMMA PageAdds ==
    ASSUME ItemsSeen, NEW q, IsQuery(q), ListingAssumption, NEW cursor, NEW seen, Pending(q, cursor, seen),
           NEW rows, NEW page, PageShows(q, cursor, page, Len(rows) > Limit), page = PageOf(rows), Len(rows) \in Nat
    PROVE  WalkGoes(IF Len(rows) > Limit THEN "going" ELSE "done", q, NextCursor(q, rows), seen \o page)
<1> DEFINE all == seen \o page
           n == Len(seen)
           k == Len(page)
           more == Len(rows) > Limit
<1>1. /\ seen \in Seq(Listed) /\ InOrder(q, seen)
      /\ \A p \in Listed : p \in Found(q, cursor) \/ Accounted(q, seen, p)
      /\ (q.sort = "created_at" => q.dir = "desc") =>
            \A p \in Found(q, cursor) : \A i \in 1 .. n : Before(q, seen[i], p)
  BY DEF Pending
<1>2. /\ page \in Seq(Found(q, cursor))
      /\ \A i, j \in 1 .. k : i < j => Before(q, page[i], page[j])
      /\ ~more => \A p \in Found(q, cursor) : \E i \in 1 .. k : page[i] = p
      /\ more => k # 0 /\ \A p \in Found(q, cursor) : Before(q, p, page[k]) => \E i \in 1 .. k : page[i] = p
  BY DEF PageShows
<1>3. Found(q, cursor) \subseteq Listed /\ n \in Nat /\ k \in Nat
  BY <1>1, <1>2 DEF Found
<1>4. more <=> Len(rows) > Limit
  OBVIOUS
<1>5. page \in Seq(Listed)
  BY <1>2, <1>3
<1> HIDE DEF n, k, more
<1>6. /\ all \in Seq(Listed) /\ Len(all) = n + k
      /\ \A i \in 1 .. n : all[i] = seen[i]
      /\ \A i \in 1 .. k : all[n + i] = page[i]
  BY <1>1, <1>3, <1>5 DEF n, k
<1> HIDE DEF all
<1>7. \A i \in 1 .. n + k : i \in 1 .. n \/ (i - n \in 1 .. k /\ all[i] = page[i - n])
  <2>1. ASSUME NEW i \in 1 .. n + k, i \notin 1 .. n PROVE i - n \in 1 .. k /\ all[i] = page[i - n]
    <3>1. i - n \in 1 .. k /\ n + (i - n) = i
      BY <1>3, <2>1
    <3>2. all[n + (i - n)] = page[i - n]
      BY <1>6, <3>1
    <3>3. QED
      BY <3>1, <3>2
  <2>2. QED
    BY <2>1
<1>8. InOrder(q, all)
  <2>1. SUFFICES ASSUME q.sort = "created_at" => q.dir = "desc", NEW i \in 1 .. n + k, NEW j \in 1 .. n + k, i < j
                 PROVE  Before(q, all[i], all[j])
    BY <1>6 DEF InOrder
  <2>2. CASE i \in 1 .. n /\ j \in 1 .. n
    BY <1>1, <1>6, <2>1, <2>2 DEF InOrder, n
  <2>3. CASE i \in 1 .. n /\ j \notin 1 .. n
    <3>1. j - n \in 1 .. k /\ all[j] = page[j - n]
      BY <1>7, <2>3
    <3>2. page[j - n] \in Found(q, cursor)
      BY <1>2, <3>1 DEF k
    <3>3. QED
      BY <1>1, <1>6, <2>1, <2>3, <3>1, <3>2
  <2>4. CASE i \notin 1 .. n
    <3>1. i - n \in 1 .. k /\ all[i] = page[i - n]
      BY <1>7, <2>4
    <3>2. j \notin 1 .. n
      BY <1>3, <2>1, <2>4
    <3>3. j - n \in 1 .. k /\ all[j] = page[j - n] /\ i - n < j - n
      BY <1>3, <1>7, <2>1, <3>2
    <3>4. QED
      BY <1>2, <3>1, <3>3
  <2>5. QED
    BY <2>2, <2>3, <2>4
<1>9. ASSUME NEW p, Accounted(q, seen, p) PROVE Accounted(q, all, p)
  <2>1. \A i \in 1 .. n : i \in 1 .. n + k /\ all[i] = seen[i]
    BY <1>3, <1>6
  <2>2. QED
    BY <1>6, <1>9, <2>1 DEF Accounted, n
<1>10. ASSUME NEW p, NEW i \in 1 .. k, page[i] = p PROVE Accounted(q, all, p)
  <2>1. n + i \in 1 .. n + k /\ all[n + i] = p
    BY <1>3, <1>6, <1>10
  <2>2. QED
    BY <1>6, <2>1 DEF Accounted
<1>11. CASE ~more
  <2>1. \A p \in Listed : Accounted(q, all, p)
    BY <1>1, <1>2, <1>9, <1>10, <1>11
  <2>2. WalkGoes("done", q, NextCursor(q, rows), all)
    BY <1>6, <1>8, <2>1 DEF WalkGoes
  <2>3. QED
    BY <1>4, <1>11, <2>2 DEF all
<1>12. CASE more
  <2>1. k \in 1 .. k /\ k # 0 /\ Len(all) = n + k /\ all[n + k] = page[k]
    BY <1>2, <1>3, <1>6, <1>12
  <2>2. NextCursor(q, rows) = CursorOf(q, page[k])
    <3>1. ~(Len(rows) <= Limit)
      <4>1. Len(rows) > Limit /\ Len(rows) \in Nat /\ Limit \in Nat
        BY <1>4, <1>12 DEF ListingAssumption
      <4>2. QED
        BY <4>1
    <3>2. page[Len(page)] = PageOf(rows)[Len(PageOf(rows))]
      OBVIOUS
    <3>3. QED
      BY <3>1, <3>2 DEF NextCursor, CursorOf, k
  <2>3. ASSUME NEW p \in Listed, Before(q, p, page[k]) PROVE Accounted(q, all, p)
    <3>1. CASE p \in Found(q, cursor)
      BY <1>2, <1>10, <1>12, <2>3, <3>1
    <3>2. CASE p \notin Found(q, cursor)
      BY <1>1, <1>9, <3>2
    <3>3. QED
      BY <3>1, <3>2
  <2>4. WalkGoes("going", q, NextCursor(q, rows), all)
    <3>1. Len(all) # 0
      BY <1>3, <2>1
    <3>2. QED
      BY <1>6, <1>8, <2>1, <2>2, <2>3, <3>1 DEF WalkGoes
  <2>5. QED
    BY <1>4, <1>12, <2>4 DEF all
<1>13. QED
  BY <1>11, <1>12

-----------------------------------------------------------------------------

WalkTells ==
    /\ walk.at \in {"idle", "going", "done", "failed"}
    /\ walk.at # "idle" => DOMAIN walk = {"at", "query", "cursor", "seen", "pages", "moved"} /\ IsQuery(walk.query)
    /\ walk.at \in {"going", "done"} /\ ~walk.moved => WalkGoes(walk.at, walk.query, walk.cursor, walk.seen)

ListInv == ItemsSeen /\ WalkTells

LEMMA WalkImplies == ASSUME ListInv PROVE WalkShowsEachOnce
<1> SUFFICES ASSUME walk.at \in {"going", "done"}, ~walk.moved PROVE WalkShowsEachOnce
  BY DEF WalkShowsEachOnce
<1> DEFINE seen == walk.seen
           q == walk.query
           reached == {p \in Listed : walk.at = "done" \/ (seen # <<>> /\ Before(q, p, seen[Len(seen)]))}
<1>1. WalkGoes(walk.at, q, walk.cursor, seen)
  BY DEF ListInv, WalkTells
<1>2. seen \in Seq(Listed) /\ DOMAIN seen = 1 .. Len(seen) /\ InOrder(q, seen)
  BY <1>1 DEF WalkGoes
<1>3. ASSUME NEW p \in reached PROVE Accounted(q, seen, p)
  BY <1>1, <1>3 DEF WalkGoes
<1>4. ASSUME NEW p, Accounted(q, seen, p)
      PROVE  p \in ToSet(seen) \/ (q.sort = "created_at" /\ q.dir = "desc" /\ \E r \in ToSet(seen) : SameMillisecond(p, r))
  <2>1. \A i \in 1 .. Len(seen) : seen[i] \in ToSet(seen)
    BY <1>2 DEF ToSet
  <2>2. QED
    BY <1>4, <2>1 DEF Accounted
<1>5. QED
  BY <1>2, <1>3, <1>4 DEF WalkShowsEachOnce, InOrder

LEMMA ListStart == ASSUME InitListing, ListingAssumption PROVE ListInv
BY DEF InitListing, ListingAssumption, ListInv, ItemsSeen, WalkTells

LEMMA GoesStill ==
    ASSUME UNCHANGED item, NEW at, NEW q, NEW cursor, NEW seen, WalkGoes(at, q, cursor, seen)
    PROVE  WalkGoes(at, q, cursor, seen)'
BY DEF WalkGoes, InOrder, Accounted, Before, SortColumn, Listed, SameMillisecond, CursorOf

LEMMA WalkStill == ASSUME ListInv, UNCHANGED <<item, walk>> PROVE ListInv'
<1>1. PICK at, q, cursor, seen : at = walk.at /\ q = walk.query /\ cursor = walk.cursor /\ seen = walk.seen
  OBVIOUS
<1>2. WalkGoes(at, q, cursor, seen) => WalkGoes(at, q, cursor, seen)'
  BY GoesStill
<1>3. QED
  BY <1>1, <1>2 DEF ListInv, ItemsSeen, WalkTells, IsQuery

\* A page more, from what is pending.
LEMMA WalkOn ==
    ASSUME ItemsSeen, UNCHANGED item, NEW q, IsQuery(q), ListingAssumption, NEW cursor, NEW seen, Pending(q, cursor, seen),
           walk'.query = q, walk'.at = IF Len(Rows(q, cursor)) > Limit THEN "going" ELSE "done",
           walk'.cursor = NextCursor(q, Rows(q, cursor)), walk'.seen = seen \o PageOf(Rows(q, cursor))
    PROVE  WalkGoes(walk.at, walk.query, walk.cursor, walk.seen)'
<1> DEFINE rows == Rows(q, cursor)
           page == PageOf(rows)
           to == IF Len(rows) > Limit THEN "going" ELSE "done"
<1>2. PageShows(q, cursor, page, Len(rows) > Limit) /\ Len(rows) \in Nat /\ page = PageOf(rows)
  BY PageFacts
<1>3. walk'.at = to /\ walk'.cursor = NextCursor(q, rows) /\ walk'.seen = seen \o page
  OBVIOUS
<1> HIDE DEF rows, page
<1>4. WalkGoes(to, q, NextCursor(q, rows), seen \o page)
  BY <1>2, PageAdds
<1>5. WalkGoes(walk'.at, walk'.query, walk'.cursor, walk'.seen)
  BY <1>3, <1>4
<1>6. PICK at, x, c, l : at = walk'.at /\ x = walk'.query /\ c = walk'.cursor /\ l = walk'.seen
  OBVIOUS
<1>7. WalkGoes(at, x, c, l)'
  BY <1>5, <1>6, GoesStill
<1>8. QED
  BY <1>6, <1>7

LEMMA ListStarts == ASSUME ListInv, StartWalk, ListingAssumption PROVE ListInv'
<1>1. PICK q \in Queries :
            walk' = [at |-> IF Len(Rows(q, NoCursor)) > Limit THEN "going" ELSE "done",
                     query |-> q, cursor |-> NextCursor(q, Rows(q, NoCursor)), seen |-> PageOf(Rows(q, NoCursor)),
                     pages |-> 1, moved |-> FALSE]
  BY DEF StartWalk
<1>2. item' = item /\ ItemsSeen /\ ItemsSeen' /\ IsQuery(q)
  BY DEF StartWalk, ListInv, ItemsSeen, Queries, IsQuery
<1>3. PageOf(Rows(q, NoCursor)) \in Seq(Found(q, NoCursor))
  BY <1>2, PageFacts DEF PageShows
<1>4. <<>> \o PageOf(Rows(q, NoCursor)) = PageOf(Rows(q, NoCursor))
  BY <1>3
<1>5. /\ DOMAIN walk' = {"at", "query", "cursor", "seen", "pages", "moved"} /\ walk'.query = q
      /\ walk'.at = IF Len(Rows(q, NoCursor)) > Limit THEN "going" ELSE "done"
      /\ walk'.cursor = NextCursor(q, Rows(q, NoCursor)) /\ walk'.seen = <<>> \o PageOf(Rows(q, NoCursor))
  BY <1>1, <1>4
<1>6. Pending(q, NoCursor, <<>>)
  BY FirstPends
<1>7. WalkGoes(walk.at, walk.query, walk.cursor, walk.seen)'
  BY <1>2, <1>5, <1>6, WalkOn
<1>8. walk'.at \in {"going", "done"}
  BY <1>5
<1>9. WalkTells'
  BY <1>2, <1>5, <1>7, <1>8 DEF WalkTells, IsQuery
<1>10. QED
  BY <1>2, <1>9 DEF ListInv

LEMMA ListNext == ASSUME ListInv, NextPage, ListingAssumption PROVE ListInv'
<1> DEFINE q == walk.query
           cursor == walk.cursor
           rows == Rows(q, cursor)
<1>1. walk.at = "going" /\ item' = item /\ ItemsSeen /\ ItemsSeen' /\ IsQuery(q)
      /\ DOMAIN walk = {"at", "query", "cursor", "seen", "pages", "moved"}
  BY DEF NextPage, ListInv, ItemsSeen, WalkTells
<1>2. CASE ~Answers(q, cursor)
  <2>1. walk' = [walk EXCEPT !.at = "failed"]
    BY <1>2 DEF NextPage
  <2>2. DOMAIN walk' = DOMAIN walk /\ walk'.at = "failed" /\ walk'.query = q
    BY <1>1, <2>1
  <2>3. WalkTells'
    BY <1>1, <2>2 DEF WalkTells, IsQuery
  <2>4. QED
    BY <1>1, <2>3 DEF ListInv
<1>3. CASE Answers(q, cursor)
  <2> DEFINE to == IF Len(rows) > Limit THEN "going" ELSE "done"
             next == NextCursor(q, rows)
             seen == walk.seen \o PageOf(rows)
             pages == walk.pages + 1
  <2>1. walk' = [walk EXCEPT !.at = to, !.cursor = next, !.seen = seen, !.pages = pages]
    BY <1>3 DEF NextPage
  <2>2. to \in {"going", "done"}
    OBVIOUS
  <2>3. to = to /\ next = next /\ seen = seen
    OBVIOUS
  <2> HIDE DEF to, next, seen, pages, q
  <2>4. /\ DOMAIN walk' = DOMAIN walk /\ walk'.at = to /\ walk'.cursor = next /\ walk'.seen = seen
        /\ walk'.query = walk.query /\ walk'.moved = walk.moved
    BY <1>1, <2>1
  <2>5. ASSUME ~walk.moved PROVE WalkGoes(walk.at, walk.query, walk.cursor, walk.seen)'
    <3>1. WalkGoes("going", q, cursor, walk.seen)
      BY <1>1, <2>5 DEF ListInv, WalkTells, q
    <3>2. Pending(q, cursor, walk.seen)
      BY <1>1, <3>1, GoingPends
    <3>3. PICK x, c, l : x = q /\ c = cursor /\ l = walk.seen
      OBVIOUS
    <3>4. IsQuery(x) /\ Pending(x, c, l)
      BY <1>1, <3>2, <3>3
    <3>5. /\ walk'.query = x /\ walk'.at = IF Len(Rows(x, c)) > Limit THEN "going" ELSE "done"
          /\ walk'.cursor = NextCursor(x, Rows(x, c)) /\ walk'.seen = l \o PageOf(Rows(x, c))
      BY <2>4, <3>3 DEF to, next, seen, q
    <3>6. QED
      BY <1>1, <3>4, <3>5, WalkOn
  <2>6. WalkTells'
    BY <1>1, <2>2, <2>4, <2>5 DEF WalkTells, IsQuery, q
  <2>7. QED
    BY <1>1, <2>6 DEF ListInv
<1>4. QED
  BY <1>2, <1>3

LEMMA ListChanges ==
    ASSUME ListInv, NEW p \in Items, ListingAssumption,
           (\E listed \in BOOLEAN : ChangeProduct(p, listed)) \/ (\E price \in ItemPrices : ChangePrice(p, price))
    PROVE  ListInv'
<1>1. Moved
  BY DEF ChangeProduct, ChangePrice
<1>2. ItemsSeen'
  <2>1. CASE \E listed \in BOOLEAN : ChangeProduct(p, listed)
    <3>1. PICK listed \in BOOLEAN : item' = [item EXCEPT ![p].listed = listed, ![p].productStamp = now]
      BY <2>1 DEF ChangeProduct
    <3> DEFINE a == [item[p] EXCEPT !.listed = listed]
               r == [a EXCEPT !.productStamp = now]
    <3>2. item' = [item EXCEPT ![p] = r]
      BY <3>1
    <3>3. DOMAIN r = DOMAIN item[p] /\ r.price = item[p].price /\ r.created = item[p].created
      BY DEF ListInv, ItemsSeen
    <3> HIDE DEF r
    <3>4. QED
      BY <3>2, <3>3 DEF ListInv, ItemsSeen
  <2>2. CASE \E price \in ItemPrices : ChangePrice(p, price)
    <3>1. PICK price \in ItemPrices : item' = [item EXCEPT ![p].price = price, ![p].variantStamp = now]
      BY <2>2 DEF ChangePrice
    <3> DEFINE a == [item[p] EXCEPT !.price = price]
               r == [a EXCEPT !.variantStamp = now]
    <3>2. item' = [item EXCEPT ![p] = r]
      BY <3>1
    <3>3. DOMAIN r = DOMAIN item[p] /\ r.price = price /\ r.created = item[p].created /\ price \in Nat
      BY DEF ListInv, ItemsSeen, ListingAssumption
    <3> HIDE DEF r
    <3>4. QED
      BY <3>2, <3>3 DEF ListInv, ItemsSeen
  <2>3. QED
    BY <2>1, <2>2
<1>3. WalkTells'
  BY <1>1 DEF Moved, ListInv, WalkTells, IsQuery
<1>4. QED
  BY <1>2, <1>3 DEF ListInv

\* Lists lose nothing and repeat nothing but for what their cursors cannot tell apart.
THEOREM WalksShowAll == ListingSpec => []WalkShowsEachOnce
<1>1. InitListing => ListInv
  BY ListStart, ListingAssumption
<1>2. ASSUME ListInv, [NextListing]_listingVars PROVE ListInv'
  <2>1. CASE StartWalk \/ NextPage
    BY <1>2, <2>1, ListStarts, ListNext, ListingAssumption
  <2>2. CASE \E q \in Queries : FetchPage(q)
    BY <1>2, <2>2, WalkStill DEF FetchPage
  <2>3. CASE \E p \in Items : (\E listed \in BOOLEAN : ChangeProduct(p, listed)) \/ (\E price \in ItemPrices : ChangePrice(p, price))
    BY <1>2, <2>3, ListChanges, ListingAssumption
  <2>4. CASE UNCHANGED listingVars
    BY <1>2, <2>4, WalkStill DEF listingVars
  <2>5. QED
    BY <1>2, <2>1, <2>2, <2>3, <2>4 DEF NextListing
<1>3. ListInv => WalkShowsEachOnce
  BY WalkImplies
<1>4. QED
  BY <1>1, <1>2, <1>3, PTL DEF ListingSpec

-----------------------------------------------------------------------------
(* The filters of the shop.                                                *)
-----------------------------------------------------------------------------

\* A product as the tables have it.
IsShelfVariant(v) ==
    /\ DOMAIN v = {"status", "primary", "price", "options", "stamp"}
    /\ v.price \in Nat /\ v.stamp \in Nat
    /\ IsFiniteSet(v.options) /\ \A o \in v.options : IsSeq(o.value)

IsShelfProduct(p) ==
    /\ DOMAIN p = {"status", "category", "named", "collected", "variants"}
    /\ IsSeq(p.category)
    /\ DOMAIN p.variants \subseteq Nat /\ IsFiniteSet(DOMAIN p.variants)
    /\ \A n \in DOMAIN p.variants : IsShelfVariant(p.variants[n])

ShelfOk ==
    /\ shelf = [r \in ShelfIds |-> shelf[r]]
    /\ \A r \in ShelfIds : IsShelfProduct(shelf[r])

\* Products whose options are counted, and those that count one.
OnSale(scope) == {r \in ShelfIds : shelf[r].status = "ACTIVE" /\ InScope(shelf[r], scope)}
CountsIn(scope, o) == {r \in OnSale(scope) : o \in OptionsOnSale(shelf[r])}

LEMMA CountedIs ==
    ASSUME NEW scope
    PROVE  /\ \A r, o : <<r, o>> \in Counted(scope) <=> r \in CountsIn(scope, o)
           /\ \A c \in Counted(scope) : c = <<c[1], c[2]>>
           /\ DOMAIN FilterRows(scope) = {c[2] : c \in Counted(scope)}
           /\ \A o : o \in DOMAIN FilterRows(scope) <=> CountsIn(scope, o) # {}
<1>1. \A c : c \in Counted(scope) <=> \E r \in OnSale(scope) : \E o \in OptionsOnSale(shelf[r]) : c = <<r, o>>
  BY DEF Counted, OnSale
<1>2. \A r, o : <<r, o>> \in Counted(scope) <=> r \in CountsIn(scope, o)
  BY <1>1 DEF CountsIn
<1>3. \A c \in Counted(scope) : c = <<c[1], c[2]>>
  BY <1>1
<1>4. DOMAIN FilterRows(scope) = {c[2] : c \in Counted(scope)}
  BY DEF FilterRows
<1>5. \A o : o \in DOMAIN FilterRows(scope) <=> \E c \in Counted(scope) : c[2] = o
  BY <1>4
<1>6. ASSUME NEW o PROVE (\E c \in Counted(scope) : c[2] = o) <=> CountsIn(scope, o) # {}
  <2>1. ASSUME NEW c \in Counted(scope), c[2] = o PROVE CountsIn(scope, o) # {}
    BY <1>2, <1>3, <2>1
  <2>2. ASSUME NEW r \in CountsIn(scope, o) PROVE <<r, o>> \in Counted(scope) /\ <<r, o>>[2] = o
    BY <1>2
  <2>3. QED
    BY <2>1, <2>2
<1>7. QED
  BY <1>2, <1>3, <1>4, <1>5, <1>6

\* As many rows as there are options of products.
LEMMA RowsFinite ==
    ASSUME ShelfOk, ShopFilterAssumption, NEW scope
    PROVE  IsFiniteSet(DOMAIN FilterRows(scope))
<1> DEFINE of == [r \in ShelfIds |-> OptionsOnSale(shelf[r])]
           all == UNION {of[r] : r \in ShelfIds}
<1>1. ASSUME NEW r \in ShelfIds PROVE IsFiniteSet(OptionsOnSale(shelf[r]))
  <2> DEFINE A == ActiveVariants(shelf[r])
             g == [n \in A |-> shelf[r].variants[n].options]
  <2>1. IsFiniteSet(A) /\ \A n \in A : IsFiniteSet(g[n])
    <3>1. A \in SUBSET DOMAIN shelf[r].variants /\ IsFiniteSet(DOMAIN shelf[r].variants)
      BY DEF ActiveVariants, ShelfOk, IsShelfProduct
    <3>2. \A n \in DOMAIN shelf[r].variants : IsFiniteSet(shelf[r].variants[n].options)
      BY DEF ShelfOk, IsShelfProduct, IsShelfVariant
    <3>3. QED
      BY <3>1, <3>2, FS_Subset
  <2>2. OptionsOnSale(shelf[r]) = UNION {g[n] : n \in A}
    BY DEF OptionsOnSale
  <2> HIDE DEF A, g
  <2>3. IsFiniteSet({g[n] : n \in A})
    BY <2>1, ImageFinite
  <2>4. IsFiniteSet(UNION {g[n] : n \in A})
    <3> DEFINE S == {g[n] : n \in A}
    <3>1. \A T \in S : IsFiniteSet(T)
      BY <2>1
    <3>2. IsFiniteSet(S)
      BY <2>3
    <3> HIDE DEF S
    <3>3. IsFiniteSet(UNION S)
      BY <3>1, <3>2, FS_UNION
    <3>4. QED
      BY <3>3 DEF S
  <2>5. QED
    BY <2>2, <2>4
<1>2. \A r \in ShelfIds : of[r] = OptionsOnSale(shelf[r])
  OBVIOUS
<1>3. DOMAIN FilterRows(scope) \subseteq all
  <2>1. SUFFICES ASSUME NEW o \in DOMAIN FilterRows(scope) PROVE o \in all
    OBVIOUS
  <2>2. CountsIn(scope, o) # {}
    BY <2>1, CountedIs
  <2>3. PICK r \in CountsIn(scope, o) : TRUE
    BY <2>2
  <2>4. r \in ShelfIds /\ o \in of[r]
    BY <1>2, <2>3 DEF CountsIn, OnSale
  <2>5. QED
    BY <2>4
<1> HIDE DEF of
<1>4. IsFiniteSet({of[r] : r \in ShelfIds})
  BY ImageFinite DEF ShopFilterAssumption
<1>5. IsFiniteSet(all)
  <2> DEFINE S == {of[r] : r \in ShelfIds}
  <2>1. (\A T \in S : IsFiniteSet(T)) /\ IsFiniteSet(S)
    BY <1>1, <1>2, <1>4
  <2> HIDE DEF S
  <2>2. IsFiniteSet(UNION S)
    BY <2>1, FS_UNION
  <2>3. QED
    BY <2>2 DEF S
<1>6. QED
  BY <1>3, <1>5, FS_Subset

\* The number beside a value is that of the products that count it.
LEMMA RowsCount ==
    ASSUME NEW scope, NEW o \in DOMAIN FilterRows(scope), ShopFilterAssumption
    PROVE  FilterRows(scope)[o] = Cardinality(CountsIn(scope, o)) /\ IsFiniteSet(CountsIn(scope, o))
<1> DEFINE T == {c \in Counted(scope) : c[2] = o}
           S == CountsIn(scope, o)
           f == [r \in S |-> <<r, o>>]
<1>1. IsFiniteSet(S)
  BY FS_Subset DEF CountsIn, OnSale, ShopFilterAssumption
<1>2. FilterRows(scope)[o] = Cardinality(T)
  BY CountedIs DEF FilterRows
<1>3. \A r \in S : <<r, o>> \in T
  BY CountedIs
<1>4. ASSUME NEW c \in T PROVE c[1] \in S /\ f[c[1]] = c
  <2>1. c \in Counted(scope) /\ c[2] = o
    OBVIOUS
  <2>2. c = <<c[1], c[2]>>
    BY <2>1, CountedIs
  <2>3. c = <<c[1], o>> /\ <<c[1], o>> \in Counted(scope)
    BY <2>1, <2>2
  <2>4. c[1] \in S
    BY <2>3, CountedIs
  <2>5. QED
    BY <2>3, <2>4
<1> HIDE DEF S, T
<1>5. f \in [S -> T]
  BY <1>3
<1>6. \A r, s \in S : f[r] = f[s] => r = s
  OBVIOUS
<1>7. \A c \in T : \E r \in S : f[r] = c
  BY <1>4
<1>8. f \in Bijection(S, T)
  BY <1>5, <1>6, <1>7 DEF Bijection, Injection, Surjection, IsInjective
<1>9. ExistsBijection(S, T)
  BY <1>8 DEF ExistsBijection
<1>10. Cardinality(T) = Cardinality(S)
  BY <1>1, <1>9, FS_Bijection
<1>11. QED
  BY <1>1, <1>2, <1>10 DEF S

\* The variant on the card is for sale.
LEMMA CardFacts ==
    ASSUME NEW p, IsShelfProduct(p), ActiveVariants(p) # {}
    PROVE  Card(p).price \in Nat
<1> DEFINE primary == {n \in ActiveVariants(p) : p.variants[n].primary}
           S == IF primary # {} THEN primary ELSE ActiveVariants(p)
<1>1. S \in SUBSET Nat /\ S # {} /\ S \subseteq DOMAIN p.variants
  BY DEF ActiveVariants, IsShelfProduct
<1>2. Card(p) = p.variants[Min(S)]
  BY DEF Card
<1> HIDE DEF S
<1>3. Min(S) \in DOMAIN p.variants
  BY <1>1, MinFacts
<1>4. QED
  BY <1>2, <1>3 DEF IsShelfProduct, IsShelfVariant

\* Values of one word are asked for as they are.
OneWord(o) == Len(o.value) = 1 /\ IsSeq(o.value)

LEMMA WordSplit ==
    ASSUME NEW o, OneWord(o)
    PROVE  o.value = <<o.value[1]>> /\ \A t : t \in ToSet(o.value) <=> <<t>> = o.value
<1>1. DOMAIN o.value = {1} /\ o.value = [i \in 1 .. 1 |-> o.value[i]]
  BY SeqFacts DEF OneWord
<1>2. o.value = <<o.value[1]>>
  BY <1>1
<1>3. \A t : t \in ToSet(o.value) <=> t = o.value[1]
  BY <1>1 DEF ToSet
<1>4. QED
  BY <1>2, <1>3

CanBeAsked(clicked) == \A c \in clicked : OneWord(c) /\ c.name \notin Reserved

AskedFor(filter, clicked) ==
    /\ DOMAIN filter = {c.name : c \in clicked}
    /\ \A n \in DOMAIN filter : \A v : v \in filter[n] <=> \E c \in clicked : c.name = n /\ c.value = v

LEMMA FilterIs ==
    ASSUME NEW clicked, CanBeAsked(clicked)
    PROVE  AskedFor(extractDimensionFilters(clicked), clicked)
<1>1. DOMAIN extractDimensionFilters(clicked) = {c.name : c \in clicked} \ Reserved
  BY DEF extractDimensionFilters
<1>2. {c.name : c \in clicked} \ Reserved = {c.name : c \in clicked}
  BY DEF CanBeAsked
<1>3. ASSUME NEW n \in {c.name : c \in clicked}, NEW v
      PROVE  v \in extractDimensionFilters(clicked)[n] <=> \E c \in clicked : c.name = n /\ c.value = v
  <2>1. extractDimensionFilters(clicked)[n] = {<<t>> : t \in UNION {ToSet(c.value) : c \in {x \in clicked : x.name = n}}}
    BY <1>2 DEF extractDimensionFilters
  <2>2. v \in extractDimensionFilters(clicked)[n] <=> \E c \in clicked : c.name = n /\ \E t \in ToSet(c.value) : v = <<t>>
    BY <2>1
  <2>3. ASSUME NEW c \in clicked PROVE (\E t \in ToSet(c.value) : v = <<t>>) <=> v = c.value
    BY WordSplit DEF CanBeAsked
  <2>4. QED
    BY <2>2, <2>3
<1>4. QED
  BY <1>1, <1>2, <1>3 DEF AskedFor

LEMMA ClickableIs ==
    ASSUME ShelfOk, NEW scope, NEW o \in Clickable(scope)
    PROVE  /\ o \in DOMAIN FilterRows(scope) /\ CountsIn(scope, o) # {} /\ OneWord(o) /\ o.name \notin Reserved
<1>1. o \in DOMAIN FilterRows(scope) /\ o.name \notin Reserved /\ Len(o.value) = 1
  BY DEF Clickable
<1>6. CountsIn(scope, o) # {}
  BY <1>1, CountedIs
<1>2. PICK r \in CountsIn(scope, o) : TRUE
  BY <1>6
<1>3. PICK n \in ActiveVariants(shelf[r]) : o \in shelf[r].variants[n].options
  BY <1>2 DEF CountsIn, OptionsOnSale
<1>4. IsSeq(o.value)
  BY <1>2, <1>3 DEF CountsIn, OnSale, ActiveVariants, ShelfOk, IsShelfProduct, IsShelfVariant
<1>5. QED
  BY <1>1, <1>4, <1>6 DEF OneWord

\* A value that is offered is accepted and shows what it counts.
LEMMA OfferedHolds == ASSUME ShelfOk, ShopFilterAssumption PROVE OfferedIsShown
<1> SUFFICES ASSUME NEW scope \in Scopes, scope.by # "collection", NEW o \in Clickable(scope)
             PROVE  LET rows == FilterRows(scope)
                        alike == {x \in DOMAIN rows : x.name = o.name /\ x.value = o.value}
                        shown == Cardinality(ProductsShown(scope, {o}, 0))
                    IN  /\ validateDimensionFilters(extractDimensionFilters({o}))
                        /\ shown >= rows[o]
                        /\ alike = {o} => shown = rows[o]
  BY DEF OfferedIsShown
<1> DEFINE S == CountsIn(scope, o)
           P == ProductsShown(scope, {o}, 0)
           filter == extractDimensionFilters({o})
<1>1. o \in DOMAIN FilterRows(scope) /\ S # {} /\ OneWord(o) /\ o.name \notin Reserved
  BY ClickableIs
<1>2. DOMAIN filter = {o.name} /\ \A v : v \in filter[o.name] <=> v = o.value
  <2>1. CanBeAsked({o})
    BY <1>1 DEF CanBeAsked
  <2>2. AskedFor(filter, {o})
    BY <2>1, FilterIs
  <2> HIDE DEF filter
  <2>3. QED
    BY <2>2 DEF AskedFor
<1>3. FilterRows(scope)[o] = Cardinality(S) /\ IsFiniteSet(S)
  BY <1>1, RowsCount
<1>4. validateDimensionFilters(filter)
  <2>1. PICK r \in S : TRUE
    BY <1>1
  <2>2. PICK n \in ActiveVariants(shelf[r]) : o \in shelf[r].variants[n].options
    BY <2>1 DEF CountsIn, OptionsOnSale
  <2>3. r \in ShelfIds /\ n \in DOMAIN shelf[r].variants
    BY <2>1, <2>2 DEF CountsIn, OnSale, ActiveVariants
  <2>4. <<o.name, o.value>> \in KnownValues
    BY <2>2, <2>3 DEF KnownValues
  <2>5. QED
    BY <1>2, <2>4 DEF validateDimensionFilters
<1>5. \A r : r \in P <=> /\ r \in OnSale(scope) /\ ActiveVariants(shelf[r]) # {} /\ Card(shelf[r]).price >= 0
                         /\ buildDimensionConditions(shelf[r], filter)
  BY DEF ProductsShown, OnSale, Filters
<1> HIDE DEF filter
<1>6. \A r : buildDimensionConditions(shelf[r], filter) <=>
               \E k \in ActiveVariants(shelf[r]) : \E x \in shelf[r].variants[k].options : x.name = o.name /\ x.value = o.value
  BY <1>2 DEF buildDimensionConditions
<1>7. S \subseteq P
  <2>1. SUFFICES ASSUME NEW r \in S PROVE r \in P
    OBVIOUS
  <2>2. r \in OnSale(scope) /\ r \in ShelfIds
    BY DEF CountsIn, OnSale
  <2>3. PICK n \in ActiveVariants(shelf[r]) : o \in shelf[r].variants[n].options
    BY <2>1 DEF CountsIn, OptionsOnSale
  <2>4. Card(shelf[r]).price \in Nat
    BY <2>2, <2>3, CardFacts DEF ShelfOk
  <2>5. Card(shelf[r]).price >= 0
    BY <2>4
  <2>6. QED
    BY <1>5, <1>6, <2>2, <2>3, <2>5
<1>8. IsFiniteSet(P)
  BY FS_Subset DEF ProductsShown, ShopFilterAssumption
<1>9. Cardinality(S) <= Cardinality(P)
  BY <1>7, <1>8, FS_Subset
<1>10. ASSUME {x \in DOMAIN FilterRows(scope) : x.name = o.name /\ x.value = o.value} = {o} PROVE P = S
  <2>1. SUFFICES ASSUME NEW r \in P PROVE r \in S
    BY <1>7
  <2>2. r \in OnSale(scope)
    BY <1>5
  <2>3. PICK k \in ActiveVariants(shelf[r]) : \E x \in shelf[r].variants[k].options : x.name = o.name /\ x.value = o.value
    BY <1>5, <1>6
  <2>4. PICK x \in shelf[r].variants[k].options : x.name = o.name /\ x.value = o.value
    BY <2>3
  <2>5. r \in CountsIn(scope, x)
    BY <2>2, <2>3, <2>4 DEF CountsIn, OptionsOnSale
  <2>6. x \in DOMAIN FilterRows(scope)
    BY <2>5, CountedIs
  <2>7. x = o
    BY <1>10, <2>4, <2>6
  <2>8. QED
    BY <2>5, <2>7
<1>11. Cardinality(S) \in Nat /\ Cardinality(P) \in Nat
  BY <1>3, <1>8, FS_CardinalityType
<1>12. Cardinality(P) >= FilterRows(scope)[o]
  <2> HIDE DEF S, P
  <2>1. QED
    BY <1>3, <1>9, <1>11
<1>13. QED
  BY <1>3, <1>4, <1>10, <1>12 DEF filter

\* What is clicked is found.
LEMMA ClickedHolds == ASSUME ShelfOk, ShopFilterAssumption PROVE ClickedIsFound
<1> SUFFICES ASSUME NEW scope \in Scopes, NEW priceMin \in FloorPrices, scope.by # "collection",
                    NEW clicked \in SUBSET Clickable(scope), NEW r \in ShelfIds
             PROVE  LET p == shelf[r]
                        shown == ProductsShown(scope, clicked, priceMin)
                        fits == {n \in ActiveVariants(p) : HasAll(p.variants[n], clicked)}
                    IN  /\ p.status = "ACTIVE" /\ InScope(p, scope) /\ fits # {} /\ Card(p).price >= priceMin => r \in shown
                        /\ r \in shown /\ Cardinality({c.name : c \in clicked}) = 1 => fits # {}
  BY DEF ClickedIsFound
<1> DEFINE p == shelf[r]
           filter == extractDimensionFilters(clicked)
           names == {c.name : c \in clicked}
<1>1. AskedFor(filter, clicked)
  BY ClickableIs, FilterIs DEF CanBeAsked
<1>2. r \in ProductsShown(scope, clicked, priceMin) <=>
        /\ p.status = "ACTIVE" /\ InScope(p, scope) /\ ActiveVariants(p) # {} /\ Card(p).price >= priceMin
        /\ buildDimensionConditions(p, filter)
  BY DEF ProductsShown, Filters
<1> HIDE DEF filter
<1>3. ASSUME NEW n \in ActiveVariants(p), HasAll(p.variants[n], clicked) PROVE buildDimensionConditions(p, filter)
  <2>1. SUFFICES ASSUME NEW m \in names PROVE \E o \in p.variants[n].options : o.name = m /\ o.value \in filter[m]
    BY <1>1, <1>3 DEF buildDimensionConditions, AskedFor
  <2>2. PICK o \in p.variants[n].options : \E c \in clicked : c.name = m /\ o.name = m /\ o.value = c.value
    BY <1>3, <2>1 DEF HasAll
  <2>3. o.value \in filter[m]
    BY <1>1, <2>1, <2>2 DEF AskedFor
  <2>4. QED
    BY <2>2, <2>3
<1>4. ASSUME buildDimensionConditions(p, filter), Cardinality(names) = 1
      PROVE  \E n \in ActiveVariants(p) : HasAll(p.variants[n], clicked)
  <2>1. IsFiniteSet(clicked)
    <3>1. IsFiniteSet(DOMAIN FilterRows(scope))
      BY RowsFinite
    <3>2. Clickable(scope) \in SUBSET DOMAIN FilterRows(scope)
      BY DEF Clickable
    <3>3. QED
      BY <3>1, <3>2, FS_Subset
  <2>2. IsFiniteSet(names)
    <3> DEFINE f == [c \in clicked |-> c.name]
    <3>1. IsFiniteSet({f[c] : c \in clicked})
      <4> HIDE DEF f
      <4>1. QED
        BY <2>1, ImageFinite
    <3>2. names = {f[c] : c \in clicked}
      OBVIOUS
    <3>3. QED
      BY <3>1, <3>2
  <2>3. PICK m : names = {m}
    <3> HIDE DEF names
    <3>1. QED
      BY <1>4, <2>2, FS_Singleton
  <2>4. PICK n \in ActiveVariants(p) : \E o \in p.variants[n].options : o.name = m /\ o.value \in filter[m]
    BY <1>1, <1>4, <2>3 DEF buildDimensionConditions, AskedFor
  <2>5. PICK o \in p.variants[n].options : o.name = m /\ o.value \in filter[m]
    BY <2>4
  <2>6. \E c \in clicked : c.name = m /\ c.value = o.value
    BY <1>1, <2>3, <2>5 DEF AskedFor
  <2>7. HasAll(p.variants[n], clicked)
    BY <2>3, <2>5, <2>6 DEF HasAll
  <2>8. QED
    BY <2>7
<1>5. QED
  BY <1>2, <1>3, <1>4

\* A category shows its branch, and those whose path begins with the same digits.
LEMMA BranchHolds == ASSUME ShelfOk, ShopFilterAssumption PROVE BranchIsShown
<1> SUFFICES ASSUME NEW path \in CategoryPaths, NEW r \in ShelfIds
             PROVE  LET p == shelf[r]
                        branch == p.category = path \/ IsPrefix(Append(path, "/"), p.category)
                        shown == r \in ProductsShown([by |-> "category", path |-> path], {}, 0)
                    IN  /\ branch /\ p.status = "ACTIVE" /\ ActiveVariants(p) # {} => shown
                        /\ shown => branch \/ (IsPrefix(path, p.category) /\ p.category[Len(path) + 1] # "/")
  BY DEF BranchIsShown
<1> DEFINE p == shelf[r]
           below == Append(path, "/")
           t == p.category
           filter == Filters([by |-> "category", path |-> path], {})
<1>1. IsSeq(path) /\ IsSeq(t) /\ IsShelfProduct(p)
  <2>1. path \in Seq(STRING)
    BY DEF ShopFilterAssumption
  <2>2. IsSeq(path)
    BY <2>1, SeqOfAny
  <2>3. QED
    BY <2>2 DEF ShelfOk, IsShelfProduct
<1>2. buildDimensionConditions(p, filter)
  BY DEF buildDimensionConditions, Filters, extractDimensionFilters
<1>3. r \in ProductsShown([by |-> "category", path |-> path], {}, 0) <=>
        p.status = "ACTIVE" /\ IsPrefix(path, t) /\ ActiveVariants(p) # {} /\ Card(p).price >= 0
  BY <1>2 DEF ProductsShown, InScope, getByCategoryIdPath
<1>4. ActiveVariants(p) # {} => Card(p).price >= 0
  <2>1. ActiveVariants(p) # {} => Card(p).price \in Nat
    BY <1>1, CardFacts
  <2>2. QED
    BY <2>1
<1>5. IsSeq(below) /\ Len(below) = Len(path) + 1 /\ below[Len(path) + 1] = "/" /\ \A i \in 1 .. Len(path) : below[i] = path[i]
  BY <1>1, AppendFacts
<1> HIDE DEF below, t
<1>6. /\ IsPrefix(path, t) <=> Len(path) <= Len(t) /\ \A i \in 1 .. Len(path) : path[i] = t[i]
      /\ IsPrefix(below, t) <=> Len(below) <= Len(t) /\ \A i \in 1 .. Len(below) : below[i] = t[i]
  BY <1>1, <1>5, PrefixFacts
<1>7. Len(path) \in Nat /\ Len(t) \in Nat
  BY <1>1, SeqFacts
<1>8. IsPrefix(below, t) => IsPrefix(path, t)
  <2>1. SUFFICES ASSUME Len(below) <= Len(t), \A i \in 1 .. Len(below) : below[i] = t[i]
                 PROVE  Len(path) <= Len(t) /\ \A i \in 1 .. Len(path) : path[i] = t[i]
    BY <1>6
  <2>2. \A i \in 1 .. Len(path) : i \in 1 .. Len(below)
    BY <1>5, <1>7
  <2>3. QED
    BY <1>5, <1>7, <2>1, <2>2
<1>9. path = t => IsPrefix(path, t)
  BY <1>6, <1>7
<1>10. ASSUME IsPrefix(path, t), t[Len(path) + 1] = "/" PROVE t = path \/ IsPrefix(below, t)
  <2>1. Len(path) <= Len(t) /\ \A i \in 1 .. Len(path) : path[i] = t[i]
    BY <1>6, <1>10
  <2>2. CASE Len(path) = Len(t)
    BY <1>1, <2>1, <2>2, SameSeq
  <2>3. CASE Len(path) # Len(t)
    <3>1. Len(below) <= Len(t)
      BY <1>5, <1>7, <2>1, <2>3
    <3>2. ASSUME NEW i \in 1 .. Len(below) PROVE below[i] = t[i]
      <4>1. i \in 1 .. Len(path) \/ i = Len(path) + 1
        BY <1>5, <1>7
      <4>2. QED
        BY <1>5, <1>10, <2>1, <4>1
    <3>3. QED
      BY <1>6, <3>1, <3>2
  <2>4. QED
    BY <2>2, <2>3
<1>11. QED
  BY <1>3, <1>4, <1>8, <1>9, <1>10 DEF below, t

-----------------------------------------------------------------------------
(* The filters that a client keeps.                                        *)

\* Rows and their numbers, of what was counted.
RowsOf(counted) == [o \in {c[2] : c \in counted} |-> Cardinality({c \in counted : c[2] = o})]

\* A product is counted as it was, or has on sale what is newer than the tag.
Settled(scope, counted, r) == \A o : <<r, o>> \in counted <=> r \in CountsIn(scope, o)
Fresh(scope, newest, r) ==
    r \in OnSale(scope) /\ ActiveVariants(shelf[r]) # {} =>
        \E n \in ActiveVariants(shelf[r]) : Printed(scope, shelf[r].variants[n].stamp) > newest

KeptGoes(scope, newest, counted) ==
    /\ \A c \in counted : c = <<c[1], c[2]>> /\ c[1] \in ShelfIds
    /\ \A r \in ShelfIds : Settled(scope, counted, r) \/ Fresh(scope, newest, r)

AskTells == askedMenu # NoMenu => askedMenu.menu = FilterMenu(RowsOf(askedMenu.counted))

KeptTells ==
    \A scope, newest, counted :
        keptMenu # NoMenu /\ keptMenu.scope = scope /\ keptMenu.tag.newest = newest /\ keptMenu.counted = counted =>
            /\ keptMenu.menu = FilterMenu(RowsOf(counted))
            /\ newest \in Nat
            /\ ~keptMenu.overtaken /\ ~keptMenu.late => KeptGoes(scope, newest, counted)

KeptShape == keptMenu # NoMenu => DOMAIN keptMenu = {"scope", "tag", "menu", "counted", "overtaken", "late"}

ShelfInv == ShelfOk /\ AskTells /\ KeptShape /\ KeptTells

LEMMA PrintedIsNat ==
    ASSUME ShopFilterAssumption, NEW scope, NEW time \in Nat
    PROVE  Printed(scope, time) \in Nat
<1>1. PerSecond \in Nat /\ PerSecond # 0
  BY DEF ShopFilterAssumption
<1>2. time \div PerSecond \in Nat
  BY <1>1
<1>3. QED
  BY <1>2 DEF Printed

\* The times that are written of the variants on sale are finitely many.
LEMMA TimesFinite ==
    ASSUME ShelfOk, ShopFilterAssumption, NEW scope
    PROVE  IsFiniteSet(UNION {{Printed(scope, shelf[r].variants[n].stamp) : n \in ActiveVariants(shelf[r])} : r \in OnSale(scope)})
<1> DEFINE times(r) == {Printed(scope, shelf[r].variants[n].stamp) : n \in ActiveVariants(shelf[r])}
           of == [r \in OnSale(scope) |-> times(r)]
<1>1. ASSUME NEW r \in OnSale(scope) PROVE IsFiniteSet(times(r))
  <2> DEFINE A == ActiveVariants(shelf[r])
             g == [n \in A |-> Printed(scope, shelf[r].variants[n].stamp)]
  <2>1. IsFiniteSet(A)
    <3>1. A \in SUBSET DOMAIN shelf[r].variants /\ IsFiniteSet(DOMAIN shelf[r].variants)
      BY DEF OnSale, ActiveVariants, ShelfOk, IsShelfProduct
    <3>2. QED
      BY <3>1, FS_Subset
  <2>2. times(r) = {g[n] : n \in A}
    OBVIOUS
  <2> HIDE DEF A, g, times
  <2>3. IsFiniteSet({g[n] : n \in A})
    BY <2>1, ImageFinite
  <2>4. QED
    BY <2>2, <2>3
<1>2. IsFiniteSet(OnSale(scope))
  BY FS_Subset DEF OnSale, ShopFilterAssumption
<1>3. \A r \in OnSale(scope) : of[r] = times(r)
  OBVIOUS
<1>4. {times(r) : r \in OnSale(scope)} = {of[r] : r \in OnSale(scope)}
  BY <1>3
<1> DEFINE S == {of[r] : r \in OnSale(scope)}
<1> HIDE DEF of, times
<1>5. IsFiniteSet(S)
  BY <1>2, ImageFinite
<1>6. \A T \in S : IsFiniteSet(T)
  BY <1>1, <1>3
<1> HIDE DEF S
<1>7. IsFiniteSet(UNION S)
  BY <1>5, <1>6, FS_UNION
<1>8. QED
  BY <1>4, <1>7 DEF S, times

LEMMA TagNewest ==
    ASSUME ShelfOk, ShopFilterAssumption, NEW scope, NEW rows
    PROVE  /\ FiltersTag(scope, rows).newest \in Nat
           /\ \A r \in OnSale(scope) : \A n \in ActiveVariants(shelf[r]) :
                  /\ Printed(scope, shelf[r].variants[n].stamp) \in Nat
                  /\ Printed(scope, shelf[r].variants[n].stamp) <= FiltersTag(scope, rows).newest
<1> DEFINE S == UNION {{Printed(scope, shelf[r].variants[n].stamp) : n \in ActiveVariants(shelf[r])} : r \in OnSale(scope)}
           T == {0} \cup S
<1>1. FiltersTag(scope, rows).newest = Max(T)
  BY DEF FiltersTag, OnSale
<1>2. IsFiniteSet(S)
  BY TimesFinite
<1>3. ASSUME NEW r \in OnSale(scope), NEW n \in ActiveVariants(shelf[r])
      PROVE  Printed(scope, shelf[r].variants[n].stamp) \in Nat
  <2>1. shelf[r].variants[n].stamp \in Nat
    BY DEF OnSale, ActiveVariants, ShelfOk, IsShelfProduct, IsShelfVariant
  <2>2. QED
    BY <2>1, PrintedIsNat
<1>4. S \in SUBSET Nat
  BY <1>3
<1>5. \A r \in OnSale(scope) : \A n \in ActiveVariants(shelf[r]) : Printed(scope, shelf[r].variants[n].stamp) \in T
  OBVIOUS
<1> HIDE DEF S
<1>6. IsFiniteSet(T)
  BY <1>2, FS_Singleton, FS_Union
<1>7. T \in SUBSET Nat /\ T # {}
  BY <1>4
<1> HIDE DEF T
<1>8. Max(T) \in T /\ Max(T) \in Nat /\ \A m \in T : m <= Max(T)
  BY <1>6, <1>7, MaxFacts
<1>9. QED
  BY <1>1, <1>3, <1>5, <1>8

LEMMA KeptImplies == ASSUME ShelfInv, ShopFilterAssumption PROVE KeptFiltersTell
<1> SUFFICES ASSUME keptMenu # NoMenu, keptMenu.tag = TagToday(keptMenu.scope),
                    ~(keptMenu.counted \ Counted(keptMenu.scope) # {}), ~keptMenu.overtaken, ~keptMenu.late
             PROVE  keptMenu.menu = FilterMenu(FilterRows(keptMenu.scope))
  BY DEF KeptFiltersTell
<1> DEFINE scope == keptMenu.scope
           counted == keptMenu.counted
           newest == keptMenu.tag.newest
           rows == Cardinality(DOMAIN FilterRows(scope))
<1>1. KeptGoes(scope, newest, counted) /\ keptMenu.menu = FilterMenu(RowsOf(counted)) /\ ShelfOk
  BY DEF ShelfInv, KeptTells
<1>2. newest = FiltersTag(scope, rows).newest /\ newest \in Nat
  BY DEF ShelfInv, KeptTells, TagToday
<1>3. \A r \in OnSale(scope) : \A n \in ActiveVariants(shelf[r]) :
        Printed(scope, shelf[r].variants[n].stamp) <= newest /\ Printed(scope, shelf[r].variants[n].stamp) \in Nat
  <2> HIDE DEF scope, rows, newest, counted
  <2>1. QED
    BY <1>1, <1>2, TagNewest
<1> HIDE DEF scope, counted, newest, rows
<1>4. \A c \in counted : c \in Counted(scope)
  BY DEF scope, counted
<1>5. ASSUME NEW c \in Counted(scope) PROVE c \in counted
  <2>1. c = <<c[1], c[2]>>
    BY CountedIs
  <2>2. <<c[1], c[2]>> \in Counted(scope)
    BY <2>1
  <2>3. c[1] \in CountsIn(scope, c[2])
    BY <2>2, CountedIs
  <2>4. c[1] \in OnSale(scope) /\ c[1] \in ShelfIds /\ ActiveVariants(shelf[c[1]]) # {}
    BY <2>3 DEF CountsIn, OnSale, OptionsOnSale
  <2>5. ~Fresh(scope, newest, c[1])
    <3>1. \A n \in ActiveVariants(shelf[c[1]]) : ~(Printed(scope, shelf[c[1]].variants[n].stamp) > newest)
      BY <1>2, <1>3, <2>4
    <3>2. QED
      BY <2>4, <3>1 DEF Fresh
  <2>6. Settled(scope, counted, c[1])
    BY <1>1, <2>4, <2>5 DEF KeptGoes
  <2>7. <<c[1], c[2]>> \in counted
    BY <2>3, <2>6 DEF Settled
  <2>8. QED
    BY <2>1, <2>7
<1>6. counted = Counted(scope)
  BY <1>4, <1>5
<1>7. RowsOf(counted) = FilterRows(scope)
  BY <1>6 DEF RowsOf, FilterRows
<1>8. QED
  BY <1>1, <1>7 DEF scope

-----------------------------------------------------------------------------

LEMMA ShapesOk ==
    ASSUME ShopFilterAssumption, NEW p \in Shapes
    PROVE  IsShelfProduct(p)
<1>1. p \in ShelfProducts /\ \A n \in DOMAIN p.variants : IsFiniteSet(p.variants[n].options)
  BY DEF ShopFilterAssumption
<1>2. DOMAIN p = {"status", "category", "named", "collected", "variants"} /\ p.category \in Seq(STRING) /\ p.variants \in Seq(ShelfVariants)
  BY <1>1 DEF ShelfProducts
<1>3. DOMAIN p.variants = 1 .. Len(p.variants) /\ Len(p.variants) \in Nat /\ \A n \in DOMAIN p.variants : p.variants[n] \in ShelfVariants
  BY <1>2
<1>4. IsFiniteSet(DOMAIN p.variants) /\ DOMAIN p.variants \subseteq Nat
  BY <1>3, FS_Interval
<1>5. ASSUME NEW n \in DOMAIN p.variants PROVE IsShelfVariant(p.variants[n])
  <2> DEFINE v == p.variants[n]
  <2>1. v \in ShelfVariants
    BY <1>3
  <2> HIDE DEF v
  <2>2. DOMAIN v = {"status", "primary", "price", "options", "stamp"} /\ v.price \in Nat /\ v.stamp = 0 /\ v.options \subseteq ShelfOptions
    BY <2>1 DEF ShelfVariants
  <2>3. ASSUME NEW o \in v.options PROVE IsSeq(o.value)
    <3>1. o.value \in Seq(STRING)
      BY <2>2 DEF ShelfOptions
    <3>2. QED
      BY <3>1, SeqOfAny
  <2>4. IsFiniteSet(v.options)
    BY <1>1 DEF v
  <2>5. QED
    BY <2>2, <2>3, <2>4 DEF IsShelfVariant, v
<1>6. IsSeq(p.category)
  BY <1>2, SeqOfAny
<1>7. QED
  BY <1>2, <1>4, <1>5, <1>6 DEF IsShelfProduct

LEMMA ShelfStart == ASSUME InitShopFilters, ShopFilterAssumption PROVE ShelfInv
<1>1. shelf \in [ShelfIds -> Shapes] /\ askedMenu = NoMenu /\ keptMenu = NoMenu
  BY DEF InitShopFilters
<1>2. \A r \in ShelfIds : IsShelfProduct(shelf[r])
  BY <1>1, ShapesOk
<1>3. QED
  BY <1>1, <1>2 DEF ShelfInv, ShelfOk, AskTells, KeptShape, KeptTells

\* A row that is written has the time of the change.
LEMMA TouchedOk ==
    ASSUME NEW time \in Nat, NEW p, IsShelfProduct(p), NEW S
    PROVE  LET q == Touched(p, S, time)
           IN  /\ IsShelfProduct(q) /\ ActiveVariants(q) = ActiveVariants(p)
               /\ \A n \in DOMAIN p.variants \cap S : q.variants[n].stamp = time
<1> DEFINE q == Touched(p, S, time)
           w == [n \in DOMAIN p.variants |-> IF n \in S THEN [p.variants[n] EXCEPT !.stamp = time] ELSE p.variants[n]]
<1>1. q = [p EXCEPT !.variants = w]
  BY DEF Touched
<1>2. DOMAIN p = {"status", "category", "named", "collected", "variants"}
  BY DEF IsShelfProduct
<1> HIDE DEF w
<1>3. DOMAIN q = DOMAIN p /\ q.variants = w /\ q.category = p.category
  BY <1>1, <1>2
<1>4. DOMAIN w = DOMAIN p.variants
  BY DEF w
<1>5. ASSUME NEW n \in DOMAIN p.variants
      PROVE  /\ IsShelfVariant(w[n]) /\ w[n].status = p.variants[n].status
             /\ n \in S => w[n].stamp = time
  <2> DEFINE v == p.variants[n]
  <2>1. IsShelfVariant(v)
    BY DEF IsShelfProduct
  <2>2. w[n] = IF n \in S THEN [v EXCEPT !.stamp = time] ELSE v
    BY DEF w
  <2> HIDE DEF v
  <2>3. CASE n \in S
    <3>1. /\ DOMAIN w[n] = DOMAIN v /\ w[n].stamp = time /\ w[n].status = v.status /\ w[n].price = v.price /\ w[n].options = v.options
      BY <2>1, <2>2, <2>3 DEF IsShelfVariant
    <3>2. QED
      BY <2>1, <3>1 DEF IsShelfVariant, v
  <2>4. CASE n \notin S
    BY <2>1, <2>2, <2>4 DEF v
  <2>5. QED
    BY <2>3, <2>4
<1>6. IsShelfProduct(q)
  BY <1>3, <1>4, <1>5 DEF IsShelfProduct
<1>7. ActiveVariants(q) = ActiveVariants(p)
  BY <1>3, <1>4, <1>5 DEF ActiveVariants
<1>8. QED
  BY <1>3, <1>5, <1>6, <1>7

StampedOnSale(q, time) == ActiveVariants(q) # {} => \E n \in ActiveVariants(q) : q.variants[n].stamp = time

\* What a change leaves of the filters that are kept.
LEMMA KeptChanges ==
    ASSUME KeptShape, NEW r, NEW p, NEW time, ChangeShelf(r, p, time)
    PROVE  /\ (keptMenu' # NoMenu) <=> (keptMenu # NoMenu)
           /\ keptMenu # NoMenu =>
                /\ keptMenu'.scope = keptMenu.scope /\ keptMenu'.tag = keptMenu.tag /\ keptMenu'.counted = keptMenu.counted
                /\ keptMenu'.menu = keptMenu.menu /\ (keptMenu'.overtaken <=> keptMenu.overtaken)
                /\ ~keptMenu'.late => ~keptMenu.late /\ ~(Printed(keptMenu.scope, time) <= keptMenu.tag.newest)
           /\ KeptShape'
<1>1. keptMenu' = IF keptMenu # NoMenu /\ Printed(keptMenu.scope, time) <= keptMenu.tag.newest
                  THEN [keptMenu EXCEPT !.late = TRUE] ELSE keptMenu
  BY DEF ChangeShelf
<1>2. CASE keptMenu # NoMenu /\ Printed(keptMenu.scope, time) <= keptMenu.tag.newest
  <2>1. keptMenu' = [keptMenu EXCEPT !.late = TRUE]
    BY <1>1, <1>2
  <2>2. DOMAIN keptMenu = {"scope", "tag", "menu", "counted", "overtaken", "late"}
    BY <1>2 DEF KeptShape
  <2>3. DOMAIN keptMenu' = DOMAIN keptMenu /\ keptMenu'.late = TRUE
    BY <2>1, <2>2
  <2>4. keptMenu' # NoMenu
    BY <2>2, <2>3 DEF NoMenu
  <2>5. /\ keptMenu'.scope = keptMenu.scope /\ keptMenu'.tag = keptMenu.tag /\ keptMenu'.counted = keptMenu.counted
        /\ keptMenu'.menu = keptMenu.menu /\ keptMenu'.overtaken = keptMenu.overtaken
    BY <2>1, <2>2
  <2>6. KeptShape'
    BY <2>2, <2>3 DEF KeptShape
  <2>7. QED
    BY <1>2, <2>3, <2>4, <2>5, <2>6
<1>3. CASE ~(keptMenu # NoMenu /\ Printed(keptMenu.scope, time) <= keptMenu.tag.newest)
  <2>1. keptMenu' = keptMenu
    BY <1>1, <1>3
  <2>2. KeptShape'
    BY <2>1 DEF KeptShape
  <2>3. QED
    BY <1>3, <2>1, <2>2
<1>4. QED
  BY <1>2, <1>3

\* Whatever is written, a variant of it on sale is newer than the tag that is kept,
\* or the change is late.
LEMMA ChangeKeeps ==
    ASSUME ShelfInv, ShopFilterAssumption, NEW r0 \in ShelfIds, NEW q, NEW time \in Nat, ChangeShelf(r0, q, time),
           IsShelfProduct(q), StampedOnSale(q, time)
    PROVE  ShelfInv'
<1>1. shelf = [r \in ShelfIds |-> shelf[r]] /\ \A r \in ShelfIds : IsShelfProduct(shelf[r])
  BY DEF ShelfInv, ShelfOk
<1>2. shelf' = [shelf EXCEPT ![r0] = q] /\ askedMenu' = askedMenu
  BY DEF ChangeShelf
<1>3. /\ shelf' = [r \in ShelfIds |-> shelf'[r]] /\ shelf'[r0] = q
      /\ \A r \in ShelfIds : r # r0 => shelf'[r] = shelf[r]
  BY <1>1, <1>2
<1>4. ShelfOk'
  <2>1. \A r \in ShelfIds : IsShelfProduct(shelf'[r])
    BY <1>1, <1>3
  <2>2. QED
    BY <1>3, <2>1 DEF ShelfOk, IsShelfProduct, IsShelfVariant
<1>5. AskTells'
  BY <1>2 DEF ShelfInv, AskTells, FilterMenu, RowsOf
<1>6. ASSUME NEW scope, NEW newest \in Nat, ~(Printed(scope, time) <= newest), NEW counted, KeptGoes(scope, newest, counted)
      PROVE  KeptGoes(scope, newest, counted)'
  <2>1. ASSUME NEW r \in ShelfIds, r # r0
        PROVE  Settled(scope, counted, r)' \/ Fresh(scope, newest, r)'
    <3>1. Settled(scope, counted, r) \/ Fresh(scope, newest, r)
      BY <1>6 DEF KeptGoes
    <3>2. shelf'[r] = shelf[r]
      BY <1>3, <2>1
    <3>3. r \in OnSale(scope)' <=> r \in OnSale(scope)
      BY <3>2 DEF OnSale, InScope, getByCategoryIdPath
    <3>4. \A o : r \in CountsIn(scope, o)' <=> r \in CountsIn(scope, o)
      BY <3>2, <3>3 DEF CountsIn, OptionsOnSale, ActiveVariants
    <3>5. Settled(scope, counted, r) => Settled(scope, counted, r)'
      BY <3>4 DEF Settled
    <3>6. Fresh(scope, newest, r) => Fresh(scope, newest, r)'
      BY <3>2, <3>3 DEF Fresh, ActiveVariants, Printed
    <3>7. QED
      BY <3>1, <3>5, <3>6
  <2>2. Fresh(scope, newest, r0)'
    <3>1. SUFFICES ASSUME ActiveVariants(q) # {} PROVE \E n \in ActiveVariants(q) : Printed(scope, q.variants[n].stamp) > newest
      BY <1>3 DEF Fresh, ActiveVariants, Printed
    <3>2. PICK n \in ActiveVariants(q) : q.variants[n].stamp = time
      BY <3>1 DEF StampedOnSale
    <3>3. Printed(scope, time) > newest
      <4>1. Printed(scope, time) \in Nat
        BY PrintedIsNat
      <4>2. QED
        BY <1>6, <4>1
    <3>4. QED
      BY <3>2, <3>3
  <2>3. \A c \in counted : c = <<c[1], c[2]>> /\ c[1] \in ShelfIds
    BY <1>6 DEF KeptGoes
  <2>4. QED
    BY <2>1, <2>2, <2>3 DEF KeptGoes
<1>7. /\ (keptMenu' # NoMenu) <=> (keptMenu # NoMenu)
      /\ keptMenu # NoMenu =>
            /\ keptMenu'.scope = keptMenu.scope /\ keptMenu'.tag = keptMenu.tag /\ keptMenu'.counted = keptMenu.counted
            /\ keptMenu'.menu = keptMenu.menu /\ (keptMenu'.overtaken <=> keptMenu.overtaken)
            /\ ~keptMenu'.late => ~keptMenu.late /\ ~(Printed(keptMenu.scope, time) <= keptMenu.tag.newest)
      /\ KeptShape'
  BY KeptChanges DEF ShelfInv
<1>8. KeptTells'
  <2>1. SUFFICES ASSUME NEW scope, NEW newest, NEW counted,
                        keptMenu # NoMenu, keptMenu.scope = scope, keptMenu.tag.newest = newest, keptMenu.counted = counted
                 PROVE  /\ keptMenu'.menu = FilterMenu(RowsOf(counted))
                        /\ newest \in Nat
                        /\ ~keptMenu'.overtaken /\ ~keptMenu'.late => KeptGoes(scope, newest, counted)'
    BY <1>7 DEF KeptTells
  <2>2. /\ keptMenu.menu = FilterMenu(RowsOf(counted)) /\ newest \in Nat
        /\ ~keptMenu.overtaken /\ ~keptMenu.late => KeptGoes(scope, newest, counted)
    BY <2>1 DEF ShelfInv, KeptTells
  <2>3. ~keptMenu'.overtaken /\ ~keptMenu'.late => KeptGoes(scope, newest, counted)'
    BY <1>6, <1>7, <2>1, <2>2
  <2>4. QED
    BY <1>7, <2>1, <2>2, <2>3
<1>9. QED
  BY <1>4, <1>5, <1>7, <1>8 DEF ShelfInv

LEMMA ChangesKeep ==
    ASSUME ShelfInv, ShopFilterAssumption, NEW r \in ShelfIds, NEW time \in ShelfTimes,
           SaveShape(r, time) \/ SellVariant(r, time) \/ \E status \in {"ACTIVE", "INACTIVE"} : SwitchShape(r, status, time)
    PROVE  ShelfInv'
<1>1. time \in Nat
  BY DEF ShopFilterAssumption
<1>2. IsShelfProduct(shelf[r])
  BY DEF ShelfInv, ShelfOk
<1>3. ASSUME NEW p, IsShelfProduct(p), NEW S, ChangeShelf(r, Touched(p, S, time), time),
             ActiveVariants(p) # {} => \E n \in ActiveVariants(p) : n \in S
      PROVE  ShelfInv'
  <2> DEFINE q == Touched(p, S, time)
  <2>1. /\ IsShelfProduct(q) /\ ActiveVariants(q) = ActiveVariants(p)
        /\ \A n \in DOMAIN p.variants \cap S : q.variants[n].stamp = time
    BY <1>1, <1>3, TouchedOk
  <2>2. ChangeShelf(r, q, time)
    BY <1>3
  <2> HIDE DEF q
  <2>3. StampedOnSale(q, time)
    BY <1>3, <2>1 DEF StampedOnSale, ActiveVariants
  <2>4. QED
    BY <1>1, <2>1, <2>2, <2>3, ChangeKeeps
<1>4. CASE SaveShape(r, time)
  <2>1. PICK p \in Shapes : ChangeShelf(r, Touched(p, DOMAIN p.variants, time), time)
    BY <1>4 DEF SaveShape
  <2>2. IsShelfProduct(p)
    BY ShapesOk
  <2>3. \A n \in ActiveVariants(p) : n \in DOMAIN p.variants
    BY DEF ActiveVariants
  <2>4. QED
    BY <1>3, <2>1, <2>2, <2>3
<1>5. CASE SellVariant(r, time)
  <2>1. PICK n \in ActiveVariants(shelf[r]) : ChangeShelf(r, Touched(shelf[r], {n}, time), time)
    BY <1>5 DEF SellVariant
  <2>2. QED
    BY <1>2, <1>3, <2>1
<1>6. ASSUME NEW status \in {"ACTIVE", "INACTIVE"}, SwitchShape(r, status, time) PROVE ShelfInv'
  <2> DEFINE p == shelf[r]
             kept == {n \in DOMAIN p.variants : p.variants[n].status # "ARCHIVED"}
             w == [n \in DOMAIN p.variants |-> IF n \in kept THEN [p.variants[n] EXCEPT !.status = status] ELSE p.variants[n]]
             q == [p EXCEPT !.status = status, !.variants = w]
  <2>1. ChangeShelf(r, Touched(q, kept, time), time)
    BY <1>6 DEF SwitchShape
  <2>2. DOMAIN p = {"status", "category", "named", "collected", "variants"}
    BY <1>2 DEF IsShelfProduct
  <2>3. DOMAIN q = DOMAIN p /\ q.variants = w /\ q.category = p.category
    <3> DEFINE p1 == [p EXCEPT !.status = status]
    <3> HIDE DEF w
    <3>1. DOMAIN p1 = DOMAIN p /\ p1.category = p.category /\ q = [p1 EXCEPT !.variants = w]
      BY <2>2
    <3> HIDE DEF p1, q
    <3>2. QED
      BY <2>2, <3>1
  <2>4. DOMAIN w = DOMAIN p.variants
    OBVIOUS
  <2>5. ASSUME NEW n \in DOMAIN p.variants
        PROVE  IsShelfVariant(w[n]) /\ (n \notin kept => w[n].status = "ARCHIVED")
    <3> DEFINE v == p.variants[n]
    <3>1. IsShelfVariant(v)
      BY <1>2 DEF IsShelfProduct
    <3>2. w[n] = IF n \in kept THEN [v EXCEPT !.status = status] ELSE v
      OBVIOUS
    <3>3. n \notin kept => v.status = "ARCHIVED"
      OBVIOUS
    <3> HIDE DEF v, w, kept
    <3>4. n \in kept => /\ DOMAIN w[n] = DOMAIN v /\ w[n].stamp = v.stamp /\ w[n].price = v.price /\ w[n].options = v.options
      BY <3>1, <3>2 DEF IsShelfVariant
    <3>5. n \in kept => IsShelfVariant(w[n])
      BY <3>1, <3>4 DEF IsShelfVariant
    <3>6. QED
      BY <3>1, <3>2, <3>3, <3>5
  <2> HIDE DEF w, q
  <2>6. IsShelfProduct(q)
    BY <1>2, <2>3, <2>4, <2>5 DEF IsShelfProduct
  <2>7. \A n \in ActiveVariants(q) : n \in kept
    <3> HIDE DEF kept
    <3>1. \A n \in ActiveVariants(q) : n \in DOMAIN p.variants /\ w[n].status = "ACTIVE"
      BY <2>3, <2>4 DEF ActiveVariants
    <3>2. QED
      BY <2>5, <3>1
  <2> HIDE DEF kept
  <2>8. QED
    BY <1>3, <2>1, <2>6, <2>7
<1>7. QED
  BY <1>4, <1>5, <1>6

LEMMA GoesOn ==
    ASSUME shelf' = shelf, NEW scope, NEW newest, NEW counted, KeptGoes(scope, newest, counted)
    PROVE  KeptGoes(scope, newest, counted)'
<1>1. \A r : r \in OnSale(scope)' <=> r \in OnSale(scope)
  BY DEF OnSale, InScope, getByCategoryIdPath
<1>2. \A r, o : r \in CountsIn(scope, o)' <=> r \in CountsIn(scope, o)
  BY <1>1 DEF CountsIn, OptionsOnSale, ActiveVariants
<1>3. \A r : Settled(scope, counted, r)' <=> Settled(scope, counted, r)
  BY <1>2 DEF Settled
<1>4. \A r : Fresh(scope, newest, r)' <=> Fresh(scope, newest, r)
  BY <1>1 DEF Fresh, ActiveVariants
<1>5. QED
  BY <1>3, <1>4 DEF KeptGoes

LEMMA KeptStays ==
    ASSUME KeptTells, KeptShape, shelf' = shelf, keptMenu' = keptMenu
    PROVE  KeptTells' /\ KeptShape'
  BY GoesOn DEF KeptTells, KeptShape

LEMMA ReadKeeps ==
    ASSUME ShelfInv, NEW scope \in Scopes, ReadFilterRows(scope)
    PROVE  ShelfInv'
<1>1. /\ askedMenu' = [scope |-> scope, menu |-> FilterMenu(FilterRows(scope)), counted |-> Counted(scope),
                        rows |-> Cardinality(DOMAIN FilterRows(scope))]
      /\ shelf' = shelf /\ keptMenu' = keptMenu
  BY DEF ReadFilterRows
<1>2. FilterRows(scope) = RowsOf(Counted(scope))
  BY DEF FilterRows, RowsOf
<1>3. AskTells'
  BY <1>1, <1>2 DEF AskTells, FilterMenu, RowsOf
<1>4. ShelfOk'
  BY <1>1 DEF ShelfInv, ShelfOk, IsShelfProduct, IsShelfVariant
<1>5. KeptTells' /\ KeptShape'
  BY <1>1, KeptStays DEF ShelfInv
<1>6. QED
  BY <1>3, <1>4, <1>5 DEF ShelfInv

LEMMA AnswerKeeps ==
    ASSUME ShelfInv, ShopFilterAssumption, AnswerFilters
    PROVE  ShelfInv'
<1> DEFINE tag == FiltersTag(askedMenu.scope, askedMenu.rows)
           fresh == [scope |-> askedMenu.scope, tag |-> tag, menu |-> askedMenu.menu, counted |-> askedMenu.counted,
                     overtaken |-> askedMenu.counted # Counted(askedMenu.scope), late |-> FALSE]
<1>1. /\ askedMenu # NoMenu /\ askedMenu' = NoMenu /\ shelf' = shelf
      /\ keptMenu' = keptMenu \/ keptMenu' = fresh
  BY DEF AnswerFilters
<1>2. ShelfOk /\ AskTells /\ KeptTells /\ KeptShape
  BY DEF ShelfInv
<1>3. ShelfOk'
  BY <1>1, <1>2 DEF ShelfOk, IsShelfProduct, IsShelfVariant
<1>4. AskTells'
  BY <1>1 DEF AskTells
<1>5. CASE keptMenu' = keptMenu
  <2>1. KeptTells' /\ KeptShape'
    BY <1>1, <1>2, <1>5, KeptStays
  <2>2. QED
    BY <1>3, <1>4, <2>1 DEF ShelfInv
<1>6. CASE keptMenu' = fresh
  <2>1. PICK scope, counted, newest : scope = askedMenu.scope /\ counted = askedMenu.counted /\ newest = tag.newest
    OBVIOUS
  <2>2. newest \in Nat
    BY <1>2, <2>1, TagNewest
  <2>3. askedMenu.menu = FilterMenu(RowsOf(counted))
    BY <1>1, <1>2, <2>1 DEF AskTells
  <2>4. ASSUME counted = Counted(scope) PROVE KeptGoes(scope, newest, counted)
    <3>1. ASSUME NEW c \in counted PROVE c = <<c[1], c[2]>> /\ c[1] \in ShelfIds
      <4>1. c = <<c[1], c[2]>>
        BY <2>4, CountedIs
      <4>2. <<c[1], c[2]>> \in Counted(scope)
        BY <2>4, <4>1
      <4>3. c[1] \in CountsIn(scope, c[2])
        BY <4>2, CountedIs
      <4>4. QED
        BY <4>1, <4>3 DEF CountsIn, OnSale
    <3>2. \A r \in ShelfIds : Settled(scope, counted, r)
      BY <2>4, CountedIs DEF Settled
    <3>3. QED
      BY <3>1, <3>2 DEF KeptGoes
  <2>5. /\ keptMenu'.scope = scope /\ keptMenu'.counted = counted /\ keptMenu'.tag.newest = newest
        /\ keptMenu'.menu = FilterMenu(RowsOf(counted)) /\ (keptMenu'.overtaken <=> counted # Counted(scope))
    BY <1>6, <2>1, <2>3
  <2>6. KeptGoes(scope, newest, counted) => KeptGoes(scope, newest, counted)'
    BY <1>1, GoesOn
  <2>7. KeptTells'
    <3>1. SUFFICES ASSUME NEW s, NEW m, NEW k, s = scope, m = newest, k = counted
                   PROVE  /\ keptMenu'.menu = FilterMenu(RowsOf(k)) /\ m \in Nat
                          /\ ~keptMenu'.overtaken /\ ~keptMenu'.late => KeptGoes(s, m, k)'
      BY <1>1, <2>5 DEF KeptTells
    <3>2. QED
      BY <2>2, <2>4, <2>5, <2>6, <3>1
  <2>8. KeptShape'
    BY <1>6 DEF KeptShape
  <2>9. QED
    BY <1>3, <1>4, <2>7, <2>8 DEF ShelfInv
<1>7. QED
  BY <1>1, <1>5, <1>6

LEMMA ShelfStands == ASSUME ShelfInv, UNCHANGED filterMenuVars PROVE ShelfInv'
<1>1. shelf' = shelf /\ askedMenu' = askedMenu /\ keptMenu' = keptMenu
  BY DEF filterMenuVars
<1>2. ShelfOk' /\ AskTells'
  BY <1>1 DEF ShelfInv, ShelfOk, IsShelfProduct, IsShelfVariant, AskTells, FilterMenu, RowsOf
<1>3. KeptTells' /\ KeptShape'
  BY <1>1, KeptStays DEF ShelfInv
<1>4. QED
  BY <1>2, <1>3 DEF ShelfInv

\* The filters of the shop: a value that is offered is accepted and shows as many
\* products as it says, whatever is clicked is found, a category shows its branch,
\* and what a client keeps is true while its tag is (filterProducts, the filters
\* of getSearchFilters and getCategoryFilters, sendStoreResponse).
THEOREM FiltersTellAll == ShopFiltersSpec => []FiltersTell
<1>1. InitShopFilters => ShelfInv
  BY ShelfStart, ShopFilterAssumption
<1>2. ASSUME ShelfInv, [NextShopFilters]_filterMenuVars PROVE ShelfInv'
  <2>1. CASE UNCHANGED filterMenuVars
    BY <1>2, <2>1, ShelfStands
  <2>2. ASSUME NEW scope \in Scopes, ReadFilterRows(scope) PROVE ShelfInv'
    BY <1>2, <2>2, ReadKeeps
  <2>3. CASE AnswerFilters
    BY <1>2, <2>3, ShopFilterAssumption, AnswerKeeps
  <2>4. ASSUME NEW r \in ShelfIds, NEW time \in ShelfTimes,
               SaveShape(r, time) \/ SellVariant(r, time) \/ \E status \in {"ACTIVE", "INACTIVE"} : SwitchShape(r, status, time)
        PROVE  ShelfInv'
    BY <1>2, <2>4, ShopFilterAssumption, ChangesKeep
  <2>5. QED
    BY <1>2, <2>1, <2>2, <2>3, <2>4 DEF NextShopFilters
<1>3. ShelfInv => FiltersTell
  <2>1. ShelfInv => OfferedIsShown
    BY OfferedHolds, ShopFilterAssumption DEF ShelfInv
  <2>2. ShelfInv => ClickedIsFound
    BY ClickedHolds, ShopFilterAssumption DEF ShelfInv
  <2>3. ShelfInv => BranchIsShown
    BY BranchHolds, ShopFilterAssumption DEF ShelfInv
  <2>4. QED
    BY <2>1, <2>2, <2>3, KeptImplies, ShopFilterAssumption DEF FiltersTell
<1>4. QED
  BY <1>1, <1>2, <1>3, PTL DEF ShopFiltersSpec

-----------------------------------------------------------------------------
(* All that a client of the shop reads.                                    *)
-----------------------------------------------------------------------------

LEMMA ShopStarts ==
    CatalogueInit => InitTree /\ InitListing /\ InitFilters /\ InitPage /\ InitShopFilters
BY DEF CatalogueInit

LEMMA ShopSteps ==
    [CatalogueNext]_catalogueVars =>
        /\ [NextTree]_treeVars /\ [NextListing]_listingVars /\ [NextFilters]_filterVars
        /\ [NextProductPage]_pageVars /\ [NextShopFilters]_filterMenuVars
<1>1. ASSUME UNCHANGED catalogueVars
      PROVE  UNCHANGED <<treeVars, listingVars, filterVars, pageVars, filterMenuVars>>
  BY <1>1 DEF catalogueVars
<1>2. QED
  BY <1>1 DEF CatalogueNext

\* Whatever the focus, each part goes on as it does alone.
LEMMA PartsGoOn ==
    CatalogueSpec => TreeSpec /\ ListingSpec /\ FilterSpec /\ PageSpec /\ ShopFiltersSpec
BY ShopStarts, ShopSteps, PTL DEF CatalogueSpec, TreeSpec, ListingSpec, FilterSpec, PageSpec, ShopFiltersSpec

\* What a client of the shop reads holds together: a walk shows each product once,
\* the list of filters lags behind no further than a save that has yet to delete
\* it, the menu, a page and the filters that a client keeps are true while their
\* tags are, and what is offered leads to what is shown (storeProductService,
\* storeCategoryService, invalidateVariantCache, sendStoreResponse).
THEOREM ShopCorrect == CatalogueSpec => []ShopHolds
<1>1. WalkShowsEachOnce /\ FiltersInv /\ TagTellsMenu /\ PagesHold /\ FiltersTell => ShopHolds
  BY DEF ShopHolds, ListingHolds, FiltersInv, ShelfTells, FiltersTell
<1>2. QED
  BY <1>1, PartsGoOn, WalksShowAll, FiltersStay, TagTellsTheMenu, PagesTell, FiltersTellAll, PTL

=============================================================================
