----------------------------- MODULE Collections -----------------------------
(***************************************************************************)
(* Collections: their slugs, which two administrators may choose at once,  *)
(* their order, the products in them, and the shop's first page, which     *)
(* shows some products of each.  A banner that leads to a collection keeps *)
(* it from being removed: Marketing has that.                              *)
(***************************************************************************)
EXTENDS Naturals, SequencesExt, FiniteSetsExt, Ordering

CONSTANTS
    CollectionSlugs,    \* what names and sent slugs come to: <<"a">>, and <<"a", 2>> for "a-2"
    FirstCollections,   \* the collections there are at first, by id
    CollectionSavers,   \* requests of administrators
    HomeProducts,       \* products, in the order of their creation
    HomeLimit,          \* products that the first page shows of a collection
    MaxCollections,     \* bound on the ids
    MaxSortOrder,       \* bound on the places that are sent
    MaxHomeChanges      \* bound on the changes

ASSUME CollectionAssumption ==
    /\ HomeProducts \subseteq Nat /\ IsFiniteSet(HomeProducts)
    /\ HomeLimit \in Nat \ {0} /\ MaxSortOrder \in Nat
    /\ \A base \in CollectionSlugs : Len(base) \in Nat /\ base = [n \in 1 .. Len(base) |-> base[n]]
    /\ LET slugs == {FirstCollections[c].slug : c \in DOMAIN FirstCollections}
       IN  FirstCollections \in Seq([slug : slugs, status : {"ACTIVE", "INACTIVE"}, place : Nat])

NoHome == [at |-> "none"]
NoSave == [at |-> "idle"]

VARIABLES
    collection,     \* the rows, by id; one that was removed is "gone"
    onHome,         \* products: status, updated_at, what its card says, collections
    collectionSave, \* what each request has read; rivals is history: saves of others meanwhile
    homeAnswer,     \* the first page that a request has read, before it asks for the tag
    keptHome,       \* the first page that a client keeps, with its tag; history: what it was made of
    homeChanges     \* changes so far: the time

collectionVars == <<collection, onHome, collectionSave, homeAnswer, keptHome, homeChanges>>

There == {c \in DOMAIN collection : collection[c].status # "gone"}

OneMoreChange ==
    /\ homeChanges < MaxHomeChanges
    /\ homeChanges' = homeChanges + 1

-----------------------------------------------------------------------------
(* create and update: a slug is looked for, and then written; the unique   *)
(* index refuses it to whoever comes second, who looks once more.          *)

SlugsOfOthers(id) == {collection[c].slug : c \in There \ {id}}

\* "a", or else "a-2", "a-3" and so on.
generateUniqueSlug(base, id) ==
    IF base \notin SlugsOfOthers(id) THEN base
    ELSE Append(base, Min({n \in 2 .. Len(collection) + 2 : Append(base, n) \notin SlugsOfOthers(id)}))

\* MAX(sort_order) of all, or the first place.
getNextSortOrder == Max({0} \cup {collection[c].place + 1 : c \in There})

\* An id that is not there yet is that of a new one.
ChooseSlug(w) ==
    /\ collectionSave[w] = NoSave
    /\ \E base \in CollectionSlugs, status \in {"ACTIVE", "INACTIVE"}, id \in There \cup {0} :
        collectionSave' = [collectionSave EXCEPT ![w] =
            [at |-> "chosen", id |-> id, base |-> base, status |-> status, slug |-> generateUniqueSlug(base, id),
             place |-> getNextSortOrder, tries |-> 1, rivals |-> 0]]
    /\ UNCHANGED <<collection, onHome, homeAnswer, keptHome, homeChanges>>

\* withSlugRetry; an update looks for its collection first.
ChooseSlugAgain(w) ==
    LET save == collectionSave[w] IN
    /\ save.at = "beaten"
    /\ collectionSave' = [collectionSave EXCEPT ![w] =
            IF save.id \in There \cup {0}
            THEN [save EXCEPT !.at = "chosen", !.slug = generateUniqueSlug(save.base, save.id),
                      !.place = getNextSortOrder, !.tries = @ + 1]
            ELSE NoSave]
    /\ UNCHANGED <<collection, onHome, homeAnswer, keptHome, homeChanges>>

\* Slip: who is beaten does not look again.
RefusedAtOnce(w) ==
    /\ collectionSave[w].at = "chosen" /\ collectionSave[w].id \in There \cup {0}
    /\ collectionSave[w].slug \in SlugsOfOthers(collectionSave[w].id)
    /\ collectionSave' = [collectionSave EXCEPT ![w].at = "refused"]
    /\ UNCHANGED <<collection, onHome, homeAnswer, keptHome, homeChanges>>

SlugTaken(w) ==
    /\ collectionSave[w].at = "chosen" /\ collectionSave[w].id \in There \cup {0}
    /\ collectionSave[w].slug \in SlugsOfOthers(collectionSave[w].id)
    /\ collectionSave' = [collectionSave EXCEPT ![w].at = IF collectionSave[w].tries = 1 THEN "beaten" ELSE "refused"]
    /\ UNCHANGED <<collection, onHome, homeAnswer, keptHome, homeChanges>>

\* updated_at is left empty: no trigger writes it.
WriteCollection(w) ==
    LET save == collectionSave[w] IN
    /\ save.at = "chosen" /\ save.slug \notin SlugsOfOthers(save.id)
    /\ save.id \in There \cup {0}
    /\ save.id = 0 => Len(collection) < MaxCollections
    /\ OneMoreChange
    /\ collection' = IF save.id = 0
                     THEN Append(collection, [slug |-> save.slug, status |-> save.status, place |-> save.place])
                     ELSE [collection EXCEPT ![save.id].slug = save.slug, ![save.id].status = save.status]
    /\ collectionSave' = [v \in CollectionSavers |->
            IF v = w THEN NoSave
            ELSE IF collectionSave[v].at \in {"chosen", "beaten"}
            THEN [collectionSave[v] EXCEPT !.rivals = @ + 1] ELSE collectionSave[v]]
    /\ UNCHANGED <<onHome, homeAnswer, keptHome>>

\* The administrator sees that it failed; or it was removed in the meantime.
LeaveSave(w) ==
    /\ \/ collectionSave[w].at = "refused"
       \/ collectionSave[w].at = "chosen" /\ collectionSave[w].id \notin There \cup {0}
    /\ collectionSave' = [collectionSave EXCEPT ![w] = NoSave]
    /\ UNCHANGED <<collection, onHome, homeAnswer, keptHome, homeChanges>>

-----------------------------------------------------------------------------
(* The other commands.                                                     *)

\* Ids that are not there are passed over, unless none is.
ReorderCollections ==
    \E S \in SUBSET DOMAIN collection : \E place \in [S -> 1 .. MaxSortOrder] :
        /\ S \cap There # {}
        /\ OneMoreChange
        /\ collection' = [c \in DOMAIN collection |->
                IF c \in S \cap There THEN [collection[c] EXCEPT !.place = place[c]] ELSE collection[c]]
        /\ UNCHANGED <<onHome, collectionSave, homeAnswer, keptHome>>

\* The rows of product_collections go with it.
RemoveCollection(c) ==
    /\ c \in There
    /\ OneMoreChange
    /\ collection' = [collection EXCEPT ![c] = [slug |-> <<>>, status |-> "gone", place |-> 0]]
    /\ onHome' = [p \in HomeProducts |-> [onHome[p] EXCEPT !.in = @ \ {c}]]
    /\ UNCHANGED <<collectionSave, homeAnswer, keptHome>>

\* insertProductCollections, when the form is saved: all are there, or it fails.
SaveHomeProduct(p) ==
    /\ OneMoreChange
    /\ \E status \in {"ACTIVE", "INACTIVE"}, chosen \in SUBSET There :
        onHome' = [onHome EXCEPT ![p] = [status |-> status, stamp |-> homeChanges + 1, card |-> homeChanges + 1, in |-> chosen]]
    /\ UNCHANGED <<collection, collectionSave, homeAnswer, keptHome>>

SwitchHomeProduct(p, status) ==
    /\ OneMoreChange
    /\ onHome' = [onHome EXCEPT ![p].status = status, ![p].stamp = homeChanges + 1]
    /\ UNCHANGED <<collection, collectionSave, homeAnswer, keptHome>>

-----------------------------------------------------------------------------
(* The first page.                                                         *)

InCollection == {pc \in HomeProducts \X There : pc[2] \in onHome[pc[1]].in}

\* The newest products come first.
NewestFirst(S) == SortedBy(S, {pq \in S \X S : pq[1] > pq[2]})
Previewed(c) == NewestFirst({p \in HomeProducts : c \in onHome[p].in /\ onHome[p].status = "ACTIVE"})

\* mapCollectionPreview: the first of them, and whether there are more.  The query
\* itself orders its rows by collection only; that those of one collection stay as
\* the subquery orders them is how the database joins.
PreviewOf(c) ==
    [id |-> c, slug |-> collection[c].slug, hasMore |-> Len(Previewed(c)) > HomeLimit,
     products |-> [k \in 1 .. Min({HomeLimit, Len(Previewed(c))}) |-> <<Previewed(c)[k], onHome[Previewed(c)[k]].card>>]]

\* A collection that shows nothing is left out.
HomePage ==
    LET shown == {c \in There : collection[c].status = "ACTIVE" /\ Previewed(c) # <<>>}
        before == {cd \in shown \X shown :
                      \/ collection[cd[1]].place < collection[cd[2]].place
                      \/ collection[cd[1]].place = collection[cd[2]].place /\ cd[1] < cd[2]}
        sorted == SortedBy(shown, before)
    IN  [n \in DOMAIN sorted |-> PreviewOf(sorted[n])]

\* Slip: what is not for sale is left out, as it is on the page.
NewestOnSale ==
    Max({0} \cup {onHome[pc[1]].stamp :
            pc \in {x \in InCollection : collection[x[2]].status = "ACTIVE" /\ onHome[x[1]].status = "ACTIVE"}})

\* The newest updated_at of all products in the collections that are shown; that
\* of a collection is empty.
HomeTag ==
    Max({0} \cup {onHome[pc[1]].stamp : pc \in {x \in InCollection : collection[x[2]].status = "ACTIVE"}})

ReadHome ==
    /\ homeAnswer = NoHome
    /\ homeAnswer' = [at |-> "read", page |-> HomePage]
    /\ UNCHANGED <<collection, onHome, collectionSave, keptHome, homeChanges>>

AnswerHome ==
    /\ homeAnswer # NoHome
    /\ homeAnswer' = NoHome
    /\ keptHome' = IF keptHome # NoHome /\ keptHome.tag = HomeTag THEN keptHome
                   ELSE [at |-> "kept", page |-> homeAnswer.page, tag |-> HomeTag, rows |-> collection,
                         members |-> InCollection, overtaken |-> homeAnswer.page # HomePage]
    /\ UNCHANGED <<collection, onHome, collectionSave, homeChanges>>

InitCollections ==
    /\ collection = FirstCollections
    /\ onHome \in [HomeProducts -> [status : {"ACTIVE", "INACTIVE"}, stamp : {0}, card : {0}, in : SUBSET There]]
    /\ collectionSave = [w \in CollectionSavers |-> NoSave]
    /\ homeAnswer = NoHome /\ keptHome = NoHome
    /\ homeChanges = 0

NextCollections ==
    \/ \E w \in CollectionSavers :
        ChooseSlug(w) \/ ChooseSlugAgain(w) \/ SlugTaken(w) \/ WriteCollection(w) \/ LeaveSave(w)
    \/ ReorderCollections
    \/ \E c \in DOMAIN collection : RemoveCollection(c)
    \/ \E p \in HomeProducts :
        SaveHomeProduct(p) \/ \E status \in {"ACTIVE", "INACTIVE"} : SwitchHomeProduct(p, status)
    \/ ReadHome \/ AnswerHome

CollectionsSpec == InitCollections /\ [][NextCollections]_collectionVars

-----------------------------------------------------------------------------
(* Properties.                                                             *)

\* A save is refused for its slug only if two saves of others came in between,
\* whatever the names: one is made good by looking again.
RefusedIfBeatenTwice ==
    \A w \in CollectionSavers : collectionSave[w].at = "refused" => collectionSave[w].rivals >= 2

\* While the tag is the one a client keeps, the first page tells of every product
\* that came, was switched or was changed; not of one that left a collection, nor
\* of any change of a collection itself, nor of what came between the two queries.
KeptHomeTells ==
    keptHome # NoHome /\ keptHome.tag = HomeTag =>
        \/ keptHome.page = HomePage
        \/ keptHome.rows # collection
        \/ keptHome.members \ InCollection # {}
        \/ keptHome.overtaken

CollectionsHold == RefusedIfBeatenTwice /\ KeptHomeTells
=============================================================================
