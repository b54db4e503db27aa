---------------------------- MODULE CategoryTree ----------------------------
(***************************************************************************)
(* The tree of categories under several administrators.  A category keeps  *)
(* the path of its ids, which never changes, and the path of its slugs,    *)
(* which every rename above it must rewrite.  A rename and a creation are  *)
(* transactions of several statements: they read without a lock, wait for  *)
(* the rows they write, and are seen by others when they commit.  The shop *)
(* keeps its menu under a tag made of the newest updated_at and a count.   *)
(***************************************************************************)
EXTENDS Integers, Sequences, FiniteSets, SequencesExt

CONSTANTS
    Categories,     \* the ids, in the order the sequence gives them
    Bases,          \* what slugify makes of the names and slugs that are sent
    Trees,          \* the trees to begin with
    Editors,        \* requests of administrators that are handled at a time
    MaxEdits,       \* bound: commands
    MaxClock        \* bound: seconds

ASSUME CategoryAssumption ==
    /\ Categories \subseteq Nat \ {0}
    /\ 0 \notin Editors
    /\ MaxEdits \in Nat /\ MaxClock \in Nat

Root == 0           \* parent_id IS NULL
MaxDepth == 3
Statuses == {"ACTIVE", "INACTIVE"}

\* A tree as creations leave it: a row's paths are its parent's and itself.
Grown(t) ==
    /\ DOMAIN t \subseteq Categories /\ IsFiniteSet(DOMAIN t)
    /\ \A c \in DOMAIN t :
        LET row == t[c]
            above == IF row.parent = Root THEN [idPath |-> <<>>, slugPath |-> <<>>] ELSE t[row.parent]
        IN  /\ row.parent \in DOMAIN t \cup {Root} /\ row.stamp = 0
            /\ row.idPath \in Seq(Categories) /\ Len(row.idPath) <= MaxDepth
            /\ row = [parent |-> row.parent, slug |-> row.slug, status |-> row.status, stamp |-> row.stamp,
                      idPath |-> Append(above.idPath, c), slugPath |-> Append(above.slugPath, row.slug)]
            /\ row.slugPath \in Seq(Bases \X Nat)
    /\ \A c, d \in DOMAIN t : t[c].slugPath = t[d].slugPath => c = d

ASSUME TreesAssumption == \A t \in Trees : Grown(t)

VARIABLES
    category,       \* the rows, by id
    given,          \* the ids that the sequence has given
    edit,           \* what each editor's request has read and written so far
    edits,          \* commands so far
    clock,          \* the second it is
    menuCopy,       \* what a client of the shop keeps: menu, tag, when
    torn            \* history: at or below edits that crossed

treeVars == <<category, given, edit, edits, clock, menuCopy, torn>>

Ids == DOMAIN category
Idle == [at |-> "idle"]

Children(p) == {c \in Ids : category[c].parent = p}
Below(c) == {d \in Ids : c \in ToSet(category[d].idPath)}
PathOf(p) == IF p = Root THEN <<>> ELSE category[p].slugPath

\* generateUniqueCategorySlug: the name's slug, or with the first number that
\* no sibling has.
SlugFree(parent, slug, but) == \A c \in Children(parent) \ {but} : category[c].slug # slug
FreeSlug(parent, base, but) ==
    CHOOSE slug \in {base} \X (1 .. Cardinality(Ids) + 1) :
        /\ SlugFree(parent, slug, but)
        /\ \A n \in 1 .. slug[2] - 1 : ~SlugFree(parent, <<base, n>>, but)

\* assertMaxDepth; a parent that is gone has depth 1 and is refused later.
DepthAccepted(parent) ==
    parent \in Ids => Len(category[parent].idPath) < MaxDepth

InitTree ==
    /\ category \in Trees
    /\ given = Ids
    /\ edit = [e \in Editors |-> Idle]
    /\ edits = 0
    /\ clock = 0
    /\ menuCopy = [kept |-> FALSE]
    /\ torn = {}

-----------------------------------------------------------------------------
(* Rows that a transaction has written, or holds by a foreign key, and the *)
(* two unique indexes.                                                     *)

Others(e) == Editors \ {e}
Written(c, e) == \E f \in Others(e) : edit[f].at \in {"written", "matched"} /\ edit[f].id = c
HeldAsParent(c, e) == \E f \in Others(e) : edit[f].at = "inserted" /\ edit[f].parent = c

\* uq_categories_parent_slug does not see the roots: their parent is NULL.
SiblingTaken(parent, slug, id) ==
    parent # Root /\ \E c \in Children(parent) \ {id} : category[c].slug = slug

PathTaken(path, id) == \E c \in Ids \ {id} : category[c].slugPath = path

\* A slug or a path that another transaction has written and not committed:
\* the index makes the writer wait.
SlugPending(parent, slug, e) ==
    \E f \in Others(e) :
        /\ edit[f].at \in {"written", "matched", "inserted"}
        /\ edit[f].slug = slug
        /\ parent # Root /\ edit[f].parent = parent

PathPending(path, e) == \E f \in Others(e) : edit[f].at = "matched" /\ edit[f].path = path

\* Other requests learn that an edit of the categories C has committed meanwhile.
Met(C, e) ==
    [f \in Editors |-> IF f # e /\ edit[f].at # "idle" THEN [edit[f] EXCEPT !.met = @ \cup C] ELSE edit[f]]
Done(C, e) == [Met(C, e) EXCEPT ![e] = Idle]

\* A copy in the shop is late when an edit commits that was stamped in its
\* second or before.
Stamped(stamp) == IF menuCopy.kept /\ stamp <= menuCopy.when THEN [menuCopy EXCEPT !.late = TRUE] ELSE menuCopy

-----------------------------------------------------------------------------
(* create and update.                                                      *)

\* What a request has to go by; now() is the time its transaction begins.
Asked(id, parent, base, status, retry) ==
    [at |-> "begin", id |-> id, parent |-> parent, base |-> base, status |-> status, retry |-> retry,
     stamp |-> clock, slug |-> <<>>, old |-> <<>>, path |-> <<>>, rows |-> {}, met |-> {}]

\* The request arrives.
Ask(e) ==
    /\ edit[e] = Idle
    /\ edits < MaxEdits
    /\ edits' = edits + 1
    /\ \E base \in Bases, status \in Statuses, id \in Ids \cup {Root}, parent \in Ids \cup {Root} :
        /\ id # Root => parent = category[id].parent
        /\ edit' = [edit EXCEPT ![e] = Asked(id, parent, base, status, TRUE)]
    /\ UNCHANGED <<category, given, clock, menuCopy, torn>>

\* The slug; the depth of the parent, or the category's own old path.
Read(e) ==
    LET ask == edit[e] IN
    /\ ask.at = "begin"
    /\ IF ask.id = Root THEN DepthAccepted(ask.parent) ELSE ask.id \in Ids
    /\ edit' = [edit EXCEPT ![e].at = "read", ![e].met = {}, ![e].old = PathOf(ask.id),
                            ![e].slug = FreeSlug(ask.parent, ask.base, ask.id)]
    /\ UNCHANGED <<category, given, edits, clock, menuCopy, torn>>

\* A category that does not exist, or a parent too deep.
Refuse(e) ==
    /\ edit[e].at = "begin"
    /\ IF edit[e].id = Root THEN ~DepthAccepted(edit[e].parent) ELSE edit[e].id \notin Ids
    /\ edit' = [edit EXCEPT ![e] = Idle]
    /\ UNCHANGED <<category, given, edits, clock, menuCopy, torn>>

\* INSERT, with the paths still empty: the unique index on slug_path lets one
\* such row in at a time, and the parent is held by the foreign key.
Insert(e) ==
    LET ask == edit[e] IN
    /\ ask.at = "read" /\ ask.id = Root
    /\ Categories # given
    /\ \A f \in Others(e) : edit[f].at # "inserted"
    /\ ask.parent \in Ids \cup {Root}
    /\ ~Written(ask.parent, e)
    /\ ~SiblingTaken(ask.parent, ask.slug, Root)
    /\ ~SlugPending(ask.parent, ask.slug, e)
    /\ edit' = [edit EXCEPT ![e].at = "inserted"]
    /\ UNCHANGED <<category, given, edits, clock, menuCopy, torn>>

\* The parent's paths are read, the row is completed, and the commit.
CommitCreate(e) ==
    LET ask == edit[e]
        path == Append(PathOf(ask.parent), ask.slug)
    IN
    /\ ask.at = "inserted"
    /\ \E id \in Categories \ given :
        /\ \A c \in Categories \ given : id <= c
        /\ ~PathTaken(path, id)
        /\ category' = [c \in Ids \cup {id} |->
                IF c # id THEN category[c]
                ELSE [parent |-> ask.parent, slug |-> ask.slug, status |-> ask.status, stamp |-> ask.stamp,
                      idPath |-> Append(IF ask.parent = Root THEN <<>> ELSE category[ask.parent].idPath, id),
                      slugPath |-> path]]
        /\ given' = given \cup {id}
        /\ edit' = Done({id}, e)
    /\ ~PathPending(path, e)
    /\ menuCopy' = Stamped(ask.stamp)
    /\ UNCHANGED <<edits, clock, torn>>

\* The first UPDATE of a rename: it waits for whoever has the row, and with a
\* new slug also for those who inserted below it.
WriteSlug(e) ==
    LET ask == edit[e] IN
    /\ ask.at = "read" /\ ask.id \in Ids
    /\ ~Written(ask.id, e)
    /\ ask.slug # category[ask.id].slug => ~HeldAsParent(ask.id, e)
    /\ ~SiblingTaken(ask.parent, ask.slug, ask.id)
    /\ ~SlugPending(ask.parent, ask.slug, e)
    /\ edit' = [edit EXCEPT ![e].at = "written"]
    /\ UNCHANGED <<category, given, edits, clock, menuCopy, torn>>

\* Slip: the children only.
ChildRows(ask) == Children(ask.id)

\* The rows of the last UPDATE: those whose path is below the one read at first.
SubtreeRows(ask) == {c \in Ids \ {ask.id} : IsStrictPrefix(ask.old, category[c].slugPath)}

\* The parent's path is read again, for the category's own; the last UPDATE
\* begins, and finds its rows.
Match(e) ==
    LET ask == edit[e]
        path == Append(PathOf(ask.parent), ask.slug)
    IN
    /\ ask.at = "written"
    /\ path # category[ask.id].slugPath => ~HeldAsParent(ask.id, e)
    /\ ~PathTaken(path, ask.id)
    /\ ~PathPending(path, e)
    /\ edit' = [edit EXCEPT ![e].at = "matched", ![e].path = path, ![e].rows = SubtreeRows(ask)]
    /\ UNCHANGED <<category, given, edits, clock, menuCopy, torn>>

\* regexp_replace of the old path by the new one at the front; a row that no
\* longer matches when its turn comes is left alone.
StillMatches(ask, c) == c \in ask.rows /\ IsStrictPrefix(ask.old, category[c].slugPath)
Rewritten(ask, c) ==
    IF StillMatches(ask, c)
    THEN ask.path \o SubSeq(category[c].slugPath, Len(ask.old) + 1, Len(category[c].slugPath))
    ELSE category[c].slugPath

\* Rows that a rename rewrites although they are not below it: they took the
\* path that it has read.
Strangers(ask) == {c \in Ids \ Below(ask.id) : StillMatches(ask, c)}

\* Where a path may be wrong afterwards: at and below a stranger, and at or below
\* two edits that overlapped, one of them at or above the other.
Crossing(ask) ==
    LET own == {ask.id} \cup Strangers(ask)
        met == ask.met \cap Ids
        Crossed(S, R) == {c \in S : \E d \in R : c \in Below(d) \/ d \in Below(c)}
    IN  UNION {Below(c) : c \in Strangers(ask) \cup Crossed(own, met) \cup Crossed(met, own)}

\* The commit, when the last UPDATE has got the rows it found.
CommitRename(e) ==
    LET ask == edit[e] IN
    /\ ask.at = "matched"
    /\ \A c \in ask.rows \cap Ids : ~Written(c, e) /\ ~HeldAsParent(c, e)
    /\ category' = [c \in Ids |->
            IF c = ask.id
            THEN [category[c] EXCEPT !.slug = ask.slug, !.slugPath = ask.path, !.status = ask.status, !.stamp = ask.stamp]
            ELSE [category[c] EXCEPT !.slugPath = Rewritten(ask, c),
                                     !.stamp = IF StillMatches(ask, c) THEN ask.stamp ELSE @]]
    /\ \A c, d \in Ids : category'[c].slugPath = category'[d].slugPath => c = d
    /\ edit' = Done({ask.id} \cup Strangers(ask), e)
    /\ menuCopy' = Stamped(ask.stamp)
    /\ torn' = torn \cup Crossing(ask)
    /\ UNCHANGED <<given, edits, clock>>

\* What the unique indexes refuse.
Conflict(ask) ==
    LET path == Append(PathOf(ask.parent), ask.slug) IN
    CASE ask.at = "read" -> SiblingTaken(ask.parent, ask.slug, ask.id)
      [] ask.at \in {"written", "inserted"} -> PathTaken(path, ask.id)
      [] ask.at = "matched" ->
            \E c \in ask.rows \cap Ids : \E d \in Ids \ {c} :
                Rewritten(ask, c) = IF d = ask.id THEN ask.path ELSE Rewritten(ask, d)
      [] OTHER -> FALSE

\* withSlugRetry: it is rolled back and tried once more, in a transaction of
\* its own.
RollBack(e) ==
    LET ask == edit[e] IN
    /\ Conflict(ask)
    /\ edit' = [edit EXCEPT ![e] =
            IF ask.retry THEN Asked(ask.id, ask.parent, ask.base, ask.status, FALSE) ELSE Idle]
    /\ UNCHANGED <<category, given, edits, clock, menuCopy, torn>>

\* The row or its parent is gone meanwhile (or the model's ids are used up).
Fail(e) ==
    /\ edit[e].at = "read"
    /\ {edit[e].id, edit[e].parent} \subseteq Ids \cup {Root} => edit[e].id = Root /\ Categories = given
    /\ edit' = [edit EXCEPT ![e] = Idle]
    /\ UNCHANGED <<category, given, edits, clock, menuCopy, torn>>

\* remove: one DELETE, which the foreign key refuses for a parent, and which
\* waits for a rename of the row or an insert below it.
RemoveCategory(c) ==
    /\ edits < MaxEdits
    /\ Children(c) = {}
    /\ ~Written(c, Root) /\ ~HeldAsParent(c, Root)
    /\ \A e \in Editors : edit[e].at = "matched" => c \notin edit[e].rows
    /\ category' = [d \in Ids \ {c} |-> category[d]]
    /\ edits' = edits + 1
    /\ torn' = torn \ {c}
    /\ UNCHANGED <<given, edit, clock, menuCopy>>

-----------------------------------------------------------------------------
(* The shop.                                                               *)

\* getMegaMenuTree and mapMegaMenu: a category is hidden with its ancestors.
Menu ==
    {[id |-> c, parent |-> category[c].parent, slug |-> category[c].slug, path |-> category[c].slugPath] :
        c \in {d \in Ids : \A p \in ToSet(category[d].idPath) \cap Ids : category[p].status = "ACTIVE"}}

\* Slip: only the newest.
NewestOnly ==
    LET active == {c \in Ids : category[c].status = "ACTIVE"} IN
    [newest |-> IF active = {} THEN -1
                ELSE CHOOSE s \in {category[c].stamp : c \in active} : \A c \in active : category[c].stamp <= s,
     total |-> 0]

\* The seed of its tag: a Date that is printed with its seconds, and a count.
MenuTag ==
    LET active == {c \in Ids : category[c].status = "ACTIVE"} IN
    [newest |-> IF active = {} THEN -1
                ELSE CHOOSE s \in {category[c].stamp : c \in active} : \A c \in active : category[c].stamp <= s,
     total |-> Cardinality(active)]

\* A client without a copy, or whose tag is not the one of today (otherwise
\* sendStoreResponse answers 304, and it keeps what it has).  The rows and the tag
\* are two queries in the code and one step here.
FetchMenu ==
    /\ menuCopy.kept => menuCopy.tag # MenuTag
    /\ menuCopy' = [kept |-> TRUE, tag |-> MenuTag, menu |-> Menu, when |-> clock, late |-> FALSE]
    /\ UNCHANGED <<category, given, edit, edits, clock, torn>>

\* getCategoryDetail: the page of a path, the links of its breadcrumb and to
\* its children, if active.
Page(path) == {c \in Ids : category[c].slugPath = path /\ category[c].status = "ACTIVE"}
Links(c) == {d \in (ToSet(category[c].idPath) \cap Ids) \cup Children(c) : category[d].status = "ACTIVE"}

Second ==
    /\ clock < MaxClock
    /\ clock' = clock + 1
    /\ UNCHANGED <<category, given, edit, edits, menuCopy, torn>>

NextTree ==
    \/ \E e \in Editors :
        \/ Ask(e) \/ Read(e) \/ Refuse(e) \/ Insert(e) \/ CommitCreate(e)
        \/ WriteSlug(e) \/ Match(e) \/ CommitRename(e) \/ RollBack(e) \/ Fail(e)
    \/ \E c \in Ids : RemoveCategory(c)
    \/ FetchMenu
    \/ Second

TreeSpec == InitTree /\ [][NextTree]_treeVars

-----------------------------------------------------------------------------
(* Properties.                                                             *)

\* A category hangs below its parent in both of its paths, no deeper than
\* three levels, and every link of a page leads to its own; only the path of
\* slugs may be wrong, and only at or below two edits that overlapped, or where a rename
\* took for its own who had taken its old path.
TreeInOrder ==
    \A c \in Ids :
        /\ category[c].parent \in Ids \cup {Root}
        /\ Len(category[c].idPath) <= MaxDepth
        /\ category[c].idPath =
                Append(IF category[c].parent = Root THEN <<>> ELSE category[category[c].parent].idPath, c)
        /\ \A d \in Links(c) : Page(category[d].slugPath) = {d}
        /\ c \notin torn => category[c].slugPath = Append(PathOf(category[c].parent), category[c].slug)

\* A client whose tag still fits has the menu of today, unless an edit has
\* committed with a stamp of the second in which it fetched, or before.
TagTellsMenu ==
    menuCopy.kept /\ menuCopy.tag = MenuTag /\ ~menuCopy.late => menuCopy.menu = Menu

=============================================================================
