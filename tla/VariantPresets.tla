--------------------------- MODULE VariantPresets ---------------------------
(***************************************************************************)
(* Presets that the product form offers: the name of a dimension and its   *)
(* values.  A save replaces all the values of a preset: rows are deleted   *)
(* and inserted in a transaction that has updated the preset's own row.    *)
(* An order of values names rows by their ids, which a save gives out      *)
(* anew, and gives them places.  It comes from a page that was loaded      *)
(* before, or from a client of any kind: nothing compares it with the rows *)
(* that are there.                                                         *)
(***************************************************************************)
EXTENDS Naturals, FiniteSets

CONSTANTS
    Presets,        \* ids of variant_dimensions_presets
    PresetNames,    \* names, with LOWER applied
    Clerks,         \* saves of administrators in flight
    MaxValues,      \* how many values a form can list
    MaxForms,       \* bound on the forms that are sent
    Places          \* places that a request of any kind can give

ASSUME PresetAssumption ==
    /\ Presets \subseteq Nat /\ IsFiniteSet(Presets)
    /\ MaxValues \in Nat \ {0} /\ MaxForms \in Nat
    /\ PresetNames \cap {"nameless", "deleted"} = {}
    /\ Places \subseteq Nat

VARIABLES
    presetName,     \* variant_dimensions_presets: the name of each row
    presetValues,   \* variant_dimension_values_presets: sort_order by id
    clerk,          \* the transaction of each request
    openPreset,     \* the ids that a page shows
    forms,          \* how many forms were sent
    savedForm,      \* history: the form each preset was last saved with
    untidy          \* history: presets with values that a request ordered at will

presetVars == <<presetName, presetValues, clerk, openPreset, forms, savedForm, untidy>>

Nameless == "nameless"
Deleted == "deleted"
Sitting == [op |-> "sitting"]

Listed == {p \in Presets : presetName[p] \in PresetNames}
ValuesOf(p) == {v \in DOMAIN presetValues : v.preset = p}

\* The rows of a form: which preset's, which form's, and the place in it.
FormRows(p, form) == {[preset |-> p, form |-> form.nr, nth |-> n] : n \in 1 .. form.size}

InitPresets ==
    /\ presetName = [p \in Presets |-> Nameless]
    /\ presetValues = <<>>
    /\ clerk = [r \in Clerks |-> Sitting]
    /\ openPreset = {}
    /\ forms = 0
    /\ savedForm = [p \in Presets |-> [nr |-> 0, size |-> 0]]
    /\ untidy = {}

-----------------------------------------------------------------------------
(* create and update.  The unique index on LOWER(name) has a transaction   *)
(* wait for one that gives, or takes, the same name.                       *)

NameTaken(p, name) == \E q \in Listed \ {p} : presetName[q] = name
NameAwaited(p, name) ==
    \E r \in Clerks : /\ clerk[r] # Sitting /\ clerk[r].preset # p
                      /\ name \in {clerk[r].name, presetName[clerk[r].preset]}
Locked(p) == \E r \in Clerks : clerk[r] # Sitting /\ clerk[r].preset = p

\* Slip: the preset's row is read and not updated first.
ReadPresetRow(r, p, name, size) ==
    /\ clerk[r] = Sitting /\ forms < MaxForms
    /\ p \in Listed
    /\ ~NameTaken(p, name)
    /\ clerk' = [clerk EXCEPT ![r] =
           [op |-> "clear", preset |-> p, name |-> name, form |-> [nr |-> forms + 1, size |-> size]]]
    /\ forms' = forms + 1
    /\ UNCHANGED <<presetName, presetValues, openPreset, savedForm, untidy>>

\* UPDATE of the preset's row, which stays locked until the commit.
UpdatePresetRow(r, p, name, size) ==
    /\ clerk[r] = Sitting /\ forms < MaxForms
    /\ p \in Listed
    /\ ~Locked(p) /\ ~NameTaken(p, name) /\ ~NameAwaited(p, name)
    /\ clerk' = [clerk EXCEPT ![r] =
           [op |-> "clear", preset |-> p, name |-> name, form |-> [nr |-> forms + 1, size |-> size]]]
    /\ forms' = forms + 1
    /\ UNCHANGED <<presetName, presetValues, openPreset, savedForm, untidy>>

\* DELETE of the values that are there.
ClearValues(r) ==
    /\ clerk[r].op = "clear"
    /\ clerk' = [clerk EXCEPT ![r] =
           [op |-> "insert", preset |-> clerk[r].preset, name |-> clerk[r].name,
            form |-> clerk[r].form, cleared |-> ValuesOf(clerk[r].preset)]]
    /\ UNCHANGED <<presetName, presetValues, openPreset, forms, savedForm, untidy>>

\* insertDimensionValues, numbered as the form lists them, and the commit.
InsertValues(r) ==
    LET c == clerk[r]
        rows == FormRows(c.preset, c.form)
    IN  /\ c.op = "insert"
        /\ presetValues' =
               [v \in (DOMAIN presetValues \ c.cleared) \cup rows |->
                   IF v \in rows THEN v.nth ELSE presetValues[v]]
        /\ presetName' = [presetName EXCEPT ![c.preset] = c.name]
        /\ savedForm' = [savedForm EXCEPT ![c.preset] = c.form]
        /\ untidy' = untidy \ {c.preset}
        /\ clerk' = [clerk EXCEPT ![r] = Sitting]
        /\ UNCHANGED <<openPreset, forms>>

\* INSERT of a preset, which others see at the commit.
InsertPresetRow(r, p, name, size) ==
    /\ clerk[r] = Sitting /\ forms < MaxForms
    /\ presetName[p] = Nameless /\ ~Locked(p)
    /\ ~NameTaken(p, name) /\ ~NameAwaited(p, name)
    /\ clerk' = [clerk EXCEPT ![r] =
           [op |-> "insert", preset |-> p, name |-> name,
            form |-> [nr |-> forms + 1, size |-> size], cleared |-> {}]]
    /\ forms' = forms + 1
    /\ UNCHANGED <<presetName, presetValues, openPreset, savedForm, untidy>>

\* The process stops, or the database ends a transaction that waits in a circle.
RollBackPreset(r) ==
    /\ clerk[r] # Sitting
    /\ clerk' = [clerk EXCEPT ![r] = Sitting]
    /\ UNCHANGED <<presetName, presetValues, openPreset, forms, savedForm, untidy>>

-----------------------------------------------------------------------------

\* The values go with their preset.
RemovePreset(p) ==
    /\ p \in Listed /\ ~Locked(p)
    /\ presetName' = [presetName EXCEPT ![p] = Deleted]
    /\ presetValues' = [v \in DOMAIN presetValues \ ValuesOf(p) |-> presetValues[v]]
    /\ savedForm' = [savedForm EXCEPT ![p] = [nr |-> 0, size |-> 0]]
    /\ untidy' = untidy \ {p}
    /\ UNCHANGED <<clerk, openPreset, forms>>

\* getById.  The page lists the values by sort_order and its administrator puts them
\* in any other order, so only which values it has is kept.
OpenPreset(p) ==
    /\ p \in Listed
    /\ openPreset' = ValuesOf(p)
    /\ UNCHANGED <<presetName, presetValues, clerk, forms, savedForm, untidy>>

\* What the page sends: all the values it shows, numbered from one.
PageOrders ==
    {request \in [openPreset -> 1 .. Cardinality(openPreset)] :
        \A n \in 1 .. Cardinality(openPreset) : \E v \in openPreset : request[v] = n}

\* The presets whose values a request names, less those it puts in order.
NoteOrder(request) ==
    LET named == {v.preset : v \in DOMAIN request}
    IN  untidy' = IF request \in PageOrders THEN untidy \ named ELSE untidy \cup named

\* Slip: a value that is gone is found by the place it had in its form.
ReorderByPlace(request) ==
    LET Alike(v, w) == v.preset = w.preset /\ v.nth = w.nth
    IN  /\ \E v \in DOMAIN presetValues, w \in DOMAIN request : Alike(v, w)
        /\ presetValues' = [v \in DOMAIN presetValues |->
               IF \E w \in DOMAIN request : Alike(v, w)
               THEN request[CHOOSE w \in DOMAIN request : Alike(v, w)]
               ELSE presetValues[v]]
        /\ NoteOrder(request)
        /\ UNCHANGED <<presetName, clerk, openPreset, forms, savedForm>>

\* The named rows that are still there, of whatever presets, get the places that the
\* request gives, and there must be one; rows that a transaction has deleted are
\* waited for.
ReorderDimensionValues(request) ==
    /\ DOMAIN request \cap DOMAIN presetValues # {}
    /\ \A r \in Clerks : clerk[r].op = "insert" => clerk[r].cleared \cap DOMAIN request = {}
    /\ presetValues' = [v \in DOMAIN presetValues |->
           IF v \in DOMAIN request THEN request[v] ELSE presetValues[v]]
    /\ NoteOrder(request)
    /\ UNCHANGED <<presetName, clerk, openPreset, forms, savedForm>>

-----------------------------------------------------------------------------

SavePreset(r) ==
    \/ \E p \in Presets, name \in PresetNames, size \in 1 .. MaxValues :
           UpdatePresetRow(r, p, name, size) \/ InsertPresetRow(r, p, name, size)
    \/ ClearValues(r) \/ InsertValues(r) \/ RollBackPreset(r)

NextPresets ==
    \/ \E r \in Clerks : SavePreset(r)
    \/ \E p \in Presets : RemovePreset(p) \/ OpenPreset(p)
    \/ \E request \in PageOrders : ReorderDimensionValues(request)
    \/ \E S \in SUBSET DOMAIN presetValues : \E request \in [S -> Places] : ReorderDimensionValues(request)

PresetSpec == InitPresets /\ [][NextPresets]_presetVars

-----------------------------------------------------------------------------
(* Properties.                                                             *)

\* However saves, removals and orders of an older page overlap, the values of a
\* preset are those of the form that was saved last, all of them and no others, and
\* no two presets share a name.  Each value has a place of its own, unless a request
\* that is not a whole page's order has named values of the preset since its last
\* save: any ids and any places are taken.
PresetsHold ==
    /\ \A p \in Presets :
        /\ ValuesOf(p) = IF p \in Listed THEN FormRows(p, savedForm[p]) ELSE {}
        /\ p \notin untidy => {presetValues[v] : v \in ValuesOf(p)} = 1 .. Cardinality(ValuesOf(p))
    /\ \A p, q \in Listed : presetName[p] = presetName[q] => p = q
=============================================================================
