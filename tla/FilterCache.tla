---------------------------- MODULE FilterCache ----------------------------
(***************************************************************************)
(* The option values a shopper may filter by.  The shop checks a filter    *)
(* against a list in Redis, which it fills from the tables when it is not  *)
(* there; a save of a product deletes the list after its commit.  Several  *)
(* processes do both.                                                      *)
(***************************************************************************)
EXTENDS Integers

CONSTANTS
    OptionValues,   \* the values that products' options can have
    Savers,         \* saves of products that are handled at a time
    Shoppers        \* requests of the shop that fill the list at a time

ASSUME FilterAssumption == -1 \notin OptionValues

NotCached == {-1}   \* the key is not there
NothingRead == {-1}

VARIABLES
    offered,        \* product_variant_dimension_values
    saver,          \* where each save is
    filters,        \* the list in Redis
    filling,        \* what a request has read from the tables to put there
    outdated        \* history: the list was old when it was put there, or a save ended before its deletion

filterVars == <<offered, saver, filters, filling, outdated>>

InitFilters ==
    /\ offered \in SUBSET OptionValues
    /\ saver = [e \in Savers |-> "idle"]
    /\ filters = NotCached
    /\ filling = [r \in Shoppers |-> NothingRead]
    /\ outdated = FALSE

\* create and update: rebuildDimensionsAndPivot, and the commit.
SaveOptions(e) ==
    /\ saver[e] = "idle"
    /\ offered' \in SUBSET OptionValues
    /\ saver' = [saver EXCEPT ![e] = "saved"]
    /\ UNCHANGED <<filters, filling, outdated>>

\* Slip: the keys are deleted before the transaction.
InvalidateFirst(e) ==
    /\ saver[e] = "saved"
    /\ saver' = [saver EXCEPT ![e] = "idle"]
    /\ UNCHANGED <<offered, filters, filling, outdated>>

\* invalidateVariantCache, after it.
InvalidateVariantCache(e) ==
    /\ saver[e] = "saved"
    /\ saver' = [saver EXCEPT ![e] = "idle"]
    /\ filters' = NotCached
    /\ outdated' = FALSE
    /\ UNCHANGED <<offered, filling>>

\* The process ends, or Redis does not answer.
LoseInvalidation(e) ==
    /\ saver[e] = "saved"
    /\ saver' = [saver EXCEPT ![e] = "idle"]
    /\ outdated' = TRUE
    /\ UNCHANGED <<offered, filters, filling>>

\* getVariantValues: what is not in Redis is read from the tables,
ReadFilters(r) ==
    /\ filters = NotCached /\ filling[r] = NothingRead
    /\ filling' = [filling EXCEPT ![r] = offered]
    /\ UNCHANGED <<offered, saver, filters, outdated>>

\* and put there, after whatever has happened since.
FillFilters(r) ==
    /\ filling[r] # NothingRead
    /\ filters' = filling[r]
    /\ filling' = [filling EXCEPT ![r] = NothingRead]
    /\ outdated' = (filling[r] # offered)
    /\ UNCHANGED <<offered, saver>>

\* A day.
ExpireFilters ==
    /\ filters # NotCached
    /\ filters' = NotCached
    /\ outdated' = FALSE
    /\ UNCHANGED <<offered, saver, filling>>

NextFilters ==
    \/ \E e \in Savers : SaveOptions(e) \/ InvalidateVariantCache(e) \/ LoseInvalidation(e)
    \/ \E r \in Shoppers : ReadFilters(r) \/ FillFilters(r)
    \/ ExpireFilters

FilterSpec == InitFilters /\ [][NextFilters]_filterVars

\* A shopper's filter by a value on offer is refused, and one by a value that is
\* gone let through, only between a save and its deletion, or when a request
\* that had read before a save put the list back, or a deletion was lost.
FiltersLagBehind ==
    filters # NotCached /\ filters # offered => outdated \/ \E e \in Savers : saver[e] = "saved"
=============================================================================
