------------------------------ MODULE Ordering ------------------------------
(***************************************************************************)
(* ORDER BY: the rows of a set one after the other, as a relation between  *)
(* them says.  It is a definition of the project's own because that of the *)
(* community modules goes by way of TLC's SortSeq, of which a proof knows  *)
(* nothing.                                                                *)
(***************************************************************************)
EXTENDS Naturals, FiniteSets

\* s[i] comes before s[j] whenever i < j.
Ascending(s, R) == \A i, j \in DOMAIN s : i < j => <<s[i], s[j]>> \in R

SortedBy(S, R) == CHOOSE s \in [1 .. Cardinality(S) -> S] : Ascending(s, R)
=============================================================================
