-------------------------- MODULE MCOrderLifecycle --------------------------
(***************************************************************************)
(* Instances of OrderLifecycle for TLC.  Two orders compete for variant    *)
(* v1, whose scarce stock serves only one of them, and o1 also holds v2.   *)
(* Either o1 is paid by two transactions (a first attempt and a second),   *)
(* or each order by one.                                                   *)
(***************************************************************************)
EXTENDS OrderLifecycle

CONSTANTS o1, o2, v1, v2, t1, t2

OrderQty ==
    [o \in {o1, o2} |-> [v \in {v1, v2} |->
        IF v = v1 THEN (IF o = o1 THEN 2 ELSE 1) ELSE (IF o = o1 THEN 1 ELSE 0)]]

ScarceStock == [v \in {v1, v2} |-> IF v = v1 THEN 2 ELSE 1]

\* Enough for both orders at once, so that one run of a worker takes both.
AmpleStock == [v \in {v1, v2} |-> 3]

OneOrderTwice == [t \in {t1, t2} |-> o1]
OneEach       == [t \in {t1, t2} |-> IF t = t1 THEN o1 ELSE o2]
=============================================================================
