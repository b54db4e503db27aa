--------------------------- MODULE OrderRefinement ---------------------------
(***************************************************************************)
(* OrderLifecycle keeps OrderPromise: the status page of the customer      *)
(* (mapOrderStatus) on the left, the notifications of Midtrans on the      *)
(* right.                                                                  *)
(***************************************************************************)
EXTENDS OrderLifecycle

ViewOf(o) ==
    IF Placed(o) THEN mapOrderStatus(status[o], payment[o], shipment[o]) ELSE "NONE"

ViewBar == [o \in Orders |-> ViewOf(o)]

CollectedBar == {o \in Orders :
    \E w \in webhooks : TxnOrder[w.txn] = o /\ w.notice \in {"capture", "settlement"}}

Promise == INSTANCE OrderPromise WITH view <- ViewBar, collected <- CollectedBar

\* Every step of the back end is a step the customer was promised, or one that
\* the order's page does not show.
KeepsPromise == Promise!Spec
=============================================================================
