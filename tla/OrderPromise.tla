---------------------------- MODULE OrderPromise ----------------------------
(***************************************************************************)
(* What the store promises about an order, in the words its page shows the *)
(* customer, without stock, shipments, notifications or workers:           *)
(*                                                                         *)
(*   - an order that waits for its payment may be cancelled (by its owner  *)
(*     or for want of payment), and a CANCELLED order stays so;            *)
(*   - a payment may fail or expire, and may still be made after that;     *)
(*   - an order is processed only once its money was collected, and from   *)
(*     then on only moves to the customer: it is not cancelled any more.   *)
(***************************************************************************)
CONSTANT Orders

VARIABLES
    view,           \* the status on the order's page, "NONE" before it exists
    collected       \* the orders whose money was accepted by Midtrans

promiseVars == <<view, collected>>

Open == {"WAITING_PAYMENT", "FAILED", "EXPIRED"}

Init ==
    /\ view = [o \in Orders |-> "NONE"]
    /\ collected = {}

Move(o, from, to) ==
    /\ view[o] \in from
    /\ view' = [view EXCEPT ![o] = to]
    /\ UNCHANGED collected

Place(o)   == Move(o, {"NONE"}, "WAITING_PAYMENT")
Decline(o) == \E to \in {"FAILED", "EXPIRED"} : Move(o, Open, to)
Process(o) == o \in collected /\ Move(o, Open, "PROCESSING")
Ship(o)    == Move(o, {"PROCESSING"}, "SHIPPED")
Deliver(o) == Move(o, {"SHIPPED"}, "DELIVERED")

\* One run of the expiry worker cancels many orders at once.
Cancel(S) ==
    /\ \A o \in S : view[o] = "WAITING_PAYMENT"
    /\ view' = [o \in Orders |-> IF o \in S THEN "CANCELLED" ELSE view[o]]
    /\ UNCHANGED collected

Collect(o) ==
    /\ collected' = collected \cup {o}
    /\ UNCHANGED view

Next ==
    \/ \E o \in Orders :
          Place(o) \/ Decline(o) \/ Process(o) \/ Ship(o) \/ Deliver(o) \/ Collect(o)
    \/ \E S \in SUBSET Orders : Cancel(S)

Spec == Init /\ [][Next]_promiseVars
=============================================================================
