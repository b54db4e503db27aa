----------------------------- MODULE MCLiveness -----------------------------
(* What must come to its end, for TLC: two orders of MCOrderLifecycle, or  *)
(* one customer's two checkout sessions.  The two share no row that either *)
(* decides on here; focus says which of them is explored.                  *)
EXTENDS MCOrderLifecycle, TLC

CONSTANTS u1, s1, s2, a1, reg, NoAddress

VARIABLES
    focus,
    cart, onSale, state, expired, items, address, shipping, shelf, calls, orders

Session == INSTANCE CheckoutSession WITH
    Users <- {u1}, CartVariants <- {v1}, MaxCartQty <- 1,
    Sessions <- {s1, s2}, Owner <- s1 :> u1 @@ s2 :> u1,
    Addresses <- {a1}, Services <- {reg}, WithEtd <- {reg},
    Tariff <- reg :> (a1 :> 1), Price <- v1 :> 2, Weight <- v1 :> 3, MinWeight <- 4,
    Workers <- {1}, CleanupLimit <- 1, FirstStock <- v1 :> 3, stockLeft <- shelf

checkoutPart == <<cart, onSale, state, expired, items, address, shipping, shelf, calls, orders>>

LiveInit ==
    /\ Init
    /\ Session!CheckoutInit
    /\ focus \in {"orders", "session"}

LiveNext ==
    /\ UNCHANGED focus
    /\ \/ focus = "orders" /\ Next /\ UNCHANGED checkoutPart
       \/ focus = "session" /\ Session!CheckoutNext /\ UNCHANGED vars

\* Nothing of the part that is not explored is ever enabled: no order is placed,
\* and no session is open.
LiveSpec ==
    /\ LiveInit /\ [][LiveNext]_<<vars, checkoutPart, focus>>
    /\ Fairness
    /\ Session!CleanupFairness

\* A checkout session that is past its deadline does not stay open.
ExpiredSessionsEnd == Session!ExpiredSessionsEnd
=============================================================================
