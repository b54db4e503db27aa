------------------------- MODULE MCCheckoutSession -------------------------
(* Instances of CheckoutSession for TLC.                                   *)
EXTENDS CheckoutSession, TLC

CONSTANTS u1, s1, s2, a1, a2, v1, reg, yes, free

OneCustomer == s1 :> u1 @@ s2 :> u1
OneSession == s1 :> u1

\* The second destination is dearer, but for a service that delivers there at no
\* charge; one unit of v1 is below the least weight that is charged.
ItemPrice == v1 :> 2
ItemWeight == v1 :> 3
CourierTariff == reg :> (a1 :> 1 @@ a2 :> 4) @@ yes :> (a1 :> 2 @@ a2 :> 7) @@ free :> (a1 :> 0 @@ a2 :> 0)

\* Fewer units than two orders can ask for.
ScarceStock == v1 :> 3
=============================================================================
