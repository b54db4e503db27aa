-------------------------- MODULE CheckoutHistory --------------------------
(***************************************************************************)
(* CheckoutSession with two history variables that no step depends on:     *)
(* which requests were overtaken while they priced a shipping selection,   *)
(* and which sessions hold a selection such a request has written.         *)
(***************************************************************************)
EXTENDS CheckoutSession

VARIABLES
    overtaken,      \* the requests in flight whose session was edited meanwhile
    outdated        \* the sessions whose selection such a request wrote

histVars == <<checkoutVars, overtaken, outdated>>

Pricing == {"quote", "price", "saveShipping"}

EditedBelow(w) ==
    /\ calls[w].op \in Pricing
    /\ LET s == calls[w].session
       IN items'[s] # items[s] \/ address'[s] # address[s]

HistInit == CheckoutInit /\ overtaken = {} /\ outdated = {}

HistNext ==
    /\ CheckoutNext
    /\ overtaken' = {w \in Workers : calls'[w] # Idle /\ (w \in overtaken \/ EditedBelow(w))}
    /\ outdated' = {s \in Sessions :
                        /\ shipping'[s] # NoShipping
                        /\ IF shipping'[s] = shipping[s]
                           THEN s \in outdated
                           ELSE \E w \in overtaken : calls[w].session = s /\ calls'[w] = Idle}

HistSpec == HistInit /\ [][HistNext]_histVars

-----------------------------------------------------------------------------

\* setShippingMethod, updateCheckoutSessionAddress and createCheckoutSession
\* together: unless a request was overtaken while it priced the selection, what
\* a session will charge is the sum of its own lines and the tariff of its own
\* destination, although the three are stored apart and edited one by one.
PricedAsListed ==
    \A s \in Sessions \ outdated :
        shipping[s] # NoShipping =>
            /\ shipping[s].subtotal = SubtotalOf(items[s])
            /\ shipping[s].cost = CostOf(shipping[s].service, address[s], items[s])
=============================================================================
