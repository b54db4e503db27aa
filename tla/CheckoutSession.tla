-------------------------- MODULE CheckoutSession --------------------------
(***************************************************************************)
(* Checkout: from a cart to an order, through a checkout session.          *)
(*                                                                         *)
(* createCheckoutSession locks the cart's rows and confirmCheckout the     *)
(* session's row for the whole of their transactions; each is one action.  *)
(* setCheckoutAddress and setShippingMethod read without a lock, the       *)
(* latter in three queries around a call to the courier's service, and     *)
(* write with WHERE id = :sessionId alone: each of their queries is an     *)
(* action, and anything may happen in between.                             *)
(***************************************************************************)
EXTENDS Cart, Sequences, FiniteSets, Functions

CONSTANTS
    Sessions,       \* the checkout sessions that can be created
    Owner,          \* the customer each session belongs to
    Addresses,      \* the destinations a customer can choose
    NoAddress,      \* no address snapshot
    Services,       \* the courier services
    WithEtd,        \* those the courier quotes with a delivery time
    Tariff,         \* Tariff[s][a]: price of one unit of weight with s to a
    Price,          \* product_variants.price
    Weight,         \* product_variants.weight
    MinWeight,      \* the weight that is charged at least
    Workers,        \* the requests that are handled at a time
    CleanupLimit,   \* what one cleanup deletes at most: LIMIT 500
    FirstStock      \* product_variants.stock before the first order

ASSUME OwnerAssumption == Owner \in [Sessions -> Users]
ASSUME NoAddressAssumption == NoAddress \notin Addresses
ASSUME FirstStockAssumption == FirstStock \in [CartVariants -> Nat]

VARIABLES
    state,          \* whether the session exists, was revoked, converted
    expired,        \* checkout_sessions.expires_at < NOW()
    items,          \* checkout_session_items
    address,        \* the address snapshot
    shipping,       \* courier_service, shipping_cost, subtotal and total
    stockLeft,      \* product_variants.stock
    calls,          \* what each request has read, and which step is next
    orders          \* the orders placed, in the order of their ids

sessionVars == <<state, expired, items, address, shipping>>
checkoutVars == <<cart, onSale, sessionVars, stockLeft, calls, orders>>

Idle == [op |-> "idle"]
NoShipping == [service |-> "none"]

SubtotalOf(i) == SumFunction([v \in CartVariants |-> Price[v] * i[v]])

\* What the courier asks: by destination and weight, of 1 kg at least.
CostOf(svc, a, i) ==
    LET w == SumFunction([v \in CartVariants |-> Weight[v] * i[v]])
    IN Tariff[svc][a] * (IF w < MinWeight THEN MinWeight ELSE w)

Subtotals == {SubtotalOf(i) : i \in Items}
Costs == {CostOf(svc, a, i) : svc \in Services, a \in Addresses, i \in Items}
Totals == {m + c : m \in Subtotals, c \in Costs}

Call ==
    {Idle}
    \cup [op : {"saveAddress"}, session : Sessions, address : Addresses]
    \cup [op : {"quote"}, session : Sessions, service : Services, address : Addresses]
    \cup [op : {"price"}, session : Sessions, service : Services, cost : Costs]
    \cup [op : {"saveShipping"}, session : Sessions, service : Services,
          cost : Costs, subtotal : Subtotals]

Shipping == [service : Services, cost : Costs, subtotal : Subtotals, total : Totals]

Order == [session : Sessions, items : Items, address : Addresses, service : Services,
          cost : Costs, subtotal : Subtotals, total : Totals]

Live == {"ACTIVE", "REVOKED", "CONVERTED"}

CheckoutTypeOK ==
    /\ CartTypeOK
    /\ state \in [Sessions -> Live \cup {"NONE", "DELETED"}]
    /\ expired \in [Sessions -> BOOLEAN]
    /\ items \in [Sessions -> Items]
    /\ address \in [Sessions -> Addresses \cup {NoAddress}]
    /\ shipping \in [Sessions -> Shipping \cup {NoShipping}]
    /\ stockLeft \in [CartVariants -> Nat]
    /\ calls \in [Workers -> Call]
    /\ orders \in Seq(Order)

CheckoutInit ==
    /\ CartInit
    /\ state = [s \in Sessions |-> "NONE"]
    /\ expired = [s \in Sessions |-> FALSE]
    /\ items = [s \in Sessions |-> NoItems]
    /\ address = [s \in Sessions |-> NoAddress]
    /\ shipping = [s \in Sessions |-> NoShipping]
    /\ stockLeft = FirstStock
    /\ calls = [w \in Workers |-> Idle]
    /\ orders = <<>>

\* assertSessionActive.
SessionActive(s) == state[s] = "ACTIVE" /\ ~expired[s]

\* revokeExpiredSessions.
Revocable(u) == {s \in Sessions : Owner[s] = u /\ state[s] = "ACTIVE" /\ expired[s]}

\* getActiveSession, after revokeExpiredSessions.
ActiveSessions(u) == {s \in Sessions : Owner[s] = u /\ state[s] = "ACTIVE" /\ ~expired[s]}

-----------------------------------------------------------------------------
(* createCheckoutSession.  a is the customer's default address, or         *)
(* NoAddress.                                                              *)

\* Slip: the expired session is left as it is.
SetWithoutRevoking(u, s) == state' = [state EXCEPT ![s] = "ACTIVE"]

RevokeAndSet(u, s) ==
    state' = [x \in Sessions |-> IF x = s THEN "ACTIVE"
                                 ELSE IF x \in Revocable(u) THEN "REVOKED" ELSE state[x]]

OpenSession(u, s, a) ==
    /\ ActiveSessions(u) = {}
    /\ state[s] = "NONE" /\ Owner[s] = u
    /\ RevokeAndSet(u, s)
    /\ address' = [address EXCEPT ![s] = a]
    /\ UNCHANGED shipping

\* Slip: the shipping selection is kept.
RefreshSessionOnly(u, s, a) ==
    /\ s \in ActiveSessions(u)
    /\ RevokeAndSet(u, s)
    /\ address' = [address EXCEPT ![s] = IF a = NoAddress THEN @ ELSE a]
    /\ UNCHANGED shipping

\* Slip: a customer without a default address loses the chosen one.
RefreshSessionAlways(u, s, a) ==
    /\ s \in ActiveSessions(u)
    /\ RevokeAndSet(u, s)
    /\ address' = [address EXCEPT ![s] = a]
    /\ shipping' = [shipping EXCEPT ![s] = NoShipping]

\* The session that is still active gets the cart's items and the default
\* address, if there is one; the shipping selection is dropped.
RefreshSession(u, s, a) ==
    /\ s \in ActiveSessions(u)
    /\ RevokeAndSet(u, s)
    /\ address' = [address EXCEPT ![s] = IF a = NoAddress THEN @ ELSE a]
    /\ shipping' = [shipping EXCEPT ![s] = NoShipping]

CreateCheckoutSession(u) ==
    /\ cart[u] # NoItems
    /\ \E s \in Sessions, a \in Addresses \cup {NoAddress} :
        /\ OpenSession(u, s, a) \/ RefreshSession(u, s, a)
        /\ items' = [items EXCEPT ![s] = cart[u]]
    /\ UNCHANGED <<cart, onSale, expired, stockLeft, calls, orders>>

-----------------------------------------------------------------------------
(* setCheckoutAddress and setShippingMethod, handled by request w.         *)

StartAddress(w, s, a) ==
    /\ calls[w] = Idle
    /\ SessionActive(s)
    /\ calls' = [calls EXCEPT ![w] = [op |-> "saveAddress", session |-> s, address |-> a]]
    /\ UNCHANGED <<cart, onSale, sessionVars, stockLeft, orders>>

\* updateCheckoutSessionAddress and clearShippingSelection, in a transaction;
\* no row is updated when the session is gone.
SaveAddress(w) ==
    LET c == calls[w] IN
    /\ c.op = "saveAddress"
    /\ IF state[c.session] \in Live
       THEN /\ address' = [address EXCEPT ![c.session] = c.address]
            /\ shipping' = [shipping EXCEPT ![c.session] = NoShipping]
       ELSE UNCHANGED <<address, shipping>>
    /\ calls' = [calls EXCEPT ![w] = Idle]
    /\ UNCHANGED <<cart, onSale, state, expired, items, stockLeft, orders>>

\* The session and its address are read.
StartShipping(w, s, svc) ==
    /\ calls[w] = Idle
    /\ SessionActive(s)
    /\ address[s] # NoAddress
    /\ calls' = [calls EXCEPT ![w] = [op |-> "quote", session |-> s, service |-> svc,
                                      address |-> address[s]]]
    /\ UNCHANGED <<cart, onSale, sessionVars, stockLeft, orders>>

\* The weights of the items are read and the courier is asked.
Quote(w) ==
    LET c == calls[w] IN
    /\ c.op = "quote"
    /\ calls' = [calls EXCEPT ![w] = [op |-> "price", session |-> c.session,
                     service |-> c.service, cost |-> CostOf(c.service, c.address, items[c.session])]]
    /\ UNCHANGED <<cart, onSale, sessionVars, stockLeft, orders>>

\* getCheckoutSessionItems: the prices of the items are read.
PriceItems(w) ==
    LET c == calls[w] IN
    /\ c.op = "price"
    /\ calls' = [calls EXCEPT ![w] = [op |-> "saveShipping", session |-> c.session,
                     service |-> c.service, cost |-> c.cost,
                     subtotal |-> SubtotalOf(items[c.session])]]
    /\ UNCHANGED <<cart, onSale, sessionVars, stockLeft, orders>>

\* Slip: the courier's price is left out of the total.
SelectionWithoutCost(c) == [service |-> c.service, cost |-> c.cost,
                            subtotal |-> c.subtotal, total |-> c.subtotal]

\* What setShippingMethod writes.
Selection(c) == [service |-> c.service, cost |-> c.cost, subtotal |-> c.subtotal,
                 total |-> c.subtotal + c.cost]

SaveShipping(w) ==
    LET c == calls[w] IN
    /\ c.op = "saveShipping"
    /\ shipping' = IF state[c.session] \in Live
                   THEN [shipping EXCEPT ![c.session] = Selection(c)]
                   ELSE shipping
    /\ calls' = [calls EXCEPT ![w] = Idle]
    /\ UNCHANGED <<cart, onSale, state, expired, items, address, stockLeft, orders>>

\* The courier does not answer, does not offer the service, or the process
\* stops: what the request has read is lost, nothing is written.
FailCall(w) ==
    /\ calls[w] # Idle
    /\ calls' = [calls EXCEPT ![w] = Idle]
    /\ UNCHANGED <<cart, onSale, sessionVars, stockLeft, orders>>

-----------------------------------------------------------------------------
(* confirmCheckout.                                                        *)

\* assertItemsValid.
ItemsValid(i) == \A v \in CartVariants : i[v] > 0 => v \in onSale /\ i[v] <= stockLeft[v]

\* assertCheckoutReady.
CheckoutReady(s) ==
    /\ shipping[s] # NoShipping
    /\ shipping[s].service \in WithEtd
    /\ address[s] # NoAddress
    /\ shipping[s].total = shipping[s].subtotal + shipping[s].cost

\* Slip: the session's own state is not looked at.
ConfirmableAny(s) == state[s] \in Live /\ ~expired[s]

\* getCheckoutSessionForUpdate: neither converted nor revoked.
Confirmable(s) == state[s] = "ACTIVE" /\ ~expired[s]

OrderOf(s) ==
    [session |-> s, items |-> items[s], address |-> address[s],
     service |-> shipping[s].service, cost |-> shipping[s].cost,
     subtotal |-> shipping[s].subtotal, total |-> shipping[s].total]

\* That there is a warehouse is asked once more, but the courier was asked from
\* its district (calculateDomesticCost), and a warehouse is never deleted.
ConfirmAllowed(s) ==
    /\ Confirmable(s)
    /\ CheckoutReady(s)
    /\ items[s] # NoItems
    /\ ItemsValid(items[s])

\* Slip: one unit of each line.
TakeOneOfEach(i) ==
    /\ \A v \in CartVariants : stockLeft[v] >= i[v]
    /\ stockLeft' = [v \in CartVariants |-> IF i[v] > 0 THEN stockLeft[v] - 1 ELSE stockLeft[v]]

\* reduceStock: each line's UPDATE requires stock >= qty, or all roll back.
TakeStock(i) ==
    /\ \A v \in CartVariants : stockLeft[v] >= i[v]
    /\ stockLeft' = [v \in CartVariants |-> stockLeft[v] - i[v]]

\* The order is inserted, the stock is taken, the session is converted and
\* the whole cart is cleared, whatever was added to it since.
ConfirmCheckout(s) ==
    /\ ConfirmAllowed(s)
    /\ orders' = Append(orders, OrderOf(s))
    /\ TakeStock(items[s])
    /\ state' = [state EXCEPT ![s] = "CONVERTED"]
    /\ ClearCart(Owner[s])
    /\ UNCHANGED <<onSale, expired, items, address, shipping, calls>>

-----------------------------------------------------------------------------
(* Time and the jobs.                                                      *)

PassSessionDeadline(s) ==
    /\ state[s] \in Live /\ ~expired[s]
    /\ expired' = [expired EXCEPT ![s] = TRUE]
    /\ UNCHANGED <<cart, onSale, state, items, address, shipping, stockLeft, calls, orders>>

\* Slip: only the sessions that were revoked.
AbandonedIfRevoked == {s \in Sessions : state[s] = "REVOKED" /\ expired[s]}

\* Sessions past their deadline that were not converted: the cleanup deletes
\* them at once.
Abandoned == {s \in Sessions : state[s] \in {"ACTIVE", "REVOKED"} /\ expired[s]}

Converted == {s \in Sessions : state[s] = "CONVERTED"}

\* cleanupCheckoutSessions.  Besides the abandoned ones it deletes converted
\* sessions, those that are an hour old, and it leaves one of the abandoned only
\* when it has reached its LIMIT.  A session's items go with it.
CleanupCheckoutSessions(gone) ==
    /\ gone # {} /\ Cardinality(gone) <= CleanupLimit
    /\ Abandoned \subseteq gone \/ Cardinality(gone) = CleanupLimit
    /\ state' = [s \in Sessions |-> IF s \in gone THEN "DELETED" ELSE state[s]]
    /\ items' = [s \in Sessions |-> IF s \in gone THEN NoItems ELSE items[s]]
    /\ address' = [s \in Sessions |-> IF s \in gone THEN NoAddress ELSE address[s]]
    /\ shipping' = [s \in Sessions |-> IF s \in gone THEN NoShipping ELSE shipping[s]]
    /\ UNCHANGED <<cart, onSale, expired, stockLeft, calls, orders>>

Cleanup == \E gone \in SUBSET (Abandoned \cup Converted) : CleanupCheckoutSessions(gone)

-----------------------------------------------------------------------------

\* The commands that are one action each.
Command ==
    \/ \E u \in Users :
        \/ EditCart(u) /\ UNCHANGED <<sessionVars, stockLeft, calls, orders>>
        \/ CreateCheckoutSession(u)
    \/ \E s \in Sessions : ConfirmCheckout(s)

StartCall(w) ==
    \E s \in Sessions :
        \/ \E a \in Addresses : StartAddress(w, s, a)
        \/ \E svc \in Services : StartShipping(w, s, svc)

ContinueCall(w) ==
    SaveAddress(w) \/ Quote(w) \/ PriceItems(w) \/ SaveShipping(w) \/ FailCall(w)

Elsewhere ==
    \/ \E v \in CartVariants :
           SetVariantStatus(v) /\ UNCHANGED <<sessionVars, stockLeft, calls, orders>>
    \/ \E s \in Sessions : PassSessionDeadline(s)
    \/ Cleanup

CheckoutNext ==
    \/ Command
    \/ \E w \in Workers : StartCall(w) \/ ContinueCall(w)
    \/ Elsewhere

CheckoutSpec == CheckoutInit /\ [][CheckoutNext]_checkoutVars

\* The scheduler runs the cleanup job every hour, for ever.
CleanupFairness == WF_checkoutVars(Cleanup)

-----------------------------------------------------------------------------
(* Properties.                                                             *)

\* A customer has at most one session that is neither converted nor revoked,
\* although an expired one counts and is revoked only by the next
\* createCheckoutSession: what the index ux_checkout_active_session requires,
\* and what lets getActiveSession take any row (LIMIT 1).
OneOpenSession ==
    \A s, x \in Sessions :
        state[s] = "ACTIVE" /\ state[x] = "ACTIVE" /\ Owner[s] = Owner[x] => s = x

\* A session becomes at most one order, and once it has, it is CONVERTED or
\* deleted, whatever the requests still in flight write to it: a confirm that
\* is sent twice is refused.
OneOrderPerSession ==
    /\ \A i, j \in DOMAIN orders : orders[i].session = orders[j].session => i = j
    /\ \A i \in DOMAIN orders : state[orders[i].session] \in {"CONVERTED", "DELETED"}

\* An open session never has a shipping selection without the address it was
\* chosen for, nor one without items: what resolveCheckoutState relies on.
ShippingNeedsAddress ==
    \A s \in Sessions :
        state[s] \in Live =>
            items[s] # NoItems /\ (shipping[s] # NoShipping => address[s] # NoAddress)

\* The stock that is left and the lines of the orders are the stock there was,
\* and never less than nothing is left: no two customers buy the last unit.
NothingOversold ==
    \A v \in CartVariants :
        /\ stockLeft[v] >= 0
        /\ stockLeft[v] + SumFunction([i \in DOMAIN orders |-> orders[i].items[v]])
           = FirstStock[v]

\* resolveCheckoutState: what the page answers as canPlaceOrder.
CanPlaceOrder(s) ==
    /\ ItemsValid(items[s])
    /\ address[s] # NoAddress
    /\ shipping[s] # NoShipping
    /\ shipping[s].cost > 0

\* The page and the command are two lists of conditions for one decision, and
\* differ in two of them: the command wants a delivery time, which a courier may
\* quote a service without, and the page a price for shipping above 0.
PageAndConfirmAgree ==
    \A s \in Sessions : SessionActive(s) =>
        /\ CanPlaceOrder(s) => (ConfirmAllowed(s) <=> shipping[s].service \in WithEtd)
        /\ ConfirmAllowed(s) => (CanPlaceOrder(s) <=> shipping[s].cost > 0)

\* "When null, the checkout session is ready to place an order": when the page
\* of a session offers the order, confirmCheckout accepts it.
OfferedIsAccepted ==
    \A s \in Sessions : SessionActive(s) /\ CanPlaceOrder(s) => ConfirmAllowed(s)

\* "This endpoint validates all checkout data": an order's subtotal is the sum
\* of its lines.
SubtotalIsSumOfLines ==
    \A i \in DOMAIN orders : orders[i].subtotal = SubtotalOf(orders[i].items)

\* A session that is past its deadline does not stay open: it is revoked,
\* deleted, or was converted in time.
ExpiredSessionsEnd ==
    \A s \in Sessions : (state[s] = "ACTIVE" /\ expired[s]) ~> state[s] # "ACTIVE"
=============================================================================
