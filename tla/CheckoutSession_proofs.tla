----------------------- MODULE CheckoutSession_proofs -----------------------
(***************************************************************************)
(* Proofs about CheckoutSession and CheckoutHistory.  The invariant of the *)
(* former is CheckoutInv: types, one open session per customer, what an    *)
(* open session's columns have to do with each other, what a request in    *)
(* flight may still write, and one order per session.  That of the latter  *)
(* adds what a request has read as long as nobody overtook it.             *)
(***************************************************************************)
EXTENDS CheckoutHistory, DataTheorems

\* A request in flight is about a session that exists or existed; if it will
\* write a shipping selection, that session has an address as long as it is
\* there: addresses are replaced, never removed.
CallsAreAboutSessions ==
    \A w \in Workers :
        calls[w] # Idle =>
            /\ state[calls[w].session] # "NONE"
            /\ calls[w].op # "saveAddress" /\ state[calls[w].session] \in Live
                  => address[calls[w].session] # NoAddress

\* The total of a shipping selection is its subtotal and its cost.
SelectionsAddUp ==
    \A s \in Sessions :
        shipping[s] # NoShipping => shipping[s].total = shipping[s].subtotal + shipping[s].cost

\* A session id that was never used has no shipping selection.
UnusedSessionsAreBlank == \A s \in Sessions : state[s] = "NONE" => shipping[s] = NoShipping

\* A session that was converted is not opened again, and only such a session
\* has an order.
OrdersComeFromConverted ==
    \A i \in DOMAIN orders : state[orders[i].session] \in {"CONVERTED", "DELETED"}

OrdersOfDifferentSessions ==
    \A i, j \in DOMAIN orders : orders[i].session = orders[j].session => i = j

CheckoutInv ==
    /\ CheckoutTypeOK
    /\ OneOpenSession
    /\ ShippingNeedsAddress
    /\ CallsAreAboutSessions
    /\ SelectionsAddUp
    /\ UnusedSessionsAreBlank
    /\ OrdersComeFromConverted
    /\ OrdersOfDifferentSessions

-----------------------------------------------------------------------------

\* A shipping selection, and a request in flight, is never the mark of none.
LEMMA Marks ==
    /\ NoItems \in Items
    /\ \A x \in Shipping : x # NoShipping
    /\ \A c \in Call : c # Idle => c.session \in Sessions
PROOF
<1>1. NoItems \in Items
  BY MaxCartQtyAssumption DEF NoItems, Items
<1>2. \A x \in Shipping : x # NoShipping
  <2> SUFFICES ASSUME NEW x \in Shipping, x = NoShipping PROVE FALSE
    OBVIOUS
  <2>1. "cost" \in DOMAIN x
    BY DEF Shipping
  <2>2. DOMAIN NoShipping = {"service"}
    BY DEF NoShipping
  <2> QED BY <2>1, <2>2
<1>3. \A c \in Call : c # Idle => c.session \in Sessions
  BY DEF Call
<1> QED BY <1>1, <1>2, <1>3

\* Every order names the session it was made from.
LEMMA OrderRows ==
    ASSUME CheckoutTypeOK
    PROVE  \A i \in DOMAIN orders : orders[i] \in Order /\ orders[i].session \in Sessions
PROOF
<1>1. orders \in Seq(Order)
  BY DEF CheckoutTypeOK
<1>2. \A i \in DOMAIN orders : orders[i] \in Order
  BY <1>1
<1>3. \A x \in Order : x.session \in Sessions
  BY DEF Order
<1> QED BY <1>2, <1>3

LEMMA CheckoutInitInv == CheckoutInit => CheckoutInv
PROOF
<1> SUFFICES ASSUME CheckoutInit PROVE CheckoutInv
  OBVIOUS
<1> USE DEF CheckoutInit, CartInit
<1>1. CheckoutTypeOK
  BY Marks, FirstStockAssumption DEF CheckoutTypeOK, CartTypeOK, Call, Live
<1>2. OneOpenSession /\ ShippingNeedsAddress
  BY DEF OneOpenSession, ShippingNeedsAddress, Live
<1>3. CallsAreAboutSessions /\ SelectionsAddUp /\ UnusedSessionsAreBlank
  BY DEF CallsAreAboutSessions, SelectionsAddUp, UnusedSessionsAreBlank
<1>4. OrdersComeFromConverted /\ OrdersOfDifferentSessions
  BY DEF OrdersComeFromConverted, OrdersOfDifferentSessions
<1> QED BY <1>1, <1>2, <1>3, <1>4 DEF CheckoutInv

-----------------------------------------------------------------------------
(* One lemma per group of actions.                                         *)

\* Cart edits and the admin's switch touch no session.
LEMMA CartStep ==
    ASSUME CheckoutInv,
           \/ \E u \in Users : EditCart(u)
           \/ \E v \in CartVariants : SetVariantStatus(v),
           UNCHANGED <<sessionVars, stockLeft, calls, orders>>
    PROVE  CheckoutInv'
PROOF
<1> USE DEF sessionVars
<1>1. CartTypeOK'
  <2>1. \A u \in Users, v \in CartVariants : \A q \in 0 .. MaxCartQty :
          [cart EXCEPT ![u][v] = q] \in [Users -> Items]
    BY DEF CheckoutInv, CheckoutTypeOK, CartTypeOK, Items
  <2>2. ASSUME NEW u \in Users, NEW v \in CartVariants, NEW q \in 1 .. MaxCartQty, AddItem(u, v, q)
        PROVE  CartTypeOK'
    <3> DEFINE sum == AtMostMaxQty(cart[u][v] + q)
    <3>1. sum \in 0 .. MaxCartQty
      BY MaxCartQtyAssumption DEF CheckoutInv, CheckoutTypeOK, CartTypeOK, Items, AtMostMaxQty
    <3>2. cart' = [cart EXCEPT ![u][v] = sum] /\ UNCHANGED onSale
      BY <2>2 DEF AddItem
    <3> HIDE DEF sum
    <3> QED BY <2>1, <3>1, <3>2 DEF CheckoutInv, CheckoutTypeOK, CartTypeOK
  <2>3. ASSUME NEW u \in Users, NEW v \in CartVariants, NEW q \in 1 .. MaxCartQty, UpdateItem(u, v, q)
        PROVE  CartTypeOK'
    <3>1. q \in 0 .. MaxCartQty
      OBVIOUS
    <3> QED BY <2>1, <2>3, <3>1 DEF UpdateItem, CheckoutInv, CheckoutTypeOK, CartTypeOK
  <2>4. ASSUME NEW u \in Users, NEW v \in CartVariants, DeleteItem(u, v)
        PROVE  CartTypeOK'
    <3>1. 0 \in 0 .. MaxCartQty
      BY MaxCartQtyAssumption
    <3> QED BY <2>1, <2>4, <3>1 DEF DeleteItem, CheckoutInv, CheckoutTypeOK, CartTypeOK
  <2>5. ASSUME NEW v \in CartVariants, SetVariantStatus(v)
        PROVE  CartTypeOK'
    BY <2>5 DEF SetVariantStatus, CheckoutInv, CheckoutTypeOK, CartTypeOK
  <2> QED BY <2>2, <2>3, <2>4, <2>5 DEF EditCart
<1>2. CheckoutTypeOK'
  BY <1>1 DEF CheckoutInv, CheckoutTypeOK
<1>3. /\ OneOpenSession'
      /\ ShippingNeedsAddress'
      /\ CallsAreAboutSessions'
      /\ SelectionsAddUp'
      /\ UnusedSessionsAreBlank'
      /\ OrdersComeFromConverted'
      /\ OrdersOfDifferentSessions'
  BY DEF CheckoutInv, OneOpenSession, ShippingNeedsAddress, CallsAreAboutSessions,
         SelectionsAddUp, UnusedSessionsAreBlank, OrdersComeFromConverted,
         OrdersOfDifferentSessions
<1> QED BY <1>2, <1>3 DEF CheckoutInv

\* createCheckoutSession opens or refreshes the customer's only open session.
LEMMA CreateStep ==
    ASSUME CheckoutInv, NEW u \in Users, CreateCheckoutSession(u)
    PROVE  CheckoutInv'
PROOF
<1>1. PICK s \in Sessions, a \in Addresses \cup {NoAddress} :
        /\ OpenSession(u, s, a) \/ RefreshSession(u, s, a)
        /\ items' = [items EXCEPT ![s] = cart[u]]
  BY DEF CreateCheckoutSession
<1> USE DEF CreateCheckoutSession, CheckoutInv, CheckoutTypeOK, CartTypeOK, Live
<1>2. /\ state[s] \in {"NONE", "ACTIVE"}
      /\ Owner[s] = u
      /\ \A x \in Sessions : state[x] # "NONE" /\ x # s => state'[x] # "NONE"
      /\ \A x \in Sessions \ {s} : state'[x] # state[x] =>
                state[x] = "ACTIVE" /\ state'[x] = "REVOKED"
      /\ state'[s] = "ACTIVE"
      /\ state' \in [Sessions -> Live \cup {"NONE", "DELETED"}]
  BY <1>1 DEF OpenSession, RefreshSession, RevokeAndSet, ActiveSessions, Revocable
<1>3. /\ shipping'[s] = NoShipping
      /\ \A x \in Sessions \ {s} : shipping'[x] = shipping[x] /\ address'[x] = address[x]
      /\ address[s] # NoAddress /\ state[s] = "ACTIVE" => address'[s] # NoAddress
      /\ shipping' \in [Sessions -> Shipping \cup {NoShipping}]
      /\ address' \in [Sessions -> Addresses \cup {NoAddress}]
  BY <1>1 DEF OpenSession, RefreshSession, ActiveSessions, UnusedSessionsAreBlank
<1>4. CheckoutTypeOK'
  BY <1>1, <1>2, <1>3
<1>5. OneOpenSession'
  <2>1. \A x \in Sessions : state'[x] = "ACTIVE" /\ x # s => x \notin Revocable(u) /\ state[x] = "ACTIVE"
    BY <1>1 DEF OpenSession, RefreshSession, RevokeAndSet
  <2>2. \A x \in Sessions : Owner[x] = u /\ state'[x] = "ACTIVE" /\ x # s => x \in ActiveSessions(u)
    BY <2>1 DEF Revocable, ActiveSessions
  <2>3. \A x \in Sessions : Owner[x] = u /\ state'[x] = "ACTIVE" => x = s
    BY <1>1, <2>2 DEF OpenSession, RefreshSession, OneOpenSession, ActiveSessions
  <2> QED BY <1>2, <2>1, <2>3 DEF OneOpenSession
<1>6. ShippingNeedsAddress'
  BY <1>1, <1>2, <1>3 DEF ShippingNeedsAddress
<1>7. CallsAreAboutSessions'
  BY <1>2, <1>3, Marks DEF CallsAreAboutSessions
<1>8. SelectionsAddUp' /\ UnusedSessionsAreBlank'
  BY <1>2, <1>3, ZenonT(60) DEF SelectionsAddUp, UnusedSessionsAreBlank
<1>9. OrdersComeFromConverted' /\ OrdersOfDifferentSessions'
  BY <1>2, OrderRows DEF OrdersComeFromConverted, OrdersOfDifferentSessions
<1> QED BY <1>4, <1>5, <1>6, <1>7, <1>8, <1>9

\* A request that starts has seen an open session; it writes nothing yet.
LEMMA StartStep ==
    ASSUME CheckoutInv, NEW w \in Workers, StartCall(w)
    PROVE  CheckoutInv'
PROOF
<1> USE DEF CheckoutInv, sessionVars
<1>1. PICK s \in Sessions, c \in Call :
        /\ calls' = [calls EXCEPT ![w] = c]
        /\ c.session = s
        /\ state[s] = "ACTIVE"
        /\ c.op # "saveAddress" => address[s] # NoAddress
  <2>1. ASSUME NEW s \in Sessions, NEW a \in Addresses, StartAddress(w, s, a)
        PROVE  \E c \in Call : /\ calls' = [calls EXCEPT ![w] = c]
                               /\ c.session = s
                               /\ c.op = "saveAddress"
    <3> DEFINE c == [op |-> "saveAddress", session |-> s, address |-> a]
    <3>1. c \in Call
      BY DEF Call
    <3> QED BY <2>1, <3>1 DEF StartAddress
  <2>2. ASSUME NEW s \in Sessions, NEW svc \in Services, StartShipping(w, s, svc)
        PROVE  \E c \in Call : /\ calls' = [calls EXCEPT ![w] = c]
                               /\ c.session = s
    <3> DEFINE c == [op |-> "quote", session |-> s, service |-> svc, address |-> address[s]]
    <3>1. address[s] \in Addresses
      BY <2>2 DEF CheckoutTypeOK, StartShipping
    <3>2. c \in Call
      BY <3>1 DEF Call
    <3> QED BY <2>2, <3>2 DEF StartShipping
  <2> QED BY <2>1, <2>2 DEF StartCall, StartAddress, StartShipping, SessionActive
<1>2. UNCHANGED <<cart, onSale, sessionVars, stockLeft, orders>>
  BY DEF StartCall, StartAddress, StartShipping
<1>3. CheckoutTypeOK'
  BY <1>1, <1>2 DEF CheckoutTypeOK, CartTypeOK
<1>4. CallsAreAboutSessions'
  BY <1>1, <1>2 DEF CallsAreAboutSessions, CheckoutTypeOK
<1>5. /\ OneOpenSession'
      /\ ShippingNeedsAddress'
      /\ SelectionsAddUp'
      /\ UnusedSessionsAreBlank'
      /\ OrdersComeFromConverted'
      /\ OrdersOfDifferentSessions'
  BY <1>2 DEF OneOpenSession, ShippingNeedsAddress, SelectionsAddUp, UnusedSessionsAreBlank,
              OrdersComeFromConverted, OrdersOfDifferentSessions
<1> QED BY <1>3, <1>4, <1>5

\* A request that goes on keeps its session, or ends; what it writes it writes
\* to that session only, and only if it is still there.
LEMMA ContinueStep ==
    ASSUME CheckoutInv, NEW w \in Workers, ContinueCall(w)
    PROVE  CheckoutInv'
PROOF
<1> USE DEF CheckoutInv, sessionVars
<1> DEFINE s == calls[w].session
<1>0. calls[w] \in Call
  BY DEF CheckoutTypeOK
<1>1. CASE SaveAddress(w)
  <2>1. calls[w] # Idle /\ calls[w] \in [op : {"saveAddress"}, session : Sessions, address : Addresses]
    BY <1>0, <1>1 DEF SaveAddress, Call, Idle
  <2>2. s \in Sessions /\ calls[w].address \in Addresses
    BY <2>1
  <2>3. CheckoutTypeOK'
    BY <1>1, <2>2 DEF SaveAddress, CheckoutTypeOK, CartTypeOK, Call
  <2>4. ShippingNeedsAddress' /\ SelectionsAddUp' /\ UnusedSessionsAreBlank'
    BY <1>1, <2>2, NoAddressAssumption DEF SaveAddress, ShippingNeedsAddress, SelectionsAddUp,
       UnusedSessionsAreBlank, CheckoutTypeOK, Live
  <2>5. CallsAreAboutSessions'
    BY <1>1, <2>2, NoAddressAssumption, Marks DEF SaveAddress, CallsAreAboutSessions, CheckoutTypeOK
  <2> QED BY <1>1, <2>3, <2>4, <2>5 DEF SaveAddress, OneOpenSession, OrdersComeFromConverted,
             OrdersOfDifferentSessions
<1>2. CASE SaveShipping(w)
  <2>1. calls[w] # Idle /\ calls[w] \in [op : {"saveShipping"}, session : Sessions, service : Services,
                                         cost : Costs, subtotal : Subtotals]
    BY <1>0, <1>2 DEF SaveShipping, Call, Idle
  <2>2. /\ s \in Sessions
        /\ calls[w].service \in Services
        /\ calls[w].cost \in Costs
        /\ calls[w].subtotal \in Subtotals
        /\ calls[w].op = "saveShipping"
    BY <2>1
  <2>3. Selection(calls[w]) \in Shipping /\ Selection(calls[w]).total = calls[w].subtotal + calls[w].cost
    <3>1. calls[w].subtotal + calls[w].cost \in Totals
      BY <2>2 DEF Totals
    <3> QED BY <2>2, <3>1 DEF Selection, Shipping
  <2>4. CheckoutTypeOK'
    BY <1>2, <2>2, <2>3 DEF SaveShipping, CheckoutTypeOK, CartTypeOK, Call
  <2>5. ShippingNeedsAddress'
    BY <1>2, <2>1, <2>2 DEF SaveShipping, ShippingNeedsAddress, CheckoutTypeOK, CallsAreAboutSessions
  <2>6. SelectionsAddUp' /\ UnusedSessionsAreBlank'
    BY <1>2, <2>2 DEF SaveShipping, SelectionsAddUp, UnusedSessionsAreBlank, CheckoutTypeOK, Live, Selection
  <2>7. CallsAreAboutSessions'
    BY <1>2, <2>2 DEF SaveShipping, CallsAreAboutSessions, CheckoutTypeOK
  <2> QED BY <1>2, <2>4, <2>5, <2>6, <2>7 DEF SaveShipping, OneOpenSession, OrdersComeFromConverted,
             OrdersOfDifferentSessions
<1>3. CASE Quote(w) \/ PriceItems(w) \/ FailCall(w)
  <2>1. PICK c \in Call : /\ calls' = [calls EXCEPT ![w] = c]
                          /\ c # Idle => calls[w] # Idle /\ c.session = s /\ calls[w].op # "saveAddress"
    <3>1. CASE Quote(w)
      <4>1. calls[w] \in [op : {"quote"}, session : Sessions, service : Services, address : Addresses]
        BY <1>0, <3>1 DEF Quote, Call, Idle
      <4> DEFINE cost == CostOf(calls[w].service, calls[w].address, items[s])
                 c == [op |-> "price", session |-> s, service |-> calls[w].service, cost |-> cost]
      <4>2. cost \in Costs
        BY <4>1 DEF Costs, CheckoutTypeOK
      <4> HIDE DEF cost
      <4>3. c \in Call
        BY <4>1, <4>2 DEF Call
      <4>4. calls[w] # Idle
        BY <3>1 DEF Quote, Idle
      <4> QED BY <3>1, <4>1, <4>3, <4>4 DEF Quote, cost
    <3>2. CASE PriceItems(w)
      <4>1. calls[w] \in [op : {"price"}, session : Sessions, service : Services, cost : Costs]
        BY <1>0, <3>2 DEF PriceItems, Call, Idle
      <4> DEFINE sum == SubtotalOf(items[s])
                 c == [op |-> "saveShipping", session |-> s, service |-> calls[w].service,
                       cost |-> calls[w].cost, subtotal |-> sum]
      <4>2. sum \in Subtotals
        BY <4>1 DEF Subtotals, CheckoutTypeOK
      <4> HIDE DEF sum
      <4>3. c \in Call
        BY <4>1, <4>2 DEF Call
      <4>4. calls[w] # Idle
        BY <3>2 DEF PriceItems, Idle
      <4> QED BY <3>2, <4>1, <4>3, <4>4 DEF PriceItems, sum
    <3>3. CASE FailCall(w)
      BY <3>3 DEF FailCall, Call
    <3> QED BY <1>3, <3>1, <3>2, <3>3
  <2>2. UNCHANGED <<cart, onSale, sessionVars, stockLeft, orders>>
    BY <1>3 DEF Quote, PriceItems, FailCall
  <2>3. CheckoutTypeOK'
    BY <2>1, <2>2 DEF CheckoutTypeOK, CartTypeOK
  <2>4. CallsAreAboutSessions'
    BY <2>1, <2>2 DEF CallsAreAboutSessions, CheckoutTypeOK
  <2> QED BY <2>2, <2>3, <2>4 DEF OneOpenSession, ShippingNeedsAddress, SelectionsAddUp,
             UnusedSessionsAreBlank, OrdersComeFromConverted, OrdersOfDifferentSessions
<1> QED BY <1>1, <1>2, <1>3 DEF ContinueCall

\* confirmCheckout converts an open session, which has no order yet.
LEMMA ConfirmStep ==
    ASSUME CheckoutInv, NEW s \in Sessions, ConfirmCheckout(s)
    PROVE  CheckoutInv'
PROOF
<1> USE DEF CheckoutInv
<1>1. /\ state[s] = "ACTIVE"
      /\ shipping[s] \in Shipping
      /\ address[s] \in Addresses
      /\ state' = [state EXCEPT ![s] = "CONVERTED"]
      /\ orders' = Append(orders, OrderOf(s))
      /\ UNCHANGED <<onSale, expired, items, address, shipping, calls>>
  BY DEF ConfirmCheckout, ConfirmAllowed, Confirmable, CheckoutReady, CheckoutTypeOK
<1>2. OrderOf(s) \in Order
  BY <1>1 DEF OrderOf, Order, Shipping, CheckoutTypeOK
<1>3. cart' \in [Users -> Items] /\ stockLeft' \in [CartVariants -> Nat]
  <2>1. \A v \in CartVariants : items[s][v] \in Nat /\ stockLeft[v] \in Nat
    BY DEF CheckoutTypeOK, Items
  <2>2. stockLeft' \in [CartVariants -> Nat]
    BY <2>1 DEF ConfirmCheckout, TakeStock
  <2>3. cart' \in [Users -> Items]
    BY Marks DEF ConfirmCheckout, ClearCart, CheckoutTypeOK, CartTypeOK
  <2> QED BY <2>2, <2>3
<1>4. CheckoutTypeOK'
  BY <1>1, <1>2, <1>3 DEF CheckoutTypeOK, CartTypeOK, Live
<1>5. OneOpenSession' /\ ShippingNeedsAddress' /\ SelectionsAddUp' /\ UnusedSessionsAreBlank'
  BY <1>1 DEF OneOpenSession, ShippingNeedsAddress, SelectionsAddUp, UnusedSessionsAreBlank,
     CheckoutTypeOK, Live
<1>6. CallsAreAboutSessions'
  BY <1>1, Marks DEF CallsAreAboutSessions, CheckoutTypeOK, Live
<1>7. OrdersComeFromConverted' /\ OrdersOfDifferentSessions'
  <2>1. \A i \in DOMAIN orders : orders[i].session # s
    BY <1>1 DEF OrdersComeFromConverted
  <2>2. /\ Len(orders) \in Nat
        /\ DOMAIN orders = 1 .. Len(orders)
        /\ DOMAIN orders' = 1 .. Len(orders) + 1
        /\ \A i \in DOMAIN orders : orders'[i] = orders[i]
        /\ orders'[Len(orders) + 1] = OrderOf(s)
    BY <1>1, <1>2 DEF CheckoutTypeOK
  <2>3. OrderOf(s).session = s
    BY DEF OrderOf
  <2>4. \A i \in DOMAIN orders' : i \in DOMAIN orders \/ i = Len(orders) + 1
    BY <2>2
  <2>5. OrdersOfDifferentSessions'
    BY <2>1, <2>2, <2>3, <2>4 DEF OrdersOfDifferentSessions
  <2>6. OrdersComeFromConverted'
    BY <1>1, <2>2, <2>3, <2>4, OrderRows DEF OrdersComeFromConverted, CheckoutTypeOK
  <2> QED BY <2>5, <2>6
<1> QED BY <1>4, <1>5, <1>6, <1>7

\* Sessions expire, and the cleanup deletes some that are not open.
LEMMA TimeStep ==
    ASSUME CheckoutInv, (\E s \in Sessions : PassSessionDeadline(s)) \/ Cleanup
    PROVE  CheckoutInv'
PROOF
<1> USE DEF CheckoutInv
<1>1. ASSUME NEW s \in Sessions, PassSessionDeadline(s)
      PROVE  CheckoutInv'
  <2>1. CheckoutTypeOK'
    BY <1>1 DEF PassSessionDeadline, CheckoutTypeOK, CartTypeOK
  <2> QED BY <1>1, <2>1 DEF PassSessionDeadline, OneOpenSession, ShippingNeedsAddress,
             CallsAreAboutSessions, SelectionsAddUp, UnusedSessionsAreBlank,
             OrdersComeFromConverted, OrdersOfDifferentSessions
<1>2. ASSUME NEW gone \in SUBSET (Abandoned \cup Converted), CleanupCheckoutSessions(gone)
      PROVE  CheckoutInv'
  <2>1. \A s \in gone : s \in Sessions /\ state[s] \in Live
    BY DEF Abandoned, Converted, Live
  <2>2. /\ state' = [s \in Sessions |-> IF s \in gone THEN "DELETED" ELSE state[s]]
        /\ items' = [s \in Sessions |-> IF s \in gone THEN NoItems ELSE items[s]]
        /\ address' = [s \in Sessions |-> IF s \in gone THEN NoAddress ELSE address[s]]
        /\ shipping' = [s \in Sessions |-> IF s \in gone THEN NoShipping ELSE shipping[s]]
        /\ UNCHANGED <<cart, onSale, expired, stockLeft, calls, orders>>
    BY <1>2 DEF CleanupCheckoutSessions
  <2>3. CheckoutTypeOK'
    BY <2>2, Marks DEF CheckoutTypeOK, CartTypeOK
  <2>4. OneOpenSession' /\ ShippingNeedsAddress'
    BY <2>2 DEF OneOpenSession, ShippingNeedsAddress, Live
  <2>5. SelectionsAddUp' /\ UnusedSessionsAreBlank'
    BY <2>2 DEF SelectionsAddUp, UnusedSessionsAreBlank
  <2>6. CallsAreAboutSessions'
    BY <2>2, Marks DEF CallsAreAboutSessions, CheckoutTypeOK, Live
  <2>7. OrdersComeFromConverted' /\ OrdersOfDifferentSessions'
    BY <2>2, OrderRows DEF OrdersComeFromConverted, OrdersOfDifferentSessions
  <2> QED BY <2>3, <2>4, <2>5, <2>6, <2>7
<1> QED BY <1>1, <1>2 DEF Cleanup

-----------------------------------------------------------------------------

LEMMA CheckoutStep == CheckoutInv /\ [CheckoutNext]_checkoutVars => CheckoutInv'
PROOF
<1> SUFFICES ASSUME CheckoutInv, [CheckoutNext]_checkoutVars PROVE CheckoutInv'
  OBVIOUS
<1>1. CASE Command
  BY <1>1, CartStep, CreateStep, ConfirmStep DEF Command
<1>2. CASE \E w \in Workers : StartCall(w) \/ ContinueCall(w)
  BY <1>2, StartStep, ContinueStep
<1>3. CASE Elsewhere
  BY <1>3, CartStep, TimeStep DEF Elsewhere
<1>4. CASE UNCHANGED checkoutVars
  BY <1>4 DEF checkoutVars, sessionVars, CheckoutInv, CheckoutTypeOK, CartTypeOK, OneOpenSession,
     ShippingNeedsAddress, CallsAreAboutSessions, SelectionsAddUp, UnusedSessionsAreBlank,
     OrdersComeFromConverted, OrdersOfDifferentSessions
<1> QED BY <1>1, <1>2, <1>3, <1>4 DEF CheckoutNext

\* Whatever requests overlap, the invariant of the checkout holds.
THEOREM CheckoutInvHolds == CheckoutSpec => []CheckoutInv
PROOF
<1>1. CheckoutInit => CheckoutInv
  BY CheckoutInitInv
<1>2. CheckoutInv /\ [CheckoutNext]_checkoutVars => CheckoutInv'
  BY CheckoutStep
<1> QED BY <1>1, <1>2, PTL DEF CheckoutSpec

\* Every column of the sessions and of the orders, and every request in
\* flight, has its type; no stock goes below zero.
THEOREM CheckoutTypeCorrect == CheckoutSpec => []CheckoutTypeOK
PROOF
<1>1. CheckoutInv => CheckoutTypeOK
  BY DEF CheckoutInv
<1> QED BY <1>1, CheckoutInvHolds, PTL

\* No customer ever has two open sessions: the unique index is never hit.
THEOREM OneSessionIsOpen == CheckoutSpec => []OneOpenSession
PROOF
<1>1. CheckoutInv => OneOpenSession
  BY DEF CheckoutInv
<1> QED BY <1>1, CheckoutInvHolds, PTL

\* A session is turned into at most one order, however often and whenever the
\* customer confirms it.
THEOREM NoDoubleOrder == CheckoutSpec => []OneOrderPerSession
PROOF
<1>1. CheckoutInv => OneOrderPerSession
  BY DEF CheckoutInv, OneOrderPerSession, OrdersComeFromConverted, OrdersOfDifferentSessions
<1> QED BY <1>1, CheckoutInvHolds, PTL

\* A session that exists has lines, and no shipping without an address, even
\* after requests that read it before it was refreshed.
THEOREM ShippingHasAddress == CheckoutSpec => []ShippingNeedsAddress
PROOF
<1>1. CheckoutInv => ShippingNeedsAddress
  BY DEF CheckoutInv
<1> QED BY <1>1, CheckoutInvHolds, PTL

\* Page and confirmCheckout differ in what the two name: a service without a
\* delivery time, and one at no charge.
THEOREM OfferIsKept == CheckoutSpec => []PageAndConfirmAgree
PROOF
<1>1. CheckoutInv => PageAndConfirmAgree
  <2> SUFFICES ASSUME CheckoutInv, NEW s \in Sessions, SessionActive(s)
               PROVE  /\ CanPlaceOrder(s) => (ConfirmAllowed(s) <=> shipping[s].service \in WithEtd)
                      /\ ConfirmAllowed(s) => (CanPlaceOrder(s) <=> shipping[s].cost > 0)
    BY DEF PageAndConfirmAgree
  <2>1. ASSUME CanPlaceOrder(s), shipping[s].service \in WithEtd
        PROVE  ConfirmAllowed(s)
    BY <2>1 DEF CheckoutInv, SelectionsAddUp, ShippingNeedsAddress, SessionActive,
             CanPlaceOrder, ConfirmAllowed, Confirmable, CheckoutReady, Live
  <2>2. ConfirmAllowed(s) => shipping[s].service \in WithEtd
    BY DEF ConfirmAllowed, CheckoutReady
  <2>3. ConfirmAllowed(s) => (CanPlaceOrder(s) <=> shipping[s].cost > 0)
    BY DEF ConfirmAllowed, CheckoutReady, CanPlaceOrder
  <2> QED BY <2>1, <2>2, <2>3
<1> QED BY <1>1, CheckoutInvHolds, PTL

-----------------------------------------------------------------------------
(* The units that are left and the units in the orders.                    *)

\* The units of v in the order i.
LineOf(v) == [i \in DOMAIN orders |-> orders[i].items[v]]

\* Only confirmCheckout moves units, from the shelf to the lines of one order.
LEMMA UnitsStep ==
    ASSUME CheckoutInv, NothingOversold, NEW s \in Sessions, ConfirmCheckout(s)
    PROVE  NothingOversold'
PROOF
<1> DEFINE n == Len(orders)
<1>1. /\ n \in Nat /\ DOMAIN orders = 1 .. n /\ DOMAIN orders' = 1 .. n + 1
      /\ \A i \in 1 .. n : orders'[i] = orders[i]
      /\ orders'[n + 1] = OrderOf(s)
      /\ \A i \in 1 .. n : orders[i].items \in Items
  <2>1. orders \in Seq(Order) /\ orders' = Append(orders, OrderOf(s))
    BY DEF CheckoutInv, CheckoutTypeOK, ConfirmCheckout
  <2>2. \A i \in 1 .. n : orders[i] \in Order
    BY <2>1
  <2>3. \A x \in Order : x.items \in Items
    BY DEF Order
  <2> QED BY <2>1, <2>2, <2>3
<1>2. SUFFICES ASSUME NEW v \in CartVariants
               PROVE  stockLeft'[v] >= 0 /\ stockLeft'[v] + SumFunction(LineOf(v)') = FirstStock[v]
  BY DEF NothingOversold, LineOf
<1> DEFINE f == LineOf(v)
           g == LineOf(v)'
           q == items[s][v]
<1>3. /\ DOMAIN f = 1 .. n /\ DOMAIN g = (1 .. n) \cup {n + 1} /\ n + 1 \notin 1 .. n
      /\ \A i \in 1 .. n : g[i] = f[i] /\ f[i] \in Int
      /\ g[n + 1] = q /\ q \in Nat
  <2>1. \A x \in Items : x[v] \in Nat
    BY DEF Items
  <2>2. items[s] \in Items
    BY DEF CheckoutInv, CheckoutTypeOK
  <2> HIDE DEF n
  <2>3. DOMAIN g = (1 .. n) \cup {n + 1} /\ n + 1 \notin 1 .. n
    BY <1>1 DEF LineOf
  <2>4. \A i \in 1 .. n : g[i] = f[i] /\ f[i] \in Int
    BY <1>1, <2>1 DEF LineOf
  <2>5. g[n + 1] = q
    BY <1>1 DEF LineOf, OrderOf
  <2> QED BY <1>1, <2>1, <2>2, <2>3, <2>4, <2>5 DEF LineOf
<1>4. IsFiniteSet(1 .. n) /\ IsFiniteSet((1 .. n) \cup {n + 1})
  <2>1. n \in Int /\ 1 \in Int
    BY <1>1
  <2> HIDE DEF n
  <2>2. IsFiniteSet(1 .. n)
    BY <2>1, FS_Interval
  <2> QED BY <2>2, FS_AddElement
<1>5. /\ stockLeft[v] \in Nat /\ stockLeft'[v] = stockLeft[v] - q /\ stockLeft[v] >= q
      /\ stockLeft[v] + SumFunction(f) = FirstStock[v]
  BY DEF CheckoutInv, CheckoutTypeOK, ConfirmCheckout, TakeStock, NothingOversold, LineOf
<1> HIDE DEF f, g, n, q
<1>6. /\ SumFunction(f) = SumFunctionOnSet(f, 1 .. n)
      /\ SumFunction(g) = SumFunctionOnSet(g, (1 .. n) \cup {n + 1})
  BY <1>3 DEF SumFunction
<1>7. SumFunctionOnSet(g, (1 .. n) \cup {n + 1}) = q + SumFunctionOnSet(g, 1 .. n)
  <2>1. \A i \in (1 .. n) \cup {n + 1} : g[i] \in Int
    BY <1>3
  <2> QED BY <1>3, <1>4, <2>1, SumAdd
<1>8. SumFunctionOnSet(g, 1 .. n) = SumFunctionOnSet(f, 1 .. n) /\ SumFunctionOnSet(f, 1 .. n) \in Int
  BY <1>3, <1>4, SumSame, SumType
<1>9. stockLeft'[v] >= 0 /\ stockLeft'[v] + SumFunction(g) = FirstStock[v]
  BY <1>3, <1>5, <1>6, <1>7, <1>8
<1> QED BY <1>9 DEF g

\* No customer buys a unit that another has bought, however many sessions are
\* confirmed and however many units each of them holds.
THEOREM NothingIsOversold == CheckoutSpec => []NothingOversold
PROOF
<1>1. CheckoutInit => NothingOversold
  <2> SUFFICES ASSUME CheckoutInit, NEW v \in CartVariants
               PROVE  stockLeft[v] >= 0 /\ stockLeft[v] + SumFunction(LineOf(v)) = FirstStock[v]
    BY DEF NothingOversold, LineOf
  <2>1. DOMAIN LineOf(v) = {}
    BY DEF CheckoutInit, LineOf
  <2>2. SumFunction(LineOf(v)) = 0
    BY <2>1, SumEmpty DEF SumFunction
  <2> QED BY <2>2, FirstStockAssumption DEF CheckoutInit
<1>2. CheckoutInv /\ NothingOversold /\ [CheckoutNext]_checkoutVars => NothingOversold'
  <2> SUFFICES ASSUME CheckoutInv, NothingOversold, [CheckoutNext]_checkoutVars PROVE NothingOversold'
    OBVIOUS
  <2>1. CASE \E s \in Sessions : ConfirmCheckout(s)
    BY <2>1, UnitsStep
  <2>2. CASE UNCHANGED <<stockLeft, orders>>
    BY <2>2 DEF NothingOversold
  <2> QED BY <2>1, <2>2
     DEF CheckoutNext, Command, CreateCheckoutSession, StartCall, StartAddress, StartShipping,
         ContinueCall, SaveAddress, Quote, PriceItems, SaveShipping, FailCall, Elsewhere,
         PassSessionDeadline, Cleanup, CleanupCheckoutSessions, checkoutVars
<1> QED BY <1>1, <1>2, CheckoutInvHolds, PTL DEF CheckoutSpec

-----------------------------------------------------------------------------
(* CheckoutHistory: what a selection was priced for.                       *)

\* What request w has read of its session is still so.
Fresh(w) ==
    LET c == calls[w]
        s == c.session
    IN  /\ c.op = "quote" => c.address = address[s]
        /\ c.op \in {"price", "saveShipping"} => c.cost = CostOf(c.service, address[s], items[s])
        /\ c.op = "saveShipping" => c.subtotal = SubtotalOf(items[s])

HistInv == PricedAsListed /\ \A w \in Workers \ overtaken : Fresh(w)

\* A selection outlives no edit of the items or the address it was priced for.
LEMMA EditsDropSelections ==
    ASSUME CheckoutInv, CheckoutNext, NEW s \in Sessions,
           items'[s] # items[s] \/ address'[s] # address[s]
    PROVE  shipping'[s] = NoShipping
PROOF
<1> USE DEF CheckoutInv, CheckoutTypeOK
<1>1. ASSUME NEW u \in Users, CreateCheckoutSession(u)
      PROVE  shipping'[s] = NoShipping
  BY <1>1 DEF CreateCheckoutSession, OpenSession, RefreshSession, UnusedSessionsAreBlank
<1>2. ASSUME NEW w \in Workers, SaveAddress(w)
      PROVE  shipping'[s] = NoShipping
  BY <1>2 DEF SaveAddress
<1>3. CASE Cleanup
  BY <1>3 DEF Cleanup, CleanupCheckoutSessions
<1>4. CASE UNCHANGED <<items, address>>
  BY <1>4
<1> QED BY <1>1, <1>2, <1>3, <1>4
     DEF CheckoutNext, Command, EditCart, ConfirmCheckout, StartCall, StartAddress, StartShipping,
         ContinueCall, Quote, PriceItems, SaveShipping, FailCall, Elsewhere, PassSessionDeadline, sessionVars

\* Only the last query of setShippingMethod writes a selection.
LEMMA SelectionsAreSaved ==
    ASSUME CheckoutInv, CheckoutNext, NEW s \in Sessions,
           shipping'[s] # shipping[s], shipping'[s] # NoShipping
    PROVE  \E w \in Workers : /\ SaveShipping(w) /\ calls[w].session = s
                              /\ shipping'[s] = Selection(calls[w])
PROOF
<1> USE DEF CheckoutInv, CheckoutTypeOK
<1>1. ASSUME NEW u \in Users, CreateCheckoutSession(u)
      PROVE  FALSE
  BY <1>1 DEF CreateCheckoutSession, OpenSession, RefreshSession
<1>2. ASSUME NEW w \in Workers, SaveAddress(w)
      PROVE  FALSE
  BY <1>2 DEF SaveAddress
<1>3. CASE Cleanup
  BY <1>3 DEF Cleanup, CleanupCheckoutSessions
<1>4. CASE UNCHANGED shipping
  BY <1>4
<1>5. ASSUME NEW w \in Workers, SaveShipping(w)
      PROVE  calls[w].session = s /\ shipping'[s] = Selection(calls[w])
  BY <1>5 DEF SaveShipping
<1> QED BY <1>1, <1>2, <1>3, <1>4, <1>5
     DEF CheckoutNext, Command, EditCart, ConfirmCheckout, StartCall, StartAddress, StartShipping,
         ContinueCall, Quote, PriceItems, FailCall, Elsewhere, PassSessionDeadline, sessionVars

\* A request that was not overtaken knows its session, at each of its queries.
LEMMA RequestsStayFresh ==
    ASSUME CheckoutInv, HistInv, HistNext, NEW w \in Workers \ overtaken'
    PROVE  Fresh(w)'
PROOF
<1> DEFINE c == calls[w]
           s == calls[w].session
<1> USE DEF CheckoutInv, CheckoutTypeOK
<1>1. CASE calls'[w] = calls[w]
  <2>1. CASE c.op \in Pricing
    <3>1. c # Idle /\ w \notin overtaken /\ items'[s] = items[s] /\ address'[s] = address[s]
      BY <1>1, <2>1 DEF HistNext, EditedBelow, Pricing, Idle
    <3> QED BY <1>1, <3>1 DEF HistInv, Fresh
  <2>2. CASE c.op \notin Pricing
    BY <1>1, <2>2 DEF Fresh, Pricing
  <2> QED BY <2>1, <2>2
<1>2. CASE calls'[w] = Idle
  BY <1>2 DEF Fresh, Idle
<1>3. ASSUME NEW x \in Sessions, NEW a \in Addresses, StartAddress(w, x, a)
      PROVE  Fresh(w)'
  BY <1>3 DEF StartAddress, Fresh
<1>4. ASSUME NEW x \in Sessions, NEW svc \in Services, StartShipping(w, x, svc)
      PROVE  Fresh(w)'
  BY <1>4 DEF StartShipping, Fresh, sessionVars
<1>5. CASE Quote(w)
  <2>1. w \notin overtaken
    BY <1>5 DEF HistNext, Quote, Idle
  <2>2. c.address = address[s]
    BY <1>5, <2>1 DEF HistInv, Fresh, Quote
  <2>3. /\ calls'[w] = [op |-> "price", session |-> s, service |-> c.service,
                        cost |-> CostOf(c.service, c.address, items[s])]
        /\ UNCHANGED <<address, items>>
    BY <1>5 DEF Quote, sessionVars
  <2> QED BY <2>2, <2>3 DEF Fresh
<1>6. CASE PriceItems(w)
  <2>1. w \notin overtaken
    BY <1>6 DEF HistNext, PriceItems, Idle
  <2>2. c.cost = CostOf(c.service, address[s], items[s])
    BY <1>6, <2>1 DEF HistInv, Fresh, PriceItems
  <2>3. /\ calls'[w] = [op |-> "saveShipping", session |-> s, service |-> c.service,
                        cost |-> c.cost, subtotal |-> SubtotalOf(items[s])]
        /\ UNCHANGED <<address, items>>
    BY <1>6 DEF PriceItems, sessionVars
  <2> QED BY <2>2, <2>3 DEF Fresh
<1>7. \A x \in Workers : StartCall(x) \/ ContinueCall(x) =>
        x = w \/ calls'[w] = calls[w]
  BY DEF StartCall, StartAddress, StartShipping, ContinueCall, SaveAddress, Quote, PriceItems,
         SaveShipping, FailCall
<1>8. SaveAddress(w) \/ SaveShipping(w) \/ FailCall(w) => calls'[w] = Idle
  BY DEF SaveAddress, SaveShipping, FailCall
<1>9. Command \/ Elsewhere => calls' = calls
  BY DEF Command, CreateCheckoutSession, ConfirmCheckout, Elsewhere, PassSessionDeadline, Cleanup,
         CleanupCheckoutSessions
<1> QED BY <1>1, <1>2, <1>3, <1>4, <1>5, <1>6, <1>7, <1>8, <1>9
     DEF HistNext, CheckoutNext, StartCall, ContinueCall

\* A selection stays the price of its session's lines, unless an overtaken
\* request writes it.
LEMMA SelectionsStayPriced ==
    ASSUME CheckoutInv, HistInv, HistNext
    PROVE  PricedAsListed'
PROOF
<1> SUFFICES ASSUME NEW s \in Sessions, s \notin outdated', shipping'[s] # NoShipping
             PROVE  /\ shipping'[s].subtotal = SubtotalOf(items'[s])
                    /\ shipping'[s].cost = CostOf(shipping'[s].service, address'[s], items'[s])
  BY DEF PricedAsListed, SubtotalOf, CostOf
<1>1. items'[s] = items[s] /\ address'[s] = address[s]
  BY EditsDropSelections DEF HistNext
<1>2. CASE shipping'[s] = shipping[s]
  <2>1. s \notin outdated
    BY <1>2 DEF HistNext
  <2> QED BY <1>1, <1>2, <2>1 DEF HistInv, PricedAsListed
<1>3. CASE shipping'[s] # shipping[s]
  <2>1. PICK w \in Workers : /\ SaveShipping(w) /\ calls[w].session = s
                             /\ shipping'[s] = Selection(calls[w])
    BY <1>3, SelectionsAreSaved DEF HistNext
  <2>2. calls'[w] = Idle /\ calls[w].op = "saveShipping"
    BY <2>1 DEF SaveShipping, CheckoutInv, CheckoutTypeOK
  <2>3. w \notin overtaken
    BY <1>3, <2>1, <2>2 DEF HistNext
  <2>4. /\ calls[w].cost = CostOf(calls[w].service, address[s], items[s])
        /\ calls[w].subtotal = SubtotalOf(items[s])
    BY <2>1, <2>2, <2>3 DEF HistInv, Fresh
  <2> QED BY <1>1, <2>1, <2>4 DEF Selection
<1> QED BY <1>2, <1>3

\* What a customer is asked for shipping and goods is the price of the session
\* as it stands, for any tariff, unless a request was overtaken.
THEOREM SelectionsArePriced == HistSpec => []PricedAsListed
PROOF
<1>1. HistInit => HistInv /\ CheckoutInv
  <2>1. HistInit => HistInv
    BY DEF HistInit, HistInv, CheckoutInit, PricedAsListed, Fresh, Idle
  <2> QED BY <2>1, CheckoutInitInv DEF HistInit
<1>2. CheckoutInv /\ HistInv /\ [HistNext]_histVars => CheckoutInv' /\ HistInv'
  <2> SUFFICES ASSUME CheckoutInv, HistInv, [HistNext]_histVars PROVE CheckoutInv' /\ HistInv'
    OBVIOUS
  <2>1. CheckoutInv'
    BY CheckoutStep DEF HistNext, histVars
  <2>2. CASE HistNext
    BY <2>1, <2>2, SelectionsStayPriced, RequestsStayFresh DEF HistInv
  <2>3. CASE UNCHANGED histVars
    BY <2>1, <2>3 DEF histVars, checkoutVars, sessionVars, HistInv, PricedAsListed, Fresh, SubtotalOf, CostOf
  <2> QED BY <2>1, <2>2, <2>3
<1>3. HistInv => PricedAsListed
  BY DEF HistInv
<1> QED BY <1>1, <1>2, <1>3, PTL DEF HistSpec
=============================================================================
