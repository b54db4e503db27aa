--------------------------- MODULE OrderLifecycle ---------------------------
(***************************************************************************)
(* The life of orders from confirmCheckout to delivery, on the tables that *)
(* decide it: orders, order_shipments, order_payments and the stock and    *)
(* sold columns of product_variants.                                       *)
(*                                                                         *)
(* Every command below is one knex transaction that takes the order's row  *)
(* lock (SELECT ... FOR UPDATE) before it reads the columns it decides on, *)
(* and keeps it to the commit; each is therefore one action.  A command    *)
(* that is refused rolls back and leaves every column as it was: it is a   *)
(* stuttering step.  The expiry cron, whose SELECT takes no lock, is not   *)
(* such a command; it is in CronJobs.                                      *)
(*                                                                         *)
(* Midtrans is external.  It emits notifications of what happens to a      *)
(* payment; they may be delivered in any order and any number of times,    *)
(* and one is lost when its handler fails, because the controller answers  *)
(* 200 all the same and Midtrans does not send it again.                   *)
(***************************************************************************)
EXTENDS OrderRules, Integers, FiniteSets, Functions

CONSTANTS
    Orders,         \* the orders that can be placed
    Variants,       \* the product variants
    Txns,           \* the Midtrans transactions (payment attempts)
    TxnOrder,       \* the order each transaction pays
    Qty,            \* Qty[o][v]: the quantity of v in the items of o
    InitialStock,   \* product_variants.stock before the first order
    Notices,        \* the notices the instance lets Midtrans send
    MaxLost,        \* bound on the notifications whose handling fails
    MaxInt4         \* the largest value of an INTEGER column

\* Quantities and the stock an administrator enters are never negative
\* (cart.schema.ts, product.schema.ts).
ASSUME OrdersAssumption == IsFiniteSet(Orders)
ASSUME QtyAssumption == Qty \in [Orders -> [Variants -> Nat]]
ASSUME InitialStockAssumption == InitialStock \in [Variants -> Nat]
ASSUME TxnOrderAssumption == TxnOrder \in [Txns -> Orders]
ASSUME NoticesAssumption == Notices \subseteq Notice
ASSUME MaxInt4Assumption == MaxInt4 \in Nat

VARIABLES
    status,         \* orders.status, "NONE" before the order is placed
    payment,        \* orders.payment_status
    overdue,        \* orders.expires_at < NOW()
    snapToken,      \* orders.snap_token is set
    shipment,       \* order_shipments.status
    payments,       \* order_payments.transaction_status, "none": no row
    stock,          \* product_variants.stock
    sold,           \* product_variants.sold
    gateway,        \* Midtrans: the last notice of each transaction
    webhooks,       \* Midtrans: the notifications sent so far
    lost,           \* the notifications whose handling failed
    released        \* history: how often an order's stock was given back

orderVars == <<status, payment, overdue, snapToken, shipment>>
gatewayVars == <<gateway, webhooks, lost>>
vars == <<orderVars, payments, stock, sold, gatewayVars, released>>

\* stock and sold are INTEGER columns: an UPDATE out of the range fails.
Int4 == (-MaxInt4 - 1) .. MaxInt4

Webhook == [txn : Txns, notice : Notices]

Placed(o) == status[o] # "NONE"

TypeOK ==
    /\ status \in [Orders -> OrderStatus \cup {"NONE"}]
    /\ payment \in [Orders -> PaymentStatus]
    /\ overdue \in [Orders -> BOOLEAN]
    /\ snapToken \in [Orders -> BOOLEAN]
    /\ shipment \in [Orders -> ShipmentStatus]
    /\ payments \in [Txns -> TransactionStatus \cup {"none"}]
    /\ stock \in [Variants -> Int4]
    /\ sold \in [Variants -> Int4]
    /\ gateway \in [Txns -> Notices \cup {"none"}]
    /\ webhooks \subseteq Webhook
    /\ lost \subseteq webhooks
    /\ released \in [Orders -> Nat]

Init ==
    /\ status = [o \in Orders |-> "NONE"]
    /\ payment = [o \in Orders |-> "UNPAID"]
    /\ overdue = [o \in Orders |-> FALSE]
    /\ snapToken = [o \in Orders |-> FALSE]
    /\ shipment = [o \in Orders |-> "PENDING"]
    /\ payments = [t \in Txns |-> "none"]
    /\ stock = InitialStock
    /\ stock \in [Variants -> Int4]
    /\ sold = [v \in Variants |-> 0]
    /\ gateway = [t \in Txns |-> "none"]
    /\ webhooks = {}
    /\ lost = {}
    /\ released = [o \in Orders |-> 0]

\* The units of v in the items of the orders in S.
Units(S, v) == SumFunctionOnSet([o \in Orders |-> Qty[o][v]], S)

-----------------------------------------------------------------------------
(* The customer.                                                           *)

\* Slip: the UPDATE without "AND stock >= :qty".
ReduceStockUnchecked(o) ==
    /\ stock' = [v \in Variants |-> stock[v] - Qty[o][v]]
    /\ stock' \in [Variants -> Int4]

\* reduceStock: each item's UPDATE requires stock >= qty, or all roll back.
ReduceStock(o) ==
    /\ \A v \in Variants : stock[v] >= Qty[o][v]
    /\ stock' = [v \in Variants |-> stock[v] - Qty[o][v]]
    /\ stock' \in [Variants -> Int4]

\* The end of confirmCheckout: the order, its items and its shipment are
\* inserted and the stock is taken.  What precedes it, the session and its
\* items, is in CheckoutSession.
PlaceOrder(o) ==
    /\ status[o] = "NONE"
    /\ ReduceStock(o)
    /\ status' = [status EXCEPT ![o] = "PENDING"]
    /\ UNCHANGED <<payment, overdue, snapToken, shipment, payments, sold, gatewayVars, released>>

\* cancelOrder: the order is CANCELLED and its payment FAILED.  The code gives
\* no stock back here.
CancelOrder(o) ==
    /\ Placed(o)
    /\ CancelAccepted(status[o], payment[o])
    /\ status' = [status EXCEPT ![o] = "CANCELLED"]
    /\ payment' = [payment EXCEPT ![o] = "FAILED"]
    /\ UNCHANGED <<overdue, snapToken, shipment, payments, stock, sold, gatewayVars, released>>

\* createSnapToken: a first token is asked from Midtrans and saved; a saved
\* one is answered again, and a failing call to Midtrans saves none (both are
\* stuttering steps).
CreateSnapToken(o) ==
    /\ Placed(o)
    /\ SnapTokenAccepted(status[o], payment[o], overdue[o])
    /\ ~snapToken[o]
    /\ snapToken' = [snapToken EXCEPT ![o] = TRUE]
    /\ UNCHANGED <<status, payment, overdue, shipment, payments, stock, sold, gatewayVars, released>>

\* The shipment becomes DELIVERED and the order COMPLETED, each UPDATE with
\* its own WHERE on the old status.
DeliverShipment(o) ==
    /\ shipment' = [shipment EXCEPT ![o] = IF @ = "SHIPPED" THEN "DELIVERED" ELSE @]
    /\ status' = [status EXCEPT ![o] = IF @ \notin {"COMPLETED", "CANCELLED"} THEN "COMPLETED" ELSE @]

\* confirmDelivered; on a shipment already DELIVERED it returns at once.
ConfirmDelivered(o) ==
    /\ Placed(o)
    /\ ConfirmAccepted(status[o], payment[o], shipment[o])
    /\ shipment[o] # "DELIVERED"
    /\ DeliverShipment(o)
    /\ UNCHANGED <<payment, overdue, snapToken, payments, stock, sold, gatewayVars, released>>

-----------------------------------------------------------------------------
(* The administrator.                                                      *)

\* markAsShipped; updateOrderToProcessing touches a PENDING order only.
MarkAsShipped(o) ==
    /\ Placed(o)
    /\ ShipAccepted(status[o], payment[o], shipment[o])
    /\ shipment' = [shipment EXCEPT ![o] = "SHIPPED"]
    /\ status' = [status EXCEPT ![o] = IF @ = "PENDING" THEN "PROCESSING" ELSE @]
    /\ UNCHANGED <<payment, overdue, snapToken, payments, stock, sold, gatewayVars, released>>

MarkAsDelivered(o) ==
    /\ Placed(o)
    /\ DeliverAccepted(status[o], payment[o], shipment[o])
    /\ DeliverShipment(o)
    /\ UNCHANGED <<payment, overdue, snapToken, payments, stock, sold, gatewayVars, released>>

-----------------------------------------------------------------------------
(* Time and the expiry worker.                                             *)

\* Thirty minutes after the order was placed.
PassDeadline(o) ==
    /\ Placed(o)
    /\ ~overdue[o]
    /\ overdue' = [overdue EXCEPT ![o] = TRUE]
    /\ UNCHANGED <<status, payment, snapToken, shipment, payments, stock, sold, gatewayVars, released>>

\* Slip: the orders are not updated.
ReleaseOnly(S) ==
    /\ stock' = [v \in Variants |-> stock[v] + Units(S, v)]
    /\ released' = [o \in Orders |-> IF o \in S THEN released[o] + 1 ELSE released[o]]
    /\ UNCHANGED <<status, payment>>

\* Steps 2 and 3 of both expiry workers, on the orders they selected.
ReleaseAndCancel(S) ==
    /\ stock' = [v \in Variants |-> stock[v] + Units(S, v)]
    /\ stock' \in [Variants -> Int4]
    /\ status' = [o \in Orders |-> IF o \in S THEN "CANCELLED" ELSE status[o]]
    /\ payment' = [o \in Orders |-> IF o \in S THEN "EXPIRED" ELSE payment[o]]
    /\ released' = [o \in Orders |-> IF o \in S THEN released[o] + 1 ELSE released[o]]

\* The HTTP worker selects FOR UPDATE SKIP LOCKED: any of the expirable orders
\* may be locked by a command that has not committed, and is then skipped.
ExpireOrders(S) ==
    /\ S # {}
    /\ \A o \in S : Placed(o) /\ Expirable(status[o], payment[o], overdue[o])
    /\ ReleaseAndCancel(S)
    /\ UNCHANGED <<overdue, snapToken, shipment, payments, sold, gatewayVars>>

-----------------------------------------------------------------------------
(* Midtrans, external: how a transaction may move, and what it notifies.   *)

GatewayMoves ==
    ({"none"} \X {"pending", "authorize", "capture", "challenge", "deny", "failure"})
    \cup ({"pending"} \X {"settlement", "capture", "expire", "cancel", "deny", "failure"})
    \cup ({"authorize"} \X {"capture", "challenge", "cancel", "deny", "expire"})
    \cup ({"challenge"} \X {"capture", "cancel", "deny"})
    \cup ({"capture"} \X {"settlement", "cancel"})
    \cup ({"settlement"} \X {"refund", "partial_refund"})

\* A transaction starts with the customer's token and lasts on its own: it may
\* be paid after the order is cancelled or past its deadline.
Notify(t, notice) ==
    /\ snapToken[TxnOrder[t]]
    /\ <<gateway[t], notice>> \in GatewayMoves
    /\ gateway' = [gateway EXCEPT ![t] = notice]
    /\ webhooks' = webhooks \cup {[txn |-> t, notice |-> notice]}
    /\ UNCHANGED <<orderVars, payments, stock, sold, lost, released>>

-----------------------------------------------------------------------------
(* The webhook.                                                            *)

\* Slip: the latest notification wins, late or not.
RecordPaymentLatest(t, notice) == payments' = [payments EXCEPT ![t] = StatusOf(notice)]

\* The order_payments row: inserted the first time, else updated unless the
\* notice has a lower rank than what the row holds.
RecordPayment(t, notice) ==
    payments' = [payments EXCEPT ![t] =
                    IF @ = "none" \/ PaymentRank[StatusOf(notice)] >= PaymentRank[@]
                    THEN StatusOf(notice) ELSE @]

\* incrementVariantSold, by the items of the order.
IncrementVariantSold(o) ==
    /\ sold' = [v \in Variants |-> sold[v] + Qty[o][v]]
    /\ sold' \in [Variants -> Int4]

\* Slips: a repeated paid event counts again; the final states are looked at
\* before the payment.
PayOrderAgain(o, notice) ==
    /\ IsPaidEvent(notice)
    /\ payment' = [payment EXCEPT ![o] = "PAID"]
    /\ IncrementVariantSold(o)

PayOrderIfActive(o, notice) ==
    /\ IsPaidEvent(notice)
    /\ payment[o] # "PAID"
    /\ ~OrderFinal(status[o], payment[o])
    /\ payment' = [payment EXCEPT ![o] = "PAID"]
    /\ IncrementVariantSold(o)

\* A paid event comes first, whatever the order has become.
PayOrder(o, notice) ==
    /\ IsPaidEvent(notice)
    /\ payment[o] # "PAID"
    /\ payment' = [payment EXCEPT ![o] = "PAID"]
    /\ IncrementVariantSold(o)

\* Slip: a failed attempt overrides a payment already made.
FailPaymentEvenPaid(o, notice) ==
    /\ notice \in FailureNotice \cup {"expire"}
    /\ status[o] \notin {"CANCELLED", "COMPLETED"}
    /\ payment' = [payment EXCEPT ![o] = IF notice = "expire" THEN "EXPIRED" ELSE "FAILED"]
    /\ UNCHANGED sold

\* An unsuccessful payment of an order that is neither paid nor final; the
\* order itself stays PENDING.
FailPayment(o, notice) ==
    /\ notice \in FailureNotice \cup {"expire"}
    /\ payment[o] # "PAID"
    /\ status[o] \notin {"CANCELLED", "COMPLETED"}
    /\ payment' = [payment EXCEPT ![o] = IF notice = "expire" THEN "EXPIRED" ELSE "FAILED"]
    /\ UNCHANGED sold

\* Every other notice leaves the order alone.
IgnoreNotice(o, notice) ==
    /\ \/ payment[o] = "PAID"
       \/ /\ ~IsPaidEvent(notice)
          /\ \/ notice \notin FailureNotice \cup {"expire"}
             \/ status[o] \in {"CANCELLED", "COMPLETED"}
    /\ UNCHANGED <<payment, sold>>

HandleMidtransWebhook(w) ==
    LET o == TxnOrder[w.txn]
    IN  /\ w \in webhooks \ lost
        /\ Placed(o)
        /\ RecordPayment(w.txn, w.notice)
        /\ \/ PayOrder(o, w.notice)
           \/ FailPayment(o, w.notice)
           \/ IgnoreNotice(o, w.notice)
        /\ UNCHANGED <<status, overdue, snapToken, shipment, stock, gatewayVars, released>>

\* The handler throws; the controller answers 200 "error_handled".
LoseWebhook(w) ==
    /\ w \in webhooks \ lost
    /\ Cardinality(lost) < MaxLost
    /\ lost' = lost \cup {w}
    /\ UNCHANGED <<orderVars, payments, stock, sold, gateway, webhooks, released>>

-----------------------------------------------------------------------------
Customer(o) == PlaceOrder(o) \/ CancelOrder(o) \/ CreateSnapToken(o) \/ ConfirmDelivered(o)
Admin(o)    == MarkAsShipped(o) \/ MarkAsDelivered(o)
Midtrans    == \/ \E t \in Txns, n \in Notices : Notify(t, n)
               \/ \E w \in webhooks : HandleMidtransWebhook(w) \/ LoseWebhook(w)

\* All but the expiry worker.
Commands ==
    \/ \E o \in Orders : Customer(o) \/ Admin(o) \/ PassDeadline(o)
    \/ Midtrans

Next == Commands \/ \E S \in SUBSET Orders : ExpireOrders(S)

Spec == Init /\ [][Next]_vars

(***************************************************************************)
(* Fairness.  Midtrans delivers a notification at least once, and a        *)
(* delivered one is handled or lost.  The worker endpoint is called on a   *)
(* schedule, takes the oldest deadlines first, 500 at a time, and skips an *)
(* order only while another command holds its lock, so it takes in the end *)
(* every order that stays expirable.  Time passes.  Nothing is assumed of  *)
(* what customers and administrators do.                                   *)
(***************************************************************************)
Fairness ==
    /\ \A w \in Webhook : WF_vars(HandleMidtransWebhook(w))
    /\ \A o \in Orders : WF_vars(\E S \in SUBSET Orders : o \in S /\ ExpireOrders(S))
    /\ \A o \in Orders : WF_vars(PassDeadline(o))

FairSpec == Spec /\ Fairness

-----------------------------------------------------------------------------
(* Safety.                                                                 *)

\* Goods leave the warehouse only for money: an order whose shipment left
\* PENDING is PAID and is PROCESSING or COMPLETED, whatever notification came
\* late or twice and whoever cancelled or expired it meanwhile.
ShippedOnlyIfPaid ==
    \A o \in Orders : shipment[o] # "PENDING" =>
        payment[o] = "PAID" /\ status[o] \in {"PROCESSING", "COMPLETED"}

\* The two rows of an order agree on its end: COMPLETED in orders exactly when
\* DELIVERED in order_shipments, through each of the commands that deliver.
CompletedIffDelivered ==
    \A o \in Orders : status[o] = "COMPLETED" <=> shipment[o] = "DELIVERED"

\* PROCESSING is a word about the shipment (the order's goods are on their way),
\* though the customer's page uses it for paid orders too; and nothing happens
\* to the payment of an order before it exists.
RowShapes ==
    \A o \in Orders :
        /\ status[o] = "PROCESSING" => shipment[o] # "PENDING"
        /\ ~Placed(o) => payment[o] = "UNPAID"

\* Stock given back by the expiry worker is given back once, and never that of
\* an order whose goods were shipped: such an order stays CANCELLED even if a
\* settlement for it comes later.
ReleasedNeverShipped ==
    \A o \in Orders : released[o] > 0 =>
        released[o] = 1 /\ status[o] = "CANCELLED" /\ shipment[o] = "PENDING"

\* No unit is lost or made: what is on the shelf and what the orders hold that
\* were not released add up to the initial stock, and nothing is oversold.
StockConserved ==
    \A v \in Variants :
        /\ stock[v] >= 0
        /\ stock[v] + Units({o \in Orders : Placed(o) /\ released[o] = 0}, v) = InitialStock[v]

\* product_variants.sold counts each paid order once, however often and in
\* whatever order Midtrans repeats its notifications.
SoldMatchesPaid ==
    \A v \in Variants : sold[v] = Units({o \in Orders : payment[o] = "PAID"}, v)

\* Both counters of a variant tell of the orders that took and paid its units.
UnitsAccounted == StockConserved /\ SoldMatchesPaid

\* An order is PAID only if Midtrans said the money of one of its transactions
\* was accepted; a capture still under fraud review is not enough.
PaidOnlyIfCollected ==
    \A o \in Orders : payment[o] = "PAID" =>
        \E w \in webhooks : TxnOrder[w.txn] = o /\ w.notice \in {"capture", "settlement"}

\* The books agree: a PAID order has an order_payments row that got as far as
\* capture, and a transaction recorded as settled belongs to a PAID order.
PaymentRowsAgree ==
    /\ \A o \in Orders : payment[o] = "PAID" =>
          \E t \in Txns : TxnOrder[t] = o /\ payments[t] # "none" /\ PaymentRank[payments[t]] >= 3
    /\ \A t \in Txns : payments[t] = "settlement" => payment[TxnOrder[t]] = "PAID"

\* The inductive invariant: a late notification is harmless to an order only
\* because of all these together.  What ships is paid (so it is not cancelled
\* by a command that refuses paid orders), what is released is CANCELLED (so a
\* late payment does not ship it), and what is PAID is so in order_payments.
LifeInv ==
    /\ ShippedOnlyIfPaid
    /\ CompletedIffDelivered
    /\ RowShapes
    /\ ReleasedNeverShipped
    /\ PaidOnlyIfCollected
    /\ PaymentRowsAgree

\* The customer and the administrator are shown the same order, in the words
\* of each: never one CANCELLED and the other ready to ship.
ViewsAgree ==
    LET AdminWord ==
            [view \in {"PROCESSING", "DELIVERED"} |->
                IF view = "PROCESSING" THEN "READY_TO_SHIP" ELSE "COMPLETED"]
    IN  \A o \in Orders : Placed(o) =>
            LET view == mapOrderStatus(status[o], payment[o], shipment[o])
            IN  mapAdminOrderStatus(status[o], payment[o], shipment[o])
                    = IF view \in DOMAIN AdminWord THEN AdminWord[view] ELSE view

\* Every order is in exactly one tab of the customer's list.
TabsPartition ==
    \A o \in Orders : Placed(o) => Cardinality(TabsOf(status[o], payment[o])) = 1

\* The administrator finds an order under the status it is shown with; what
\* another filter shows as well is CANCELLED, and money may have come for it
\* since: nothing else is sorted among the parcels to send.
AdminListTells ==
    \A o \in Orders : Placed(o) =>
        LET word == mapAdminOrderStatus(status[o], payment[o], shipment[o])
            filters == AdminFilters(status[o], payment[o], shipment[o])
        IN  /\ word \in filters
            /\ word # "CANCELLED" => filters = {word}
            /\ AdminPriority(status[o], payment[o], shipment[o]) = 0
                  => word = "READY_TO_SHIP" \/ (word = "CANCELLED" /\ payment[o] = "PAID")

\* The timeline agrees with the status above it: the steps that are done are
\* the first ones, and the one that is current, if any, is the last of these.
TimelineTells ==
    \A o \in Orders : Placed(o) =>
        LET steps == buildOrderTimeline(status[o], payment[o], shipment[o])
            word == mapOrderStatus(status[o], payment[o], shipment[o])
            done == {i \in DOMAIN steps : steps[i].completed}
            last == CHOOSE i \in done : \A j \in done : j <= i
        IN  /\ done = 1 .. last
            /\ steps[last].key = IF word = "PROCESSING" THEN "PAID" ELSE word
            /\ \A i \in DOMAIN steps : steps[i].current <=> i = last /\ word # "DELIVERED"

\* What lists and pages show of an order, the tab, the filter and the timeline,
\* tells its status: they read the columns in three ways and must agree on
\* every combination that commands, workers and late webhooks can make.
ListsTellStatus == TabsPartition /\ AdminListTells /\ TimelineTells

\* A button a page offers is a command the service accepts: the order list
\* looks at the shipment alone and canShip does not look at COMPLETED, so this
\* rests on what shipments and orders can be together.
OffersAccepted ==
    \A o \in Orders : Placed(o) =>
        /\ ListCanConfirm(shipment[o]) => ConfirmAccepted(status[o], payment[o], shipment[o])
        /\ CanShip(status[o], payment[o], shipment[o])
              => ShipAccepted(status[o], payment[o], shipment[o])
        /\ CanPay(status[o], payment[o], overdue[o])
              => SnapTokenAccepted(status[o], payment[o], overdue[o])

\* What is paid stays paid: a late expire, cancel or deny of an earlier
\* attempt takes nothing back, nor does an expiry worker.
PaidStaysPaid ==
    [][\A o \in Orders : payment[o] = "PAID" => payment'[o] = "PAID"]_vars

-----------------------------------------------------------------------------
(* Liveness.                                                               *)

\* Money Midtrans reports ends up on the order, even on one that was
\* cancelled, failed or expired before, unless every report of it was lost.
CollectedLeadsToPaid ==
    \A w \in Webhook : IsPaidEvent(w.notice) =>
        (w \in webhooks ~> w \in lost \/ payment[TxnOrder[w.txn]] = "PAID")

\* No order waits for its payment for ever: it is paid, fails, or is cancelled.
NoOrderWaitsForEver ==
    \A o \in Orders :
        (Placed(o) /\ status[o] = "PENDING" /\ payment[o] = "UNPAID")
            ~> ~(status[o] = "PENDING" /\ payment[o] = "UNPAID")
=============================================================================
