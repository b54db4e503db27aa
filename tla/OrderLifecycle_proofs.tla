----------------------- MODULE OrderLifecycle_proofs -----------------------
(***************************************************************************)
(* Theorems of OrderLifecycle, for any orders, variants, transactions,     *)
(* quantities and any number of lost notifications; the proof that it      *)
(* keeps OrderPromise; and, at the end, theorems of CronJobs, for any      *)
(* number of processes that run the jobs (but where a theorem says one).   *)
(***************************************************************************)
EXTENDS OrderRefinement, CronJobs, DataTheorems

\* The rank of a transaction status is a number from 1 to 6.
LEMMA RankType == \A ts \in TransactionStatus : PaymentRank[ts] \in 1 .. 6
  BY DEF PaymentRank, TransactionStatus

\* What order_payments stores of a notice is a transaction status.
LEMMA StatusOfType == \A n \in Notice : StatusOf(n) \in TransactionStatus
  BY DEF Notice, StatusOf, TransactionStatus

-----------------------------------------------------------------------------
(* Type correctness.                                                       *)

\* Handling a notification keeps the columns it writes in their types.
LEMMA WebhookType ==
  ASSUME TypeOK, NEW w \in webhooks, HandleMidtransWebhook(w)
  PROVE  TypeOK'
<1>1. w.txn \in Txns /\ w.notice \in Notice /\ TxnOrder[w.txn] \in Orders
  BY TxnOrderAssumption, NoticesAssumption DEF TypeOK, Webhook
<1>2. payments' \in [Txns -> TransactionStatus \cup {"none"}]
  BY <1>1, StatusOfType DEF HandleMidtransWebhook, RecordPayment, TypeOK
<1>3. payment' \in [Orders -> PaymentStatus]
  BY <1>1 DEF HandleMidtransWebhook, PayOrder, FailPayment, IgnoreNotice, TypeOK, PaymentStatus
<1>4. sold' \in [Variants -> Int4]
  BY DEF HandleMidtransWebhook, PayOrder, FailPayment, IgnoreNotice, IncrementVariantSold, TypeOK
<1>5. QED
  BY <1>2, <1>3, <1>4 DEF HandleMidtransWebhook, TypeOK, gatewayVars

\* Every step of the back end and of Midtrans keeps every column in its type.
LEMMA TypeStep == TypeOK /\ [Next]_vars => TypeOK'
<1> SUFFICES ASSUME TypeOK, [Next]_vars
             PROVE  TypeOK'
  OBVIOUS
<1>1. ASSUME NEW o \in Orders, PlaceOrder(o)
      PROVE  TypeOK'
  BY <1>1 DEF PlaceOrder, ReduceStock, TypeOK, OrderStatus, gatewayVars
<1>2. ASSUME NEW o \in Orders, CancelOrder(o)
      PROVE  TypeOK'
  BY <1>2 DEF CancelOrder, TypeOK, OrderStatus, PaymentStatus, gatewayVars
<1>3. ASSUME NEW o \in Orders, CreateSnapToken(o)
      PROVE  TypeOK'
  BY <1>3 DEF CreateSnapToken, TypeOK, gatewayVars
<1>4. ASSUME NEW o \in Orders, ConfirmDelivered(o)
      PROVE  TypeOK'
  BY <1>4 DEF ConfirmDelivered, DeliverShipment, TypeOK, OrderStatus, ShipmentStatus, gatewayVars
<1>5. ASSUME NEW o \in Orders, MarkAsShipped(o)
      PROVE  TypeOK'
  BY <1>5 DEF MarkAsShipped, TypeOK, OrderStatus, ShipmentStatus, gatewayVars
<1>6. ASSUME NEW o \in Orders, MarkAsDelivered(o)
      PROVE  TypeOK'
  BY <1>6 DEF MarkAsDelivered, DeliverShipment, TypeOK, OrderStatus, ShipmentStatus, gatewayVars
<1>7. ASSUME NEW o \in Orders, PassDeadline(o)
      PROVE  TypeOK'
  BY <1>7 DEF PassDeadline, TypeOK, gatewayVars
<1>8. ASSUME NEW S \in SUBSET Orders, ExpireOrders(S)
      PROVE  TypeOK'
  BY <1>8 DEF ExpireOrders, ReleaseAndCancel, TypeOK, OrderStatus, PaymentStatus, gatewayVars
<1>9. ASSUME NEW t \in Txns, NEW n \in Notices, Notify(t, n)
      PROVE  TypeOK'
  <2>1. [txn |-> t, notice |-> n] \in Webhook
    BY DEF Webhook
  <2>2. QED
    BY <1>9, <2>1 DEF Notify, TypeOK, orderVars
<1>10. ASSUME NEW w \in webhooks, HandleMidtransWebhook(w)
       PROVE  TypeOK'
  BY <1>10, WebhookType
<1>11. ASSUME NEW w \in webhooks, LoseWebhook(w)
       PROVE  TypeOK'
  BY <1>11 DEF LoseWebhook, TypeOK, orderVars
<1>12. CASE UNCHANGED vars
  BY <1>12 DEF vars, orderVars, gatewayVars, TypeOK
<1>13. QED
  BY <1>1, <1>2, <1>3, <1>4, <1>5, <1>6, <1>7, <1>8, <1>9, <1>10, <1>11, <1>12
     DEF Next, Commands, Customer, Admin, Midtrans

\* Every column stays in its type in every state of the back end.
THEOREM TypeCorrect == Spec => []TypeOK
<1>1. Init => TypeOK
  BY MaxInt4Assumption DEF Init, TypeOK, PaymentStatus, ShipmentStatus, Int4
<1>2. QED
  BY <1>1, TypeStep, PTL DEF Spec

-----------------------------------------------------------------------------
(* The safety invariant.                                                   *)

\* A notification keeps LifeInv: a paid event may pay any order, and nothing
\* else changes a PAID one; the row it records never loses rank.
LEMMA WebhookKeepsLifeInv ==
  ASSUME TypeOK, LifeInv, NEW w \in webhooks, HandleMidtransWebhook(w)
  PROVE  LifeInv'
<1> DEFINE o == TxnOrder[w.txn]
           ts == StatusOf(w.notice)
<1>1. w.txn \in Txns /\ w.notice \in Notice /\ o \in Orders /\ ts \in TransactionStatus
  BY TxnOrderAssumption, NoticesAssumption, StatusOfType DEF TypeOK, Webhook
<1>2. UNCHANGED <<status, shipment, released, webhooks>>
  BY DEF HandleMidtransWebhook, gatewayVars
<1>3. \A q \in Orders : payment[q] = "PAID" => payment'[q] = "PAID"
  BY <1>1 DEF HandleMidtransWebhook, PayOrder, FailPayment, IgnoreNotice, TypeOK
<1>4. \A q \in Orders : payment'[q] # payment[q] =>
        q = o /\ Placed(q) /\ (payment'[q] = "PAID" => IsPaidEvent(w.notice))
  BY <1>1 DEF HandleMidtransWebhook, PayOrder, FailPayment, IgnoreNotice, TypeOK
<1>5. \A t \in Txns : payments[t] # "none" =>
        payments'[t] # "none" /\ PaymentRank[payments'[t]] >= PaymentRank[payments[t]]
  <2>1. SUFFICES ASSUME NEW t \in Txns, payments[t] # "none"
                 PROVE  payments'[t] # "none" /\ PaymentRank[payments'[t]] >= PaymentRank[payments[t]]
    OBVIOUS
  <2>2. payments[t] \in TransactionStatus /\ PaymentRank[payments[t]] \in 1 .. 6
    BY <2>1, RankType DEF TypeOK
  <2>3. \/ payments'[t] = payments[t]
        \/ payments'[t] = ts /\ PaymentRank[ts] >= PaymentRank[payments[t]]
    BY <1>1, <2>1 DEF HandleMidtransWebhook, RecordPayment, TypeOK
  <2>4. ts # "none"
    BY <1>1 DEF TransactionStatus
  <2>5. QED
    BY <2>1, <2>2, <2>3, <2>4
<1>6. IsPaidEvent(w.notice) =>
        payments'[w.txn] # "none" /\ PaymentRank[payments'[w.txn]] >= 3
  <2>1. SUFFICES ASSUME IsPaidEvent(w.notice)
                 PROVE  payments'[w.txn] # "none" /\ PaymentRank[payments'[w.txn]] >= 3
    OBVIOUS
  <2>2. ts \in {"capture", "settlement"} /\ PaymentRank[ts] \in {3, 4}
    BY <1>1, <2>1 DEF IsPaidEvent, StatusOf, PaymentRank, TransactionStatus
  <2>3. \/ payments'[w.txn] = ts
        \/ /\ payments'[w.txn] = payments[w.txn] /\ payments[w.txn] # "none"
           /\ ~(PaymentRank[ts] >= PaymentRank[payments[w.txn]])
    BY <1>1 DEF HandleMidtransWebhook, RecordPayment, TypeOK
  <2>4. payments[w.txn] # "none" => PaymentRank[payments[w.txn]] \in 1 .. 6
    BY <1>1, RankType DEF TypeOK
  <2>5. QED
    BY <2>2, <2>3, <2>4
<1>7. ShippedOnlyIfPaid'
  BY <1>2, <1>3 DEF LifeInv, ShippedOnlyIfPaid
<1>8. CompletedIffDelivered'
  BY <1>2 DEF LifeInv, CompletedIffDelivered
<1>9. RowShapes'
  BY <1>2, <1>4 DEF LifeInv, RowShapes, Placed
<1>10. ReleasedNeverShipped'
  BY <1>2 DEF LifeInv, ReleasedNeverShipped
<1>11. PaidOnlyIfCollected'
  BY <1>2, <1>4 DEF LifeInv, PaidOnlyIfCollected, IsPaidEvent
<1>12. PaymentRowsAgree'
  <2>1. ASSUME NEW q \in Orders, payment'[q] = "PAID"
        PROVE  \E t \in Txns : /\ TxnOrder[t] = q
                               /\ payments'[t] # "none" /\ PaymentRank[payments'[t]] >= 3
    <3>1. CASE payment[q] = "PAID"
      <4>1. PICK t \in Txns : TxnOrder[t] = q /\ payments[t] # "none" /\ PaymentRank[payments[t]] >= 3
        BY <3>1 DEF LifeInv, PaymentRowsAgree
      <4>2. PaymentRank[payments[t]] \in 1 .. 6 /\ PaymentRank[payments'[t]] \in 1 .. 6
        BY <4>1, <1>5, RankType, WebhookType DEF TypeOK
      <4>3. QED
        BY <4>1, <4>2, <1>5
    <3>2. CASE payment[q] # "PAID"
      BY <2>1, <3>2, <1>1, <1>4, <1>6
    <3>3. QED
      BY <3>1, <3>2
  <2>2. ASSUME NEW t \in Txns, payments'[t] = "settlement"
        PROVE  payment'[TxnOrder[t]] = "PAID"
    <3>1. TxnOrder[t] \in Orders
      BY TxnOrderAssumption
    <3>2. CASE payments[t] = "settlement"
      BY <3>1, <3>2, <1>3 DEF LifeInv, PaymentRowsAgree
    <3>3. CASE payments[t] # "settlement"
      <4>1. t = w.txn /\ ts = "settlement"
        BY <2>2, <3>3, <1>1 DEF HandleMidtransWebhook, RecordPayment, TypeOK
      <4>2. w.notice = "settlement"
        BY <4>1 DEF StatusOf
      <4>3. QED
        BY <4>1, <4>2, <1>1
           DEF HandleMidtransWebhook, PayOrder, FailPayment, IgnoreNotice,
               IsPaidEvent, FailureNotice, TypeOK
    <3>4. QED
      BY <3>2, <3>3
  <2>3. QED
    BY <2>1, <2>2 DEF PaymentRowsAgree
<1>13. QED
  BY <1>7, <1>8, <1>9, <1>10, <1>11, <1>12 DEF LifeInv

\* Every step keeps LifeInv.  Each command's guard is what makes it so: cancel
\* and expiry refuse paid orders, shipping and delivery refuse final ones.
LEMMA LifeInvStep == TypeOK /\ LifeInv /\ [Next]_vars => LifeInv'
<1> SUFFICES ASSUME TypeOK, LifeInv, [Next]_vars
             PROVE  LifeInv'
  OBVIOUS
<1> USE DEF LifeInv, ShippedOnlyIfPaid, CompletedIffDelivered, RowShapes,
            ReleasedNeverShipped, Placed
<1>1. ASSUME UNCHANGED <<status, payment, shipment, payments, released>>,
             webhooks \subseteq webhooks'
      PROVE  LifeInv'
  BY <1>1 DEF PaidOnlyIfCollected, PaymentRowsAgree
<1>2. ASSUME NEW o \in Orders, PlaceOrder(o)
      PROVE  LifeInv'
  BY <1>2 DEF PlaceOrder, TypeOK, PaidOnlyIfCollected, PaymentRowsAgree, gatewayVars
<1>3. ASSUME NEW o \in Orders, CancelOrder(o)
      PROVE  LifeInv'
  <2>1. payment[o] # "PAID" /\ payments' = payments /\ webhooks' = webhooks
    BY <1>3 DEF CancelOrder, CancelAccepted, gatewayVars
  <2>2. \A q \in Orders : payment'[q] = "PAID" <=> payment[q] = "PAID"
    BY <1>3, <2>1 DEF CancelOrder, TypeOK
  <2>3. PaidOnlyIfCollected'
    BY <2>1, <2>2 DEF PaidOnlyIfCollected
  <2>4. PaymentRowsAgree'
    BY <2>1, <2>2, TxnOrderAssumption DEF PaymentRowsAgree
  <2>5. ShippedOnlyIfPaid' /\ CompletedIffDelivered' /\ RowShapes' /\ ReleasedNeverShipped'
    BY <1>3, <2>1 DEF CancelOrder, TypeOK
  <2>6. QED
    BY <2>3, <2>4, <2>5
<1>4. ASSUME NEW o \in Orders, CreateSnapToken(o)
      PROVE  LifeInv'
  BY <1>1, <1>4 DEF CreateSnapToken, gatewayVars
<1>5. ASSUME NEW o \in Orders, DeliverAccepted(status[o], payment[o], shipment[o]), DeliverShipment(o),
             Placed(o), UNCHANGED <<payment, payments, gatewayVars, released>>
      PROVE  LifeInv'
  BY <1>5 DEF DeliverAccepted, DeliverShipment, OrderFinal, TypeOK, ShipmentStatus,
              PaidOnlyIfCollected, PaymentRowsAgree, gatewayVars
<1>6. ASSUME NEW o \in Orders, ConfirmDelivered(o)
      PROVE  LifeInv'
  BY <1>5, <1>6 DEF ConfirmDelivered, ConfirmAccepted, DeliverAccepted
<1>7. ASSUME NEW o \in Orders, MarkAsDelivered(o)
      PROVE  LifeInv'
  BY <1>5, <1>7 DEF MarkAsDelivered
<1>8. ASSUME NEW o \in Orders, MarkAsShipped(o)
      PROVE  LifeInv'
  BY <1>8 DEF MarkAsShipped, ShipAccepted, OrderFinal, TypeOK, OrderStatus,
              PaidOnlyIfCollected, PaymentRowsAgree, gatewayVars
<1>9. ASSUME NEW o \in Orders, PassDeadline(o)
      PROVE  LifeInv'
  BY <1>1, <1>9 DEF PassDeadline, gatewayVars
<1>10. ASSUME NEW S \in SUBSET Orders, ExpireOrders(S)
       PROVE  LifeInv'
  <2>1. \A o \in S : status[o] = "PENDING" /\ payment[o] = "UNPAID"
    BY <1>10 DEF ExpireOrders, Expirable
  <2>2. UNCHANGED <<shipment, payments, webhooks>>
    BY <1>10 DEF ExpireOrders, gatewayVars
  <2>3. \A o \in Orders :
          /\ status'[o] = IF o \in S THEN "CANCELLED" ELSE status[o]
          /\ payment'[o] = IF o \in S THEN "EXPIRED" ELSE payment[o]
          /\ released'[o] = IF o \in S THEN released[o] + 1 ELSE released[o]
    BY <1>10 DEF ExpireOrders, ReleaseAndCancel
  <2>4. \A o \in Orders : payment'[o] = "PAID" <=> payment[o] = "PAID"
    BY <2>1, <2>3
  <2>5. PaidOnlyIfCollected'
    BY <2>2, <2>4 DEF PaidOnlyIfCollected
  <2>6. PaymentRowsAgree'
    BY <2>2, <2>4, TxnOrderAssumption DEF PaymentRowsAgree
  <2>7. ReleasedNeverShipped'
    <3>1. \A o \in S : released[o] = 0 /\ shipment[o] = "PENDING"
      BY <2>1 DEF TypeOK
    <3>2. QED
      BY <2>2, <2>3, <3>1
  <2>8. ShippedOnlyIfPaid' /\ CompletedIffDelivered' /\ RowShapes'
    BY <2>1, <2>2, <2>3
  <2>9. QED
    BY <2>5, <2>6, <2>7, <2>8
<1>11. ASSUME NEW t \in Txns, NEW n \in Notices, Notify(t, n)
       PROVE  LifeInv'
  BY <1>1, <1>11 DEF Notify, orderVars
<1>12. ASSUME NEW w \in webhooks, HandleMidtransWebhook(w)
       PROVE  LifeInv'
  BY <1>12, WebhookKeepsLifeInv
<1>13. ASSUME NEW w \in webhooks, LoseWebhook(w)
       PROVE  LifeInv'
  BY <1>1, <1>13 DEF LoseWebhook, orderVars
<1>14. CASE UNCHANGED vars
  BY <1>1, <1>14 DEF vars, orderVars, gatewayVars
<1>15. QED
  BY <1>2, <1>3, <1>4, <1>6, <1>7, <1>8, <1>9, <1>10, <1>11, <1>12, <1>13, <1>14
     DEF Next, Commands, Customer, Admin, Midtrans

\* LifeInv holds in every state, whatever the customers, the administrators,
\* Midtrans and the expiry worker do, and in whatever order.
THEOREM LifeInvHolds == Spec => []LifeInv
<1>1. Init => LifeInv
  BY DEF Init, LifeInv, ShippedOnlyIfPaid, CompletedIffDelivered, RowShapes,
         ReleasedNeverShipped, PaidOnlyIfCollected, PaymentRowsAgree, Placed
<1>2. QED
  BY <1>1, LifeInvStep, TypeCorrect, PTL DEF Spec

\* Goods leave the warehouse only for money.
THEOREM GoodsLeaveOnlyForMoney == Spec => []ShippedOnlyIfPaid
<1>1. LifeInv => ShippedOnlyIfPaid
  BY DEF LifeInv
<1>2. QED
  BY <1>1, LifeInvHolds, PTL

\* What the expiry worker gave back is never shipped.
THEOREM ReleasedStockStays == Spec => []ReleasedNeverShipped
<1>1. LifeInv => ReleasedNeverShipped
  BY DEF LifeInv
<1>2. QED
  BY <1>1, LifeInvHolds, PTL

\* order_payments and orders.payment_status agree on what was paid.
THEOREM PaymentBooksAgree == Spec => []PaymentRowsAgree
<1>1. LifeInv => PaymentRowsAgree
  BY DEF LifeInv
<1>2. QED
  BY <1>1, LifeInvHolds, PTL

\* An order is PAID only if Midtrans said the money was accepted.
THEOREM PaidIsCollected == Spec => []PaidOnlyIfCollected
<1>1. LifeInv => PaidOnlyIfCollected
  BY DEF LifeInv
<1>2. QED
  BY <1>1, LifeInvHolds, PTL

-----------------------------------------------------------------------------
(* The units of a variant: on the shelf, in the orders, and sold.          *)

Held == {o \in Orders : Placed(o) /\ released[o] = 0}
PaidOrders == {o \in Orders : payment[o] = "PAID"}

\* The units of some orders: a number, none for no order, those of one more, and
\* those of two sets without a common order.
LEMMA UnitsOfOrders ==
  ASSUME NEW v \in Variants, NEW S \in SUBSET Orders
  PROVE  /\ Units(S, v) \in Nat
         /\ Units({}, v) = 0
         /\ \A o \in Orders \ S : Units(S \cup {o}, v) = Qty[o][v] + Units(S, v)
         /\ \A T \in SUBSET S : Units(S, v) = Units(S \ T, v) + Units(T, v)
<1> DEFINE q == [o \in Orders |-> Qty[o][v]]
<1>1. IsFiniteSet(S) /\ \A o \in Orders : q[o] = Qty[o][v] /\ q[o] \in Nat /\ q[o] \in Int
  BY OrdersAssumption, QtyAssumption, FS_Subset
<1>2. \A T : Units(T, v) = SumFunctionOnSet(q, T)
  BY DEF Units
<1> HIDE DEF q
<1>3. SumFunctionOnSet(q, S) \in Nat /\ SumFunctionOnSet(q, {}) = 0
  BY <1>1, SumNat, SumEmpty
<1>4. ASSUME NEW o \in Orders \ S
      PROVE  SumFunctionOnSet(q, S \cup {o}) = Qty[o][v] + SumFunctionOnSet(q, S)
  <2>1. \A x \in S \cup {o} : q[x] \in Int
    BY <1>1
  <2>2. SumFunctionOnSet(q, S \cup {o}) = q[o] + SumFunctionOnSet(q, S)
    BY <1>1, <2>1, SumAdd
  <2>3. QED
    BY <1>1, <2>2
<1>5. ASSUME NEW T \in SUBSET S
      PROVE  SumFunctionOnSet(q, S) = SumFunctionOnSet(q, S \ T) + SumFunctionOnSet(q, T)
  <2>1. IsFiniteSet(T) /\ IsFiniteSet(S \ T) /\ (S \ T) \cap T = {} /\ (S \ T) \cup T = S
    BY <1>1, FS_Subset
  <2>2. \A x \in (S \ T) \cup T : q[x] \in Int
    BY <1>1
  <2>3. SumFunctionOnSet(q, (S \ T) \cup T) = SumFunctionOnSet(q, S \ T) + SumFunctionOnSet(q, T)
    BY <2>1, <2>2, SumUnion
  <2>4. QED
    BY <2>1, <2>3
<1>6. QED
  BY <1>2, <1>3, <1>4, <1>5

\* A step that leaves the shelf and the orders that hold units alone.
LEMMA SameHeld ==
  ASSUME StockConserved, stock' = stock, Held' = Held
  PROVE  StockConserved'
  BY DEF StockConserved, Held, Units

LEMMA SamePaid ==
  ASSUME SoldMatchesPaid, sold' = sold, PaidOrders' = PaidOrders
  PROVE  SoldMatchesPaid'
  BY DEF SoldMatchesPaid, PaidOrders, Units

\* Two steps move units between the shelf and the orders: an order that is
\* placed takes its own, and the expiry worker gives back those of the orders
\* it takes, each of which still holds them.
LEMMA StockStep == TypeOK /\ LifeInv /\ StockConserved /\ [Next]_vars => StockConserved'
<1> SUFFICES ASSUME TypeOK, LifeInv, StockConserved, [Next]_vars
             PROVE  StockConserved'
  OBVIOUS
<1>0. /\ Held \in SUBSET Orders
      /\ \A v \in Variants : stock[v] \in Int /\ stock[v] >= 0 /\ stock[v] + Units(Held, v) = InitialStock[v]
  BY MaxInt4Assumption DEF TypeOK, Int4, StockConserved, Held
<1>1. ASSUME NEW o \in Orders, PlaceOrder(o)
      PROVE  StockConserved'
  <2>1. o \notin Held /\ Held' = Held \cup {o}
    BY <1>1 DEF PlaceOrder, Held, Placed, TypeOK, LifeInv, ReleasedNeverShipped
  <2>2. ASSUME NEW v \in Variants
        PROVE  stock'[v] >= 0 /\ stock'[v] + Units(Held', v) = InitialStock[v]
    <3>1. Units(Held', v) = Qty[o][v] + Units(Held, v) /\ Units(Held, v) \in Nat
      BY <1>0, <2>1, UnitsOfOrders
    <3>2. stock'[v] = stock[v] - Qty[o][v] /\ stock[v] >= Qty[o][v] /\ Qty[o][v] \in Nat
      BY <1>1, QtyAssumption DEF PlaceOrder, ReduceStock
    <3>3. QED
      BY <1>0, <3>1, <3>2
  <2>3. QED
    BY <2>2 DEF StockConserved, Held, Units
<1>2. ASSUME NEW S \in SUBSET Orders, ExpireOrders(S)
      PROVE  StockConserved'
  <2>1. S \subseteq Held /\ Held' = Held \ S
    BY <1>2 DEF ExpireOrders, Expirable, ReleaseAndCancel, Held, Placed, TypeOK, LifeInv,
                ReleasedNeverShipped
  <2>2. ASSUME NEW v \in Variants
        PROVE  stock'[v] >= 0 /\ stock'[v] + Units(Held', v) = InitialStock[v]
    <3>1. Units(Held, v) = Units(Held \ S, v) + Units(S, v)
      BY <1>0, <2>1, UnitsOfOrders
    <3>2. Units(S, v) \in Nat /\ Units(Held \ S, v) \in Nat
      BY <1>0, UnitsOfOrders
    <3>3. stock'[v] = stock[v] + Units(S, v)
      BY <1>2 DEF ExpireOrders, ReleaseAndCancel
    <3>4. QED
      BY <1>0, <2>1, <3>1, <3>2, <3>3
  <2>3. QED
    BY <2>2 DEF StockConserved, Held, Units
<1>3. CASE UNCHANGED <<status, released, stock>>
  BY <1>3, SameHeld DEF Held, Placed
<1>4. ASSUME NEW o \in Orders, CancelOrder(o) \/ ConfirmDelivered(o) \/ MarkAsShipped(o) \/ MarkAsDelivered(o)
      PROVE  StockConserved'
  <2>1. UNCHANGED <<stock, released>> /\ \A q \in Orders : Placed(q)' <=> Placed(q)
    BY <1>4 DEF CancelOrder, ConfirmDelivered, MarkAsShipped, MarkAsDelivered, DeliverShipment,
                Placed, TypeOK
  <2>2. QED
    BY <2>1, SameHeld DEF Held
<1>5. QED
  BY <1>1, <1>2, <1>3, <1>4
     DEF Next, Commands, Customer, Admin, Midtrans, CreateSnapToken, PassDeadline, Notify,
         HandleMidtransWebhook, LoseWebhook, vars, orderVars

\* One step counts units as sold: the first notification that pays an order.
LEMMA SoldStep == TypeOK /\ SoldMatchesPaid /\ [Next]_vars => SoldMatchesPaid'
<1> SUFFICES ASSUME TypeOK, SoldMatchesPaid, [Next]_vars
             PROVE  SoldMatchesPaid'
  OBVIOUS
<1>1. ASSUME NEW w \in webhooks, HandleMidtransWebhook(w)
      PROVE  SoldMatchesPaid'
  <2> DEFINE o == TxnOrder[w.txn]
  <2>1. o \in Orders
    BY TxnOrderAssumption DEF TypeOK, Webhook
  <2>2. CASE PayOrder(o, w.notice)
    <3>1. PaidOrders \in SUBSET Orders /\ o \notin PaidOrders /\ PaidOrders' = PaidOrders \cup {o}
      BY <2>1, <2>2 DEF PayOrder, PaidOrders, TypeOK
    <3>2. ASSUME NEW v \in Variants
          PROVE  sold'[v] = Units(PaidOrders', v)
      <4>1. Units(PaidOrders', v) = Qty[o][v] + Units(PaidOrders, v)
        BY <2>1, <3>1, UnitsOfOrders
      <4>2. sold'[v] = sold[v] + Qty[o][v] /\ sold[v] = Units(PaidOrders, v)
        BY <2>2 DEF PayOrder, IncrementVariantSold, SoldMatchesPaid, PaidOrders
      <4>3. Qty[o][v] \in Nat /\ Units(PaidOrders, v) \in Nat
        BY <2>1, <3>1, QtyAssumption, UnitsOfOrders
      <4>4. QED
        BY <4>1, <4>2, <4>3
    <3>3. QED
      BY <3>2 DEF SoldMatchesPaid, PaidOrders, Units
  <2>3. CASE FailPayment(o, w.notice) \/ IgnoreNotice(o, w.notice)
    <3>1. sold' = sold /\ PaidOrders' = PaidOrders
      BY <2>1, <2>3 DEF FailPayment, IgnoreNotice, PaidOrders, TypeOK
    <3>2. QED
      BY <3>1, SamePaid
  <2>4. QED
    BY <1>1, <2>2, <2>3 DEF HandleMidtransWebhook
<1>2. ASSUME NEW o \in Orders, CancelOrder(o)
      PROVE  SoldMatchesPaid'
  <2>1. sold' = sold /\ PaidOrders' = PaidOrders
    BY <1>2 DEF CancelOrder, CancelAccepted, PaidOrders, TypeOK
  <2>2. QED
    BY <2>1, SamePaid
<1>3. ASSUME NEW S \in SUBSET Orders, ExpireOrders(S)
      PROVE  SoldMatchesPaid'
  <2>1. sold' = sold /\ PaidOrders' = PaidOrders
    BY <1>3 DEF ExpireOrders, Expirable, ReleaseAndCancel, PaidOrders
  <2>2. QED
    BY <2>1, SamePaid
<1>4. CASE UNCHANGED <<payment, sold>>
  BY <1>4, SamePaid DEF PaidOrders
<1>5. QED
  BY <1>1, <1>2, <1>3, <1>4
     DEF Next, Commands, Customer, Admin, Midtrans, PlaceOrder, CreateSnapToken, ConfirmDelivered,
         MarkAsShipped, MarkAsDelivered, PassDeadline, Notify, LoseWebhook, vars, orderVars

\* No unit is lost, made, sold twice or counted twice, whatever the number of
\* orders, variants and notifications.
THEOREM UnitsAreAccounted == Spec => []UnitsAccounted
<1>1. Init => StockConserved /\ SoldMatchesPaid
  <2> SUFFICES ASSUME Init, NEW v \in Variants
               PROVE  /\ stock[v] >= 0 /\ stock[v] + Units(Held, v) = InitialStock[v]
                      /\ sold[v] = Units(PaidOrders, v)
    BY DEF StockConserved, SoldMatchesPaid, Held, PaidOrders
  <2>1. Held = {} /\ PaidOrders = {} /\ stock[v] = InitialStock[v] /\ sold[v] = 0
    BY DEF Init, Held, PaidOrders, Placed
  <2>2. Units({}, v) = 0
    BY UnitsOfOrders
  <2>3. QED
    BY <2>1, <2>2, InitialStockAssumption
<1>2. QED
  BY <1>1, StockStep, SoldStep, TypeCorrect, LifeInvHolds, PTL DEF Spec, UnitsAccounted

-----------------------------------------------------------------------------
(* What the pages show.                                                    *)

\* The customer and the administrator are shown the same order.
THEOREM PagesAgree == Spec => []ViewsAgree
<1>1. TypeOK /\ LifeInv => ViewsAgree
  BY DEF TypeOK, LifeInv, ShippedOnlyIfPaid, CompletedIffDelivered, RowShapes, ViewsAgree,
         mapOrderStatus, mapAdminOrderStatus, Placed, OrderStatus, PaymentStatus, ShipmentStatus
<1>2. QED
  BY <1>1, TypeCorrect, LifeInvHolds, PTL

\* A button a page offers is a command the service accepts.
THEOREM ButtonsWork == Spec => []OffersAccepted
<1>1. LifeInv => OffersAccepted
  BY DEF LifeInv, ShippedOnlyIfPaid, CompletedIffDelivered, OffersAccepted, ListCanConfirm,
         CanShip, CanPay, ConfirmAccepted, ShipAccepted, SnapTokenAccepted, OrderFinal
<1>2. QED
  BY <1>1, LifeInvHolds, PTL

\* The four kinds of rows there are: cancelled, not sent, under way, delivered.
RowKind(s, p, sh) ==
    \/ s \in {"CANCELLED", "PENDING"} /\ sh = "PENDING" /\ p \in PaymentStatus
    \/ s = "PROCESSING" /\ sh = "SHIPPED" /\ p = "PAID"
    \/ s = "COMPLETED" /\ sh = "DELIVERED" /\ p = "PAID"

LEMMA RowKinds ==
  ASSUME TypeOK, LifeInv, NEW o \in Orders, Placed(o)
  PROVE  RowKind(status[o], payment[o], shipment[o])
  BY DEF TypeOK, LifeInv, ShippedOnlyIfPaid, CompletedIffDelivered, RowShapes, Placed,
         OrderStatus, PaymentStatus, ShipmentStatus, RowKind

\* One tab of the customer's list shows a row.
LEMMA OneTab ==
  ASSUME NEW s, NEW p, NEW sh, RowKind(s, p, sh)
  PROVE  Cardinality(TabsOf(s, p)) = 1
<1>1. \E tab : TabsOf(s, p) = {tab}
  <2>1. CASE s = "CANCELLED"
    <3>1. TabsOf(s, p) = {"cancelled"}
      BY <2>1 DEF TabsOf
    <3>2. QED
      BY <3>1
  <2>2. CASE (s = "PENDING" /\ p \in {"UNPAID", "PAID"}) \/ s = "PROCESSING"
    <3>1. TabsOf(s, p) = {"ongoing"}
      BY <2>2 DEF RowKind, TabsOf
    <3>2. QED
      BY <3>1
  <2>3. CASE s = "PENDING" /\ p \in {"FAILED", "EXPIRED"}
    <3>1. TabsOf(s, p) = {"cancelled"}
      BY <2>3 DEF TabsOf
    <3>2. QED
      BY <3>1
  <2>4. CASE s = "COMPLETED"
    <3>1. TabsOf(s, p) = {"completed"}
      BY <2>4 DEF RowKind, TabsOf
    <3>2. QED
      BY <3>1
  <2>5. QED
    BY <2>1, <2>2, <2>3, <2>4 DEF RowKind, PaymentStatus
<1>2. QED
  BY <1>1, FS_Singleton

\* The filters of the administrator's list agree with the word it shows.
LEMMA FiltersTell ==
  ASSUME NEW s, NEW p, NEW sh, RowKind(s, p, sh)
  PROVE  LET word == mapAdminOrderStatus(s, p, sh)
         IN  /\ word \in AdminFilters(s, p, sh)
             /\ word # "CANCELLED" => AdminFilters(s, p, sh) = {word}
             /\ AdminPriority(s, p, sh) = 0 =>
                    word = "READY_TO_SHIP" \/ (word = "CANCELLED" /\ p = "PAID")
<1> DEFINE word == mapAdminOrderStatus(s, p, sh)
<1>1. word \in AdminFilters(s, p, sh)
  BY DEF RowKind, PaymentStatus, mapAdminOrderStatus, AdminFilters
<1>2. word # "CANCELLED" => AdminFilters(s, p, sh) = {word}
  <2>1. SUFFICES ASSUME word # "CANCELLED"
                 PROVE  \A f : f \in AdminFilters(s, p, sh) <=> f = word
    OBVIOUS
  <2>2. s # "CANCELLED"
    BY <2>1 DEF mapAdminOrderStatus
  <2>3. QED
    BY <2>2 DEF RowKind, PaymentStatus, mapAdminOrderStatus, AdminFilters
<1>3. AdminPriority(s, p, sh) = 0 => word = "READY_TO_SHIP" \/ (word = "CANCELLED" /\ p = "PAID")
  BY DEF RowKind, PaymentStatus, mapAdminOrderStatus, AdminPriority
<1>4. QED
  BY <1>1, <1>2, <1>3

\* What a step of the timeline says of itself.
LEMMA StepTells ==
  ASSUME NEW e, NEW key, NEW completed \in BOOLEAN, NEW current \in BOOLEAN,
         e = Step(key, completed, current)
  PROVE  (e.completed <=> completed) /\ (e.current <=> current)
  BY DEF Step

\* The steps that are done are the first ones, the last of them is the status,
\* and no other step is current.
LEMMA TimelineOfRow ==
  ASSUME NEW s, NEW p, NEW sh, RowKind(s, p, sh)
  PROVE  LET steps == buildOrderTimeline(s, p, sh)
             word == mapOrderStatus(s, p, sh)
             done == {i \in DOMAIN steps : steps[i].completed}
             last == CHOOSE i \in done : \A j \in done : j <= i
         IN  /\ done = 1 .. last
             /\ steps[last].key = IF word = "PROCESSING" THEN "PAID" ELSE word
             /\ \A i \in DOMAIN steps : steps[i].current <=> i = last /\ word # "DELIVERED"
<1> DEFINE steps == buildOrderTimeline(s, p, sh)
           word == mapOrderStatus(s, p, sh)
           done == {i \in DOMAIN steps : steps[i].completed}
           last == CHOOSE i \in done : \A j \in done : j <= i
           reached == IF s = "CANCELLED" \/ p \in {"EXPIRED", "FAILED"} \/ p = "UNPAID" THEN 1
                      ELSE IF sh = "PENDING" THEN 2
                      ELSE IF sh = "SHIPPED" THEN 3
                      ELSE 4
<1>1. CASE s = "CANCELLED" \/ p \in {"EXPIRED", "FAILED"}
  <2>1. steps = <<Step(word, TRUE, TRUE)>> /\ word # "PROCESSING" /\ word # "DELIVERED"
    BY <1>1 DEF RowKind, buildOrderTimeline, mapOrderStatus
  <2>2. done = 1 .. 1
    BY <2>1 DEF Step
  <2>3. last = 1
    <3> HIDE DEF done
    <3>1. QED
      BY <2>2
  <2>4. QED
    BY <2>1, <2>2, <2>3 DEF Step
<1>2. CASE s # "CANCELLED" /\ p \notin {"EXPIRED", "FAILED"}
  <2>1. steps = <<Step("WAITING_PAYMENT", TRUE, p # "PAID"),
                  Step("PAID", p = "PAID", p = "PAID" /\ sh = "PENDING"),
                  Step("SHIPPED", sh # "PENDING", sh = "SHIPPED"),
                  Step("DELIVERED", sh = "DELIVERED", FALSE)>>
    BY <1>2 DEF buildOrderTimeline
  <2>2. DOMAIN steps = 1 .. 4
    BY <2>1
  <2>3. /\ steps[1] = Step("WAITING_PAYMENT", TRUE, p # "PAID")
        /\ steps[2] = Step("PAID", p = "PAID", p = "PAID" /\ sh = "PENDING")
        /\ steps[3] = Step("SHIPPED", sh # "PENDING", sh = "SHIPPED")
        /\ steps[4] = Step("DELIVERED", sh = "DELIVERED", FALSE)
    BY <2>1
  <2>4. /\ steps[1].completed /\ (steps[1].current <=> p # "PAID")
        /\ steps[2].completed <=> p = "PAID"
        /\ steps[2].current <=> p = "PAID" /\ sh = "PENDING"
        /\ steps[3].completed <=> sh # "PENDING"
        /\ steps[3].current <=> sh = "SHIPPED"
        /\ (steps[4].completed <=> sh = "DELIVERED") /\ ~steps[4].current
    <3> DEFINE paid == p = "PAID"
               unpaid == p # "PAID"
               packed == p = "PAID" /\ sh = "PENDING"
               sent == sh # "PENDING"
               shipped == sh = "SHIPPED"
               delivered == sh = "DELIVERED"
    <3>1. {paid, unpaid, packed, sent, shipped, delivered} \subseteq BOOLEAN
      OBVIOUS
    <3>2. /\ steps[1] = Step("WAITING_PAYMENT", TRUE, unpaid) /\ steps[2] = Step("PAID", paid, packed)
          /\ steps[3] = Step("SHIPPED", sent, shipped) /\ steps[4] = Step("DELIVERED", delivered, FALSE)
      BY <2>3
    <3> HIDE DEF steps, paid, unpaid, packed, sent, shipped, delivered
    <3>3. (steps[1].completed <=> TRUE) /\ (steps[1].current <=> unpaid)
      BY <3>1, <3>2, StepTells
    <3>4. (steps[2].completed <=> paid) /\ (steps[2].current <=> packed)
      BY <3>1, <3>2, StepTells
    <3>5. (steps[3].completed <=> sent) /\ (steps[3].current <=> shipped)
      BY <3>1, <3>2, StepTells
    <3>6. (steps[4].completed <=> delivered) /\ (steps[4].current <=> FALSE)
      BY <3>1, <3>2, StepTells
    <3>7. QED
      BY <3>3, <3>4, <3>5, <3>6 DEF paid, unpaid, packed, sent, shipped, delivered
  <2>5. /\ reached \in 1 .. 4
        /\ p = "PAID" <=> reached # 1
        /\ sh # "PENDING" <=> reached \in {3, 4}
        /\ sh = "SHIPPED" <=> reached = 3
        /\ sh = "DELIVERED" <=> reached = 4
        /\ word = "DELIVERED" <=> reached = 4
    <3>1. p \in {"UNPAID", "PAID"} /\ (sh # "PENDING" => p = "PAID" /\ sh \in {"SHIPPED", "DELIVERED"})
      BY <1>2 DEF RowKind, PaymentStatus
    <3>2. word = "DELIVERED" <=> sh = "DELIVERED"
      BY <1>2, <3>1 DEF RowKind, mapOrderStatus
    <3>3. reached = IF p = "UNPAID" THEN 1 ELSE IF sh = "PENDING" THEN 2
                    ELSE IF sh = "SHIPPED" THEN 3 ELSE 4
      BY <1>2
    <3> HIDE DEF reached, word
    <3>4. QED
      BY <3>1, <3>2, <3>3
  <2>6. steps[reached].key = IF word = "PROCESSING" THEN "PAID" ELSE word
    BY <1>2, <2>3 DEF RowKind, PaymentStatus, mapOrderStatus, Step
  <2>7. done = 1 .. reached /\ \A i \in 1 .. 4 : steps[i].current <=> i = reached /\ word # "DELIVERED"
    <3>1. \A i \in 1 .. 4 : steps[i].completed <=> i <= reached
      <4> HIDE DEF steps, reached
      <4>1. QED
        BY <2>4, <2>5
    <3>2. \A i \in 1 .. 4 : steps[i].current <=> i = reached /\ word # "DELIVERED"
      <4> HIDE DEF steps, reached, word
      <4>1. QED
        BY <2>4, <2>5
    <3>3. \A i : i \in done <=> i \in 1 .. reached
      <4> HIDE DEF steps, reached, word
      <4>1. QED
        BY <2>2, <2>5, <3>1
    <3>4. QED
      BY <3>2, <3>3
  <2>8. last = reached
    <3> HIDE DEF done, reached
    <3>1. QED
      BY <2>5, <2>7
  <2>9. QED
    BY <2>2, <2>6, <2>7, <2>8
<1>3. QED
  BY <1>1, <1>2

\* Tabs, filters and timelines tell the status of every order.
THEOREM ListsTell == Spec => []ListsTellStatus
<1>1. TypeOK /\ LifeInv => ListsTellStatus
  <2> SUFFICES ASSUME TypeOK, LifeInv PROVE ListsTellStatus
    OBVIOUS
  <2>1. TabsPartition
    BY RowKinds, OneTab DEF TabsPartition
  <2>2. AdminListTells
    BY RowKinds, FiltersTell DEF AdminListTells
  <2>3. TimelineTells
    BY RowKinds, TimelineOfRow DEF TimelineTells
  <2>4. QED
    BY <2>1, <2>2, <2>3 DEF ListsTellStatus
<1>2. QED
  BY <1>1, TypeCorrect, LifeInvHolds, PTL

-----------------------------------------------------------------------------
(* The action property.                                                    *)

\* No step takes a payment back.
THEOREM NoPaymentTakenBack == Spec => PaidStaysPaid
<1>1. TypeOK /\ [Next]_vars => [\A o \in Orders : payment[o] = "PAID" => payment'[o] = "PAID"]_vars
  <2> SUFFICES ASSUME TypeOK, Next, NEW q \in Orders, payment[q] = "PAID"
               PROVE  payment'[q] = "PAID"
    OBVIOUS
  <2>1. ASSUME NEW o \in Orders, CancelOrder(o)
        PROVE  payment'[q] = "PAID"
    BY <2>1 DEF CancelOrder, CancelAccepted, TypeOK
  <2>2. ASSUME NEW S \in SUBSET Orders, ExpireOrders(S)
        PROVE  payment'[q] = "PAID"
    BY <2>2 DEF ExpireOrders, Expirable, ReleaseAndCancel
  <2>3. ASSUME NEW w \in webhooks, HandleMidtransWebhook(w)
        PROVE  payment'[q] = "PAID"
    BY <2>3 DEF HandleMidtransWebhook, PayOrder, FailPayment, IgnoreNotice, TypeOK
  <2>4. CASE UNCHANGED payment
    BY <2>4
  <2>5. QED
    BY <2>1, <2>2, <2>3, <2>4
       DEF Next, Commands, Customer, Admin, Midtrans, PlaceOrder, CreateSnapToken, ConfirmDelivered,
           MarkAsShipped, MarkAsDelivered, PassDeadline, Notify, LoseWebhook, orderVars
<1>2. QED
  BY <1>1, TypeCorrect, PTL DEF Spec, PaidStaysPaid

-----------------------------------------------------------------------------
(* The refinement of OrderPromise.                                         *)

\* A step that changes the view of one order, and collects nothing.
LEMMA OneView ==
  ASSUME NEW o \in Orders, NEW from, NEW to,
         ViewOf(o) \in from, ViewOf(o)' = to,
         \A q \in Orders \ {o} : ViewOf(q)' = ViewOf(q),
         webhooks' = webhooks
  PROVE  Promise!Move(o, from, to)
<1>1. CollectedBar' = CollectedBar
  BY DEF CollectedBar
<1>2. ViewBar[o] \in from
  BY DEF ViewBar
<1>3. ViewBar' = [ViewBar EXCEPT ![o] = to]
  BY DEF ViewBar
<1>4. QED
  BY <1>1, <1>2, <1>3 DEF Promise!Move

\* A step that changes none of the columns the page is made of, and collects
\* nothing, is not seen.
LEMMA SameView ==
  ASSUME UNCHANGED <<status, payment, shipment, webhooks>>
  PROVE  UNCHANGED Promise!promiseVars
  BY DEF Promise!promiseVars, ViewBar, ViewOf, CollectedBar, Placed

\* Handling a notification is a declined payment, a payment, or nothing at all
\* on the page (a repeated notification, or one for a CANCELLED order).
LEMMA WebhookKeepsPromise ==
  ASSUME TypeOK, LifeInv, NEW w \in webhooks, HandleMidtransWebhook(w)
  PROVE  [Promise!Next]_Promise!promiseVars
<1> DEFINE o == TxnOrder[w.txn]
<1>1. w.notice \in Notice /\ o \in Orders
  BY TxnOrderAssumption, NoticesAssumption DEF TypeOK, Webhook
<1>2. Placed(o) /\ UNCHANGED <<status, shipment, webhooks>>
  BY DEF HandleMidtransWebhook, gatewayVars
<1>3. \A q \in Orders \ {o} : payment'[q] = payment[q]
  BY <1>1 DEF HandleMidtransWebhook, PayOrder, FailPayment, IgnoreNotice, TypeOK
<1>4. \A q \in Orders \ {o} : ViewOf(q)' = ViewOf(q)
  BY <1>2, <1>3 DEF ViewOf, Placed
<1>5. CASE payment'[o] = payment[o]
  <2>1. \A q \in Orders : ViewOf(q)' = ViewOf(q)
    BY <1>2, <1>4, <1>5 DEF ViewOf, Placed
  <2>2. ViewBar' = ViewBar /\ CollectedBar' = CollectedBar
    BY <1>2, <2>1 DEF ViewBar, CollectedBar
  <2>3. QED
    BY <2>2 DEF Promise!promiseVars
<1>6. CASE payment'[o] # payment[o] /\ status[o] = "CANCELLED"
  <2>1. ViewOf(o)' = ViewOf(o)
    BY <1>2, <1>6 DEF ViewOf, Placed, mapOrderStatus
  <2>2. ViewBar' = ViewBar /\ CollectedBar' = CollectedBar
    BY <1>2, <1>4, <2>1 DEF ViewBar, CollectedBar
  <2>3. QED
    BY <2>2 DEF Promise!promiseVars
<1>7. CASE payment'[o] # payment[o] /\ status[o] # "CANCELLED"
  <2>1. payment[o] # "PAID" /\ shipment[o] = "PENDING" /\ status[o] = "PENDING"
    <3>1. payment[o] # "PAID"
      BY <1>1, <1>7 DEF HandleMidtransWebhook, PayOrder, FailPayment, IgnoreNotice, TypeOK
    <3>2. shipment[o] = "PENDING"
      BY <1>1, <3>1 DEF LifeInv, ShippedOnlyIfPaid
    <3>3. status[o] \in {"NONE", "PENDING"}
      BY <1>1, <1>7, <3>2 DEF LifeInv, CompletedIffDelivered, RowShapes, TypeOK, OrderStatus
    <3>4. QED
      BY <1>2, <3>1, <3>2, <3>3 DEF Placed
  <2>2. ViewOf(o) \in Promise!Open
    BY <1>1, <1>2, <2>1 DEF ViewOf, mapOrderStatus, Promise!Open, TypeOK, PaymentStatus
  <2>3. CASE payment'[o] = "PAID"
    <3>1. IsPaidEvent(w.notice)
      BY <1>1, <1>7, <2>3 DEF HandleMidtransWebhook, PayOrder, FailPayment, IgnoreNotice, TypeOK
    <3>2. o \in CollectedBar
      BY <1>1, <3>1 DEF CollectedBar, IsPaidEvent
    <3>3. ViewOf(o)' = "PROCESSING"
      BY <1>2, <2>1, <2>3 DEF ViewOf, mapOrderStatus, Placed
    <3>4. Promise!Move(o, Promise!Open, "PROCESSING")
      BY <1>1, <1>2, <1>4, <2>2, <3>3, OneView
    <3>5. QED
      BY <1>1, <3>2, <3>4 DEF Promise!Process, Promise!Next
  <2>4. CASE payment'[o] # "PAID"
    <3>1. payment'[o] \in {"FAILED", "EXPIRED"}
      BY <1>1, <1>7, <2>4 DEF HandleMidtransWebhook, PayOrder, FailPayment, IgnoreNotice, TypeOK
    <3>2. ViewOf(o)' = payment'[o]
      BY <1>2, <2>1, <3>1 DEF ViewOf, mapOrderStatus, Placed
    <3>3. Promise!Move(o, Promise!Open, payment'[o])
      BY <1>1, <1>2, <1>4, <2>2, <3>2, OneView
    <3>4. QED
      BY <1>1, <3>1, <3>3 DEF Promise!Decline, Promise!Next
  <2>5. QED
    BY <2>3, <2>4
<1>8. QED
  BY <1>5, <1>6, <1>7

\* Every step of the back end is a step the page may show, or no step of it.
LEMMA PromiseStep ==
  ASSUME TypeOK, LifeInv, [Next]_vars
  PROVE  [Promise!Next]_Promise!promiseVars
<1>1. ASSUME NEW o \in Orders, PlaceOrder(o)
      PROVE  Promise!Next
  <2>1. ViewOf(o) \in {"NONE"} /\ ViewOf(o)' = "WAITING_PAYMENT"
    BY <1>1 DEF PlaceOrder, ViewOf, mapOrderStatus, Placed, TypeOK, LifeInv, RowShapes,
                ShippedOnlyIfPaid
  <2>2. \A q \in Orders \ {o} : ViewOf(q)' = ViewOf(q)
    BY <1>1 DEF PlaceOrder, ViewOf, Placed, TypeOK
  <2>3. Promise!Place(o)
    BY <1>1, <2>1, <2>2, OneView DEF PlaceOrder, gatewayVars, Promise!Place
  <2>4. QED
    BY <2>3 DEF Promise!Next
<1>2. ASSUME NEW S \in SUBSET Orders, webhooks' = webhooks,
             \A q \in S : ViewOf(q) = "WAITING_PAYMENT" /\ ViewOf(q)' = "CANCELLED",
             \A q \in Orders \ S : ViewOf(q)' = ViewOf(q)
      PROVE  Promise!Next
  <2>1. CollectedBar' = CollectedBar
    BY <1>2 DEF CollectedBar
  <2>2. ViewBar' = [o \in Orders |-> IF o \in S THEN "CANCELLED" ELSE ViewBar[o]]
    BY <1>2 DEF ViewBar
  <2>3. \A o \in S : ViewBar[o] = "WAITING_PAYMENT"
    BY <1>2 DEF ViewBar
  <2>4. QED
    BY <2>1, <2>2, <2>3 DEF Promise!Cancel, Promise!Next
<1>3. ASSUME NEW o \in Orders, CancelOrder(o)
      PROVE  Promise!Next
  <2>1. payment[o] = "UNPAID" /\ status[o] \in {"PENDING", "PROCESSING"} /\ shipment[o] = "PENDING"
    BY <1>3 DEF CancelOrder, CancelAccepted, OrderFinal, Placed, TypeOK, OrderStatus, PaymentStatus,
                LifeInv, ShippedOnlyIfPaid
  <2>2. ViewOf(o) = "WAITING_PAYMENT"
    BY <1>3, <2>1 DEF CancelOrder, ViewOf, mapOrderStatus, LifeInv, RowShapes
  <2>3. ViewOf(o)' = "CANCELLED"
    BY <1>3 DEF CancelOrder, ViewOf, mapOrderStatus, Placed, TypeOK
  <2>4. \A q \in Orders \ {o} : ViewOf(q)' = ViewOf(q)
    BY <1>3 DEF CancelOrder, ViewOf, Placed, TypeOK
  <2>5. webhooks' = webhooks
    BY <1>3 DEF CancelOrder, gatewayVars
  <2>6. QED
    <3>1. \A q \in {o} : ViewOf(q) = "WAITING_PAYMENT" /\ ViewOf(q)' = "CANCELLED"
      BY <2>2, <2>3
    <3>2. QED
      BY <1>2, <2>4, <2>5, <3>1
<1>4. ASSUME NEW S \in SUBSET Orders, ExpireOrders(S)
      PROVE  Promise!Next
  <2>1. \A q \in S : Placed(q) /\ status[q] = "PENDING" /\ payment[q] = "UNPAID"
    BY <1>4 DEF ExpireOrders, Expirable
  <2>2. \A q \in S : ViewOf(q) = "WAITING_PAYMENT"
    BY <2>1 DEF ViewOf, mapOrderStatus, LifeInv, ShippedOnlyIfPaid
  <2>3. \A q \in S : ViewOf(q)' = "CANCELLED"
    BY <1>4 DEF ExpireOrders, ReleaseAndCancel, ViewOf, mapOrderStatus, Placed
  <2>4. \A q \in Orders \ S : ViewOf(q)' = ViewOf(q)
    BY <1>4 DEF ExpireOrders, ReleaseAndCancel, ViewOf, Placed
  <2>5. QED
    BY <1>2, <1>4, <2>2, <2>3, <2>4 DEF ExpireOrders, gatewayVars
<1>5. ASSUME NEW o \in Orders, MarkAsShipped(o)
      PROVE  Promise!Next
  <2>1. ViewOf(o) \in {"PROCESSING"}
    BY <1>5 DEF MarkAsShipped, ShipAccepted, OrderFinal, ViewOf, mapOrderStatus, TypeOK, OrderStatus,
                Placed
  <2>2. ViewOf(o)' = "SHIPPED"
    BY <1>5 DEF MarkAsShipped, ShipAccepted, OrderFinal, ViewOf, mapOrderStatus, Placed, TypeOK
  <2>3. \A q \in Orders \ {o} : ViewOf(q)' = ViewOf(q)
    BY <1>5 DEF MarkAsShipped, ViewOf, Placed, TypeOK
  <2>4. Promise!Ship(o)
    BY <1>5, <2>1, <2>2, <2>3, OneView DEF MarkAsShipped, gatewayVars, Promise!Ship
  <2>5. QED
    BY <2>4 DEF Promise!Next
<1>6. ASSUME NEW o \in Orders, Placed(o), DeliverAccepted(status[o], payment[o], shipment[o]),
             DeliverShipment(o), UNCHANGED <<payment, webhooks>>
      PROVE  Promise!Next
  <2>1. ViewOf(o) \in {"SHIPPED"} /\ ViewOf(o)' = "DELIVERED"
    BY <1>6 DEF DeliverAccepted, OrderFinal, DeliverShipment, ViewOf, mapOrderStatus, Placed, TypeOK
  <2>2. \A q \in Orders \ {o} : ViewOf(q)' = ViewOf(q)
    BY <1>6 DEF DeliverShipment, ViewOf, Placed, TypeOK
  <2>3. Promise!Deliver(o)
    BY <1>6, <2>1, <2>2, OneView DEF Promise!Deliver
  <2>4. QED
    BY <2>3 DEF Promise!Next
<1>7. ASSUME NEW o \in Orders, ConfirmDelivered(o) \/ MarkAsDelivered(o)
      PROVE  Promise!Next
  BY <1>6, <1>7 DEF ConfirmDelivered, ConfirmAccepted, MarkAsDelivered, DeliverAccepted, gatewayVars
<1>8. ASSUME NEW t \in Txns, NEW n \in Notices, Notify(t, n)
      PROVE  [Promise!Next]_Promise!promiseVars
  <2>1. ViewBar' = ViewBar
    BY <1>8 DEF Notify, ViewBar, ViewOf, Placed, orderVars
  <2>2. TxnOrder[t] \in Orders /\ webhooks' = webhooks \cup {[txn |-> t, notice |-> n]}
    BY <1>8, TxnOrderAssumption DEF Notify
  <2>3. CASE n \in {"capture", "settlement"}
    <3> DEFINE new == [txn |-> t, notice |-> n]
               Pays(w, q) == TxnOrder[w.txn] = q /\ w.notice \in {"capture", "settlement"}
    <3>1. \A q \in Orders : Pays(new, q) <=> q = TxnOrder[t]
      BY <2>3
    <3>2. \A q \in Orders : (\E w \in webhooks' : Pays(w, q))
                             <=> (\E w \in webhooks : Pays(w, q)) \/ Pays(new, q)
      <4> HIDE DEF Pays
      <4>1. webhooks' = webhooks \cup {new}
        BY <2>2
      <4> HIDE DEF new
      <4>2. QED
        BY <4>1
    <3>3. CollectedBar' = {q \in Orders : \E w \in webhooks' : Pays(w, q)}
      BY DEF CollectedBar
    <3>4. CollectedBar = {q \in Orders : \E w \in webhooks : Pays(w, q)}
      BY DEF CollectedBar
    <3>5. CollectedBar' = CollectedBar \cup {TxnOrder[t]}
      <4> HIDE DEF Pays, new
      <4>1. QED
        BY <2>2, <3>1, <3>2, <3>3, <3>4
    <3>6. QED
      BY <2>1, <2>2, <3>5 DEF Promise!Collect, Promise!Next
  <2>4. CASE n \notin {"capture", "settlement"}
    <3>1. CollectedBar' = CollectedBar
      BY <2>2, <2>4 DEF CollectedBar
    <3>2. QED
      BY <2>1, <3>1 DEF Promise!promiseVars
  <2>5. QED
    BY <2>3, <2>4
<1>9. ASSUME NEW w \in webhooks, HandleMidtransWebhook(w)
      PROVE  [Promise!Next]_Promise!promiseVars
  BY <1>9, WebhookKeepsPromise
<1>10. CASE UNCHANGED <<status, payment, shipment, webhooks>>
  BY <1>10, SameView
<1>11. CASE UNCHANGED vars
  BY <1>11, <1>10 DEF vars, orderVars, gatewayVars
<1>12. QED
  BY <1>1, <1>3, <1>4, <1>5, <1>7, <1>8, <1>9, <1>10, <1>11
     DEF Next, Commands, Customer, Admin, Midtrans, CreateSnapToken, PassDeadline, LoseWebhook,
         orderVars, gatewayVars

\* OrderLifecycle implements OrderPromise.
THEOREM PromiseKept == Spec => KeepsPromise
<1>1. Init => Promise!Init
  BY DEF Init, Promise!Init, ViewBar, ViewOf, CollectedBar, Placed
<1>2. TypeOK /\ LifeInv /\ [Next]_vars => [Promise!Next]_Promise!promiseVars
  BY PromiseStep
<1>3. QED
  BY <1>1, <1>2, TypeCorrect, LifeInvHolds, PTL DEF Spec, KeepsPromise, Promise!Spec

-----------------------------------------------------------------------------
(* The jobs.                                                               *)
-----------------------------------------------------------------------------

JobType ==
    /\ expiring \in [ExpireWorkers -> SUBSET Orders]
    /\ completing \in [CompleteWorkers -> SUBSET Orders]
    /\ rivals \in [Orders -> SUBSET ExpireWorkers]

\* What a job of either kind leaves behind stays: an order that was expired is
\* CANCELLED for good, and the orders that a job is about to complete have left
\* the warehouse, for a shipment never comes back.
JobInv ==
    /\ \A o \in Orders : released[o] > 0 => status[o] = "CANCELLED"
    /\ UnexpiredInStep
    /\ \A w \in CompleteWorkers : \A o \in completing[w] : shipment[o] # "PENDING"

\* Once an order was given back, who still holds it held it then, and has not
\* given it back since.
HoldersAreRivals ==
    \A o \in Orders : released[o] > 0 =>
        /\ HeldBy(o) \subseteq rivals[o]
        /\ released[o] + Cardinality(HeldBy(o)) <= 1 + Cardinality(rivals[o])

-----------------------------------------------------------------------------
(* Type correctness.                                                       *)

\* The jobs write the columns within their types.
LEMMA CronTypeStep == TypeOK /\ JobType /\ [CronNext]_cronVars => TypeOK' /\ JobType'
<1> SUFFICES ASSUME TypeOK, JobType, [CronNext]_cronVars
             PROVE  TypeOK' /\ JobType'
  OBVIOUS
<1>1. ASSUME Commands, UNCHANGED jobVars
      PROVE  TypeOK' /\ JobType'
  BY <1>1, TypeStep DEF Next, JobType, jobVars
<1>2. ASSUME NEW w \in ExpireWorkers, SelectExpired(w)
      PROVE  TypeOK' /\ JobType'
  <2>1. TypeOK'
    BY <1>2, TypeStep DEF SelectExpired
  <2>2. JobType'
    BY <1>2 DEF SelectExpired, JobType
  <2>3. QED
    BY <2>1, <2>2
<1>3. ASSUME NEW w \in ExpireWorkers, CommitExpired(w)
      PROVE  TypeOK' /\ JobType'
  <2>1. JobType'
    BY <1>3 DEF CommitExpired, JobType, NoteRivals, HeldBy
  <2>2. TypeOK'
    BY <1>3 DEF CommitExpired, ReleaseAndCancel, TypeOK, OrderStatus, PaymentStatus, gatewayVars
  <2>3. QED
    BY <2>1, <2>2
<1>4. ASSUME NEW w \in CompleteWorkers, SelectDelivered(w)
      PROVE  TypeOK' /\ JobType'
  <2>1. TypeOK'
    BY <1>4, TypeStep DEF SelectDelivered
  <2>2. JobType'
    BY <1>4 DEF SelectDelivered, JobType
  <2>3. QED
    BY <2>1, <2>2
<1>5. ASSUME NEW w \in CompleteWorkers, CommitDelivered(w)
      PROVE  TypeOK' /\ JobType'
  <2>1. JobType'
    BY <1>5 DEF CommitDelivered, JobType
  <2>2. status' \in [Orders -> OrderStatus \cup {"NONE"}] /\ shipment' \in [Orders -> ShipmentStatus]
    BY <1>5 DEF CommitDelivered, TypeOK, OrderStatus, ShipmentStatus
  <2>3. TypeOK'
    BY <1>5, <2>2 DEF CommitDelivered, TypeOK, gatewayVars
  <2>4. QED
    BY <2>1, <2>3
<1>6. ASSUME AbortJobs
      PROVE  TypeOK' /\ JobType'
  <2>1. TypeOK'
    BY <1>6, TypeStep DEF AbortJobs
  <2>2. JobType'
    BY <1>6 DEF AbortJobs, JobType
  <2>3. QED
    BY <2>1, <2>2
<1>7. ASSUME NEW S \in SUBSET Orders, ExpireBesideJobs(S)
      PROVE  TypeOK' /\ JobType'
  <2>1. TypeOK'
    BY <1>7, TypeStep DEF ExpireBesideJobs, Next
  <2>2. JobType'
    BY <1>7 DEF ExpireBesideJobs, JobType, NoteRivals, HeldBy
  <2>3. QED
    BY <2>1, <2>2
<1>8. CASE UNCHANGED cronVars
  BY <1>8, TypeStep DEF cronVars, jobVars, JobType
<1>9. QED
  BY <1>1, <1>2, <1>3, <1>4, <1>5, <1>6, <1>7, <1>8 DEF CronNext

\* Every column and every selection of a job stays in its type.
THEOREM CronTypeCorrect == CronSpec => [](TypeOK /\ JobType)
<1>1. CronInit => TypeOK /\ JobType
  BY MaxInt4Assumption
     DEF CronInit, Init, TypeOK, JobType, PaymentStatus, ShipmentStatus, Int4
<1>2. QED
  BY <1>1, CronTypeStep, PTL DEF CronSpec

-----------------------------------------------------------------------------
(* The rows of an order that was not expired.                              *)

\* A command beside the jobs keeps JobInv: it refuses what is CANCELLED, and
\* none takes a shipment back.
LEMMA CommandKeepsJobInv ==
  ASSUME TypeOK, JobType, JobInv, Commands, UNCHANGED jobVars
  PROVE  JobInv'
<1> USE DEF JobInv, UnexpiredInStep, jobVars, JobType
<1>1. ASSUME UNCHANGED <<status, payment, shipment, released>>
      PROVE  JobInv'
  BY <1>1
<1>2. ASSUME NEW o \in Orders, PlaceOrder(o)
      PROVE  JobInv'
  BY <1>2 DEF PlaceOrder, TypeOK
<1>3. ASSUME NEW o \in Orders, CancelOrder(o)
      PROVE  JobInv'
  BY <1>3 DEF CancelOrder, CancelAccepted, OrderFinal, TypeOK, ShipmentStatus
<1>4. ASSUME NEW o \in Orders, DeliverShipment(o), shipment[o] = "SHIPPED", ~OrderFinal(status[o], payment[o]),
             UNCHANGED <<payment, released>>
      PROVE  JobInv'
  BY <1>4 DEF DeliverShipment, OrderFinal, TypeOK, ShipmentStatus
<1>5. ASSUME NEW o \in Orders, ConfirmDelivered(o)
      PROVE  JobInv'
  BY <1>4, <1>5 DEF ConfirmDelivered, ConfirmAccepted
<1>6. ASSUME NEW o \in Orders, MarkAsDelivered(o)
      PROVE  JobInv'
  BY <1>4, <1>6 DEF MarkAsDelivered, DeliverAccepted
<1>7. ASSUME NEW o \in Orders, MarkAsShipped(o)
      PROVE  JobInv'
  BY <1>7 DEF MarkAsShipped, ShipAccepted, OrderFinal, Placed, TypeOK, OrderStatus, ShipmentStatus
<1>8. ASSUME NEW w \in webhooks, HandleMidtransWebhook(w)
      PROVE  JobInv'
  <2>1. TxnOrder[w.txn] \in Orders
    BY TxnOrderAssumption DEF TypeOK, Webhook
  <2>2. \A q \in Orders : payment[q] = "PAID" => payment'[q] = "PAID"
    BY <1>8, <2>1 DEF HandleMidtransWebhook, PayOrder, FailPayment, IgnoreNotice, TypeOK
  <2>3. UNCHANGED <<status, shipment, released>>
    BY <1>8 DEF HandleMidtransWebhook
  <2>4. QED
    BY <2>2, <2>3
<1>9. QED
  BY <1>1, <1>2, <1>3, <1>5, <1>6, <1>7, <1>8
     DEF Commands, Customer, Admin, Midtrans, CreateSnapToken, PassDeadline, Notify, LoseWebhook, orderVars

\* Every step keeps JobInv.  A job that completes orders repeats its condition
\* on the status; one that expires orders does not, but leaves them CANCELLED.
LEMMA JobInvStep == TypeOK /\ JobType /\ JobInv /\ [CronNext]_cronVars => JobInv'
<1> SUFFICES ASSUME TypeOK, JobType, JobInv, [CronNext]_cronVars
             PROVE  JobInv'
  OBVIOUS
<1> USE DEF JobInv, UnexpiredInStep, JobType
<1>1. ASSUME Commands, UNCHANGED jobVars
      PROVE  JobInv'
  BY <1>1, CommandKeepsJobInv
<1>2. ASSUME NEW w \in ExpireWorkers, SelectExpired(w)
      PROVE  JobInv'
  BY <1>2 DEF SelectExpired, vars, orderVars
<1>3. ASSUME NEW w \in ExpireWorkers, CommitExpired(w)
      PROVE  JobInv'
  <2>1. /\ UNCHANGED <<shipment, completing>>
        /\ \A o \in Orders :
              /\ status'[o] = IF o \in expiring[w] THEN "CANCELLED" ELSE status[o]
              /\ payment'[o] = IF o \in expiring[w] THEN "EXPIRED" ELSE payment[o]
              /\ released'[o] = IF o \in expiring[w] THEN released[o] + 1 ELSE released[o]
              /\ released[o] \in Nat
    BY <1>3 DEF CommitExpired, ReleaseAndCancel, TypeOK
  <2>2. QED
    BY <2>1
<1>4. ASSUME NEW w \in CompleteWorkers, SelectDelivered(w)
      PROVE  JobInv'
  BY <1>4 DEF SelectDelivered, AutoCompletable, vars, orderVars
<1>5. ASSUME NEW w \in CompleteWorkers, CommitDelivered(w)
      PROVE  JobInv'
  BY <1>5 DEF CommitDelivered, TypeOK, ShipmentStatus
<1>6. CASE AbortJobs
  BY <1>6 DEF AbortJobs, vars, orderVars
<1>7. ASSUME NEW S \in SUBSET Orders, ExpireBesideJobs(S)
      PROVE  JobInv'
  <2>1. /\ UNCHANGED <<shipment, completing>>
        /\ \A o \in Orders :
              /\ status'[o] = IF o \in S THEN "CANCELLED" ELSE status[o]
              /\ payment'[o] = IF o \in S THEN "EXPIRED" ELSE payment[o]
              /\ released'[o] = IF o \in S THEN released[o] + 1 ELSE released[o]
              /\ released[o] \in Nat
    BY <1>7 DEF ExpireBesideJobs, ExpireOrders, ReleaseAndCancel, TypeOK
  <2>2. QED
    BY <2>1
<1>8. CASE UNCHANGED cronVars
  BY <1>8 DEF cronVars, jobVars, vars, orderVars
<1>9. QED
  BY <1>1, <1>2, <1>3, <1>4, <1>5, <1>6, <1>7, <1>8 DEF CronNext

\* What the jobs leave of an order holds in every state.
THEOREM JobInvHolds == CronSpec => []JobInv
<1>1. CronInit => JobInv
  BY DEF CronInit, Init, JobInv, UnexpiredInStep
<1>2. QED
  BY <1>1, JobInvStep, CronTypeCorrect, PTL DEF CronSpec

\* An order that was not expired keeps its rows in step, however many processes
\* run the jobs and however old their selections are.
THEOREM UnexpiredKeepInStep == CronSpec => []UnexpiredInStep
<1>1. JobInv => UnexpiredInStep
  BY DEF JobInv
<1>2. QED
  BY <1>1, JobInvHolds, PTL

-----------------------------------------------------------------------------
(* Stock is given back once by each who holds the order.                   *)

\* Who holds o is the same as long as nobody selects it or lets go of it.
LEMMA HeldSame ==
  ASSUME UNCHANGED expiring, NEW o \in Orders
  PROVE  HeldBy(o)' = HeldBy(o)
BY DEF HeldBy

\* Letting go of what it had selected, a job is the only one that leaves.
LEMMA HeldLess ==
  ASSUME JobType, NEW w \in ExpireWorkers, expiring' = [expiring EXCEPT ![w] = {}], NEW o \in Orders
  PROVE  HeldBy(o)' = HeldBy(o) \ {w}
BY DEF HeldBy, JobType

\* What holds of an order that was given back before, when somebody who may hold
\* it lets go, and gives it back again only if he does hold it.
LEMMA HolderLetsGo ==
  ASSUME IsFiniteSet(ExpireWorkers), HoldersAreRivals, TypeOK, JobType, NEW o \in Orders, released[o] > 0,
         NEW w \in ExpireWorkers, HeldBy(o)' = HeldBy(o) \ {w}, rivals'[o] = rivals[o],
         released'[o] = released[o] \/ (w \in HeldBy(o) /\ released'[o] = released[o] + 1)
  PROVE  /\ HeldBy(o)' \subseteq rivals'[o]
         /\ released'[o] + Cardinality(HeldBy(o)') <= 1 + Cardinality(rivals'[o])
<1>1. HeldBy(o) \subseteq rivals[o] /\ released[o] + Cardinality(HeldBy(o)) <= 1 + Cardinality(rivals[o])
  BY DEF HoldersAreRivals
<1>2. IsFiniteSet(HeldBy(o)) /\ IsFiniteSet(rivals[o])
  <2>1. HeldBy(o) \subseteq ExpireWorkers /\ rivals[o] \subseteq ExpireWorkers
    BY DEF HeldBy, JobType
  <2>2. QED
    BY <2>1, FS_Subset
<1>3. Cardinality(HeldBy(o)) \in Nat /\ Cardinality(rivals[o]) \in Nat
  BY <1>2, FS_CardinalityType
<1>4. Cardinality(HeldBy(o) \ {w}) =
        IF w \in HeldBy(o) THEN Cardinality(HeldBy(o)) - 1 ELSE Cardinality(HeldBy(o))
  BY <1>2, FS_RemoveElement
<1>5. released[o] \in Nat
  BY DEF TypeOK
<1>6. QED
  BY <1>1, <1>3, <1>4, <1>5

\* An order that is given back for the first time has as rivals who hold it still.
LEMMA FirstRelease ==
  ASSUME IsFiniteSet(ExpireWorkers), JobType', NEW o \in Orders,
         released'[o] = 1, rivals'[o] = HeldBy(o)'
  PROVE  /\ HeldBy(o)' \subseteq rivals'[o]
         /\ released'[o] + Cardinality(HeldBy(o)') <= 1 + Cardinality(rivals'[o])
<1>1. IsFiniteSet(HeldBy(o)')
  <2>1. HeldBy(o)' \subseteq ExpireWorkers
    BY DEF HeldBy
  <2>2. QED
    BY <2>1, FS_Subset
<1>2. Cardinality(HeldBy(o)') \in Nat
  BY <1>1, FS_CardinalityType
<1>3. QED
  BY <1>2

\* Whoever selects an order finds it not given back; whoever gives it back lets
\* go of it.
LEMMA HoldersStep ==
  ASSUME IsFiniteSet(ExpireWorkers), TypeOK, JobType, JobInv, HoldersAreRivals, JobType', [CronNext]_cronVars
  PROVE  HoldersAreRivals'
<1>1. ASSUME UNCHANGED <<released, expiring, rivals>>
      PROVE  HoldersAreRivals'
  BY <1>1, HeldSame DEF HoldersAreRivals
<1>2. ASSUME NEW w \in ExpireWorkers, SelectExpired(w)
      PROVE  HoldersAreRivals'
  <2>1. UNCHANGED <<released, rivals>>
    BY <1>2 DEF SelectExpired, vars
  <2>2. \A o \in Orders : released[o] > 0 => ~(Placed(o) /\ Expirable(status[o], payment[o], overdue[o]))
    BY DEF JobInv, Expirable
  <2>3. \A o \in Orders : released[o] > 0 => HeldBy(o)' = HeldBy(o)
    BY <1>2, <2>2 DEF SelectExpired, HeldBy, JobType
  <2>4. QED
    BY <2>1, <2>3 DEF HoldersAreRivals
<1>3. ASSUME NEW w \in ExpireWorkers, CommitExpired(w)
      PROVE  HoldersAreRivals'
  <2>1. SUFFICES ASSUME NEW o \in Orders, released'[o] > 0
                 PROVE  /\ HeldBy(o)' \subseteq rivals'[o]
                        /\ released'[o] + Cardinality(HeldBy(o)') <= 1 + Cardinality(rivals'[o])
    BY DEF HoldersAreRivals
  <2>2. /\ expiring' = [expiring EXCEPT ![w] = {}]
        /\ released'[o] = IF o \in expiring[w] THEN released[o] + 1 ELSE released[o]
        /\ rivals'[o] = IF o \in expiring[w] /\ released[o] = 0 THEN HeldBy(o)' ELSE rivals[o]
        /\ released[o] \in Nat
    BY <1>3 DEF CommitExpired, ReleaseAndCancel, NoteRivals, TypeOK
  <2>3. CASE released[o] = 0
    BY <2>1, <2>2, <2>3, FirstRelease
  <2>4. CASE released[o] > 0
    <3>1. HeldBy(o)' = HeldBy(o) \ {w}
      BY <2>2, HeldLess
    <3>2. o \in expiring[w] => w \in HeldBy(o)
      BY DEF HeldBy
    <3>3. QED
      BY <2>2, <2>4, <3>1, <3>2, HolderLetsGo
  <2>5. QED
    BY <2>2, <2>3, <2>4
<1>4. ASSUME NEW S \in SUBSET Orders, ExpireBesideJobs(S)
      PROVE  HoldersAreRivals'
  <2>1. SUFFICES ASSUME NEW o \in Orders, released'[o] > 0
                 PROVE  /\ HeldBy(o)' \subseteq rivals'[o]
                        /\ released'[o] + Cardinality(HeldBy(o)') <= 1 + Cardinality(rivals'[o])
    BY DEF HoldersAreRivals
  <2>2. /\ UNCHANGED expiring
        /\ released'[o] = IF o \in S THEN released[o] + 1 ELSE released[o]
        /\ rivals'[o] = IF o \in S /\ released[o] = 0 THEN HeldBy(o)' ELSE rivals[o]
        /\ released[o] \in Nat
    BY <1>4 DEF ExpireBesideJobs, ExpireOrders, ReleaseAndCancel, NoteRivals, TypeOK
  <2>3. o \in S => released[o] = 0
    BY <1>4, <2>2 DEF ExpireBesideJobs, ExpireOrders, JobInv, Expirable
  <2>4. CASE o \in S
    BY <2>2, <2>3, <2>4, FirstRelease
  <2>5. CASE o \notin S
    BY <2>1, <2>2, <2>5, HeldSame DEF HoldersAreRivals
  <2>6. QED
    BY <2>4, <2>5
<1>5. ASSUME AbortJobs
      PROVE  HoldersAreRivals'
  <2>1. UNCHANGED <<released, rivals>>
    BY <1>5 DEF AbortJobs, vars
  <2>2. CASE UNCHANGED expiring
    BY <2>1, <2>2, <1>1
  <2>3. ASSUME NEW w \in ExpireWorkers, expiring' = [expiring EXCEPT ![w] = {}]
        PROVE  HoldersAreRivals'
    <3>1. \A o \in Orders : HeldBy(o)' = HeldBy(o) \ {w}
      BY <2>3, HeldLess
    <3>2. QED
      BY <2>1, <3>1, HolderLetsGo DEF HoldersAreRivals
  <2>4. QED
    BY <1>5, <2>2, <2>3 DEF AbortJobs
<1>6. ASSUME Commands, UNCHANGED jobVars
      PROVE  HoldersAreRivals'
  <2>1. UNCHANGED <<released, expiring, rivals>>
    BY <1>6 DEF Commands, Customer, Admin, Midtrans, PlaceOrder, CancelOrder, CreateSnapToken,
                ConfirmDelivered, MarkAsShipped, MarkAsDelivered, PassDeadline, Notify,
                HandleMidtransWebhook, LoseWebhook, jobVars
  <2>2. QED
    BY <2>1, <1>1
<1>7. QED
  BY <1>1, <1>2, <1>3, <1>4, <1>5, <1>6
     DEF CronNext, SelectDelivered, CommitDelivered, vars, cronVars, jobVars

\* However many processes run the job that expires orders, and the HTTP worker
\* beside them, an order's stock is given back once, and once more at most for
\* each job that held the order when it was given back first.
THEOREM JobsReleaseOncePerHolder ==
  ASSUME IsFiniteSet(ExpireWorkers)
  PROVE  CronSpec => []ReleasedOncePerHolder
<1>1. CronInit => HoldersAreRivals
  BY DEF CronInit, Init, HoldersAreRivals
<1>2. TypeOK /\ JobType /\ JobInv /\ HoldersAreRivals /\ JobType' /\ [CronNext]_cronVars => HoldersAreRivals'
  BY HoldersStep
<1>3. TypeOK /\ JobType /\ JobInv /\ HoldersAreRivals => ReleasedOncePerHolder
  <2> SUFFICES ASSUME TypeOK, JobType, JobInv, HoldersAreRivals, NEW o \in Orders, released[o] > 0
               PROVE  status[o] = "CANCELLED" /\ released[o] <= 1 + Cardinality(rivals[o])
    BY DEF ReleasedOncePerHolder
  <2>1. HeldBy(o) \subseteq ExpireWorkers /\ rivals[o] \subseteq ExpireWorkers
    BY DEF HeldBy, JobType
  <2>2. Cardinality(HeldBy(o)) \in Nat /\ Cardinality(rivals[o]) \in Nat /\ released[o] \in Nat
    BY <2>1, FS_Subset, FS_CardinalityType DEF TypeOK
  <2>3. QED
    BY <2>2 DEF HoldersAreRivals, JobInv
<1>4. QED
  BY <1>1, <1>2, <1>3, JobInvHolds, CronTypeCorrect, PTL DEF CronSpec
=============================================================================
