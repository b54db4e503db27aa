----------------------------- MODULE OrderRules -----------------------------
(***************************************************************************)
(* The decisions the back end takes on one order, as operators on the      *)
(* columns of its rows: orders.status (s), orders.payment_status (p) and   *)
(* order_shipments.status (sh).  They hold no state: OrderLifecycle and    *)
(* CronJobs apply them to theirs.                                          *)
(***************************************************************************)
EXTENDS Naturals, Sequences

OrderStatus    == {"PENDING", "PROCESSING", "COMPLETED", "CANCELLED"}
PaymentStatus  == {"UNPAID", "PAID", "FAILED", "EXPIRED"}
ShipmentStatus == {"PENDING", "SHIPPED", "DELIVERED"}

-----------------------------------------------------------------------------
(* Guards of the commands.                                                 *)

\* assertOrderNotFinal throws on these rows.
OrderFinal(s, p) == s \in {"CANCELLED", "COMPLETED"} \/ p \in {"FAILED", "EXPIRED"}

\* Slip: cancelOrder without "Order already paid".
CancelAcceptedPaid(s, p) == ~OrderFinal(s, p)

\* cancelOrder answers success: the shared guard runs before anything else.
CancelAccepted(s, p) == ~OrderFinal(s, p) /\ p # "PAID"

\* confirmDelivered answers success; on a DELIVERED shipment it does nothing.
ConfirmAccepted(s, p, sh) == ~OrderFinal(s, p) /\ sh \in {"SHIPPED", "DELIVERED"}

\* createSnapToken goes on to answer a token; "overdue" is expires_at < now.
SnapTokenAccepted(s, p, overdue) ==
    s \notin {"CANCELLED", "COMPLETED"} /\ p # "PAID" /\ ~overdue

\* Slips: markAsShipped without its payment check, and without the shared guard.
ShipAcceptedUnpaid(s, p, sh) == sh = "PENDING" /\ ~OrderFinal(s, p)
ShipAcceptedFinal(s, p, sh)  == sh = "PENDING" /\ p = "PAID"

\* The administrator's markAsShipped and markAsDelivered.
ShipAccepted(s, p, sh)    == sh = "PENDING" /\ ~OrderFinal(s, p) /\ p = "PAID"
DeliverAccepted(s, p, sh) == sh = "SHIPPED" /\ ~OrderFinal(s, p)

\* Slip: the expiry worker compares expires_at the wrong way round.
ExpirableEarly(s, p, overdue) == p = "UNPAID" /\ s = "PENDING" /\ ~overdue

\* The rows the expiry workers select.
Expirable(s, p, overdue) == p = "UNPAID" /\ s = "PENDING" /\ overdue

\* Slip: the auto-complete job forgets the shipment's status.
AutoCompletableAny(s, p, sh) == p = "PAID" /\ s \notin {"CANCELLED", "COMPLETED"}

\* The rows the auto-complete job selects (the 14 days are left to chance).
AutoCompletable(s, p, sh) == sh = "SHIPPED" /\ p = "PAID" /\ s \notin {"CANCELLED", "COMPLETED"}

-----------------------------------------------------------------------------
(* Midtrans notifications.  A notice is a transaction_status, but for      *)
(* "challenge": a capture whose fraud_status is not "accept".              *)

TransactionStatus ==
    {"pending", "authorize", "capture", "settlement", "expire", "cancel",
     "deny", "failure", "refund", "partial_refund"}

Notice == TransactionStatus \cup {"challenge"}

\* Slip: the fraud review is stored as if it were a transaction_status.
StatusOfReview(notice) == notice

StatusOf(notice) == IF notice = "challenge" THEN "capture" ELSE notice

\* Slip: every capture is a payment, whatever its fraud_status.
IsPaidEventAnyCapture(notice) == notice \in {"settlement", "capture", "challenge"}

IsPaidEvent(notice) == notice \in {"settlement", "capture"}

\* cancel, deny and failure fail the payment; expire has a status of its own.
FailureNotice == {"cancel", "deny", "failure"}

\* PAYMENT_STATUS_RANK: a notice of a lower rank than the row's is a late one.
PaymentRank ==
    [ts \in TransactionStatus |->
        IF ts = "pending"          THEN 1
        ELSE IF ts = "authorize"   THEN 2
        ELSE IF ts = "capture"     THEN 3
        ELSE IF ts = "settlement"  THEN 4
        ELSE IF ts \in {"refund", "partial_refund"} THEN 6
        ELSE 5]

-----------------------------------------------------------------------------
(* What the customer and the administrator are shown.                      *)

\* Slip: mapOrderStatus looks at the payment first.
mapOrderStatusPaymentFirst(s, p, sh) ==
    IF p \in {"EXPIRED", "FAILED"} THEN p
    ELSE IF s = "CANCELLED"      THEN "CANCELLED"
    ELSE IF sh # "PENDING"       THEN sh
    ELSE IF s # "PENDING"        THEN s
    ELSE IF p = "PAID"           THEN "PROCESSING"
    ELSE "WAITING_PAYMENT"

\* mapOrderStatus: the first rule that applies, from the terminal states down.
mapOrderStatus(s, p, sh) ==
    IF s = "CANCELLED"                THEN "CANCELLED"
    ELSE IF p \in {"EXPIRED", "FAILED"} THEN p
    ELSE IF sh # "PENDING"            THEN sh
    ELSE IF s # "PENDING"             THEN s
    ELSE IF p = "PAID"                THEN "PROCESSING"
    ELSE "WAITING_PAYMENT"

mapAdminOrderStatus(s, p, sh) ==
    IF s = "CANCELLED"                THEN "CANCELLED"
    ELSE IF p \in {"FAILED", "EXPIRED"} THEN p
    ELSE IF p # "PAID"                THEN "WAITING_PAYMENT"
    ELSE IF sh = "PENDING"            THEN "READY_TO_SHIP"
    ELSE IF sh = "SHIPPED"            THEN "SHIPPED"
    ELSE "COMPLETED"

\* Slip: the cancelled tab forgets the orders whose payment failed.
TabsOfStatus(s, p) ==
    {tab \in {"ongoing", "completed", "cancelled"} :
        \/ tab = "ongoing"   /\ \/ s = "PENDING" /\ p \in {"UNPAID", "PAID"}
                                \/ s = "PROCESSING"
        \/ tab = "completed" /\ s = "COMPLETED"
        \/ tab = "cancelled" /\ s = "CANCELLED"}

\* The tabs of the customer's order list (buildUserOrderStatusFilter).
TabsOf(s, p) ==
    {tab \in {"ongoing", "completed", "cancelled"} :
        \/ tab = "ongoing"   /\ \/ s = "PENDING" /\ p \in {"UNPAID", "PAID"}
                                \/ s = "PROCESSING"
        \/ tab = "completed" /\ s = "COMPLETED"
        \/ tab = "cancelled" /\ (s = "CANCELLED" \/ p \in {"FAILED", "EXPIRED"})}

\* The filters of the administrator's list an order passes (buildOrderFilter).
AdminFilters(s, p, sh) ==
    {f \in {"WAITING_PAYMENT", "READY_TO_SHIP", "SHIPPED", "COMPLETED", "CANCELLED", "FAILED", "EXPIRED"} :
        \/ f = "WAITING_PAYMENT" /\ p = "UNPAID"
        \/ f = "READY_TO_SHIP" /\ p = "PAID" /\ sh = "PENDING"
        \/ f = "SHIPPED" /\ sh = "SHIPPED"
        \/ f \in {"COMPLETED", "CANCELLED"} /\ s = f
        \/ f \in {"FAILED", "EXPIRED"} /\ p = f}

\* The administrator's list is sorted by it: what is to be shipped comes first.
AdminPriority(s, p, sh) ==
    IF p = "PAID" /\ sh = "PENDING" THEN 0
    ELSE IF p = "UNPAID"      THEN 1
    ELSE IF sh = "SHIPPED"    THEN 2
    ELSE IF s = "COMPLETED"   THEN 3
    ELSE IF s = "CANCELLED"   THEN 4
    ELSE IF p = "FAILED"      THEN 5
    ELSE 6

Step(key, completed, current) == [key |-> key, completed |-> completed, current |-> current]

\* Slip: an order is past its payment as soon as it is not waiting for it.
buildOrderTimelineUnpaid(s, p, sh) ==
    IF s = "CANCELLED" THEN <<Step("CANCELLED", TRUE, TRUE)>>
    ELSE <<Step("WAITING_PAYMENT", TRUE, p = "UNPAID"),
           Step("PAID", p # "UNPAID", p # "UNPAID" /\ sh = "PENDING"),
           Step("SHIPPED", sh # "PENDING", sh = "SHIPPED"),
           Step("DELIVERED", sh = "DELIVERED", FALSE)>>

\* The steps the customer's page draws: one for an order that has come to
\* nothing, else four.
buildOrderTimeline(s, p, sh) ==
    IF s = "CANCELLED" THEN <<Step("CANCELLED", TRUE, TRUE)>>
    ELSE IF p \in {"EXPIRED", "FAILED"} THEN <<Step(p, TRUE, TRUE)>>
    ELSE <<Step("WAITING_PAYMENT", TRUE, p # "PAID"),
           Step("PAID", p = "PAID", p = "PAID" /\ sh = "PENDING"),
           Step("SHIPPED", sh # "PENDING", sh = "SHIPPED"),
           Step("DELIVERED", sh = "DELIVERED", FALSE)>>

\* The buttons the pages offer: canPay of mapOrder, canConfirm of the order
\* list (mapOrdersByUser looks at the shipment alone), canShip of the
\* administrator's list.
CanPay(s, p, overdue) == p = "UNPAID" /\ ~OrderFinal(s, p) /\ ~overdue
ListCanConfirm(sh)    == sh = "SHIPPED"
CanShip(s, p, sh)     == sh = "PENDING" /\ p = "PAID" /\ s # "CANCELLED"
=============================================================================
