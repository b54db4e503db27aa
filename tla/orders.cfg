\* o1 is paid by two transactions.
SPECIFICATION Spec
CONSTANTS
    o1 = o1  o2 = o2  v1 = v1  v2 = v2  t1 = t1  t2 = t2
    Orders = {o1, o2}
    Variants = {v1, v2}
    Txns = {t1, t2}
    TxnOrder <- OneOrderTwice
    Qty <- OrderQty
    InitialStock <- ScarceStock
    Notices = {"pending", "challenge", "capture", "settlement", "expire", "deny", "refund"}
    MaxLost = 0
    MaxInt4 = 2147483647
INVARIANTS
    TypeOK
    ShippedOnlyIfPaid
    ReleasedNeverShipped
    UnitsAccounted
    PaidOnlyIfCollected
    PaymentRowsAgree
    ViewsAgree
    ListsTellStatus
    OffersAccepted
PROPERTIES
    PaidStaysPaid
    KeepsPromise
CHECK_DEADLOCK FALSE
