\* One customer: two sessions with one request in flight, one session with two
\* requests in flight and two destinations, or one session and three services.
\* Or two orders, with two processes that run either cron job.
SPECIFICATION FocusSpec
CONSTANTS
    u1 = u1  s1 = s1  s2 = s2  a1 = a1  a2 = a2  v1 = v1
    reg = reg  yes = yes  free = free
    o1 = o1  o2 = o2  t1 = t1  t2 = t2
    Users = {u1}
    Sessions = {s1, s2}
    Owner <- OneCustomer
    CartVariants = {v1}
    MaxCartQty = 2
    Addresses = {a1, a2}
    NoAddress = NoAddress
    Services = {reg, yes, free}
    WithEtd = {reg, free}
    Tariff <- CourierTariff
    Price <- ItemPrice
    Weight <- ItemWeight
    MinWeight = 4
    Workers = {1, 2}
    CleanupLimit = 1
    FirstStock <- ScarceStock
    Orders = {o1, o2}
    Variants = {v1}
    Txns = {t1, t2}
    TxnOrder <- OneTxnEach
    Qty <- OrderQty
    InitialStock <- EnoughStock
    Notices = {"pending", "settlement", "expire"}
    MaxLost = 0
    MaxInt4 = 2147483647
    ExpireWorkers = {1, 2}
    CompleteWorkers = {1, 2}
INVARIANTS
    OneOpenSession
    OneOrderPerSession
    NothingOversold
    ShippingNeedsAddress
    PageAndConfirmAgree
    PricedAsListed
    ReleasedOncePerHolder
    UnexpiredInStep
CHECK_DEADLOCK FALSE
