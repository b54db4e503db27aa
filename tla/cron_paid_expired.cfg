CONSTANTS
    o1 = o1
    o2 = o2
    v1 = v1
    v2 = v2
    t1 = t1
    t2 = t2
    Orders = {o1, o2}
    Variants = {v1, v2}
    Txns = {t1, t2}
    TxnOrder <- OneEach
    Qty <- OrderQty
    InitialStock <- AmpleStock
    Notices = {"pending", "settlement", "expire"}
    MaxLost = 0
    MaxInt4 = 2147483647
    ExpireWorkers = {e1}
    CompleteWorkers = {}
SPECIFICATION CronSpec
PROPERTY
    PaidSurvivesJobs
CHECK_DEADLOCK FALSE
