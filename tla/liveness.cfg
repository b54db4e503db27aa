\* Two orders, a transaction each; or one customer's two sessions and one
\* request in flight.
CONSTANTS
    o1 = o1  o2 = o2  v1 = v1  v2 = v2  t1 = t1  t2 = t2
    u1 = u1  s1 = s1  s2 = s2  a1 = a1  reg = reg
    NoAddress = NoAddress
    Orders = {o1, o2}
    Variants = {v1, v2}
    Txns = {t1, t2}
    TxnOrder <- OneEach
    Qty <- OrderQty
    InitialStock <- AmpleStock
    Notices = {"pending", "settlement", "expire", "deny"}
    MaxLost = 1
    MaxInt4 = 2147483647
SPECIFICATION LiveSpec
PROPERTIES
    CollectedLeadsToPaid
    NoOrderWaitsForEver
    ExpiredSessionsEnd
CHECK_DEADLOCK FALSE
