\* One request of one customer, for a service that is quoted without a delivery time.
SPECIFICATION CheckoutSpec
CONSTANTS
    u1 = u1  s1 = s1  s2 = s2  a1 = a1  a2 = a2  v1 = v1
    reg = reg  yes = yes  free = free
    Users = {u1}
    Sessions = {s1}
    Owner <- OneSession
    CartVariants = {v1}
    MaxCartQty = 2
    Addresses = {a1}
    NoAddress = NoAddress
    Services = {reg, yes}
    WithEtd = {reg}
    Tariff <- CourierTariff
    Price <- ItemPrice
    Weight <- ItemWeight
    MinWeight = 4
    Workers = {1}
    CleanupLimit = 500
    FirstStock <- ScarceStock
INVARIANT
    OfferedIsAccepted
CHECK_DEADLOCK FALSE
