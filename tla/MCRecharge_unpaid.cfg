CONSTANTS
    o1 = o1
    o2 = o2
    a1 = a1
    h1 = h1
    h2 = h2
    NoOrder = NoOrder
    Orders <- TwoOrders
    Owner <- OneOwner
    Accounts <- OneAccount
    Handlers <- TwoHandlers
    AsyncMethods = TRUE
SPECIFICATION Safety
INVARIANTS CreditOnlyPaid
CHECK_DEADLOCK FALSE
