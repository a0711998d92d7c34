SPECIFICATION FairSpec
CONSTANTS
    o1 = o1
    o2 = o2
    p1 = p1
    p2 = p2
    r1 = r1
    NoPayment = NoPayment
    NoOrder = NoOrder
    Orders = {o1, o2}
    Recurring = {o1, o2}
    Payments = {p1, p2}
    Runs = {r1}
    MaxWorkers = 2
    StartOrders <- MCToRenew
PROPERTIES
    CommandEnds
    LedgerSpec
CHECK_DEADLOCK FALSE
