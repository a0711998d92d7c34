SPECIFICATION Spec
CONSTANTS
    o1 = o1
    p1 = p1
    p2 = p2
    p3 = p3
    r1 = r1
    NoPayment = NoPayment
    NoOrder = NoOrder
    Orders = {o1}
    Recurring = {o1}
    Payments = {p1, p2, p3}
    Runs = {r1}
    MaxWorkers = 1
    StartOrders <- MCToRenew
INVARIANTS
    NoRetryAfterPostPayment
CHECK_DEADLOCK FALSE
