SPECIFICATION Spec
CONSTANTS
    o1 = o1
    p1 = p1
    p2 = p2
    p3 = p3
    r1 = r1
    r2 = r2
    NoPayment = NoPayment
    NoOrder = NoOrder
    Orders = {o1}
    Recurring = {o1}
    Payments = {p1, p2, p3}
    Runs = {r1, r2}
    MaxWorkers = 1
    StartOrders <- MCToRenew
SYMMETRY MCSymmetry2
INVARIANTS
    ChargeAccountedFor
    FallbackAfterChargeExplained
    SuccessIsCharged
CHECK_DEADLOCK FALSE
