SPECIFICATION Spec
CONSTANTS
    o1 = o1
    p1 = p1
    p2 = p2
    p3 = p3
    p4 = p4
    r1 = r1
    NoPayment = NoPayment
    NoOrder = NoOrder
    Orders = {o1}
    Recurring = {o1}
    Payments = {p1, p2, p3, p4}
    Runs = {r1}
    MaxWorkers = 1
    StartOrders <- MCStartOrders
SYMMETRY MCSymmetry
INVARIANTS
    JournalReconcilable
    RecordedSticks
    OneRecordedCharge
    RenewedIsPaid
CHECK_DEADLOCK FALSE
