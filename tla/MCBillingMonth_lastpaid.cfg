SPECIFICATION Spec
CONSTANTS
    m1 = m1
    o1 = o1
    o2 = o2
    NoOrder = NoOrder
    Members = {m1}
    Orders = {o1, o2}
    Recurring = {o1, o2}
    Owner <- MCOneMember
    Regular = {}
    Periods = {1, 2}
    HandFlags = {}
    StartOrders <- MCTables
    LastMonth = 2
INVARIANTS
    FlagsLastPaid
