SPECIFICATION Spec
CONSTANTS
    Orders = {o1}
    NoOrder = none
    Payments = {p1}
    NoPayment = none
    Cards = {c1}
    NoCard = none
    Requests = {r1, r2}
    EditStatuses <- MCEditStatuses
    Patches <- MCPatches
SYMMETRY RequestSymmetry
INVARIANTS TypeOK SettledTogether PageOnWholePurchase PaidOnRecord PaidCanRenew
PROPERTIES SuccessKept
CHECK_DEADLOCK FALSE
