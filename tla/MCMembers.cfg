SPECIFICATION EventsSpec
CONSTANTS
    k1 = k1
    k2 = k2
    r1 = r1
    r2 = r2
    events = events
    Keys = {k1, k2}
    NoKey = NoKey
    MaxAccounts = 3
    Orders = {o1}
    NoOrder = NoOrder
    Cards = {c1}
    NoCard = NoCard
    Workers <- MCWorkers
    Consumer = events
    StartAccounts <- MCStartAccounts
    Mixes <- MCMixes
    Capacity = 1
    MaxVersion = 3
    Cleared = {2}
    MaxDeliveries = 1
    MaxRestarts = 1
INVARIANTS
    EventsTypeOK
    OneAccountPerKey
    RowsOfOneAccount
    UserKeyFollows
    DrainedAgrees
PROPERTY
    EventuallyDrained
CHECK_DEADLOCK FALSE
