SPECIFICATION PricingSpec
CONSTANTS
    s1 = s1
    s2 = s2
    Sessions = {s1, s2}
    GrantBenefits <- MCGrantBenefits
    ManualBenefits <- MCManualBenefits
    CouponBenefits <- MCCouponBenefits
    LastDay = 2
    MaxRows = 3
    MaxWrites = 4
    Mixes <- MCMixes
    MaxChanges = 3
INVARIANTS
    TypeOK
    GrantsMatchRequests
    OneHolds
    PriceIsCheapest
    NoPriceWhenUnknown
    EligibleEarned
    NeverCheaperThanOwed
CHECK_DEADLOCK FALSE
