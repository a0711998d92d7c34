SPECIFICATION Spec
CONSTANTS
    m1 = m1
    m2 = m2
    q1 = q1
    q2 = q2
    a1 = a1
    a2 = a2
    Members = {m1, m2}
    Countries = {"IL"}
    Codes = {"GIFT", "OTHER"}
    Currencies = {"USD"}
    Requests = {q1, q2}
    Admins = {a1, a2}
    NewCoupons <- MCSharedCoupons
    Updates <- MCUpdates
    TakenCodes = {}
    NoCountry = NoCountry
    NoCurrency = NoCurrency
    NoCoupon = NoCoupon
    NoRedemption = NoRedemption
    Nobody = Nobody
    DaysPerMonth = 2
    LastDay = 3
SYMMETRY MCSymmetry
INVARIANTS
    BenefitNotOver
    RowValid
    NoNewTerms
PROPERTIES
    RedeemedByTheRow
