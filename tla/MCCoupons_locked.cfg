SPECIFICATION Spec
CONSTANTS
    m1 = m1
    q1 = q1
    a1 = a1
    a2 = a2
    Members = {m1}
    Countries = {"IL"}
    Codes = {"GIFT", "OTHER"}
    Currencies = {"USD"}
    Requests = {q1}
    Admins = {a1, a2}
    NewCoupons <- MCNewCoupons
    Updates <- MCTerms
    TakenCodes = {}
    NoCountry = NoCountry
    NoCurrency = NoCurrency
    NoCoupon = NoCoupon
    NoRedemption = NoRedemption
    Nobody = Nobody
    DaysPerMonth = 2
    LastDay = 2
PROPERTIES
    LockedOnceRedeemed
