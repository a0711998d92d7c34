SPECIFICATION FairSpec
CONSTANTS
    c1 = c1
    c2 = c2
    t1 = t1
    t2 = t2
    t3 = t3
    NoToken = NoToken
    Nobody = Nobody
    Callers = {c1, c2}
    Tokens = {t1, t2, t3}
    Threshold = 2
    MaxFailures = 2
INVARIANTS
    OneGoodToken
    SuppressionEarned
    RetryUsesAnotherToken
PROPERTIES
    CallsEnd
