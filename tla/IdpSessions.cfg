SPECIFICATION LoginFairSpec
CONSTANTS
    s1 = s1  k1 = k1  d1 = d1  d2 = d2
    b1 = b1  b2 = b2  i1 = i1
    NoEntry = NoEntry  NoSession = NoSession  Pending = Pending
    Sessions = {s1}
    Creators = {k1}
    Devices = {d1, d2}
    Browsers = {b1, b2}
    Ips = {i1}
    MaxSessions = 1
    MaxAttempts = 2
    MaxLogins = 2
    Webhook = TRUE
    FallbackToCert = FALSE
INVARIANTS TokensAreEarned LockoutNearlyExact
PROPERTIES IdentityIsStable AbandonedMakeWay
