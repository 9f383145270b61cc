SPECIFICATION Spec
CONSTANTS
    t1 = t1  t2 = t2  t3 = t3  t4 = t4  j1 = j1  j2 = j2  j4 = j4  c1 = c1  r1 = r1
    None = None
    Tokens = {t1, t2, t3, t4}
    Exp <- MCExp
    Jti <- MCJti
    LongJtis = {j4}
    Clients = {c1}
    Revokers = {r1}
    TokenExpiry = 2
    Leeway = 1
    MaxRevoked = 1
    CleanupEvery = 1
    MaxTime = 3
    MaxCalls = 3
INVARIANTS RevokedStaysOut
