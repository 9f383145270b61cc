SPECIFICATION Spec
CONSTANTS
    w1 = w1  w2 = w2  u1 = u1  v4 = v4  v6a = v6a  v6b = v6b  net = net
    None = None
    Kinds = {"Simple", "TokenBucket"}
    Workers = {w1, w2}
    Requests <- MCRequests
    Strategy = "Identity"
    Trust = TRUE
    Canonical <- MCCanonical
    MaxEntries = 1
    Ttl = 2
    SweepEvery = 1
    SweepFull = 1
    Limit = 2
    Capacity = 1
    Cost = 3
    Rate = 2
    MaxTime = 3
    MaxCalls = 4
INVARIANTS LimitHolds CapNearlyExact
SYMMETRY Symmetry
