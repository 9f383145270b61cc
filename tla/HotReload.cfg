SPECIFICATION FairSpec
CONSTANTS
    n1 = n1  p1 = p1  p2 = p2  k1 = k1
    NoServer = NoServer  NoInst = NoInst
    Names = {n1}
    Ports = {p1, p2}
    MaxReloads = 2
    Conns = {k1}
INVARIANTS ReloadIsExact
PROPERTIES ServesNewestStack ShutdownEnds
