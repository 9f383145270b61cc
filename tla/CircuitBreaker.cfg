SPECIFICATION CircuitFairSpec
CONSTANTS
    r1 = r1  hc = hc  adm = adm
    Callers = {r1}
    Checkers = {hc}
    Admins = {adm}
    FailureThreshold = 2
    Cooldown = 1
    OtherNodes = TRUE
    Fallback = TRUE
INVARIANTS ProbeSlotHeld HalfOpenHasProbe DeadNodeIsOpen
PROPERTIES NeverWedged
