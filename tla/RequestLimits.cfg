SPECIFICATION Spec
CONSTANTS
    r1 = r1  r2 = r2  r3 = r3
    Requests = {r1, r2, r3}
    Modes = {"shed", "timeout", "queue"}
    MaxPermits = 1
    MaxBytes = 2
    HeaderLen = 5
    Bodies <- MCBodies
INVARIANTS PermitsExact FramingExact
SYMMETRY Symmetry
