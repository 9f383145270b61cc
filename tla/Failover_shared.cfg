SPECIFICATION Spec
CONSTANTS
    n1 = n1  n2 = n2  n3 = n3  r1 = r1  r2 = r2
    Nodes = {n1, n2}
    Requests = {r1, r2}
    Backends = {"Rest", "GrpcTranscoding"}
    Strategy = "LeastConnections"
    MaxRetries = 2
    Threshold = 2
    HasTimeout = TRUE
INVARIANTS ConnectionsBalanced ProbeHasOwner
SYMMETRY Symmetry
