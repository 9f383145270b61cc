SPECIFICATION FairSpec
CONSTANTS
    n1 = n1  n2 = n2  n3 = n3  r1 = r1  r2 = r2
    Nodes = {n1, n2, n3}
    Requests = {r1}
    Backends = {"Rest", "GrpcPassthrough", "GrpcTranscoding"}
    Strategy = "Any"
    MaxRetries = 3
    Threshold = 1
    HasTimeout = TRUE
INVARIANTS RetriesAreSound
PROPERTIES EveryRequestEnds
