SPECIFICATION FairSpec
CONSTANTS
    V4Bits = 2
    V6Bits = 6
    MappedHigh = 1
    Absent = Absent
    DefaultForwards = 2
    Claimed = Claimed
    Junk = Junk
    Configs <- MCConfigs
    Requests <- MCRequests
    Tokens <- MCTokens
    MaxRevoked = 1
    Own <- MCOwn
INVARIANTS UpstreamPathIsCanonical InspectedAsForwarded AuthorizedOnly
    IdentityIsVerified LogoutRevokes FilterHolds AnswersAreSecured
PROPERTIES LoopEnds
