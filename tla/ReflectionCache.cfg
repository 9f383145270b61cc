SPECIFICATION CacheFairSpec
CONSTANTS
    Clients = {r1, r2}
    Checker = checker
    Absent = Absent
    Listed <- MCListed
    Health <- MCHealth
    TTL = 2
    MaxLeaves = 1
PROPERTIES OneRefreshPerTtl EventuallyCurrent
