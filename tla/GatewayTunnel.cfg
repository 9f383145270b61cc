SPECIFICATION TunnelFairSpec
CONSTANTS
    v4 = v4  m4 = m4  v6a = v6a  v6b = v6b  zero = zero
    NoAddr = NoAddr
    c1 = c1  c2 = c2  c3 = c3
    Conns = {c1, c2, c3}
    Addrs = {v4, m4, v6a, v6b, zero}
    V6 = {m4, v6a, v6b}
    Tunnelled = {c1, c2}
    Public = {m4}
    Unspecified = {zero}
    Canonical <- MCCanonical
    Mapped <- MCMapped
    MaxConns = 2
    MaxPerIp = 1
    RelayMax = 1
    RelayMaxPerIp = 1
INVARIANTS PerIpExact RelayCountsHold PeerIsTrue
PROPERTIES PermitsPooled TunnelComesBack ShutdownDrains
