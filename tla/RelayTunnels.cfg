SPECIFICATION FairSpec
CONSTANTS
    c1 = c1  c2 = c2  c3 = c3  s1 = s1  s2 = s2  d1 = d1  d2 = d2  d3 = d3
    NoConn = NoConn  NoSni = NoSni  NoClient = NoClient
    Conns = {c1, c2}
    Snis = {s1}
    Clients = {d1, d2}
    QueueCap = 1
INVARIANTS RoutesAreLive WakerLeft
PROPERTIES NewTunnelSurvives EveryOpenAnswered
