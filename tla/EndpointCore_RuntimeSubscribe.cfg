\* subscribe() called while connections are already live.
CONSTANTS
    c1 = c1  c2 = c2  t1 = t1  s1 = s1  A = A  B = B  i1 = i1  p1 = p1
    EmptyId = EmptyId  NoType = NoType  EmptyName = EmptyName
    NoConn = NoConn  NoAdvert = NoAdvert
    Conns <- MCConns
    Topics <- MCTopics
    HostType <- MCHostType
    Services <- MCNoServices
    Types <- MCTypes
    SubIds <- MCSubIds
    PeerCallIds <- MCPeerCallIds
    RequestTypes <- MCRequestTypes
    MaxCalls = 1
    MaxPublish = 1
    RuntimeRegistration = TRUE
INIT CoreInit
NEXT CoreNext
SYMMETRY MCSymmetry
INVARIANTS
    BlacklistIsLastAdvert
