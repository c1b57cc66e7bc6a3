\* The Client's reconnect loop with topic routing: startup replay on every
\* new connection, one connection at a time, and reconnection.
CONSTANTS
    c1 = c1  c2 = c2  c3 = c3  t1 = t1  s1 = s1  A = A  B = B  i1 = i1  p1 = p1
    EmptyId = EmptyId  NoType = NoType  EmptyName = EmptyName
    NoConn = NoConn  NoAdvert = NoAdvert
    Conns <- MCTwoConns
    Topics <- MCTopics
    HostType <- MCHostType
    Services <- MCNoServices
    Types <- MCOneType
    SubIds <- MCOneSubId
    PeerCallIds <- MCPeerCallIds
    RequestTypes <- MCOneType
    MaxCalls = 1
    MaxPublish = 0
    RuntimeRegistration = FALSE
SPECIFICATION Spec
INVARIANTS
    OneConnectionAttempt
PROPERTIES
    ReconnectEventually
    ShutdownCompletes
