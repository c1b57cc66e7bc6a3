\* Runtime registration: Client::runtime_advertisement writes on the current
\* connection as soon as its state is open, before its open handler has
\* replayed the startup messages.
CONSTANTS
    c1 = c1  c2 = c2  c3 = c3  t1 = t1  s1 = s1  A = A  B = B  i1 = i1  p1 = p1
    EmptyId = EmptyId  NoType = NoType  EmptyName = EmptyName
    NoConn = NoConn  NoAdvert = NoAdvert
    Conns <- MCTwoConns
    Topics <- MCTopics
    HostType <- MCHostType
    Services <- MCNoServices
    Types <- MCOneType
    SubIds <- MCOneSubId
    PeerCallIds <- MCPeerCallIds
    RequestTypes <- MCOneType
    MaxCalls = 1
    MaxPublish = 1
    RuntimeRegistration = TRUE
SPECIFICATION Spec
INVARIANT
    StartupReplayedFirst
