\* Topic routing: subscribe/advertise tables, blacklist and startup replay over two concurrent connections.
CONSTANTS
    c1 = c1  c2 = c2  t1 = t1  s1 = s1  A = A  B = B  i1 = i1  p1 = p1
    EmptyId = EmptyId  NoType = NoType  EmptyName = EmptyName
    NoConn = NoConn  NoAdvert = NoAdvert
    Conns <- MCConns
    Topics <- MCTopics
    HostType <- MCHostType
    Services <- MCNoServices
    Types <- MCTypes
    SubIds <- MCSubIds
    PeerCallIds <- MCPeerCallIds
    RequestTypes <- MCRequestTypesUntyped
    MaxCalls = 1
    MaxPublish = 1
    RuntimeRegistration = FALSE
INIT CoreInit
NEXT CoreNext
SYMMETRY MCSymmetry
INVARIANTS
    CoreTypeOK
    BlacklistIsLastAdvert
    PublicationFiltered
    TablesNameOnlyOpenedConns
    StartupReplayedFirst
