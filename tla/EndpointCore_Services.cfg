\* Service routing: provider table, call ledger and request/response over two concurrent connections.
CONSTANTS
    c1 = c1  c2 = c2  t1 = t1  s1 = s1  A = A  B = B  i1 = i1  p1 = p1
    EmptyId = EmptyId  NoType = NoType  EmptyName = EmptyName
    NoConn = NoConn  NoAdvert = NoAdvert
    Conns <- MCConns
    Topics <- MCNoTopics
    HostType <- MCNoHostType
    Services <- MCServices
    Types <- MCTypes
    SubIds <- MCSubIds
    PeerCallIds <- MCPeerCallIds
    RequestTypes <- MCRequestTypes
    MaxCalls = 2
    MaxPublish = 1
    RuntimeRegistration = FALSE
INIT CoreInit
NEXT CoreNext
SYMMETRY MCSymmetry
INVARIANTS
    TablesNameOnlyOpenedConns
PROPERTY
    LedgerRefinement
