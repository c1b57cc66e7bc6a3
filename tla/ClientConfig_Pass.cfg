CONSTANTS
    Absent = Absent
    NotAnInt = NotAnInt
    Undefined = Undefined
    DefaultHostname = "localhost"
    Encodings <- MCEncodings
    Lower <- MCLower
    Securities <- MCSecurities
    Ports <- MCPorts
    HostNames <- MCHostNames
INIT Init
NEXT Next
INVARIANTS
    ConfigTypeOK
    SecurityAgrees
