\* Two host threads call services, publish and register at run time, concurrently with the I/O thread handling responses, provider updates, connection opens and publications.
CONSTANTS
    h1 = h1  h2 = h2  Io = Io  Nobody = Nobody  NoId = NoId
    HostThreads <- MCHostThreads
    MaxCalls = 2
    MaxPublish = 1
    MaxRegister = 2
SPECIFICATION Spec
SYMMETRY MCSymmetry
INVARIANT
    UniqueCallIds
