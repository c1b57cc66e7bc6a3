\* The five unlocked tables, with two calls, one publish, two run-time registrations and the I/O thread: a publish races a run-time advertise first.
CONSTANTS
    h1 = h1  h2 = h2  Io = Io  Nobody = Nobody  NoId = NoId
    HostThreads <- MCHostThreads
    MaxCalls = 2
    MaxPublish = 1
    MaxRegister = 2
SPECIFICATION Spec
SYMMETRY MCSymmetry
INVARIANT
    NoTableRace
