SPECIFICATION Spec
CONSTANTS
    Bodies <- MCBodies
    MaxPackets = 3
    MaxWrites = 1
    NoLen = NoLen
    Garbage = {0, 1, 2, 3, 6}
INVARIANTS
    TypeOK
    DamagedOnce
    HandshakeSound
PROPERTIES
    ImplementsFifo
    ReaderEnds
\* The reader has ended, or the router refused the login.
CHECK_DEADLOCK FALSE
