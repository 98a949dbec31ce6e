SPECIFICATION Spec
CONSTANTS
    N = 3
    Life = 2
    MaxTime = 4
    MaxKeys = 2
INVARIANTS
    TypeOK
    FindsNewest
PROPERTY
    PurgeKeepsValid
    PurgeMissesOnlyNext
\* A purge of the only entry does not return.
CHECK_DEADLOCK FALSE
