SPECIFICATION Spec
CONSTANTS
    b = b
    c = c
    Addrs <- MCAddrs
    Patterns <- MCPatterns
    Interfaces = {1, 2, 3}
    Metrics = {10, 100}
    MaxRoutes = 4
    FreshNames = FALSE
INVARIANTS
    TypeOK
    SelectsCheapest
    LoginIsRouted
PROPERTY
    ImplementsRouting
\* All interfaces may have ended.
CHECK_DEADLOCK FALSE
