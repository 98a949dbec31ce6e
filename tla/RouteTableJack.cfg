SPECIFICATION Spec
CONSTANTS
    b = b
    c = c
    Addrs <- MCAddrs
    Patterns <- MCPatterns
    Interfaces = {1}
    Metrics = {10, 100}
    MaxRoutes = 2
    FreshNames = TRUE
INVARIANT
    LoginIsRouted
CHECK_DEADLOCK FALSE
