SPECIFICATION Spec
CONSTANTS
    Values = {a, b}
    NoValue = NoValue
    MaxPush = 3
    MaxPop = 3
    MaxWait = 2
    MaxCancel = 2
INVARIANTS
    SleepersMeanEmpty
    NothingLost
    EachHandlerOnce
PROPERTIES
    ImplementsFifo
    Delivered
\* The users of the queue may stop calling it.
CHECK_DEADLOCK FALSE
