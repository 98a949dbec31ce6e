SPECIFICATION Spec
CONSTANTS
    Threads = {t1, t2}
    RecvThread = t1
    MaxCalls = 3
    MaxSpurious = 1
    NoCall = NoCall
PROPERTIES
    WindowReceives
\* The calls are bounded and may block for ever.
CHECK_DEADLOCK FALSE
