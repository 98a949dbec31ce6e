SPECIFICATION Spec
CONSTANTS
    me1 = me1
    me1home = me1home
    me2 = me2
    b = b
    c = c
    if1 = if1
    if2 = if2
    NoIf = NoIf
    NoSend = NoSend
    NoAddr = NoAddr
    Addrs <- MCAddrs
    Bare <- MCBare
    Ifs = {if1}
    IfAddr <- MCIfAddr1
    RouteItems <- MCRoutesOne
    Sends = {s1}
    Targets = {b}
    Packets <- MCPacketsReply
    MaxReads = 1
    Faulty = {if1}
    CanDestroy = FALSE
INVARIANTS
    InterfaceStillThere
\* The calls and the packets are bounded: the node may come to rest.
CHECK_DEADLOCK FALSE
