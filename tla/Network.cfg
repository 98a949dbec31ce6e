SPECIFICATION Spec
CONSTANTS
    Nodes <- MCNodes
    Cert <- MCCert
    KeySize <- MCKeySize
    Pad = 1
    Routes <- MCRoutes
    Plans <- MCPlans
    Ttl = 3
    MaxAsks = 2
    MaxFaults = 2
    Breaking <- MCBreaking
    Restarting = {"b"}
    NoKey = NoKey
    NoNode = NoNode
    NoSend = NoSend
    NoText = NoText
INVARIANTS
    TypeOK
    DeliveredIntact
    SentOnlyToCertified
    SentIsSomewhere
PROPERTIES
    PacketsDie
\* The sends are bounded: the network comes to rest.
CHECK_DEADLOCK FALSE
