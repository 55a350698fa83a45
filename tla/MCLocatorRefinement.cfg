CONSTANTS
    a1 = a1
    a2 = a2
    i1 = i1
    i2 = i2
    c1 = c1
    c2 = c2
    Addr <- MCAddr
    IPs <- MCIPs
    Calls <- MCCalls
    NodeTTL = 1
    CleanupPeriod = 2
    MaxLag = 1
    NoNode = NoNode
    Malformed = Malformed
SPECIFICATION Spec
VIEW MCView
PROPERTIES
    ImplementsDirectory
