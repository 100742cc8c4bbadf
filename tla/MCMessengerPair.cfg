SPECIFICATION BoundedWalksSpec
CONSTANTS
    m1 = m1
    m2 = m2
    p1 = p1
    Messages = {m1, m2}
    Peers = {p1}
    PeerOf <- OnePeer
    RequestOwned = {m2}
    Validated = {m1}
    Notified = {m1}
    Size <- UnitSize
    MaxPayloadBytes = 1
    BatchSize = 1
    Concurrency = 1
    StallThreshold = 2
    MaxLate = 0
    MaxLost = 0
    MaxRestarts = 1
INVARIANTS
    DurableSloOwned
PROPERTIES
    ImplementsOutbox
    RecoveryReturns
