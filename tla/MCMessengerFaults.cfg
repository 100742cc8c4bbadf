SPECIFICATION ReachableSpec
CONSTANTS
    m1 = m1
    m2 = m2
    p1 = p1
    Messages = {m1}
    Peers = {p1}
    PeerOf <- OnePeer
    RequestOwned = {}
    Validated = {m1}
    Notified = {m1}
    Size <- UnitSize
    MaxPayloadBytes = 1
    BatchSize = 1
    Concurrency = 1
    StallThreshold = 2
    MaxLate = 2
    MaxLost = 1
    MaxRestarts = 2
INVARIANTS
    SlotHeldWhileWaiting
    EffectsAccounted
    DeliveredWasHandled
    DeliveredLeavesOutbox
PROPERTIES
    NoResendAfterDelivery
    ImplementsDelivery
    QueuedIsDelivered
