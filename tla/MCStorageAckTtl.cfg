SPECIFICATION Spec
CONSTANTS
    a = a
    b = b
    h1 = h1
    h2 = h2
    NoContent = NoContent
    Free = Free
    Contents = {a}
    MaxVersion = 1
    AckOps <- FirstVersion
    ShareOps <- QueuedShare
    Handlers = {h1}
    PendingWindow = 0
    StallAge = 1
    Ttl = 1
    Ceiling = 2
    MaxRequests = 1
    MaxFaults = 0
    Companions = {TRUE}
PROPERTIES
    TtlSparesOwedCopy
