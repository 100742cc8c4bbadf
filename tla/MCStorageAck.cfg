SPECIFICATION Spec
CONSTANTS
    a = a
    b = b
    h1 = h1
    h2 = h2
    NoContent = NoContent
    Free = Free
    Contents = {a, b}
    MaxVersion = 2
    AckOps <- TwoVersions
    ShareOps <- UpdateShare
    Handlers = {h1, h2}
    PendingWindow = 0
    StallAge = 1
    Ttl = 1
    Ceiling = 2
    MaxRequests = 2
    MaxFaults = 1
    Companions = {TRUE, FALSE}
SYMMETRY SameHandlers
CONSTRAINT Explored
INVARIANTS
    TypeOK
    OwedCopyIsKept
    DueCopyIsPromotable
