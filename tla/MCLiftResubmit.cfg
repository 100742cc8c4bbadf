SPECIFICATION FairSpec
CONSTANTS
    created = created
    updated = updated
    w1 = w1
    w2 = w2
    Assets = {created}
    Updates = {}
    Wallets = {w1, w2}
    MaxJobs <- ResubmitCreated
    MaxSigns = 2
    MaxRetries = 1
    MaxFaults = 2
    MaxOther = 1
    MaxOverrides = 0
    SlowRelease = TRUE
CHECK_DEADLOCK FALSE
INVARIANTS
    PublishedOnce
    FinalizedIsLanded
PROPERTIES
    DoubtEnds
