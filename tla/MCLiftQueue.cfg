SPECIFICATION Spec
CONSTANTS
    created = created
    updated = updated
    w1 = w1
    w2 = w2
    Assets = {created, updated}
    Updates = {updated}
    Wallets = {w1, w2}
    MaxJobs <- OneEach
    MaxSigns = 2
    MaxRetries = 1
    MaxFaults = 1
    MaxOther = 1
    MaxOverrides = 1
    SlowRelease = FALSE
CHECK_DEADLOCK FALSE
INVARIANTS
    TypeOK
    OpenTxOwnsWallet
    EvidenceKept
    SenderIsFenced
PROPERTIES
    RemovedStaysRemoved
