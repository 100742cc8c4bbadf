SPECIFICATION FairSpec
CONSTANTS
    whole = whole
    legacy = legacy
    asset = asset
    w1 = w1
    w2 = w2
    Jobs = {whole, legacy}
    Lanes = {asset}
    LaneOf <- OneLane
    Whole = {whole}
    Workers = {w1, w2}
    MaxRetries = 2
    MaxFaults = 2
    MaxRecovers = 1
    LateInline = FALSE
CHECK_DEADLOCK FALSE
INVARIANTS
    TypeOK
    OneOwnerPerAssertion
    OpenPromoteIsNotReplayed
    SucceededIsShared
    RetiredHasNoEffect
PROPERTIES
    ObligationKept
    QueueDrains
