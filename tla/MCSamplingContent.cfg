SPECIFICATION FairSpec
CONSTANTS
    Durations <- OneDuration
    MaxBlock = 3
    MaxEpoch = 1
    MaxVersion = 1
    MaxSweeps = 0
    CooldownTicks = 1
    HasRepair = TRUE
    SlowProbe = TRUE
    LateReceipts = TRUE
    Crashes = TRUE
INVARIANTS
    SubmitsPinnedRoot
    OneProofPerPeriod
PROPERTIES
    LastPeriodIsProved
