SPECIFICATION Spec
CONSTANTS
    Durations <- ShortAndLong
    MaxBlock = 5
    MaxEpoch = 2
    MaxVersion = 0
    MaxSweeps = 1
    CooldownTicks = 0
    HasRepair = FALSE
    SlowProbe = FALSE
    LateReceipts = FALSE
    Crashes = TRUE
INVARIANTS
    TypeOK
    SkipIsSound
    WalMatchesChain
    OneProofPerPeriod
