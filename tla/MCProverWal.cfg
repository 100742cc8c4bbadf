SPECIFICATION WalSpec
CONSTANTS
    MaxEntries = 5
    MaxTears = 2
INVARIANTS
    LossIsBounded
