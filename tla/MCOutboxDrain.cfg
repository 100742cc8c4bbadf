SPECIFICATION OutboxFairSpec
CONSTANTS
    m1 = m1
    m2 = m2
    m3 = m3
    Messages = {m1, m2, m3}
    RequestOwned = {}
    Size <- Uneven
    MaxPayloadBytes = 2
    BatchSize = 2
    Concurrency = 1
    StallThreshold = 1
INVARIANTS
    RetryOwnsRowAndDrain
PROPERTIES
    FrontRowIsRead
    DueRowIsRetried
    StopTerminates
