CONSTANTS
    w1 = w1  w2 = w2
    Last = 2
    Workers = {w1, w2}
    MaxAttempts = 3
    BatchSize = 1
    MaxFaults = 1
SPECIFICATION FairSpec
INVARIANTS
    TypeOK
    SentWasReceived
    RetryBudget
    GivenUpWhenExhausted
PROPERTY RetriesEnd
