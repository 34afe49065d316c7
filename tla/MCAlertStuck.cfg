CONSTANTS
    w1 = w1  w2 = w2
    Last = 1
    Workers = {w1}
    MaxAttempts = 3
    BatchSize = 1
    MaxFaults = 1
SPECIFICATION FairSpec
PROPERTY PendingIsRetried
