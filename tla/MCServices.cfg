CONSTANTS
    Flaggers = {f1}
    Viewers = {v1}
    Scanners = {s1, s2}
    Threshold = 2
    MaxFlags = 2
    MaxChanges = 1
    MaxFaults = 1
    Handlers = {c1, c2}
    Bases = {40, 80}
    Penalties = {0, 10}
    Deltas = {0, 35}
    AlertScore = 70
    MaxDeliveries = 3
    Lines = 4
    Malformed = {2}
    Direct = {3}
    Named = {4}
    Loose = {1}
    BatchSize = 2
    Attempts = 2
    Callers = {a, b}
    MaxExpiries = 2
    MaxTokenFaults = 1
    Tabs = {t1, t2}
    Clients = {c1, c2}
    MaxFailures = 3
    Retries = 1
    MaxOutages = 2
    Window = 2
    Limit = 2
    MaxBreaks = 1
SPECIFICATION ServicesSpec
INVARIANTS ServicesTypeOK AppliedOnce AlertedOnce HighScoreAlerted CheckpointSound
PROPERTIES RunEnds BlacklistTakesEffect ScanConverges TokensRecover LoginGetsThrough
           ConnectsAgain CallsGetThrough WindowEnds
CHECK_DEADLOCK FALSE
