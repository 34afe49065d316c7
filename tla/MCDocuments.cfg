CONSTANTS
    Components = {"identity", "lists", "promotion", "ratings", "editor", "feed"}
    Requests = {r1, r2}
    Writers = {r1, r2}
    Emails = {e1}
    Handles = {h1}
    MaxLinks = 1
    Targets = {w1}
    MaxItems = 3
    MaxVersion = 3
    Reporters = {u1, u2}
    MinReports = 3
    MinUnique = 2
    MaxReports = 4
    Raters = {p1, p2}
    Scores = {1, 5}
    MaxRatings = 3
    MaxSaves = 4
    Typed = {n, u}
    Picked = {s}
    Avatars = {a}
    Stripped = {s}
    Blank = b
    Words = {w, x}
    Inputs <- MCInputs
    Stored <- MCStored
    Rewritten = {u}
    Rough = {x}
    Proper = w
    MaxChanges = 2
    MaxSends = 2
    Txs = {t1, t2, t3}
    Concurrency = 1
    MaxListed = 2
    MaxErrors = 1
    MaxQueued = 1
    MaxBuffered = 2
SPECIFICATION DocumentsSpec
SYMMETRY MCSymmetry
INVARIANTS
    DocumentsTypeOK
    LateEditsBounded
    WalletKycJustified
    FollowedOnce
    CopiesKept
    DonationOverrun
    CounterNeverAhead
    PromotedDeserved
    AverageHeals
    
PROPERTY ListedOnce
CHECK_DEADLOCK FALSE
