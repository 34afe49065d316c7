CONSTANTS
    f1 = f1  lo = lo  mixed = mixed  other = other
    d1 = d1  d2 = d2  v1 = v1  p1 = p1  p2 = p2  i1 = i1
    Fundraisers = {f1}
    Ids = {lo, mixed, other}
    Lower <- MCLower
    Pays <- MCPays
    Matching <- MCMatching
    EntryOf <- MCOwnEntry
    Donors = {}
    Verifiers = {v1}
    Pollers = {p1}
    Inviters = {}
    DonorCap = 2
    MaxVersion = 0
    MaxAborts = 0
SPECIFICATION Spec
INVARIANT TransferCountedOnce
