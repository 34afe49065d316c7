CONSTANTS
    f1 = f1  lo = lo  mixed = mixed  other = other
    d1 = d1  d2 = d2  v1 = v1  p1 = p1  p2 = p2  i1 = i1
    Fundraisers = {f1}
    Ids = {lo, mixed, other}
    Lower <- MCLower
    Pays <- MCPays
    Matching <- MCMatching
    EntryOf <- MCSameEntry
    Donors = {d1, d2}
    Verifiers = {v1}
    Pollers = {}
    Inviters = {i1}
    DonorCap = 2
    MaxVersion = 1
    MaxAborts = 1
SYMMETRY MCSymmetry
SPECIFICATION Spec
INVARIANTS
    TypeOK
    RaisedNeverOverstated
    TaxExact
    RecentMatchesRaised
    ChainExactWithoutForms
PROPERTY FormCreditKept
