CONSTANTS
    f1 = f1  Sig = Sig  sig = sig
    v1 = v1  p1 = p1  p2 = p2
    Fundraisers = {f1}
    Ids = {Sig, sig}
    Lower <- MCLower
    Pays <- MCPays
    Matching <- MCPays
    EntryOf <- MCEntryOf
    Donors = {}
    Verifiers = {v1}
    Pollers = {p1, p2}
    Inviters = {}
    DonorCap = 2
    MaxVersion = 0
    MaxAborts = 1
SPECIFICATION FairSpec
PROPERTY ImplementsLedger
PROPERTY PolledTransferRecorded
