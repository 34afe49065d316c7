CONSTANTS
    w1 = w1  u1 = u1  g1 = g1  g2 = g2  r1 = r1  m1 = m1
    Wallets = {w1}
    Users = {u1}
    Flaggers = {g1, g2}
    Reporters = {}
    Moderators = {m1}
    Limit = 1
    MaxFlags = 3
    MaxBirths = 2

SPECIFICATION Spec
INVARIANT DismissedStaysGone
