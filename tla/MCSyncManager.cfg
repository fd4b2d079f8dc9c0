SPECIFICATION FairSpec
CONSTANTS
    a = a
    b = b
    q = q
    t = t
    None = None
    Full = {a}
    Limited = {b}
    Silent = {q}
    Witness = {a, b, q}
    Txs = {t}
    MaxHeight = 2
    StartHeight = 1
    Recent = 1
    Batch = 1
    Window = 1
    MinInFlight = 2
    MaxInv = 2
    MaxFaults = 1
CHECK_DEADLOCK FALSE
INVARIANTS
    RequestsTracked
PROPERTIES
    FollowsOrStuck
