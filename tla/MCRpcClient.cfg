SPECIFICATION FairSpec
CONSTANTS
    None = None
    r1 = r1
    r2 = r2
    Reqs = {r1, r2}
    Method <- MCMethod
    Modes = {"ws", "once", "post", "batch"}
    MaxConns = 2
    MaxSends = 1
    Tries = 2
CHECK_DEADLOCK FALSE
INVARIANTS
    ResponsesTracked
PROPERTIES
    ComesToRest
