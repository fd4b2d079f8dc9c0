SPECIFICATION Spec
CONSTANTS
    g = g
    a1 = a1
    a2 = a2
    b1 = b1
    b2 = b2
    b3 = b3
    x2 = x2
    x3 = x3
    NoThread = NoThread
    NoBlock = NoBlock
    Genesis = g
    Blocks <- MCBlocks
    Parent <- MCParent
    Height <- MCHeight
    Anc <- MCAnc
    Work <- MCHeight
    Bad = {x2}
    Unfit = {}
    Threads = {t1, t2}
    HeadersFirst = FALSE
    MaxCalls = 0
    MaxCrashes = 0
INVARIANTS
    AppliedIsChain
