SPECIFICATION FairSpec
CONSTANTS
    g = g
    a1 = a1
    b1 = b1
    b2 = b2
    x2 = x2
    x3 = x3
    y3 = y3
    y4 = y4
    u2 = u2
    NoThread = NoThread
    NoBlock = NoBlock
    Genesis = g
    Blocks <- MCBlocks
    Parent <- MCParent
    Height <- MCHeight
    Anc <- MCAnc
    Work <- MCWork
    Bad = {x2}
    Unfit = {u2}
    Threads = {t1}
    HeadersFirst = FALSE
    MaxCalls = 0
    MaxCrashes = 0
INVARIANTS
    MostWork
    InvalidMarksSound
PROPERTIES
    CallsReturn
