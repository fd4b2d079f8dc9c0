SPECIFICATION StorageSpec
CONSTANTS
    g = g
    a1 = a1
    a2 = a2
    a3 = a3
    b2 = b2
    b3 = b3
    b4 = b4
    c1 = c1
    c2 = c2
    c3 = c3
    c4 = c4
    NoBlock = NoBlock
    NoTip = NoTip
    Genesis = g
    Blocks <- MCBlocks
    Parent <- MCParent
    Height <- MCHeight
    Anc <- MCAnc
    Coins <- MCCoins
    Spends <- MCSpends
    Creates <- MCCreates
    UtxoAt <- MCUtxoAt
    PruneDepth = 2
    Concurrent = FALSE
CHECK_DEADLOCK FALSE
INVARIANTS
    ViewIsUtxo
    RowsExact
    FlushCoversPrune
    IndexesFollow
    AddrIndexExact
PROPERTIES
    ImplementsUtxoSet
    ComesUp
