SPECIFICATION FairSpec
CONSTANTS
    None = None
    NoFilter = NoFilter
    NoBlock = NoBlock
    g = g
    a1 = a1
    a2 = a2
    b1 = b1
    b2 = b2
    p = p
    s = s
    A = A
    H = H
    c1 = c1
    Clients = {c1}
    Addrs = {A, H}
    Txs = {p, s}
    Plain = {p}
    Genesis = g
    Blocks <- MCBlocks
    Parent <- MCParent
    Height <- MCHeight
    Anc <- MCAnc
    BlockTxs <- MCBlockTxs
    TxIns <- MCTxIns
    TxAddr <- MCTxAddr
    KeyHash <- MCKeyHash
    Commands <- MCCommands
    MaxInv = 1
    MaxCommands = 2
    MaxEvents = 2
    Loaded = {g}
CHECK_DEADLOCK FALSE

    
PROPERTIES
    RescanEnds
