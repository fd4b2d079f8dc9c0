SPECIFICATION FairSpec
CONSTANTS
    a = a
    a2 = a2
    b = b
    c = c
    d = d
    k1 = k1
    k2 = k2
    coin = coin
    Root = Root
    Txs <- MCTxs
    Tx <- MCTx
    Coins <- MCCoins
    AddrOf <- MCAddrOf
    Blocks <- MCBlocks
    Parent <- MCParent
    BlockTxs <- MCBlockTxs
    Tags = {p1}
    MaxOrphanTxs = 2
    MaxReplacementEvictions = 3
    MinRelayTxFee = 1
    FreeTxRelayLimit = 1000
    FreeAreaSize = 5000
    AcceptNonStd = TRUE
    RejectReplacement = FALSE
    DisableRelayPriority = FALSE
INVARIANTS
    PoolSound
PROPERTIES
    ReplacementPays
    Settles
