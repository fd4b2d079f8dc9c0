SPECIFICATION MCSpec
CONSTANTS
    Peers = {"p1"}
    HostOf <- MCHostOf
    Whitelisted = {}
    Callers = {"c1"}
    Txs = {"t1"}
    MaxPeers = 1
    MsgRoom = 2
    BanThreshold = 3
    Transient <- MCTransient
    MaxMsgs = 2
    MaxCalls = 1
CHECK_DEADLOCK FALSE
INVARIANTS
    ServerSound
    AnswersSound
PROPERTY
    ServerGoesOn
