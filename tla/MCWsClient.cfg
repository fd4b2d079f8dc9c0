SPECIFICATION FairSpec
CONSTANTS
    None = None
    Clients = {c1}
    SendBuffer = 3
    Slots = {s1}
    MaxWebsockets = 1
    Messages <- MCMessages
    MaxEvents = 1
    MaxMessages = 2
CHECK_DEADLOCK FALSE
INVARIANTS
    NtfnsDelivered
    AuthRespected
PROPERTIES
    HandlersGoOn
