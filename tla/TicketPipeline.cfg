SPECIFICATION FairSpec
CONSTANTS
    g1 = g1
    g2 = g2
    NumTickets = 3
    PageLimit = 2
    FetchLimit = 2
    Channels = {"c1"}
    MaxAttempts = 3
    AiGateways = {g1}
    NoAddress = NoAddress
    Ts <- MCTs
    To <- NullTo
    From <- MCFrom
    TxOf <- MCTx
    MaxFaults = 1
CHECK_DEADLOCK FALSE
INVARIANTS
    TypeOK
    NothingSkipped
    DuplicatesNeedLapse
    PostedWithKnownPrice
PROPERTIES
    SentRowsFrozen
    DeliversAsOutbox
    EventuallySent
