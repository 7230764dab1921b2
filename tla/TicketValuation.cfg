SPECIFICATION Spec
CONSTANTS
    NumTickets = 2
    PageLimit = 2
    FetchLimit = 2
    Channels = {c1}
    g1 = g1
    g2 = g2
    MaxAttempts = 3
    AiGateways = {g1}
    NoAddress = NoAddress
    Ts <- PairTs
    To <- PairTo
    From <- PairFrom
    TxOf <- PairOneTx
    MaxFaults = 0
CHECK_DEADLOCK FALSE
INVARIANTS
    ValuationIsOwn
