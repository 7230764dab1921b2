SPECIFICATION Spec
CONSTANTS
    u1 = u1
    u2 = u2
    o1 = o1
    o2 = o2
    d1 = d1
    Users = {u1,u2}
    Orchs = {o1,o2}
    Delegators = {d1}
    FirstPairs = {}
    Streams = {1,2}
    FetchLimit = 2
    FaultKinds = {"explorer","store","crash"}
    MaxEvents = 2
    MaxChurn = 1
    MaxFaults = 1
SYMMETRY Symmetry
CHECK_DEADLOCK FALSE
INVARIANTS
    TypeOK
    MarksMatchDms
    OneNewPerPair
