SPECIFICATION FairSpec
CONSTANTS
    u1 = u1
    u2 = u2
    o1 = o1
    o2 = o2
    reward = reward
    cut = cut
    i1 = i1
    i2 = i2
    Users = {u1,u2}
    Fickle = {u1}
    Orchs = {o1,o2}
    Pollers = {reward,cut}
    Events <- StreamEvents
    EventOrch <- OrchOfEvent
    Interactions = {i1,i2}
    Cap = 1
    Threshold = 1
    Batch = 2
    MaxCommands = 2
    MaxToggles = 1
    MaxFaults = 1
CHECK_DEADLOCK FALSE
INVARIANTS
    TypeOK
    MarksMatchDms
    CapOverrunBounded
PROPERTIES
    EventuallySent
