SPECIFICATION FairSpec
CONSTANTS
    u1 = u1
    u2 = u2
    o1 = o1
    i1 = i1
    i2 = i2
    Users = {u1,u2}
    Orchs = {o1}
    Commands = {i1,i2}
    HistoryLimit = 3
    FirstChanges = 1
    MaxChanges = 2
    MaxLeaves = 1
    MaxFaults = 1
CHECK_DEADLOCK FALSE
INVARIANTS
    TypeOK
    ToldOnce
PROPERTIES
    TrackedChangeTold
