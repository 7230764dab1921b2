SPECIFICATION FairSpec
CONSTANTS
    d1 = d1
    d2 = d2
    d3 = d3
    o1 = o1
    o2 = o2
    c1 = c1
    c2 = c2
    First = First
    NoCursor = NoCursor
    Environments <- SomeEnvironments
    Delegators = {d1,d2,d3}
    Stake <- Stakes
    Listings <- SomeListings
    DisplayLimit = 2
    Orchs = {o1,o2}
    Todays <- Dates
    MaxAttempts = 3
    MaxStarts = 2
    MaxFaults = 1
CHECK_DEADLOCK FALSE
INVARIANTS
    TypeOK
    RepliesComplete
    ErrorsHaveCause
    WindowIsLastClosed
PROPERTIES
    EveryCommandEnds
    CommandsSpareCore
    Supervised
