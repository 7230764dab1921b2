SPECIFICATION FairSpec
CONSTANTS
    o1 = o1
    u1 = u1
    Orchs <- OneOrch
    Users = {u1}
    SubsOf <- OneUserSubs
    FirstPct = 1
    StepPct = 1
    DigestPct = 2
    MaxElapsed = 2
    KeepRounds = 1
    FirstCursor = 0
    NoCursor = NoCursor
    MaxRounds = 2
    MaxFaults = 1
CHECK_DEADLOCK FALSE
INVARIANTS
    TypeOK
    NothingToldTwice
PROPERTIES
    RungsNeverRegress
    ResolvedStaysQuiet
    LadderCatchesUp
    MissedRewardTold
