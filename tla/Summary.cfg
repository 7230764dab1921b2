SPECIFICATION Spec
CONSTANTS
    Order <- DayAndMonth
    Settle <- DayAndMonthSettle
    DayLength = 3
    MaxDefer = 1
    MaxTickets = 2
    StartTime <- LeapDayStart
    MaxTime <- LeapDayEnd
    MaxFaults = 1
    NoSnapshot = NoSnapshot
CHECK_DEADLOCK FALSE
INVARIANTS
    TypeOK
    WatermarksMatchPosts
    PostsHonest
    NoPeriodSkipped
