SPECIFICATION Spec
CONSTANTS
    Order <- DayOnly
    Settle <- DayOnlySettle
    DayLength = 2
    MaxDefer = 4
    MaxTickets = 1
    StartTime <- DayOnlyStart
    MaxTime <- DayOnlyEnd
    MaxFaults = 0
    NoSnapshot = NoSnapshot
CHECK_DEADLOCK FALSE
INVARIANTS
    NoPeriodSkipped
