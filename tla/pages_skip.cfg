\* The same sessions and pages, against the claim that pages skip nothing.
SPECIFICATION Spec
CONSTANTS
    Session = {1, 2, 3}
    Histories <- MCHistories
    Arrivals <- MCArrivals
    Swept <- MCSwept
    Wishes <- MCWishes
    TicksPerMilli = 2
    DayLength = 4
    LastDay = 3
    From = 1
    To = 15
    Limit = 1
    MaxRows = 5
INVARIANT NothingMissed
CHECK_DEADLOCK FALSE
