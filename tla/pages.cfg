\* Three sessions over four days, pages of one session.
SPECIFICATION Spec
CONSTANTS
    Session = {1, 2, 3}
    Histories <- MCHistories
    Arrivals <- MCArrivals
    Swept <- MCSwept
    Wishes <- MCWishes
    TicksPerMilli = 2
    DayLength = 4
    LastDay = 3
    From = 1
    To = 15
    Limit = 1
    MaxRows = 5
INVARIANTS RowsWhole ListedOnce OnlyEnclosingMissed RankedTiles
PROPERTIES ListingEnds
CHECK_DEADLOCK FALSE
