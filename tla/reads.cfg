\* A laptop, whose window is never released, with one failure or crash.
SPECIFICATION ReadSpec
CONSTANTS
    Fact <- MCFact
    DayOf <- MCDayOf
    TurnOf <- MCTurnOf
    Content <- MCContent
    MaxDay = 3
    MaxFaults = 1
    Prune = FALSE
    Recapture = FALSE
    LateArrivals = FALSE
    ShortWrites = FALSE
    Reader = {r1}
    Kind = {"turns", "daily", "project", "detail", "aggregate"}
INVARIANTS QueryComplete CachedRowsWhole
CONSTRAINT MCAfterFailure
ACTION_CONSTRAINTS MCOwnStepsFirst MCFailsEarly
