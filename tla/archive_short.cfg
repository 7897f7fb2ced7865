\* A server whose sweeps do not fail, but whose object store may keep a turns
\* file short without an error.
SPECIFICATION FairSpec
CONSTANTS
    Fact <- MCFact
    DayOf <- MCDayOf
    TurnOf <- MCTurnOf
    Content <- MCContent
    MaxDay = 3
    MaxFaults = 0
    Prune = TRUE
    Recapture = TRUE
    LateArrivals = FALSE
    ShortWrites = TRUE
INVARIANTS NoFactLost KnownEmptyIsEmpty
PROPERTIES IndexCatchesUp
