\* A server's tenant: a prunable window, failures, crashes and -recapture,
\* every event of a day appended before the day is compacted.
SPECIFICATION FairSpec
CONSTANTS
    Fact <- MCFact
    DayOf <- MCDayOf
    TurnOf <- MCTurnOf
    Content <- MCContent
    MaxDay = 3
    MaxFaults = 2
    Prune = TRUE
    Recapture = TRUE
    LateArrivals = FALSE
    ShortWrites = FALSE
INVARIANTS TypeOK ServesIngested TurnsFileMeansWholePartition RollupRowsWhole
PROPERTIES LedgerSpec WindowDrains
