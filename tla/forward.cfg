\* A machine shipping a Postgres window, which returns the range it is asked for
\* and releases the days that are compacted, through two faults, to either of
\* two servers.
\* Shipping may stop for good at a rejected credential.
SPECIFICATION MCFairSpec
CONSTANTS
    Event <- MCEvent
    MaxTime = 8
    Time <- MCTime
    Content <- MCContent
    Implausible <- MCImplausible
    Oversized <- MCOversized
    Server = {"s1", "s2"}
    NoServer = "none"
    Overlap = 1
    RangeStart <- Exactly
    BatchSize = 2
    ServerLimit = 1
    DayLength = 4
    Prunes = TRUE
    InOrder = TRUE
    MaxFaults = 2
INVARIANTS TypeOK NothingSteppedOver RecordedNotResent
PROPERTIES EventuallyDelivered
CHECK_DEADLOCK FALSE
