\* A laptop: one transcript, replaced once, and a process that is killed or
\* shut down.
SPECIFICATION FairSpec
CONSTANTS
    File = {f1}
    MaxLines = 2
    MaxGen = 1
    EventsOf <- MCEventsOf
    MaxStops = 1
    MaxFailures = 1
    Recapture = TRUE
INVARIANTS NothingSkipped ReplayedOnlyAfterFailure CheckpointWhole CountedOnce
PROPERTIES EverythingIngested
