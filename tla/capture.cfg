\* A proxied call and another in a transcript, over midnight.
SPECIFICATION Spec
CONSTANTS
    None = none
    Id <- MCId
    Model <- MCModel
    Call = {a, b}
    Proxied = {a}
    Tailed = {b}
    Alias = alias
    Served = served
    MaxCapture = 3
    MaxDay = 2
    MaxFaults = 1
    MaxReplays = 1
INVARIANTS TypeOK EndedOnce TurnTellsExchange OrderIndependent ReplayHarmless
CHECK_DEADLOCK FALSE
