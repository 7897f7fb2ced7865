\* One login, one browser, nothing fails.
SPECIFICATION Spec
CONSTANTS
    Login = {l1}
    NoLogin = none
    UserCode = {c1}
    NoCode = nocode
    Account = {a1}
    Nobody = nobody
    Browser = {b1}
    Lifetime = 3
    Interval = 1
    MaxTime = 5
    MaxFaults = 0
    MaxReplays = 0
    Overlap = FALSE
INVARIANTS ApprovalKept
CHECK_DEADLOCK FALSE
