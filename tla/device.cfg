\* Two logins and two browser tabs, a lost connection or restart, and a poll
\* that is repeated.
SPECIFICATION Spec
CONSTANTS
    Login = {l1, l2}
    NoLogin = none
    UserCode = {c1, c2}
    NoCode = nocode
    Account = {a1}
    Nobody = nobody
    Browser = {b1, b2}
    Lifetime = 1
    Interval = 1
    MaxTime = 3
    MaxFaults = 1
    MaxReplays = 1
    Overlap = FALSE
SYMMETRY Symmetry
INVARIANTS EnrolledAsApproved OneTokenPerLogin MapsAgree
CHECK_DEADLOCK FALSE
