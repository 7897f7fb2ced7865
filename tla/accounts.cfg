\* Two persons, two requests at a time, and one restart, failure or expiry.
SPECIFICATION Spec
CONSTANTS
    Person = {p, q}
    Event = {"e", "undated"}
    Implausible = {"undated"}
    Carried <- MCCarried
    Handler = {h1, h2}
    MaxTenants = 2
    MaxTokens = 3
    MaxBoots = 1
    MaxExpired = 1
    MaxFaults = 1
INVARIANTS OneAccountPerPerson RevokedStaysRevoked AnswerIsOwn
CHECK_DEADLOCK FALSE
SYMMETRY MCSymmetry
CONSTRAINT MCOneTrouble
