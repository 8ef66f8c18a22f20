\* One machine found in a hundred and twenty ways, enrolled and undone in two runs.
CONSTANTS
    Subject = "m1"
    PinnedKey = "pinned"
    MaxRuns = 2
    Perimeters <- ThePerimeters
    Beginnings <- TheBeginnings
    Accounts <- TheAccounts
    OtherRules <- TheRules
    Reports <- TheReports
SPECIFICATION Spec
INVARIANTS
    StartedIsBounded
    UndoneIsHonest
CHECK_DEADLOCK FALSE
