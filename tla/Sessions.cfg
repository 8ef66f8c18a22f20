\* Two sessions, of either kind, over a clock in which the second may open before
\* or after the first ended; two plan pairs.
SPECIFICATION FairSpec
CONSTANTS
    MaxRequests = 2
    MaxTime = 3
    Lifetime = 1
    CleanupGrace = 1
    AuthorityTime = 2
    MaxPairs = 2
    Targets = {1}
INVARIANTS
    OneHelperAlive
    VerifiedIsProved
PROPERTIES
    SignedWasConfirmed
    HelpersEnd
CHECK_DEADLOCK FALSE
