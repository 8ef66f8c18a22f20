CONSTANTS
    Run = {r1, r2}
    Request = {h1}
    Epochs = {1}
    NoRun = NoRun
    MaxTerminal = 1
    MaxClock = 1
    MaxApprovals = 2
    Envelope <- MCEnvelope
SPECIFICATION FairSpec
INVARIANT AttestedIsSpent
PROPERTY LaunchIsBounded
