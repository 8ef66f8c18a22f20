CONSTANTS
    Run = {r1, r2}
    Envelope <- MCEnvelope
    Epochs = {1, 2}
    NoRun = NoRun
SPECIFICATION MachineFairSpec
INVARIANTS AcceptedInOrder SpentSurvives
PROPERTY LockIsFreed
