CONSTANTS
    Run = {r1}
    Request = {h1, h2}
    Epochs = {1}
    NoRun = NoRun
    MaxTerminal = 1
    MaxClock = 1
    MaxApprovals = 2
    Envelope <- MCEnvelope
SPECIFICATION Spec
SYMMETRY Symmetry
INVARIANTS LaunchIsRecorded OneLaunchAtATime EffectIsOwned
PROPERTY HistoryIsFinal
