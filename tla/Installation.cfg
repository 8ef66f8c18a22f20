\* Both platforms, routes and modes, a fresh machine and machines on which one part is
\* already there, names that resolve to local, mapped and several addresses.
SPECIFICATION Spec
CONSTANTS
    Platforms = {"linux", "windows"}
    Routes = {"administrator", "root"}
    Modes = {"create", "replace"}
    MaxReplaced = 1
    Local <- MCLocal
    Resolutions <- MCResolutions
    MaxAddresses = 1
    Found <- MCFound
INVARIANTS
    NeverDialsItself
    BudgetNeverShort
    EarlierEffectsAreRecorded
    ChangesNeedProof
    VerifiedIsWhole
CHECK_DEADLOCK FALSE
