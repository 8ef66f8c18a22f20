\* Two machines, both journeys, one run cut, one write that lands late.
SPECIFICATION FairSpec
CONSTANTS
    MachineList <- MCMachines
    Qualifications = {"loss", "compromise"}
    Granting = {"session"}
    MaxCuts = 1
    MaxFlight = 1
    MaxEpoch = 3
INVARIANTS
    AuthorityNeverLost
    OneReader
    SecuredIsExclusive
PROPERTIES
    RunSecures
CHECK_DEADLOCK FALSE
