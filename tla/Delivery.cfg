CONSTANTS
    Instant = {1, 2}
    MaxRecords = 2
    MaxSequence = 4
    MaxLate = 1
SPECIFICATION FairSpec
INVARIANTS NoSilentLoss RelayAccounting ImmutableBytes
PROPERTIES ImplementsLedger DrainsUnlessStuck
