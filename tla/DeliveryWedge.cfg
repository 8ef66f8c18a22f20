CONSTANTS
    Instant = {1}
    MaxRecords = 2
    MaxSequence = 3
    MaxLate = 1
SPECIFICATION FairSpec
PROPERTY QueueDrains
