SPECIFICATION FairSpec
CONSTANTS
    Steps <- const_Steps
    MaxTx = 5
    MaxRuns = 3
    MaxFaults = 1
    Blips = TRUE
    TornWrites = TRUE
    Keys = 3
    Batch = 1
    BaseKeys = 2
    Orders = 2
INVARIANTS OneInFlight OneContract DoneMeansSeeded OrdersWithinTarget
PROPERTIES ExecutesHitTheContract RunEnds
CHECK_DEADLOCK FALSE
