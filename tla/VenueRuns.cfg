SPECIFICATION FairSpec
CONSTANTS
    LegFiles = {2, 3, 5}
    MixedLegs = {3}
    Asks <- const_Asks
    Concurrency = 2
    Threshold = 2
    MaxPolls = 2
    MaxRunners = 2
    Rail <- const_Rail
    SweepDrives <- const_SweepDrives
    MaxDrivers = 2
    Nodes <- const_Nodes
    Byzantine = {"v3"}
    Leaders = {"v2"}
    Faults = 1
    MaxLapses = 1
INVARIANTS AbortIsEarned GreenRunIsGreen FaultsAreThePhases
PROPERTIES GreenDrillIsEarned NoBootOverASurvivor GreenDriveIsItsOwn DriveEnds
CHECK_DEADLOCK FALSE
