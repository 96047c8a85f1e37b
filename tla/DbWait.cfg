SPECIFICATION FairSpec
CONSTANTS
    TimeMax = 3
    MinForExtension = 3
    MaxExtensions = 1
    LagBlocks = 0
    ProbeInterval = 10
    ProbeMin = 1
    WriteIdleFloor = 2
    ProbeCap = 1
    Pause = 1
    ConnectAttempts = 2
    ConnectBudget = 2
    ConnectPause = 1
    MaxAcquire = 1
    MaxQuery = 0
    MaxHeight = 2
    MaxWrites = 2
    Faults <- AllFaults
INVARIANTS WaitIsBounded VisibleRowIsFound
PROPERTIES ExtensionsNeedEvidence WaitEnds
