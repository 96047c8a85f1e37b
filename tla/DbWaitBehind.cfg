SPECIFICATION Spec
CONSTANTS
    TimeMax = 6
    MinForExtension = 5
    MaxExtensions = 1
    LagBlocks = 0
    ProbeInterval = 10
    ProbeMin = 1
    WriteIdleFloor = 2
    ProbeCap = 2
    Pause = 1
    ConnectAttempts = 2
    ConnectBudget = 2
    ConnectPause = 1
    MaxAcquire = 1
    MaxQuery = 1
    MaxHeight = 3
    MaxWrites = 2
    Faults <- NoFaults
INVARIANTS NeverGivesUpBehind
