SPECIFICATION FairSpec
CONSTANTS
    Endpoints = 2
    Secrets = {"nodePass", "dbPass"}
    Services <- const_Services
    MaxReady = 1
    MaxTests = 2
    MaxMempool = 1
    MaxLag = 1
    MaxPolls = 2
    MaxOutages = 1
    MaxOps = 2
CHECK_DEADLOCK FALSE
INVARIANTS
    HealthyAnswerWins
    NoSentinelAuthenticates
    NoTestOnADirtyStack
PROPERTIES
    ControlsTookEffect
    RunEnds
