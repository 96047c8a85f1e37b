SPECIFICATION FairSpec
CONSTANTS
    p1 = p1
    p2 = p2
    Pubkeys <- const_Pubkeys
    Entries <- const_Entries
    Seeded <- const_Seeded
    MaxTestOps = 2
    MaxOps = 6
    MaxHeight = 3
    Delay = 1
    SettleBlocks = 2
    Release = TRUE
    Strict = TRUE
    MochaTimeouts = TRUE
INVARIANT StandingStakeIsOwed
INVARIANT SurvivorsAreReported
INVARIANT AtMostOneRetry
PROPERTY RunEnds
