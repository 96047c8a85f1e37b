SPECIFICATION Spec
CONSTANTS
    Lanes = {1, 2}
    Hand = {2}
    Files = {"A", "B"}
    Rosters <- const_Rosters
    Trees <- const_Trees
    Ports = 2
    MaxKills = 1
CHECK_DEADLOCK FALSE
INVARIANTS
    SuiteKeepsItsDatabase
