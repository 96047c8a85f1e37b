SPECIFICATION FairSpec
CONSTANTS
    a = a
    b = b
    None = None
    Addresses <- TwoAddresses
    NCalls = 3
    Addr <- TwoSenders
    Simple <- SecondPays
    MaxAttempts = 2
    Funds = 1
    MaxEvictions = 1
    Abandonable <- FirstOnly
INVARIANTS OneSpendPerCall OwnCoins VerifiedCacheIsSpendable
PROPERTIES CallsEnd ImplementsOneAction
