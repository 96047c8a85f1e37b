SPECIFICATION FairSpec
CONSTANTS
    btc = btc
    ltc = ltc
    doge = doge
    Chains <- ThreeChains
    BTC = btc
    Home = ltc
    NCalls = 3
    Chain <- ThereAndBack
    Amount = 1
    Headroom = 1
    BridgeAmount = 3
    Abandonable <- First
INVARIANTS RailsNest OwnReservoir BelievedIsCovered QuietUnlessThrew
PROPERTIES CallsEnd
