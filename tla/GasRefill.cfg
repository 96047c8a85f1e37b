SPECIFICATION FairSpec
CONSTANTS
    btc = btc
    ltc = ltc
    doge = doge
    Chains <- ThreeChains
    BTC = btc
    Home = ltc
    NCalls = 3
    Chain <- OneChain
    Amount = 1
    Headroom = 1
    BridgeAmount = 3
    Abandonable <- None
INVARIANTS BelievedIsHeld
