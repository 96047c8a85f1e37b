------------------------------ MODULE MCGasRail ------------------------------
(* Small instances of GasRail: the order of the calls' chains.             *)
EXTENDS GasRail

CONSTANTS btc, ltc, doge

ThreeChains == {btc, ltc, doge}
\* a suite on litecoin whose second call is for dogecoin
ThereAndBack == <<ltc, doge, ltc>>
\* a suite on litecoin that runs its reservoir dry
OneChain == <<ltc, ltc, ltc>>
First == {1}
None  == {}
=============================================================================
