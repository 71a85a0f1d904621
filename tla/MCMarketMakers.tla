--------------------------- MODULE MCMarketMakers ---------------------------
EXTENDS MarketMakers, TLC
=============================================================================
