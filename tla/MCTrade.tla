------------------------------- MODULE MCTrade -------------------------------
EXTENDS Trade
==============================================================================
