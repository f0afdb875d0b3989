--------------------------- MODULE MCThreadRunner ---------------------------
EXTENDS ThreadRunner
MCTurn == 1..2
=============================================================================
