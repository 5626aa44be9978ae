--------------------------- MODULE MC_ServiceServer ---------------------------
EXTENDS ServiceServer

CONSTANTS a, b

MCTwoCallers == {a, b}
MCNoneMismatched == {}
=============================================================================
