------------------------------ MODULE MCUpkeep ------------------------------
EXTENDS Upkeep
CONSTANTS r1, r2
=============================================================================
