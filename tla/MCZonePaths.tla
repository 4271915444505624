----------------------------- MODULE MCZonePaths -----------------------------
EXTENDS ZonePaths, TLC
CONSTANTS home, a, b, c
MCZones == {home, a, b, c}
Symmetry == Permutations({a, b, c})
=============================================================================
