---------------------------- MODULE MCConcurrency ----------------------------
EXTENDS Concurrency
CONSTANTS r1, r2, k1, k2

MCRooms == {r1, r2}
MCTokensOf == [r \in MCRooms |-> IF r = r1 THEN {k1} ELSE {k2}]
=============================================================================
