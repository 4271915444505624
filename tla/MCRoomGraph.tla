---------------------------- MODULE MCRoomGraph ----------------------------
(* Small instances of RoomGraph for TLC. *)
EXTENDS RoomGraph, TLC

CONSTANTS z1, z2, z3

\* Over two zones: chains that do not touch, chains that do, and nodes no
\* source reaches.
SmallImports ==
    { [sources |-> <<z2, z1>>, links |-> {}, placed |-> {z1, z2}, history |-> {z1, z2}],
      [sources |-> <<z1, z2>>, links |-> {<<z2, z1>>}, placed |-> {z1}, history |-> {}],
      [sources |-> <<z1>>, links |-> {}, placed |-> {z1, z2}, history |-> {z2}] }

Ids == Permutations(ChainId) \cup Permutations(ConnId)
=============================================================================
