------------------------- MODULE MCRoomInterleaved -------------------------
EXTENDS RoomInterleaved, TLC

CONSTANTS z1, z2, z3, c1, c2, c3, k1, k2

\* What a room holds, chains being a function from ids to source zones.
RoomWith(h, mig, chains, nodes, links) ==
    [home |-> h, migrated |-> mig,
     source |-> chains @@ [c \in ChainId |-> None],
     number |-> [c \in ChainId |->
                    IF c \notin DOMAIN chains THEN 0 ELSE IF chains[c] = h THEN 1 ELSE 2],
     chainOf |-> nodes @@ [z \in Zone |-> Absent],
     conns |-> links,
     memory |-> DOMAIN nodes]

\* A primary chain with a connection; next to it a second chain, or a node of
\* no chain; and a room from before there were chains.
SmallRooms ==
    { RoomWith(z1, TRUE, c1 :> z1, z1 :> c1 @@ z2 :> c1,
               {[id |-> k1, from |-> z1, to |-> z2, chain |-> c1]}),
      RoomWith(z1, TRUE, c1 :> z1 @@ c2 :> z3, z1 :> c1 @@ z3 :> c2, {}),
      RoomWith(z1, TRUE, c1 :> z1, z1 :> c1 @@ z2 :> None, {}),
      RoomWith(z1, FALSE, [c \in {} |-> z1], z1 :> None @@ z2 :> None,
               {[id |-> k1, from |-> z1, to |-> z2, chain |-> None]}) }

SomeSaves == {{z1}, {z1, z2}, Zone}

Requests == Permutations(Request)

OneImport ==
    {[sources |-> <<z2, z1>>, links |-> {<<z2, z3>>}, placed |-> Zone, history |-> {z1}]}
=============================================================================
