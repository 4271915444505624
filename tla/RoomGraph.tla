----------------------------- MODULE RoomGraph -----------------------------
(***************************************************************************)
(* The rows one room keeps in PostgreSQL and what every REST route and     *)
(* WebSocket operation of web/server does to them when it runs alone: the  *)
(* sequential meaning of the handlers.  RoomInterleaved takes the same     *)
(* handlers apart at their awaits.                                         *)
(*                                                                         *)
(* Row data that no property here tells apart (coordinates, features,      *)
(* portal handles, rotation, colours, timestamps) is left out; a handler   *)
(* that only refuses a request because of such data is modelled without    *)
(* that refusal, so the model may accept more requests than the server.    *)
(*                                                                         *)
(* The definitions OrphansAnywhere, RememberOnly, NoneAdopted,             *)
(* CountsChains, SameHome and AllMembers are the handlers with a slip in   *)
(* them.  No action uses them: each is put in the place of the definition  *)
(* after it to see a property fail.                                        *)
(***************************************************************************)
EXTENDS Naturals, Sequences, FiniteSets

CONSTANTS
    Zone,            \* the zone catalogue (ZONE_BY_ID)
    Roads,           \* zones of type roads or roadsHideout
    ChainId,         \* nanoid() values of room_chains.id
    ConnId,          \* randomUUID() values of connections.id
    None,            \* SQL NULL; also "no such row" for a room or a chain
    Absent,          \* a zone without a room_node_positions row
    Imports,         \* the bodies PUT /import may carry
    MaxChainNumber   \* bound on room_chains.chain_number

\* What the validated body of PUT /import holds, with the primary chain's
\* source already moved to the front (orderedSources).
ImportBody == [sources : Seq(Zone), links : SUBSET (Zone \X Zone),
               placed : SUBSET Zone, history : SUBSET Zone]

ASSUME ConstantsOK ==
    /\ Roads \subseteq Zone
    /\ None \notin Zone \cup ChainId
    /\ Absent \notin ChainId \cup {None}
    /\ MaxChainNumber \in Nat

ASSUME ImportsOK ==
    /\ Imports \subseteq ImportBody
    /\ \A p \in Imports : p.sources # <<>>

VARIABLES
    home,       \* rooms.home_zone_id, None while the rooms row does not exist
    migrated,   \* rooms.chain_migrated
    source,     \* room_chains.source_zone_id, None for an id without a row
    number,     \* room_chains.chain_number, 0 for an id without a row
    chainOf,    \* room_node_positions.chain_id, Absent without a row
    conns,      \* the connections rows
    memory      \* the zones with a room_node_memory row

vars == <<home, migrated, source, number, chainOf, conns, memory>>

Connection == [id : ConnId, from : Zone, to : Zone, chain : ChainId \cup {None}]

TypeOK ==
    /\ home \in Zone \cup {None}
    /\ migrated \in BOOLEAN
    /\ source \in [ChainId -> Zone \cup {None}]
    /\ number \in [ChainId -> Nat]
    /\ chainOf \in [Zone -> ChainId \cup {None, Absent}]
    /\ conns \subseteq Connection
    /\ memory \subseteq Zone

-----------------------------------------------------------------------------
Live == {c \in ChainId : source[c] # None}

IsSource(z) == \E c \in Live : source[c] = z

\* Zones that must keep their node: the home zone and every chain's source.
Protected == {z \in Zone : z = home \/ IsSource(z)}

Members(c) == {z \in Zone : chainOf[z] = c}

Touches(k, S) == k.from \in S \/ k.to \in S

Ends(K) == {z \in Zone : \E k \in K : Touches(k, {z})}

FreshConn(i) == \A k \in conns : k.id # i

OrphansAnywhere(K) == {z \in Ends(K) : \A k \in conns \ K : ~Touches(k, {z})}

\* The zones left without a connection once K is deleted, home and chain
\* sources excepted.
Orphans(K) ==
    {z \in Ends(K) \ Protected : \A k \in conns \ K : ~Touches(k, {z})}

RememberOnly(S) == S \cap Roads

\* The history once the roads zones of S have been recorded in it.
Remember(S) == memory \cup (S \cap Roads)

Unplace(S) == [z \in Zone |-> IF z \in S THEN Absent ELSE chainOf[z]]

-----------------------------------------------------------------------------
Empty ==
    /\ home = None
    /\ migrated = FALSE
    /\ source = [c \in ChainId |-> None]
    /\ number = [c \in ChainId |-> 0]
    /\ chainOf = [z \in Zone |-> Absent]
    /\ conns = {}
    /\ memory = {}

Init == Empty

\* A room from before multi-chain support: no chains, every chain_id NULL.
LegacyInit ==
    /\ home \in Zone
    /\ migrated = FALSE
    /\ source = [c \in ChainId |-> None]
    /\ number = [c \in ChainId |-> 0]
    /\ chainOf \in [Zone -> {None, Absent}]
    /\ chainOf[home] = None
    /\ conns \in SUBSET [id : ConnId, from : Zone, to : Zone, chain : {None}]
    /\ \A k, l \in conns : k.id = l.id => k = l
    /\ \A k \in conns : k.from # k.to /\ \A z \in {k.from, k.to} : chainOf[z] = None
    /\ memory = {z \in Roads : chainOf[z] = None}

-----------------------------------------------------------------------------
(* Rooms *)

\* POST /api/rooms: the room, its primary chain, the home node and its memory.
CreateRoom(z, c) ==
    /\ home = None
    /\ home' = z
    /\ migrated' = TRUE
    /\ source' = [source EXCEPT ![c] = z]
    /\ number' = [number EXCEPT ![c] = 1]
    /\ chainOf' = [chainOf EXCEPT ![z] = c]
    /\ memory' = {z}
    /\ UNCHANGED conns

\* DELETE /api/rooms/:id: the four deletes; room_chains goes with the room.
DeleteRoom ==
    /\ home # None
    /\ home' = None
    /\ migrated' = FALSE
    /\ source' = [c \in ChainId |-> None]
    /\ number' = [c \in ChainId |-> 0]
    /\ chainOf' = [z \in Zone |-> Absent]
    /\ conns' = {}
    /\ memory' = {}

NoneAdopted(c) == conns

\* The connections once the migration has tagged those without a chain.
Adopted(c) ==
    {[k EXCEPT !.chain = IF k.chain = None THEN c ELSE k.chain] : k \in conns}

\* The lazy migration of the WebSocket handshake.
Migrate(c) ==
    /\ home # None
    /\ ~migrated
    /\ source[c] = None
    /\ source' = [source EXCEPT ![c] = home]
    /\ number' = [number EXCEPT ![c] = 1]
    /\ conns' = Adopted(c)
    /\ chainOf' = [z \in Zone |-> IF chainOf[z] = None THEN c ELSE chainOf[z]]
    /\ migrated' = TRUE
    /\ UNCHANGED <<home, memory>>

\* DELETE /api/rooms/:id/connections.  The repair loop visits the chains in no
\* particular order, so a zone that is the source of two ends up with either.
Reset ==
    /\ home # None
    /\ conns' = {}
    /\ \E owner \in [Zone -> ChainId] :
          /\ \A z \in Zone : IsSource(z) => source[owner[z]] = z
          /\ chainOf' = [z \in Zone |-> IF IsSource(z) THEN owner[z]
                                        ELSE IF z = home THEN chainOf[z]
                                        ELSE Absent]
    /\ UNCHANGED <<home, migrated, source, number, memory>>

-----------------------------------------------------------------------------
(* Chains *)

CountsChains(n) == n = Cardinality(Live)

\* MAX(chain_number) over the room, 0 when it has no chains.
HighestNumber(n) ==
    /\ n \in {0} \cup {number[d] : d \in ChainId}
    /\ \A d \in ChainId : number[d] <= n

\* POST /api/rooms/:id/chains: a zone that carries no chain_id becomes the
\* source of a new chain numbered MAX + 1.
AddChain(z, c) ==
    /\ home # None
    /\ chainOf[z] \notin ChainId
    /\ source[c] = None
    /\ \E n \in 0..(MaxChainNumber - 1) :
          HighestNumber(n) /\ number' = [number EXCEPT ![c] = n + 1]
    /\ source' = [source EXCEPT ![c] = z]
    /\ chainOf' = [chainOf EXCEPT ![z] = c]
    /\ memory' = IF chainOf[z] = Absent THEN memory \cup {z} ELSE memory
    /\ UNCHANGED <<home, migrated, conns>>

\* The zones POST .../relocate wipes: the chain's own nodes, whatever its
\* connections touch, and its old source; never the new source.
RelocateZones(c, z) ==
    (Members(c) \cup Ends({k \in conns : k.chain = c}) \cup {source[c]}) \ {z}

SameHome(c, z) == home

\* Relocating the primary chain moves the home zone with it.
NewHome(c, z) == IF source[c] = home THEN z ELSE home

\* POST /api/rooms/:id/chains/:chainId/relocate.  The new source's node is a
\* plain INSERT: when z already has a row the primary key refuses it and the
\* transaction rolls back, which leaves every row as it was.
Relocate(c, z) ==
    /\ home # None
    /\ c \in Live
    /\ chainOf[z] = Absent
    /\ conns' = {k \in conns : k.chain # c /\ ~Touches(k, RelocateZones(c, z))}
    /\ chainOf' = [Unplace(RelocateZones(c, z)) EXCEPT ![z] = c]
    /\ memory' = memory \cup {z}
    /\ source' = [source EXCEPT ![c] = z]
    /\ home' = NewHome(c, z)
    /\ UNCHANGED <<migrated, number>>

\* The CTEs of DELETE /api/rooms/:id/chains/:chainId, all over one snapshot.
Severed(c) ==
    {z \in Members(c) : z = home \/ \E d \in Live \ {c} : source[d] = z}

AllMembers(c) == Members(c)

ChainZones(c) == Members(c) \ Severed(c)

ChainConns(c) == {k \in conns : k.chain = c \/ Touches(k, ChainZones(c))}

RemovedNodes(c) ==
    {z \in ChainZones(c) \cup {source[c]} \cup Ends(ChainConns(c)) :
        /\ chainOf[z] \in {c, None}
        /\ z \notin Severed(c)
        /\ z # home
        /\ \A d \in Live \ {c} : source[d] # z}

\* The statement itself; its last CTE drops the chain row, whose foreign keys
\* cascade over the rows the first ones did not sever.
DeleteChainRows(c) ==
    /\ conns' = conns \ ChainConns(c)
    /\ chainOf' = [z \in Zone |-> IF z \in RemovedNodes(c) THEN Absent
                                  ELSE IF z \in Severed(c) THEN None
                                  ELSE IF chainOf[z] = c THEN Absent
                                  ELSE chainOf[z]]
    /\ source' = [source EXCEPT ![c] = None]
    /\ number' = [number EXCEPT ![c] = 0]
    /\ UNCHANGED <<home, migrated, memory>>

DeleteChain(c) ==
    /\ home # None
    /\ c \in Live
    /\ source[c] # home
    /\ DeleteChainRows(c)

-----------------------------------------------------------------------------
(* Nodes *)

\* update_node_positions: the whole table is replaced by the snapshot S a
\* client holds; a zone that had no row gets one with a NULL chain_id.
UpdateNodePositions(S) ==
    /\ home # None
    /\ chainOf' = [z \in Zone |-> IF z \notin S THEN Absent
                                  ELSE IF chainOf[z] = Absent THEN None
                                  ELSE chainOf[z]]
    /\ memory' = Remember(S)
    /\ UNCHANGED <<home, migrated, source, number, conns>>

\* rotate_zone: of the rows kept here only the memory row may appear.
RotateZone(z) ==
    /\ home # None
    /\ chainOf[z] # Absent
    /\ memory' = Remember({z})
    /\ UNCHANGED <<home, migrated, source, number, chainOf, conns>>

\* DELETE /api/rooms/:id/nodes/:zoneId.
DeleteNode(z) ==
    /\ home # None
    /\ z # home
    /\ ~IsSource(z)
    /\ chainOf' = Unplace({z})
    /\ UNCHANGED <<home, migrated, source, number, conns, memory>>

-----------------------------------------------------------------------------
(* Connections *)

\* The source must belong to a chain; the target must not belong to another.
MayConnect(f, t) ==
    /\ home # None
    /\ f # t
    /\ chainOf[f] \in ChainId
    /\ chainOf[t] \in {Absent, None, chainOf[f]}

\* POST /api/rooms/:id/connections; place says whether the body carries a
\* targetPosition, in which case the target's node is inserted or refreshed.
CreateConnection(f, t, place, i) ==
    /\ MayConnect(f, t)
    /\ FreshConn(i)
    /\ chainOf' = IF place THEN [chainOf EXCEPT ![t] = chainOf[f]] ELSE chainOf
    /\ memory' = IF place THEN Remember({t}) ELSE memory
    /\ conns' = conns \cup {[id |-> i, from |-> f, to |-> t, chain |-> chainOf[f]]}
    /\ UNCHANGED <<home, migrated, source, number>>

\* create_connection over the WebSocket also refuses a pair already linked.
WsCreateConnection(f, t, place, i) ==
    /\ \A k \in conns : {k.from, k.to} # {f, t}
    /\ CreateConnection(f, t, place, i)

\* POST .../connections/bulk-delete; DELETE .../connections/:connId is the
\* case of one id.
BulkDelete(I) ==
    /\ \E k \in conns : k.id \in I
    /\ conns' = {k \in conns : k.id \notin I}
    /\ chainOf' = Unplace(Orphans({k \in conns : k.id \in I}))
    /\ UNCHANGED <<home, migrated, source, number, memory>>

DeleteConnection(i) == BulkDelete({i})

\* The expiry job deletes rows past their grace period and leaves the nodes.
ExpireConnections(K) ==
    /\ K # {}
    /\ conns' = conns \ K
    /\ UNCHANGED <<home, migrated, source, number, chainOf, memory>>

-----------------------------------------------------------------------------
(* Map history *)

\* DELETE /api/rooms/:id/memory and .../memory/:zoneId.
WipeMemory ==
    /\ home # None
    /\ memory' = {}
    /\ UNCHANGED <<home, migrated, source, number, chainOf, conns>>

DeleteMemory(z) ==
    /\ memory' = memory \ {z}
    /\ UNCHANGED <<home, migrated, source, number, chainOf, conns>>

-----------------------------------------------------------------------------
(* Import *)

\* The zones reachable from z over the imported connections, either way.
Component(links, z) ==
    {y \in Zone : \A S \in SUBSET Zone :
        (z \in S /\ \A l \in links : l[1] \in S <=> l[2] \in S) => y \in S}

Claims(p, i, z) == z \in Component(p.links, p.sources[i])

\* claim maps a zone to the position of the source whose search reaches it
\* first, and to the primary chain when none does.
Partitions(p, claim) ==
    \A z \in Zone :
        \/ /\ Claims(p, claim[z], z)
           /\ \A j \in 1..(claim[z] - 1) : ~Claims(p, j, z)
        \/ /\ claim[z] = 1
           /\ \A j \in 1..Len(p.sources) : ~Claims(p, j, z)

\* slot numbers the new chains 1..n in the order of the sources.
Numbers(p, slot) ==
    /\ \A c, d \in ChainId : slot[c] = slot[d] /\ slot[c] # 0 => c = d
    /\ \A i \in 1..Len(p.sources) : \E c \in ChainId : slot[c] = i

ImportedConnections(p, id, owner) ==
    {[id |-> id[l], from |-> l[1], to |-> l[2], chain |-> owner[l[1]]] : l \in p.links}

\* PUT /api/rooms/:id/import: one transaction replaces every row of the room.
Import(p) ==
    /\ home # None
    /\ \E claim \in [Zone -> 1..Len(p.sources)] :
       /\ Partitions(p, claim)
       /\ \E slot \in [ChainId -> 0..Len(p.sources)] :
          /\ Numbers(p, slot)
          /\ number' = slot
          /\ source' = [c \in ChainId |-> IF slot[c] = 0 THEN None ELSE p.sources[slot[c]]]
          /\ \E owner \in [Zone -> ChainId], id \in [p.links -> ConnId] :
             /\ \A z \in Zone : slot[owner[z]] = claim[z]
             /\ \A l, m \in p.links : id[l] = id[m] => l = m
             /\ chainOf' = [z \in Zone |-> IF z \in p.placed THEN owner[z] ELSE Absent]
             /\ conns' = ImportedConnections(p, id, owner)
    /\ home' = p.sources[1]
    /\ memory' = p.history \cap Roads
    /\ migrated' = TRUE

-----------------------------------------------------------------------------
RoomStep ==
    \/ \E z \in Zone, c \in ChainId : CreateRoom(z, c)
    \/ DeleteRoom
    \/ \E c \in ChainId : Migrate(c)
    \/ Reset
    \/ \E p \in Imports : Import(p)

ChainStep ==
    \/ \E z \in Zone, c \in ChainId : AddChain(z, c) \/ Relocate(c, z)
    \/ \E c \in ChainId : DeleteChain(c)

NodeStep ==
    \/ \E S \in SUBSET Zone : UpdateNodePositions(S)
    \/ \E z \in Zone : RotateZone(z) \/ DeleteNode(z)

ConnectionStep ==
    \/ \E f, t \in Zone, place \in BOOLEAN, i \in ConnId :
          CreateConnection(f, t, place, i) \/ WsCreateConnection(f, t, place, i)
    \/ \E I \in SUBSET ConnId : BulkDelete(I)
    \/ \E i \in ConnId : DeleteConnection(i)
    \/ \E K \in SUBSET conns : ExpireConnections(K)

MemoryStep ==
    \/ WipeMemory
    \/ \E z \in Zone : DeleteMemory(z)

Next == RoomStep \/ ChainStep \/ NodeStep \/ ConnectionStep \/ MemoryStep

Spec == Init /\ [][Next]_vars

\* What a server that has just been upgraded may find.
UpgradedSpec == (Init \/ LegacyInit) /\ [][Next]_vars

-----------------------------------------------------------------------------
(* Safety *)

\* A room that has been migrated (every room created today is) always has a
\* primary chain, one rooted at its home zone: relocating or deleting chains
\* and importing never lose it.  DELETE .../chains/:chainId and isPrimary in
\* relocate both recognise the primary chain by this equality.
HomeHasChain == migrated => \E c \in Live : source[c] = home

\* Two chains of a room never share a chain_number, although numbers are MAX + 1
\* and chains come and go.
NumbersDistinct == \A c, d \in Live : number[c] = number[d] => c = d

\* In a room from before multi-chain support only the number 1, which the lazy
\* migration hands out without looking, can be shared.
OnlyFirstShared ==
    \A c, d \in Live : number[c] = number[d] => c = d \/ number[c] = 1

\* No node and no connection names a chain that is gone: deleting a chain
\* removes or severs everything that carried its id.
RowsNameLiveChains ==
    /\ \A z \in Zone : chainOf[z] \in ChainId => chainOf[z] \in Live
    /\ \A k \in conns : k.chain # None => k.chain \in Live

\* Once a room is migrated no connection is left without a chain, so the sweep
\* of a chain by chain_id can find it.
ConnectionsHaveChains == migrated => \A k \in conns : k.chain # None

\* A room that does not exist keeps no rows behind for the next room of the
\* same name.
DeletedRoomKeepsNothing == home = None => Empty

Removal ==
    \/ Reset
    \/ \E c \in ChainId : DeleteChain(c)
    \/ \E z \in Zone : DeleteNode(z)
    \/ \E I \in SUBSET ConnId : BulkDelete(I)
    \/ \E K \in SUBSET conns : ExpireConnections(K)

\* No removal the server works out by itself takes away the node of the home
\* zone or of a chain that survives, not even where the rows are so tangled
\* that the node carries the id of the chain being deleted.
RemovalSparesSources ==
    [][(\E z \in Protected \cap Protected' : chainOf[z] # Absent /\ chainOf'[z] = Absent)
        => ~Removal]_vars

\* Deleting a chain leaves the connections of the other chains alone, those
\* included that touch a home or source node which wrongly carries its id.
DeleteChainSparesOthers ==
    [][\A k \in conns \ conns', c \in Live :
          k.chain # c /\ ~Touches(k, Members(c) \ (Protected \ {source[c]}))
              => ~DeleteChain(c)]_vars

\* Map history only goes away when a user asks for it: through the memory
\* endpoints, an import or the deletion of the room, and never as a side
\* effect of editing the map.
HistoryOutlivesEdits ==
    [][memory \subseteq memory' \/ WipeMemory \/ DeleteRoom
        \/ (\E z \in Zone : DeleteMemory(z)) \/ (\E p \in Imports : Import(p))]_vars

=============================================================================
