-------------------------- MODULE RoomInterleaved --------------------------
(***************************************************************************)
(* The handlers of RoomGraph taken apart at their awaits.  A handler reads *)
(* and writes the room with one statement after the other, and another     *)
(* request may run between any two: what it has read is kept in its job    *)
(* and may be stale when it is used.                                       *)
(*                                                                         *)
(* A statement is one step, and so is a transaction from its first write   *)
(* to its commit: nobody sees or changes its rows in between.  What it     *)
(* read before, also inside the transaction, is a step of its own, since   *)
(* READ COMMITTED protects no read.  SELECT ... FOR UPDATE on the rooms    *)
(* row keeps out every statement that inserts a row of the room or updates *)
(* its rooms row, and the foreign keys refuse a row whose room or chain is *)
(* gone: the request ends with an error and its earlier statements stay.   *)
(*                                                                         *)
(* ForgetsRoom, ForgetsChain and SweepsUnlocked are statements without a   *)
(* foreign key or a lock; no action uses them.                             *)
(***************************************************************************)
EXTENDS RoomGraph

CONSTANTS
    Request,      \* requests that can be in progress at the same time
    Rooms,        \* the rooms the server may find when it starts
    Saves,        \* the sets of zones a client may save
    MaxServed     \* bound on the number of requests served

\* A room as the foreign keys of the schema leave it.
RoomState == [home : Zone, migrated : BOOLEAN, source : [ChainId -> Zone \cup {None}],
              number : [ChainId -> Nat], chainOf : [Zone -> ChainId \cup {None, Absent}],
              conns : SUBSET Connection, memory : SUBSET Zone]

ASSUME RoomsOK ==
    \A s \in Rooms :
        /\ s \in RoomState
        /\ \A z \in Zone : s.chainOf[z] \in ChainId => s.source[s.chainOf[z]] # None
        /\ \A k \in s.conns : k.chain # None => s.source[k.chain] # None

ASSUME SavesOK == Saves \subseteq SUBSET Zone

VARIABLES
    job,       \* what each request is about to do and what it has read
    used,      \* the chain and connection ids handed out so far
    served     \* the number of requests begun

allVars == <<vars, job, used, served>>

Idle == [at |-> "idle"]

\* What a request of each kind keeps between its statements.
CreateJob == [at : {"create: read target", "create: place", "create: remember", "create: connect"},
              from : Zone, to : Zone, place : BOOLEAN, chain : ChainId]
DisconnectJob == [at : {"disconnect: delete", "disconnect: find orphans", "disconnect: unplace"},
                  conn : Connection, zones : SUBSET Zone]
NodeJob == [at : {"node: read sources", "node: unplace"}, zone : Zone]
ChainJob == [at : {"chain: read number", "chain: insert"},
             zone : Zone, isNew : BOOLEAN, number : Nat]
RelocateJob == [at : {"relocate: read chain", "relocate: read node", "relocate: read zones",
                      "relocate: move"},
                chain : ChainId, to : Zone, home : Zone, source : Zone \cup {None},
                zones : SUBSET (Zone \cup {None})]
UnchainJob == [at : {"unchain: read chain", "unchain: delete"},
               chain : ChainId, home : Zone, source : Zone \cup {None}]
SaveJob == [at : {"save"}, zones : SUBSET Zone, chains : [Zone -> ChainId \cup {None, Absent}]]
RememberJob == [at : {"save: remember"}, zones : SUBSET Zone]
MigrateJob == [at : {"migrate"}, home : Zone]

Job == {Idle} \cup CreateJob \cup DisconnectJob \cup NodeJob \cup ChainJob \cup RelocateJob
           \cup UnchainJob \cup SaveJob \cup RememberJob \cup MigrateJob

InterleavedTypeOK == TypeOK /\ job \in [Request -> Job]

Becomes(r, j) == job' = [job EXCEPT ![r] = j]

At(r, place) == job[r].at = place

Goes(r, place) == Becomes(r, [job[r] EXCEPT !.at = place])

Begins(r, j) ==
    /\ At(r, "idle")
    /\ served < MaxServed
    /\ served' = served + 1
    /\ Becomes(r, j)
    /\ UNCHANGED <<vars, used>>

\* The step only reads and the request goes on.
Reads(r, place) == Goes(r, place) /\ UNCHANGED <<vars, used, served>>

\* The request is done, is refused or fails.
Stops(r) == Becomes(r, Idle) /\ UNCHANGED <<vars, used, served>>

\* Nobody holds the rooms row FOR UPDATE between two statements.
RoomUnlocked == \A r \in Request : ~At(r, "save")

\* A row that names the room can be inserted.
RoomExists == home # None

ChainExists(c) == source[c] # None

-----------------------------------------------------------------------------
(* POST .../connections and create_connection *)

CreateReadsFrom(r, f, t, place) ==
    /\ RoomExists
    /\ f # t
    /\ chainOf[f] \in ChainId
    /\ Begins(r, [at |-> "create: read target", from |-> f, to |-> t,
                  place |-> place, chain |-> chainOf[f]])

CreateReadsTo(r) ==
    /\ At(r, "create: read target")
    /\ IF chainOf[job[r].to] \in {Absent, None, job[r].chain}
       THEN Reads(r, IF job[r].place THEN "create: place" ELSE "create: connect")
       ELSE Stops(r)

\* The upsert of the target's node.  A node that is there keeps its chain_id.
Placed(j) ==
    [chainOf EXCEPT ![j.to] = IF @ \in {Absent, None} THEN j.chain ELSE @]

CreatePlaces(r) ==
    LET j == job[r] IN
    /\ At(r, "create: place")
    /\ chainOf[j.to] = Absent => RoomUnlocked
    /\ IF (chainOf[j.to] = Absent => RoomExists)
          /\ (chainOf[j.to] \in {Absent, None} => ChainExists(j.chain))
       THEN /\ chainOf' = Placed(j)
            /\ Goes(r, "create: remember")
            /\ UNCHANGED <<home, migrated, source, number, conns, memory, used, served>>
       ELSE Stops(r)

ForgetsRoom(j) ==
    /\ memory' = Remember({j.to})
    /\ UNCHANGED <<home, migrated, source, number, chainOf, conns>>

\* The memory upsert, a statement of its own that another room of the same
\* name would satisfy as well.
Remembered(j) ==
    /\ RoomExists
    /\ memory' = Remember({j.to})
    /\ UNCHANGED <<home, migrated, source, number, chainOf, conns>>

CreateRemembers(r) ==
    /\ At(r, "create: remember")
    /\ job[r].to \in Roads \ memory => RoomUnlocked
    /\ \/ Remembered(job[r]) /\ Goes(r, "create: connect") /\ UNCHANGED <<used, served>>
       \/ ~RoomExists /\ Stops(r)

ForgetsChain(j, i) ==
    conns' = conns \cup {[id |-> i, from |-> j.from, to |-> j.to, chain |-> j.chain]}

\* The foreign keys of the connections row.
Connected(j, i) ==
    /\ RoomExists
    /\ ChainExists(j.chain)
    /\ conns' = conns \cup {[id |-> i, from |-> j.from, to |-> j.to, chain |-> j.chain]}

CreateConnects(r, i) ==
    /\ At(r, "create: connect")
    /\ RoomUnlocked
    /\ i \in ConnId \ used
    /\ \/ /\ Connected(job[r], i)
          /\ Becomes(r, Idle)
          /\ used' = used \cup {i}
          /\ UNCHANGED <<home, migrated, source, number, chainOf, memory, served>>
       \/ ~(RoomExists /\ ChainExists(job[r].chain)) /\ Stops(r)

-----------------------------------------------------------------------------
(* DELETE .../connections/:connId *)

DisconnectReads(r, k) ==
    /\ k \in conns
    /\ Begins(r, [at |-> "disconnect: delete", conn |-> k, zones |-> {}])

DisconnectDeletes(r) ==
    /\ At(r, "disconnect: delete")
    /\ conns' = {k \in conns : k.id # job[r].conn.id}
    /\ Goes(r, "disconnect: find orphans")
    /\ UNCHANGED <<home, migrated, source, number, chainOf, memory, used, served>>

DisconnectFindsOrphans(r) ==
    LET orphans == {z \in {job[r].conn.from, job[r].conn.to} \ Protected :
                       \A k \in conns : ~Touches(k, {z})}
    IN
    /\ At(r, "disconnect: find orphans")
    /\ Becomes(r, IF orphans = {} THEN Idle
                  ELSE [job[r] EXCEPT !.at = "disconnect: unplace", !.zones = orphans])
    /\ UNCHANGED <<vars, used, served>>

DisconnectUnplaces(r) ==
    /\ At(r, "disconnect: unplace")
    /\ chainOf' = Unplace(job[r].zones)
    /\ Becomes(r, Idle)
    /\ UNCHANGED <<home, migrated, source, number, conns, memory, used, served>>

-----------------------------------------------------------------------------
(* DELETE .../nodes/:zoneId *)

NodeReadsHome(r, z) ==
    /\ RoomExists
    /\ z # home
    /\ Begins(r, [at |-> "node: read sources", zone |-> z])

NodeReadsSources(r) ==
    /\ At(r, "node: read sources")
    /\ IF IsSource(job[r].zone) THEN Stops(r) ELSE Reads(r, "node: unplace")

NodeUnplaces(r) ==
    /\ At(r, "node: unplace")
    /\ chainOf' = Unplace({job[r].zone})
    /\ Becomes(r, Idle)
    /\ UNCHANGED <<home, migrated, source, number, conns, memory, used, served>>

-----------------------------------------------------------------------------
(* POST .../chains *)

ChainReadsNode(r, z) ==
    /\ RoomExists
    /\ chainOf[z] \notin ChainId
    /\ Begins(r, [at |-> "chain: read number", zone |-> z,
                  isNew |-> chainOf[z] = Absent, number |-> 0])

ChainReadsNumber(r) ==
    /\ At(r, "chain: read number")
    /\ \E n \in 0..(MaxChainNumber - 1) :
          /\ HighestNumber(n)
          /\ Becomes(r, [job[r] EXCEPT !.at = "chain: insert", !.number = n + 1])
    /\ UNCHANGED <<vars, used, served>>

\* A node that was there is tagged by an UPDATE, which finds it with whatever
\* chain it has by now, or not at all.
Tagged(j, c) ==
    IF j.isNew \/ chainOf[j.zone] # Absent THEN [chainOf EXCEPT ![j.zone] = c] ELSE chainOf

ChainInserts(r, c) ==
    LET j == job[r] IN
    /\ At(r, "chain: insert")
    /\ RoomUnlocked
    /\ c \in ChainId \ used
    /\ IF RoomExists /\ (j.isNew => chainOf[j.zone] = Absent)
       THEN /\ source' = [source EXCEPT ![c] = j.zone]
            /\ number' = [number EXCEPT ![c] = j.number]
            /\ chainOf' = Tagged(j, c)
            /\ memory' = IF j.isNew THEN memory \cup {j.zone} ELSE memory
            /\ used' = used \cup {c}
            /\ Becomes(r, Idle)
            /\ UNCHANGED <<home, migrated, conns, served>>
       ELSE Stops(r)

-----------------------------------------------------------------------------
(* POST .../chains/:chainId/relocate *)

RelocateReadsHome(r, c, z) ==
    /\ RoomExists
    /\ c \in used
    /\ Begins(r, [at |-> "relocate: read chain", chain |-> c, to |-> z, home |-> home,
                  source |-> None, zones |-> {}])

RelocateReadsChain(r) ==
    /\ At(r, "relocate: read chain")
    /\ IF ChainExists(job[r].chain)
       THEN /\ Becomes(r, [job[r] EXCEPT !.at = "relocate: read node",
                                         !.source = source[job[r].chain]])
            /\ UNCHANGED <<vars, used, served>>
       ELSE Stops(r)

RelocateReadsNode(r) ==
    /\ At(r, "relocate: read node")
    /\ IF chainOf[job[r].to] \in {Absent, None, job[r].chain}
       THEN Reads(r, "relocate: read zones") ELSE Stops(r)

\* RelocateZones with the source the handler has read; the transaction that
\* reads them has locked nothing yet.
MovedZones(j) ==
    (Members(j.chain) \cup Ends({k \in conns : k.chain = j.chain}) \cup {j.source}) \ {j.to}

RelocateReadsZones(r) ==
    /\ At(r, "relocate: read zones")
    /\ Becomes(r, [job[r] EXCEPT !.at = "relocate: move", !.zones = MovedZones(job[r])])
    /\ UNCHANGED <<vars, used, served>>

RelocateMoves(r) ==
    LET j == job[r] IN
    /\ At(r, "relocate: move")
    /\ RoomUnlocked
    /\ IF RoomExists /\ ChainExists(j.chain) /\ chainOf[j.to] = Absent
       THEN /\ conns' = {k \in conns : k.chain # j.chain /\ ~Touches(k, j.zones)}
            /\ chainOf' = [Unplace(j.zones) EXCEPT ![j.to] = j.chain]
            /\ memory' = memory \cup {j.to}
            /\ source' = [source EXCEPT ![j.chain] = j.to]
            /\ home' = IF j.source = j.home THEN j.to ELSE home
            /\ Becomes(r, Idle)
            /\ UNCHANGED <<migrated, number, used, served>>
       ELSE Stops(r)

-----------------------------------------------------------------------------
(* DELETE .../chains/:chainId *)

UnchainReadsHome(r, c) ==
    /\ RoomExists
    /\ c \in used
    /\ Begins(r, [at |-> "unchain: read chain", chain |-> c, home |-> home, source |-> None])

UnchainReadsChain(r) ==
    LET c == job[r].chain IN
    /\ At(r, "unchain: read chain")
    /\ IF ChainExists(c) /\ source[c] # job[r].home
       THEN /\ Becomes(r, [job[r] EXCEPT !.at = "unchain: delete", !.source = source[c]])
            /\ UNCHANGED <<vars, used, served>>
       ELSE Stops(r)

\* RemovedNodes with the source the handler has read.
SweptNodes(c, s) ==
    {z \in ChainZones(c) \cup {s} \cup Ends(ChainConns(c)) :
        /\ chainOf[z] \in {c, None}
        /\ z \notin Severed(c)
        /\ z # home
        /\ \A d \in Live \ {c} : source[d] # z}

SweepRows(c, s) ==
    /\ conns' = conns \ ChainConns(c)
    /\ chainOf' = [z \in Zone |-> IF z \in SweptNodes(c, s) THEN Absent
                                  ELSE IF z \in Severed(c) THEN None
                                  ELSE IF chainOf[z] = c THEN Absent
                                  ELSE chainOf[z]]
    /\ source' = [source EXCEPT ![c] = None]
    /\ number' = [number EXCEPT ![c] = 0]
    /\ UNCHANGED <<home, migrated, memory>>

SweepsUnlocked(c, s) == SweepRows(c, s)

\* The statement; it bumps updated_at, so it waits for the rooms row.
Sweeps(c, s) == RoomUnlocked /\ SweepRows(c, s)

UnchainDeletes(r) ==
    /\ At(r, "unchain: delete")
    /\ Sweeps(job[r].chain, job[r].source)
    /\ Becomes(r, Idle)
    /\ UNCHANGED <<used, served>>

-----------------------------------------------------------------------------
(* update_node_positions *)

\* The transaction has locked the room and read the chain_id of every node.
SaveLocks(r, S) ==
    /\ RoomExists
    /\ RoomUnlocked
    /\ Begins(r, [at |-> "save", zones |-> S, chains |-> chainOf])

\* Delete every node, insert those of the snapshot, commit.
SaveReplaces(r) ==
    LET j == job[r]
        kept == [z \in Zone |-> IF z \notin j.zones THEN Absent
                                ELSE IF j.chains[z] = Absent THEN None ELSE j.chains[z]]
    IN
    /\ At(r, "save")
    /\ IF \A z \in Zone : kept[z] \in ChainId => ChainExists(kept[z])
       THEN /\ chainOf' = kept
            /\ Becomes(r, [at |-> "save: remember", zones |-> j.zones \cap Roads])
            /\ UNCHANGED <<home, migrated, source, number, conns, memory, used, served>>
       ELSE Stops(r)

\* One memory upsert after the other, through the pool.
SaveRemembers(r) ==
    /\ At(r, "save: remember")
    /\ IF job[r].zones = {} THEN Stops(r)
       ELSE \E z \in job[r].zones :
            /\ z \notin memory => RoomUnlocked
            /\ IF RoomExists
               THEN /\ memory' = Remember({z})
                    /\ Becomes(r, [job[r] EXCEPT !.zones = @ \ {z}])
                    /\ UNCHANGED <<home, migrated, source, number, chainOf, conns, used, served>>
               ELSE Stops(r)

-----------------------------------------------------------------------------
(* The lazy migration of the handshake *)

MigrateReads(r) ==
    /\ RoomExists
    /\ ~migrated
    /\ Begins(r, [at |-> "migrate", home |-> home])

MigrateWrites(r, c) ==
    /\ At(r, "migrate")
    /\ RoomUnlocked
    /\ c \in ChainId \ used
    /\ IF RoomExists
       THEN /\ source' = [source EXCEPT ![c] = job[r].home]
            /\ number' = [number EXCEPT ![c] = 1]
            /\ conns' = Adopted(c)
            /\ chainOf' = [z \in Zone |-> IF chainOf[z] = None THEN c ELSE chainOf[z]]
            /\ migrated' = TRUE
            /\ used' = used \cup {c}
            /\ Becomes(r, Idle)
            /\ UNCHANGED <<home, memory, served>>
       ELSE Stops(r)

-----------------------------------------------------------------------------
(* Handlers whose reads decide nothing that their one write does not decide *)
(* again, and the timers.                                                   *)

Whole(A) ==
    /\ served < MaxServed
    /\ served' = served + 1
    /\ A
    /\ UNCHANGED job

CreateWhole(z, c) ==
    c \notin used /\ Whole(CreateRoom(z, c)) /\ used' = used \cup {c}

DeleteWhole == RoomUnlocked /\ Whole(DeleteRoom) /\ UNCHANGED used

ResetWhole == RoomUnlocked /\ Whole(Reset) /\ UNCHANGED used

ImportWhole(p) ==
    /\ RoomUnlocked
    /\ Whole(Import(p))
    /\ (Live' \cup {k.id : k \in conns'}) \cap used = {}
    /\ used' = used \cup Live' \cup {k.id : k \in conns'}

BulkWhole(I) == Whole(BulkDelete(I)) /\ UNCHANGED used

ExpireWhole(K) == Whole(ExpireConnections(K)) /\ UNCHANGED used

-----------------------------------------------------------------------------
InitInterleaved ==
    /\ \E s \in Rooms :
          /\ home = s.home
          /\ migrated = s.migrated
          /\ source = s.source
          /\ number = s.number
          /\ chainOf = s.chainOf
          /\ conns = s.conns
          /\ memory = s.memory
    /\ job = [r \in Request |-> Idle]
    /\ used = Live \cup {k.id : k \in conns}
    /\ served = 0

CreateStep(r) ==
    \/ \E f, t \in Zone, place \in BOOLEAN : CreateReadsFrom(r, f, t, place)
    \/ CreateReadsTo(r) \/ CreatePlaces(r) \/ CreateRemembers(r)
    \/ \E i \in ConnId : CreateConnects(r, i)

RemoveStep(r) ==
    \/ \E k \in conns : DisconnectReads(r, k)
    \/ DisconnectDeletes(r) \/ DisconnectFindsOrphans(r) \/ DisconnectUnplaces(r)
    \/ \E z \in Zone : NodeReadsHome(r, z)
    \/ NodeReadsSources(r) \/ NodeUnplaces(r)

ChainJobStep(r) ==
    \/ \E z \in Zone : ChainReadsNode(r, z)
    \/ ChainReadsNumber(r)
    \/ \E c \in ChainId : ChainInserts(r, c)
    \/ \E c \in ChainId, z \in Zone : RelocateReadsHome(r, c, z)
    \/ RelocateReadsChain(r) \/ RelocateReadsNode(r)
    \/ RelocateReadsZones(r) \/ RelocateMoves(r)
    \/ \E c \in ChainId : UnchainReadsHome(r, c)
    \/ UnchainReadsChain(r) \/ UnchainDeletes(r)

SaveStep(r) ==
    \/ \E S \in Saves : SaveLocks(r, S)
    \/ SaveReplaces(r) \/ SaveRemembers(r)

MigrateStep(r) ==
    \/ MigrateReads(r)
    \/ \E c \in ChainId : MigrateWrites(r, c)

WholeStep ==
    \/ \E z \in Zone, c \in ChainId : CreateWhole(z, c)
    \/ DeleteWhole \/ ResetWhole
    \/ \E p \in Imports : ImportWhole(p)
    \/ \E I \in SUBSET ConnId : BulkWhole(I)
    \/ \E K \in SUBSET conns : ExpireWhole(K)

NextInterleaved ==
    \/ \E r \in Request :
          CreateStep(r) \/ RemoveStep(r) \/ ChainJobStep(r) \/ SaveStep(r) \/ MigrateStep(r)
    \/ WholeStep

SpecInterleaved == InitInterleaved /\ [][NextInterleaved]_allVars

-----------------------------------------------------------------------------
\* A save never finds a chain gone that it has read: every statement that can
\* drop a chain also writes the rooms row, and so waits until the save has put
\* the nodes back with the chain_id they had.  Otherwise the foreign key would
\* refuse the nodes and the client's save would be lost.
SavesFindTheirChains ==
    \A r \in Request : At(r, "save") =>
        \A z \in Zone : job[r].chains[z] \in ChainId => ChainExists(job[r].chains[z])

=============================================================================
