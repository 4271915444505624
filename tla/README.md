# albion-mapper: a verification project

albion-mapper is a shared, live map of a game's changing road network. People
who know a room's password draw zones and the temporary connections between
them; a Fastify server on one Node process keeps the room in PostgreSQL and
pushes every change to the viewers over WebSockets; a Vue client keeps a copy
of the map, lays it out and searches it.

These modules model the rows and what the handlers do to them, how handlers
overlap, who is watching, what is held of the database meanwhile, the browser's
session and its copy of the map, and the jobs that count and clean up. Each
definition that models code is tied to its lines in `PROJECT.json` ("map").

Paths below are relative to `src/web/server/src` unless they begin with
`client`, `shared` or `docs`.

## 1. Inventory

| Component | State | Operations | What makes it correct |
|---|---|---|---|
| **Room graph** (`routes/rooms.ts`, `routes/connections.ts`, `operations/`) | tables `rooms`, `room_chains`, `room_node_positions`, `connections`, `room_node_memory` | create, delete, reset, import a room; add, relocate, delete chains; create, delete, patch connections; save and delete nodes; lazy migration; history | the primary chain is never lost; rows name living chains; removals spare sources; a deletion keeps to its chain |
| **Presence** (`ws.ts`, `operations/auth.ts`, `broadcast.ts`, `marcopolo.ts`) | `roomSockets`, one heartbeat timer, one answer window; per socket a deadline | connect, auth, close, error, marco, polo | registered = authenticated and alive; the heartbeat runs iff somebody watches; silent peers are dropped |
| **Database access** (`db.ts`, `db_tx.ts`, `db_incidents.ts`, all handlers) | 10 pool clients, row locks, time-outs, incident counters | query, transaction, discard | nobody waits for himself; no deadlock among room-first transactions; a discarded transaction is counted once |
| **Client session** (`client/src/stores/useRoomStore.ts`, views, `LockRoomModal.vue`) | socket, back-off, probe, tokens, lock | connect, reconnect, wake up, log out, lock | one live socket; "synced" is true; a broken session recovers |
| **Client copies** (`useRoomStore.ts`) | every member's map, messages and snapshots in flight | apply messages, send snapshots | copies converge to the rows |
| **Connecting portals** (`client RoomView.vue`, `ReportForm.vue`, `routes/connections.ts`, `shared/src/connections.ts`) | connections with handles, forms and dialogs half done | drag, report, replace, edit handles, expire | a portal leads to one zone; loops are warned of |
| **Searches** (`client/src/utils/`, `RoomView.vue`) | none | shortest route, greyed-out zones, branch deletion | agree with reachability and distance |
| **Plotted route** (`usePlotRouteStore.ts`, `operations/update_plot_route.ts`) | the stored route and each member's | plot, clear, share, give up | a route uses connections that exist; members see one route |
| **Zone details** (`ZoneNode.vue`, `operations/update_node_positions.ts`, `rotate_zone.ts`, `shared/src/rotation.ts`, `handles.ts`) | features, timers, layout and rotation of a zone; history | note, turn, edit, save, come back | notes make sense; history keeps up; layouts match their rotation |
| **Usage analytics** (`broadcast_analytics.ts`, `analyticsCron.ts`) | four maps in memory, daily tables, overlapping ticks | register, flush each minute, change of day | a closed day is complete; rows are high-water marks |
| **Counters and clean-up** (`analytics.ts`, `rooms_analytics.ts`, `roomCleanup.ts`, `routes/metrics.ts`) | three tables of counters, rooms and their last use | count, recount, delete idle rooms | the tables add up; idle rooms go |
| **User interface** (layout, drawing, settings), **map parser**, **map analysis tools**, **CI** | — | — | not modelled, see section 6 |

**Interactions.** REST handlers and WebSocket operations share nothing in
memory but the socket registry and the analytics maps: they meet in PostgreSQL.
A handler is an async function; between two `await`s every other handler may
run. Most read with single queries on the pool, decide, and write with single
queries or one transaction under READ COMMITTED; then they broadcast to the
viewers of the room, who apply the change to their copy. Clients answer with
requests or with full snapshots. The jobs run on timers in the same process.
`auth` registers its socket before it reads the snapshot it sends.

**Hard behaviours.** Decisions on rows read several awaits ago; two statements
where one was meant; removals that compute their own victims; rows written by
older versions of the program; a pool client held while another is requested;
locks taken in different orders; ticks that overlap themselves; timers that race
messages; peers that vanish without closing; edits from copies of different
age. `PROJECT.json` ("hazards") lists each at its line with the properties that
cover it, or the reason none does.

## 2. Modules

    RoomGraph <-- RoomInterleaved                 RoomProofs
    Presence, DbPool, Upkeep                      ServerProofs
    Concurrency  --implements-->  HighWater       ConcurrencyProofs
    Session                                       SessionProofs
    ClientSync                                    ClientSyncProofs
    Portals                                       PortalsProofs
    ZoneWalks <-- ZonePaths, PlotRoute            RouteProofs
    ZoneHandles <-- ZoneDetails                   ZoneDetailsProofs

Each module that is run has an `MC` module with its instance and a `.cfg`. An
arrow is EXTENDS. A proof module extends every module it proves about, so these
keep their names apart: `PresenceSpec` and `UpkeepSpec` stand beside the `Spec` of
DbPool, `PathsSpec` beside that of PlotRoute.

* **RoomGraph**: the sequential meaning of the handlers, one action per route or
  operation with everything it writes. The rows of one room are variables:
  `home` (`None` without a room), `migrated`, `source` and `number` per chain id,
  `chainOf` per zone (`Absent` without a node, `None` for SQL NULL), `conns`,
  `memory`. What a row carries besides is left out, and so is a refusal that
  depends on it: the model accepts every request the server accepts and some
  more. `Init` is a database without the room, `LegacyInit` a room from before
  there were chains, unmigrated until somebody opens it.
* **RoomInterleaved** takes the handlers apart. A request has a `job`: the
  statement it is about to run and what it has read. A statement is a step; a
  transaction is one step from its first write to its commit, since nobody sees
  or changes its rows in between, while what it reads before is a step of its
  own. `SELECT ... FOR UPDATE` of the rooms row (saves) holds back whatever
  inserts rows of the room or writes the rooms row, and foreign keys refuse rows
  whose room or chain is gone.
* **Presence**: `roomSockets` is the Map of `broadcast.ts`, entries included,
  because the code counts rooms by them; a callback is an action. The handshake
  is the only one that awaits after it has changed the registry, so it has two.
* **DbPool**: a handler is a sequence of steps (a query through the pool, begin,
  statement, commit), each with the row locks it takes in PostgreSQL's modes. All
  rows of a room in one table count as one, so the model has every wait the
  server can have and some more. `watchers` and `idle` follow a client's wrapping
  by `db_incidents.ts` from one use to the next; `miscounted` collects the errors
  not counted exactly once.
* **Session**: one tab: page, store, timers and tokens; both ends of every
  socket and the frames on their way; the lock dialog suspended at its awaits.
* **ClientSync**: the rows, each store's copy, the messages and snapshots in
  flight, and handshakes that register before they read. Every handler that
  writes or tells nodes, connections, chains or the home zone is an action, reset,
  import and expiry among them; what it does after another read is a step of its
  own (`tells`). `behind` notes what a member may have missed for good, and each
  place that adds to it is one that section 4 lists.
* **Portals**: what a drag looks up in a member's copy, the forms and dialogs it
  opens, and the requests these send one after the other while others edit.
* **ZoneWalks**: the breadth-first search, the walks that grey out zones and
  those that collect a branch, as operators on a list of connections in the
  store's order, and beside them their reference definitions by distance.
* **ZonePaths**: every list the gestures can make of it.
* **PlotRoute**: the shared route from the click to the row, the broadcasts, and
  what makes a store give it up. It searches and deletes with ZoneWalks.
* **ZoneHandles**, **ZoneDetails**: the arithmetic of turning a layout; and one
  zone's features, portals and rotation in the row, in the history and in every
  member's copy, with saves and rotates in flight. The zone leaves the map and
  comes back by connections, by a chain that begins at it, by a reset, which
  strips a source's row, and by an import of what a member's copy and the history
  had. `apart` and `untold` record which write of row or history was last.
* **Concurrency**: the maps, the ticks that carry them to the tables and may
  overlap, failed queries, restarts and the London midnight. **HighWater** is
  what a table of peaks promises; Concurrency implements it with `actual` and
  `reported` mapped to what happened and to the rows.
* **Upkeep**: rooms as the clean-up job and the counters see them.

Definitions commented as mutants, or as a slip, are handlers with a plausible
bug in them. No action uses them; they document what each property would catch.

## 3. Runs

| Run | Question | Instance | States |
|---|---|---|---|
| `room_graph` | primary chain, numbers, connections' chains; removals, chain deletion and history | 2 zones, 2 chains, 2 connections, 3 imports, legacy rooms | 46k |
| `interleaved` | live references, nothing left of a deleted room, saves find their chains | 3 zones, 3 chains, 3 requests two at a time, 4 rooms | 258k |
| `presence` | heartbeat iff sockets, registry exact; silent sockets dropped, sockets authenticate or close | 2 sockets, 2 rooms | 4k |
| `db_pool` | discards counted once, room-first never deadlocks; every request ends | 3 requests, 2 clients, 13 handlers | 55k |
| `session` | supervised, synced is in sync; half-open noticed, back in sync | 1 tab, 1 room, 2 sockets, 1 fault, 1 edit | 413k |
| `client_sync` | every node is known; same connections, chains and home | 2 browsers, 3 zones, 3 edits, imports of one chain | 1.8M |
| `portals` | portals agree, loops warned of, ends are there | 2 members, 3 zones, 2 portals, 4 gestures | 876k |
| `zone_paths` | shortest route, greyed out iff unreachable, deletion takes the branch | 4 zones, 4 connections | 58k |
| `plot_route` | route stands, same route, route joins its ends | 2 members, 3 zones, 3 connections, 3 gestures | 1.5M |
| `concurrency` | closed days complete; rows are high-water marks, days complete in the end | 2 rooms, 2 days, 2 ticks, 1 fault | 499k |
| `upkeep` | counters add up; idle rooms go | 2 rooms, 2 events, 1 fault | 982k |
| `zone_details` | notes make sense, history keeps up, contradictions heal; writes are turned shapes | 2 members, 1 zone, 2 edits, 1 return, reset or import | 672k |

A module's type invariant is checked inside one of its properties
(`EndsAreThere`, `RouteIsShortest`, `RouteStands`, `ClosedDaysAreComplete`,
`SameMap`, `CountersAddUp`, `RoomFirstNeverDeadlocks`) or proved (section 5).

**Bounds.** Two chains are enough for one to harm the other, two connections for
a zone that one of them orphans. What the runs check as safety is proved for every
instance (section 5), so they stay small; the bounds matter for the liveness
properties, which are not. Ids may be reused after their row is gone in RoomGraph, but not in RoomInterleaved,
where a stale id in a job would meet a new row: `used` holds the ids given out.
Two requests interleave and a third comes before, between or after (`MaxServed`).
The pool has two clients rather than ten: three requests exhaust it. Two browsers
or members show every disagreement of copies; three edits place one between two
others. Four connections make a loop, a branch and a second way in. Two days and
two ticks make a tick overlap the midnight one; the third tick of a slow
database does nothing the second could not. A fault is placed at any step; a
second one adds only combinations of two independent failures. All of these
bounds are guards of actions and named in their module. Since nothing happens
once a bound is reached, these runs do not check deadlock; `room_graph`,
`presence`, `db_pool` and `zone_paths` do. Ids, members, browsers, requests and
portals are symmetric where the `.cfg` says so, and only in runs without
liveness properties.

**Fairness.** *Presence*: `WF(Marco)`, `WF(Collect)`, `WF(AuthTimeout)`: timers
of a running process fire; `WF(Closed)`: `ws` destroys a socket whose peer does
not confirm a close. Nothing is assumed of peers. *DbPool*: `SF(Proceed(r))`:
the pool hands clients out in order and PostgreSQL serves its lock queue in
order, so a request that can go on again and again does; `WF(DeadlockDetected)`:
`deadlock_timeout`. Time-outs of pool and statement are without fairness: the
property is that they are never needed. *Session*: the tab's timers, the
delivery of frames, the server's awaits and the router's watch; nobody has to
wake the tab, submit a dialog or log in. *Concurrency*: the interval starts
ticks and queries are answered. *Upkeep*: the job's interval fires.

## 4. Where the code and its documents disagree

No run is expected to fail; the properties say what does hold, and name the line
where an exception comes from. What the code allows and a property therefore
excepts:

* *A raced handshake.* `operations/auth.ts:55` registers the socket, then reads,
  then sends the snapshot (181): what is broadcast in between is overwritten by the
  older snapshot, and no later message repairs it. Excepted by `SyncedIsInSync`,
  `KnowsEveryNode`, `SameMap` and `SameRoute`.
* *Import.* `PUT /import` replaces home, chains, connections, nodes and history
  (`routes/rooms.ts:1105`) and broadcasts only `room_reset` (1166), on which a store
  empties its connections and keeps the node of the home it knew
  (`useRoomStore.ts:461`). Every member but the one who imported, whose page loads
  again, keeps the old home and chains and misses the new nodes and connections
  until he reloads. Excepted by `KnowsEveryNode` and `SameMap`. The next full
  snapshot of such a member replaces the imported nodes by his own.
* *Reset.* The server keeps the nodes of all chain sources
  (`routes/rooms.ts:864`), the stores only that of the home zone
  (`useRoomStore.ts:463`). It empties the features and handles of a source and
  leaves its rotation and its history (`routes/rooms.ts:874`): the "partial reset" of
  the comment at `useRoomStore.ts:253`, which is repaired when a store is sent the
  row, and no store is. Excepted by `KnowsEveryNode`, `HistoryKeepsUp` and
  `ContradictionsHeal`; an import, which writes rows and history as its file has
  them (`routes/rooms.ts:1138`), likewise. A copy that was stripped and is saved again
  is the one exception of `WritesAreTurnedShapes`.
* *A chain at a zone with history*, new or relocated, is placed with the game's
  features and no handles while the entry stays what it is
  (`routes/rooms.ts:440`, 646). Excepted by `HistoryKeepsUp`.
* *The history is written after the commit* of a save
  (`operations/update_node_positions.ts:118`), so that another write may come in
  between. Excepted by `HistoryKeepsUp`.
* *An answer that was overtaken.* `useRoomStore.ts:1137` merges a chain that may
  have been removed since. Excepted by `SameMap`.
* *A save that brings back* a zone its sender had been told to drop; the server
  tells all but the sender (`operations/update_node_positions.ts:115`). Excepted by
  `KnowsEveryNode`.
* *Two creations at one portal* each find it free before either inserts
  (`routes/connections.ts:138`). `PortalsAgree` and `EndsAreThere` speak of
  connections whose writers looked and were not overtaken.
* *Updates of a route that cross* (`operations/update_plot_route.ts:38`): rows,
  broadcasts and the senders' own plots may be in different orders. Excepted by
  `SameRoute`.

Other disagreements met while modelling:

* docs/architecture.md:43 calls chains isolation boundaries, but a new chain may
  be rooted at a zone a connection of another chain already reaches
  (`routes/rooms.ts:410`), and relocation deletes both ends of the chain's
  connections, another chain's source among them (`routes/rooms.ts:638`, against
  the comment at 533).
* docs/README.md:34 says every room has a primary chain. Handlers running alone
  keep that (`HomeHasChain`, proved); a relocation between two reads of a chain
  deletion (`routes/rooms.ts:731`) does not.
* Orphans are found by one statement and deleted by another
  (`routes/connections.ts:411`, comment 382): a zone that becomes a source in
  between loses its node.
* `marcopolo.ts:68` closes a socket that joined during the answer window for "no
  polo response", never having been asked.
* `broadcast.ts:23` sends a room's count to the viewers of every room, and the
  client shows whatever count came last as its own
  (`components/room/WebsocketStatusBar.vue:57`, docs/websocket-protocol.md:65).
* A database error in the handshake closes the socket as unauthorized
  (`operations/auth.ts:183`), and the client then forgets its token.
* client `useRoomStore.ts:835` stores an admin token under the room of now, not
  the one it was asked for (816). The reason a session ended outlives it (469
  and following), so a later expiry in another room may be shown as "not found"
  (`RoomAuthView.vue:24`).
* `operations/update_node_positions.ts:71` deletes source nodes that a snapshot
  does not list, which `routes/rooms.ts:878` repairs only at a reset.
* `isExpired` is never set by the server (`routes/connections.ts:138`) although
  docs/server.md:99 describes it. Who was not there when a connection expired
  (`useRoomStore.ts:436`) takes it as live, so his drag finds that one on a portal
  (`RoomView.vue:962`) which another member, who was told, has used again since:
  one portal then leads to two zones.
* `db_incidents.ts`: a time-out of `Pool.query` is recorded twice, by the pool's
  wrapped `query` and by the `connect` it calls; the test's comment says once. A
  client that dies idle in the pool is recorded twice as a discarded transaction,
  though none was under way (against lines 5 to 8). Of pg's two time-outs of
  `connect`, "Connection terminated due to connection timeout" is not recognised
  (lines 59 to 62) and not counted. `EveryDiscardCountsOnce` is about transactions
  that were under way.
* `routes/metrics.ts:412`: `rooms_modified` counts every room with a daily row.
  The recount is not run after creation, clean-up or flush, against
  `analytics.ts:195`. Creating a connection leaves `updated_at` alone, so a room
  used only for connections can be swept as abandoned (`roomCleanup.ts:87`), and
  one never updated at all is swept by neither rule if it has content, while the
  comment at line 21 falls back to `created_at` (the one at 85 does not).
* Zones of shape "rest" lose their remembered portals when they are added again
  (`routes/connections.ts:196`, against docs/README.md:37); deleting all history
  from the client sends no administrator password, is refused (`rooms.ts:918`)
  and reported as a success; the page repairs a zone's layout once only
  (`useRoomStore.ts:315`).
* PATCH of the remaining time of a permanent connection keeps it permanent
  (`routes/connections.ts:630`).

## 5. Proofs

Each theorem is proved by TLAPS for every value of the constants: any number of
zones, chains, requests, sockets, rooms, days. Every invariant and every step
property of the runs is proved; what is left to TLC is liveness. A proof module has one lemma per
action (and per conjunct of the invariant where the action disturbs several),
lemmas on the operators they share, and the temporal theorem last.

**RoomProofs**, handlers running alone. `IInv` is `TypeOK` with `HomeHasChain`, `RowsNameLiveChains`,
`ConnectionsHaveChains` and `DeletedRoomKeepsNothing`. None of them is inductive
alone: that a connection gets a chain depends on the primary chain being there,
which depends on a deletion sparing the home's chain, and a room that is created
is clean only because nothing survived its predecessor. `UpgradedIInv` proves it
from both initial states. On it rest
* `Numbered`: above the chains of a room the next number is free, so that new
  rooms never share one (`ChainNumbersStayDistinct`); with legacy rooms, whose
  migration always writes 1, `OnlyFirstShared` is what remains;
* three action properties over all actions at once: `RemovalSparesSources`,
  `DeleteChainSparesOthers`, `HistoryOutlivesEdits`.

**RoomProofs**, handlers interleaved. Of `IInv` only part survives when statements
interleave: `HomeHasChain` and `ConnectionsHaveChains` do not (section 4). What
does is what PostgreSQL itself guards: references are checked, and locks waited
for, when a statement runs and not when the handler read. `InterleavedIInv`
types the rows and each request's `job`, keeps references alive and missing rooms
empty, and adds for saves that a request that has locked the room has it, and
has there the chains it has read (`SavesHold`): whatever drops a chain or a
room needs `RoomUnlocked`.

**ServerProofs**, presence. The invariant relates the state of each socket, its timer,
its place in `roomSockets` and the heartbeat. `SameRegistry` collects what a
callback that does not register or remove leaves alone. It gives
`HeartbeatIffSockets` and `RegistryExact` for any number of sockets and rooms.

**ServerProofs**, the pool. Clients are held by requests that hold a client, and locks by
requests inside a transaction (`RequestsOK`, `PoolOK`, `ClientsServe`).
`RoomFirstNeverDeadlocks` needs one more fact, `RoomComesFirst`: a transaction
that locks the room first holds the room's row before it holds or waits for any
other, so of two that wait for each other one would wait for a row nobody
but the holder of its own room row can have. `EveryDiscardCountsOnce` needs
`WrappedOnce`: a client is wrapped once in a handler's hands and in the pool alike,
whatever order clients are taken, given back, closed and taken again.

**ServerProofs**, the counters. `CountersAddUp` compares counts and sums of sets
that change in several statements of a handler. `UpkeepIInv` says that while no
statement has failed the rows of rooms and the row of the day agree (`RowsAgree`),
the created rooms are those no longer unborn and the removed ones at least those
gone (`RoomsAgree`), and of each deletion still to come that its room was created:
otherwise deleting would make a room that nobody counted. Lemmas say what one
room changed does to a sum or a count (`MapThenSumSet` is a fold, so they go by
induction over the finite set).

**ConcurrencyProofs.** What ticks overlap, fail and finish late is handled by
four facts: nothing in memory, in a tick or in a row exceeds what happened
(`NothingInvented`); the clock is on `lastDate` or the day after; what happened on
a day that is still open and not lost to a restart is in memory (`KeptInMemory`);
and the tick that closes a day carries all of it (`ClosesDay`). They give
`ClosedDaysAreComplete`, and step by step the refinement of `HighWater`.

**SessionProofs.** Lemmas say what `connect`, `logOut`, `reconnect` and
`disconnect` make of the store, then one lemma per action. `Supervised` is its
two halves `TabOK` (a status has its timer or its socket) and `OneSocket`.
`SyncedIsInSync` needs the queues: `Tells(q, b, v)` says that a tab that shows `b`
now shows `v` when the frames of `q` have arrived; appending and taking a frame
keep it, a write of the lock appends the frame that restores it, and the sync
says what was read. The exceptions are those of the property: the dialog between its
answer and its own update, and a write between the server's read and its sync.

**ClientSyncProofs.** An edit and its message do the same to the rows and to a
store that has caught up (`ToldKept`), because a message at the end of a queue
comes after all that the store has yet to apply. `After` is a recursive function,
so that is an induction over the queue, which the library's induction theorems
cannot be used for here; `NatSet` does it with a set of numbers instead, from
the well-foundedness of `<`. `IInv` says for each member what the two properties
say (`WillKnow`), for a handshake that what it has read is still so unless an
edit raced it (`ReadSo`), that ids tell apart the connections that are there or
about to be inserted (a removal goes by id), and of the queue that every
relocation since the last sync finds the chain it relocates (`ChainsKnown`):
without that a chain which a member merges from the answer, before it is told of
it, could leave another one behind (`CaughtMerged`). A chain whose answer is still
to come is there unless the answer is marked gone (`ChainsThere`), which is what
lets `SameMap` except a member only if the chain was removed in between. Reset and
import are one lemma each over `TellReset`: connections and nodes follow from
what the store makes of a reset, everything else is noted in `behind`.

**ZoneDetailsProofs.** All four properties of `zone_details`, for any members,
timers and clock and for every shape of the game. Its first half is arithmetic.
The code moves a handle along the outline of the zone (`handleToT`,
`tToHandlePos`), while `WritesAreTurnedShapes` speaks of quarter turns about the
centre: `TurnAlong` proves that both give the same point for whatever is drawn on
the outline, `PositionsDrawn` that every handle of every shape is, and
`InferTurned` that a layout turned by k quarters is told to be turned by k and by
nothing else. So layouts stay `Exact`: they lack a handle of the shape, and then
tell no rotation, or they are turned by a whole number of quarters; `Canonical`
and `HealedGood` say what the server makes of one. The second half is the
invariant `ZoneInv`. `TypeOK` asks of every node, entry, message and editor that
its features make sense and its layout is `Exact`, since any of them may come to
be the row. `HistoryInv` adds to `HistoryKeepsUp` that a save whose write to the
history is still due is the only one and is the row's, unless row and history
were last written apart. `HealInv` says that whoever may still repair a
contradiction has it last in its queue, which a zone that comes back establishes
by telling everybody; a row that a reset or an import wrote is told nobody until
the rows are sent again (`untold`). A reset or an import can also leave a row that
is turned and has no layout. A member is sent that row and repairs it, so that his
copy and his saves never have it unless his repair is spent (`StaleInv`); without
that a save could put the contradiction back with nobody left to be told.

**PortalsProofs.** A connection fits the others because its member had looked,
often several requests before it is inserted. So `PortalsInv` says of everything
open or under way what it rests on, as long as no other write came in between
(`Held`): of a form and the addition it sends, that its target portal and its
pair fit the connections alive; of a change of handles, that both portals do; of
portals to be disabled, that whoever uses them is to leave first. `Shapes` keeps
the order of requests (only the last one adds or disables), and `Agree` is
`PortalsAgree` with its exception spelled out: entrances may differ at a zone for
which a request still under way will disable the portals they are at
(`Explained`). The last of these requests to land takes the explanation away, and
it can because then nobody is left at those portals. What fails when the
invariant is dropped to less was found with TLC: a drag that matches a connection
whose time was over, but whose end the member had not been told of, makes its
connection as unseen as one over which nobody looked.

`LoopsWarned` asks for another kind of argument, since a new connection may close a
loop far from its ends. That among any connections nobody was warned of there is
a zone where just one of them ends is not inductive: two sets with one such zone
each may be joined at it. But without loops there are two, whichever zone is left
aside (`TwoEnds`), and a connection between zones that nothing joins keeps that
(`ForestGrows`). That nothing joins them is what a member who was not warned had
seen: some zones, one end among them and the other not, that no connection
leaves (`Apart`), which stays so until somebody else writes (`PlainHeld`). He saw it
by the search of `wouldCreateLongerLoop`, which is closed after as many steps as
there are connections (`SearchEnds`).

**RouteProofs**, the walks. Searches in the code are recursions and loops over a
list, in the model folds and functions of a number of rounds. First-order
reasoning gets hold of them by their steps: `Iterated` and `Balls` unfold a fold
into the sequence of what it passes through, `NatSet` is the induction, and a set
of at most n elements that grows with each step or else never again is closed
after n (`WithinCloses`, by cardinality); it is also inside every closed set it
starts in (`WithinLeast`). So what `treeQuery` collects are the ancestors, what
`onDeleteRecursive` and `handleDelete` collect is all that hangs on where they
begin, and both are least. From there `ShownAliveIffReachable` and
`DeletionTakesTheBranch` are statements about closed sets: the zones that are shown
alive and not reached would have a way in that is alive and from one of their
own, and what a deletion cuts off would have hung on what it takes.
`RouteIsShortest` is the invariant of breadth-first search over its rounds
(`RoundKeeps`): after n rounds the zones visited are the ball of radius n, the
frontier's walks have n connections, each leads from the start to its zone
without passing a zone twice (`Leads`), and the end is not among them yet.

**RouteProofs**, the plotted route. `PlotIInv` types all that a route passes
through and says of every route stored, sent, read or shown that it joins its
ends. It holds of the one a search finds, because a walk that passes no zone twice
touches its first and its last zone once (`FoundIs`, from the lemmas on the
search), and a route is never changed, only replaced: a step that kept the
connections of one route and the ends of another would break it, which is why
plots under way are excepted. `RouteStands` is its part `LostOK`. `SameRoute` needs
`SameIInv`: unless the members are apart, there is one route to which everybody
there comes once the messages in his queue are applied (`EndsWith`, which looks at
the last message that tells a route) or to whom another's update is still on its
way. An update that meets no other makes its own the one (`Brings`), all other
steps keep it, the handshake because it sends what is still stored, the one who
leaves because what he sent then counts as everybody else's.

**Assumptions.** `ConstantsOK`, `RoomsOK` and `SessionAssumption` keep the markers
for "nothing" apart from ids and count in naturals; `ImportsOK` says an import has
a source (`routes/rooms.ts` refuses one that has none) and `RoomsOK` that the
rooms found at the start are rows the foreign keys admit; `ServesHandlers` that
the pool has a client; `ConcurrencyAssumption` that rooms and their tokens are
finite; `ZoneDetailsAssumption` that times are naturals, what is typed included,
and portals are put at points of the integer grid (a position is rounded to a
hundredth); `ClientSyncAssumption` that the marks of a handler whose client left
name no client; `PortalsAssumption` that the centre is no portal, that the clean-up job
is no member and that the source is a zone; `PlotRouteAssumption` that connections,
those at first and those that may be added, join two different zones of the map
(the server refuses others, `routes/connections.ts:98`) and that an id is one
connection's (it is the primary key); `ZonesOK` that zones are finite and sources
among them. The lock modes, the foreign keys and READ COMMITTED are PostgreSQL's and
part of the models.

**Only model-checked.** Liveness under fairness (`SilentAreDropped`,
`AuthenticatesOrCloses`, `EveryRequestEnds`, `HalfOpenNoticed`, `BackInSync`,
`EventuallyComplete`, `IdleRoomsGo`) is out of the prover's reach: these seven
properties are all that the runs check and no theorem states. What the bounded
instances show of them is in section 3.

## 6. Not modelled

* The rest of `routes/metrics.ts` and `routes/events.ts`: they format or append
  what they are given. Minima and averages of the hourly samples; a socket that
  stays open over midnight counts in the sample but not in the new day's peak.
* In Concurrency a flush never lasts a whole day. Upkeep leaves the order of
  rows within a table out.
* In ClientSync a `DELETE` of one connection or node is one step; its statements
  are apart in RoomInterleaved. Two chains are told apart by their source zone. TLC
  imports rooms of one chain, alone or with a connection; the theorems are about
  any import.
* In ZoneDetails members do not join or reload: a handshake sends the row as
  `TellNodes` does. A broadcast about other zones also validates this one's copy, which
  only adds repairs. An import is of a file exported just before.
* Password hashing and what tokens contain; title, server and colours of a room:
  columns no other state depends on.
* Layout, drawing, settings, toasts, recent rooms and the zone search of the
  client; the width of the expiry window, which needs a clock.
* The map parser and the map analysis tools: scripts that convert files. CI,
  provisioning and deployment.

## 7. Plan

Of the properties that the runs check none is left that the provers can reach.
What would extend the project is a model of more code: title, server and colours
of a room with their concurrent choices (`routes/rooms.ts:322`), the client's
room settings, and a clock for the window in which an expiry is announced.
