------------------------------- MODULE PlotRoute -------------------------------
(***************************************************************************)
(* The route a room's members share: plotted in one browser, written to    *)
(* the room's row, told to the others, and given up when the map under it  *)
(* changes.                                                                *)
(*                                                                         *)
(* Handlers of one socket do not wait for each other, so writes commit in  *)
(* any order, and a broadcast follows its write as a step of its own; two  *)
(* equal ones of one member in flight at once are kept as one.  When the   *)
(* stored route lapses only /metrics asks; how an edit of the map itself   *)
(* reaches the stores is module ClientSync's and takes one step here, as   *)
(* do the reads of a handshake after the room's.  The preview while an end *)
(* is being chosen is not kept.  Every member may edit.                    *)
(***************************************************************************)
EXTENDS ZoneWalks

CONSTANTS
  Clients,      \* browsers
  ChainOf,      \* the chain a zone belongs to while its node is on the map
  FirstMap,     \* the room's connections at first, in the store's order
  Spare,        \* connections that may be added
  None,         \* null
  MaxEdits,     \* bound: edits of the map
  MaxGestures   \* bound: plots begun, routes cleared, joins and leaves

Connections == ToSet(FirstMap) \cup Spare
AllIds == {k.id : k \in Connections}

\* A connection joins two zones, and its id is no other's.
ASSUME PlotRouteAssumption ==
  /\ None \notin Zones \cup Clients
  /\ FirstMap \in Seq(Connections)
  /\ \A k \in Connections : k.from \in Zones /\ k.to \in Zones /\ k.from # k.to
  /\ \A j, k \in Connections : j.id = k.id => j = k
  /\ MaxEdits \in Nat /\ MaxGestures \in Nat

VARIABLES
  room,     \* the rows: connections, nodes, the stored route
  map,      \* each store's connections and nodes
  plot,     \* each plot-route store
  link,     \* "away", "room": registered and the room read, or "live"
  seen,     \* the stored route a handshake has read
  down,     \* messages on their way to each client, in order
  writes,   \* update_plot_route between the socket and the row
  tells,    \* ... between the row and the broadcast
  replies,  \* zones a client has deleted, the reply being on its way
  lost,     \* plotted connections that went without the store being told
  apart,    \* the members may see different routes
  edits, gestures

vars == <<room, map, plot, link, seen, down, writes, tells, replies,
          lost, apart, edits, gestures>>
ghosts == <<lost, apart>>
counters == <<edits, gestures>>

IdsOf(L) == {L[k].id : k \in DOMAIN L}
Drop(L, I) == Kept(L, {k \in DOMAIN L : L[k].id \notin I})
EndsOf(L) == UNION {{L[k].from, L[k].to} : k \in DOMAIN L}
NoRoute == [ids |-> {}, from |-> None, to |-> None, chain |-> None]
Idle == [step |-> "idle", route |-> NoRoute, reversed |-> {}]

Init ==
  /\ room = [conns |-> FirstMap, nodes |-> Sources \cup EndsOf(FirstMap), route |-> NoRoute]
  /\ map = [c \in Clients |-> [conns |-> room.conns, nodes |-> room.nodes]]
  /\ plot = [c \in Clients |-> Idle]
  /\ link = [c \in Clients |-> "live"]
  /\ seen = [c \in Clients |-> NoRoute]
  /\ down = [c \in Clients |-> <<>>]
  /\ writes = {} /\ tells = {}
  /\ replies = [c \in Clients |-> {}]
  /\ lost = [c \in Clients |-> {}]
  /\ apart = FALSE
  /\ edits = 0 /\ gestures = 0

-----------------------------------------------------------------------------
(* The plot-route store *)

\* computeRoute: the ids found, and the ones of them travelled backwards.
Found(L, a, b) ==
  LET routes == bfsRoute(L, a, b)
  IN [ids |-> UNION {{L[k].id : k \in ToSet(r.path)} : r \in routes},
      reversed |-> UNION {{L[k].id : k \in r.reversed} : r \in routes}]

\* Mutant: the ends are not taken over.
AppliedIds(p, r) ==
  IF r.ids = {} THEN Idle
  ELSE [step |-> p.step, route |-> [p.route EXCEPT !.ids = r.ids], reversed |-> {}]
\* applyPlottedRoute: a route replaces what was picked but not the step; the
\* directions are not told.
Applied(p, r) ==
  IF r.ids = {} THEN Idle
  ELSE [step |-> p.step, route |-> r, reversed |-> {}]

\* Mutant: a removed connection is no reason to give a route up.
KeepsRoute(p, I) == FALSE
\* onConnectionRemoved gives a route up that holds any of the connections.
GivesUp(p, I) == p.route.ids \cap I # {}

\* Routes on their way: not written, not told or not applied, and read but
\* not sent.
InFlight ==
  {seen[c].ids : c \in {x \in Clients : link[x] = "room"}} \cup
  {w.route.ids : w \in writes \cup tells} \cup
  UNION {{m.route.ids : m \in {x \in ToSet(down[c]) : x.kind \in {"route", "sync"}}} : c \in Clients}
AllLive == \A c \in Clients : link[c] = "live"

\* store.send: without an open socket the update is dropped, and the others
\* keep the route they have.  An update that meets no other, while everyone is
\* there, brings everyone to one route.  Of an update without connections the
\* server stores no ends and the others apply none.
Send(c, r) ==
  IF link[c] = "away"
    THEN apart' = TRUE /\ UNCHANGED writes
    ELSE /\ writes' = writes \cup {[by |-> c, route |-> IF r.ids = {} THEN NoRoute ELSE r]}
         /\ apart' = IF InFlight \subseteq {r.ids} THEN apart /\ ~(AllLive /\ InFlight = {})
                     ELSE TRUE

GiveUp(c) ==
  /\ plot' = [plot EXCEPT ![c] = Idle]
  /\ Send(c, NoRoute)
  /\ lost' = [lost EXCEPT ![c] = {}]

Gesture == gestures < MaxGestures /\ gestures' = gestures + 1

\* The toolbar's button begins a plot, or clears the one there is.
enterPlotRouteMode(c) ==
  /\ Gesture
  /\ plot[c].step = "idle" /\ plot[c].route.ids = {}
  /\ plot' = [plot EXCEPT ![c] = [Idle EXCEPT !.step = "selectingFrom"]]
  /\ UNCHANGED <<room, map, link, seen, down, writes, tells, replies, ghosts, edits>>

exitPlotRouteMode(c) ==
  /\ Gesture
  /\ plot[c].step # "idle" \/ plot[c].route.ids # {}
  /\ GiveUp(c)
  /\ UNCHANGED <<room, map, link, seen, down, tells, replies, edits>>

\* The graph draws a store's nodes and the ends of its connections; an end
\* without a node has no chain.
Drawn(c) == map[c].nodes \cup EndsOf(map[c].conns)
ChainAt(c, z) == IF z \in map[c].nodes THEN ChainOf[z] ELSE None

SelectFrom(c, z) ==
  /\ plot[c].step = "selectingFrom"
  /\ z \in Drawn(c)
  /\ plot' = [plot EXCEPT ![c].step = "selectingTo", ![c].route.from = z,
                          ![c].route.chain = ChainAt(c, z)]
  /\ UNCHANGED <<room, map, link, seen, down, writes, tells, replies, lost, apart, counters>>

\* A zone of another chain is not accepted as the end.
SelectTo(c, z) ==
  /\ plot[c].step = "selectingTo"
  /\ z \in Drawn(c)
  /\ ChainAt(c, z) = plot[c].route.chain
  /\ LET found == Found(map[c].conns, plot[c].route.from, z)
         route == [plot[c].route EXCEPT !.to = z, !.ids = found.ids]
     IN /\ plot' = [plot EXCEPT ![c] = [step |-> "idle", route |-> route,
                                        reversed |-> found.reversed]]
        /\ Send(c, route)
  /\ lost' = [lost EXCEPT ![c] = {}]
  /\ UNCHANGED <<room, map, link, seen, down, tells, replies, counters>>

\* ZoneNode's handleDelete after its requests were answered.
onNodeRemoved(c, z) ==
  /\ z \in replies[c]
  /\ replies' = [replies EXCEPT ![c] = @ \ {z}]
  /\ IF z \in {plot[c].route.from, plot[c].route.to} THEN GiveUp(c)
     ELSE UNCHANGED <<plot, writes, ghosts>>
  /\ UNCHANGED <<room, map, link, seen, down, tells, counters>>

-----------------------------------------------------------------------------
(* applyMessage *)

\* Messages that change the store's map and nothing else.
MapMessage(c, m) ==
  /\ m.kind \in {"added", "chain_removed"}
  /\ map' = [map EXCEPT ![c] = IF m.kind = "added"
       THEN [conns |-> Append(@.conns, m.conn), nodes |-> @.nodes \cup m.zones]
       ELSE [conns |-> Drop(@.conns, m.ids), nodes |-> @.nodes \ m.zones]]
  /\ lost' = [lost EXCEPT ![c] = IF m.kind = "added" THEN @ ELSE @ \cup m.ids]
  /\ UNCHANGED <<plot, writes, apart>>

RemovedMessage(c, m) ==
  /\ m.kind = "removed"
  /\ map' = [map EXCEPT ![c] = [conns |-> Drop(@.conns, m.ids), nodes |-> @.nodes \ m.zones]]
  /\ IF GivesUp(plot[c], m.ids) THEN GiveUp(c) ELSE UNCHANGED <<plot, writes, ghosts>>

\* room_reset: every client clears the route, the server does not.
ResetMessage(c, m) ==
  /\ m.kind = "reset"
  /\ map' = [map EXCEPT ![c] = [conns |-> <<>>, nodes |-> @.nodes \cap m.zones]]
  /\ GiveUp(c)

RouteMessage(c, m) ==
  /\ m.kind = "route"
  /\ plot' = [plot EXCEPT ![c] = Applied(@, m.route)]
  /\ lost' = [lost EXCEPT ![c] = m.route.ids \ IdsOf(map[c].conns)]
  /\ UNCHANGED <<map, writes, apart>>

\* A sync without a route leaves the store's own.
SyncMessage(c, m) ==
  /\ m.kind = "sync"
  /\ map' = [map EXCEPT ![c] = [conns |-> m.conns, nodes |-> m.nodes]]
  /\ plot' = [plot EXCEPT ![c] = IF m.route.ids = {} THEN @ ELSE Applied(@, m.route)]
  /\ lost' = [lost EXCEPT ![c] = plot'[c].route.ids \ IdsOf(m.conns)]
  /\ apart' = (apart \/ plot'[c].route.ids # m.route.ids)
  /\ UNCHANGED writes

Deliver(c) ==
  /\ down[c] # <<>>
  /\ LET m == Head(down[c])
     IN \/ MapMessage(c, m) \/ RemovedMessage(c, m) \/ ResetMessage(c, m)
        \/ RouteMessage(c, m) \/ SyncMessage(c, m)
  /\ down' = [down EXCEPT ![c] = Tail(@)]
  /\ UNCHANGED <<room, link, seen, tells, replies, counters>>

-----------------------------------------------------------------------------
(* The server *)

ToAllBut(X, m) ==
  [c \in Clients |-> IF link[c] = "away" \/ c \in X THEN down[c] ELSE Append(down[c], m)]

\* update_plot_route
Write(w) ==
  /\ w \in writes
  /\ writes' = writes \ {w}
  /\ tells' = tells \cup {w}
  /\ room' = [room EXCEPT !.route = w.route]
  /\ UNCHANGED <<map, plot, link, seen, down, replies, ghosts, counters>>

\* Mutant: the broadcast goes to nobody who has begun a plot of his own.
TellIdle(t) ==
  /\ t \in tells
  /\ tells' = tells \ {t}
  /\ down' = ToAllBut({t.by} \cup {c \in Clients : plot[c].step # "idle"},
                      [kind |-> "route", route |-> t.route])
  /\ UNCHANGED <<room, map, plot, link, seen, writes, replies, ghosts, counters>>
Tell(t) ==
  /\ t \in tells
  /\ tells' = tells \ {t}
  /\ down' = ToAllBut({t.by}, [kind |-> "route", route |-> t.route])
  /\ UNCHANGED <<room, map, plot, link, seen, writes, replies, ghosts, counters>>

Edit(conns, nodes, m) ==
  /\ edits < MaxEdits
  /\ edits' = edits + 1
  /\ room' = [room EXCEPT !.conns = conns, !.nodes = nodes]
  /\ down' = ToAllBut({}, m)
  /\ UNCHANGED <<map, plot, link, seen, writes, tells, ghosts, gestures>>

AddConnection(k) ==
  /\ k.id \notin IdsOf(room.conns)
  /\ k.from \in room.nodes
  /\ Edit(Append(room.conns, k), room.nodes \cup {k.to},
          [kind |-> "added", conn |-> k, zones |-> {k.to}])
  /\ UNCHANGED replies

\* Connections go, and with them zones that are left without any.
RemoveAll(I) ==
  LET rest == Drop(room.conns, I)
      gone == EndsOf(room.conns) \ (EndsOf(rest) \cup Sources)
  IN Edit(rest, room.nodes \ gone, [kind |-> "removed", ids |-> I, zones |-> gone])

RemoveConnection(i) ==
  /\ i \in IdsOf(room.conns)
  /\ RemoveAll({i})
  /\ UNCHANGED replies

\* A member deletes a zone, of either kind, with all beyond it, by its own copy
\* of the map.
DeleteZone(c, z) ==
  LET L == map[c].conns
  IN /\ link[c] = "live" /\ z \notin Sources /\ z \in Drawn(c)
     /\ \E K \in {handleDeleteRoads(L, z), handleDeleteOther(L, z)} :
          RemoveAll({L[k].id : k \in K})
     /\ replies' = [replies EXCEPT ![c] = @ \cup {z}]

RemoveChain(s) ==
  LET zones == {z \in room.nodes : ChainOf[z] = ChainOf[s]}
      ids == {room.conns[k].id : k \in {j \in DOMAIN room.conns :
                {room.conns[j].from, room.conns[j].to} \cap zones # {}}}
  IN /\ s \in Sources \cap room.nodes
     /\ Sources \ {s} \subseteq room.nodes \ zones
     /\ Edit(Drop(room.conns, ids), room.nodes \ zones,
             [kind |-> "chain_removed", ids |-> ids, zones |-> zones])
     /\ UNCHANGED replies

ResetRoom ==
  /\ Edit(<<>>, room.nodes \cap Sources, [kind |-> "reset", zones |-> Sources])
  /\ UNCHANGED replies

\* The socket closes.  An update of its may still be in a handler, whose
\* broadcast then excludes a socket that is gone.
Leave(c) ==
  /\ Gesture
  /\ link[c] # "away"
  /\ link' = [link EXCEPT ![c] = "away"]
  /\ down' = [down EXCEPT ![c] = <<>>]
  /\ seen' = [seen EXCEPT ![c] = NoRoute]
  /\ \E kept \in SUBSET {w \in writes : w.by = c} :
       /\ writes' = {w \in writes : w.by # c} \cup {[w EXCEPT !.by = None] : w \in kept}
       /\ apart' = (apart \/ \E w \in writes : w.by = c /\ w \notin kept)
  /\ tells' = {IF t.by = c THEN [t EXCEPT !.by = None] ELSE t : t \in tells}
  /\ UNCHANGED <<room, map, plot, replies, lost, edits>>

Register(c) ==
  /\ Gesture
  /\ link[c] = "away"
  /\ link' = [link EXCEPT ![c] = "room"]
  /\ seen' = [seen EXCEPT ![c] = room.route]
  /\ UNCHANGED <<room, map, plot, down, writes, tells, replies, ghosts, edits>>

\* A route written since the room was read is told before the sync, which
\* then brings the older one.
SendSync(c) ==
  /\ link[c] = "room"
  /\ link' = [link EXCEPT ![c] = "live"]
  /\ seen' = [seen EXCEPT ![c] = NoRoute]
  /\ down' = [down EXCEPT ![c] = Append(@,
       [kind |-> "sync", conns |-> room.conns, nodes |-> room.nodes, route |-> seen[c]])]
  /\ apart' = (apart \/ seen[c] # room.route)
  /\ UNCHANGED <<room, map, plot, writes, tells, replies, lost, counters>>

-----------------------------------------------------------------------------
Next ==
  \/ \E c \in Clients :
       \/ enterPlotRouteMode(c) \/ exitPlotRouteMode(c)
       \/ Deliver(c) \/ Leave(c) \/ Register(c) \/ SendSync(c)
       \/ \E z \in Zones : \/ SelectFrom(c, z) \/ SelectTo(c, z)
                           \/ onNodeRemoved(c, z) \/ DeleteZone(c, z)
  \/ \E w \in writes : Write(w)
  \/ \E t \in tells : Tell(t)
  \/ \E k \in Spare : AddConnection(k)
  \/ \E i \in IdsOf(room.conns) : RemoveConnection(i)
  \/ \E s \in Sources : RemoveChain(s)
  \/ ResetRoom

Spec == Init /\ [][Next]_vars

-----------------------------------------------------------------------------
Route == [ids : SUBSET AllIds, from : Zones \cup {None}, to : Zones \cup {None},
          chain : {ChainOf[z] : z \in Zones} \cup {None}]

\* Type invariant; a start is known while an end is being chosen.
TypeOK ==
  /\ room.route \in Route
  /\ plot \in [Clients -> [step : {"idle", "selectingFrom", "selectingTo"}, route : Route,
                           reversed : SUBSET AllIds]]
  /\ link \in [Clients -> {"away", "room", "live"}]
  /\ writes \cup tells \subseteq [by : Clients \cup {None}, route : Route]
  /\ \A c \in Clients : plot[c].step = "selectingTo" => plot[c].route.from # None

\* A plotted route on screen never outlives one of its connections, except
\* for those a chain took with it (no message of a chain's removal tells the
\* plot-route store) and those already gone when the route was told.
RouteStands ==
  /\ TypeOK
  /\ \A c \in Clients : plot[c].route.ids \subseteq IdsOf(map[c].conns) \cup lost[c]

\* Once nothing is on its way everyone there shows the route that is stored,
\* unless updates crossed, one was made offline, or a handshake missed a
\* change; and then the next update that meets no other brings all together.
SameRoute ==
  /\ writes = {} /\ tells = {}
  /\ \A c \in Clients : down[c] = <<>> /\ link[c] # "room"
  /\ ~apart
  => \A c \in Clients : link[c] = "live" => plot[c].route.ids = room.route.ids

Degree(r, z) ==
  Cardinality({k \in Connections : k.id \in r.ids /\ z \in {k.from, k.to}})

\* The ends that are marked are those of the connections that are: of the
\* stored route, and of the one on screen while no plot is under way, whatever
\* came between the clicks.
RouteJoinsItsEnds ==
  \A r \in {room.route} \cup {plot[c].route : c \in {x \in Clients : plot[x].step = "idle"}} :
    r.ids # {} => r.from # r.to /\ Degree(r, r.from) = 1 /\ Degree(r, r.to) = 1
=============================================================================
