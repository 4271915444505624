------------------------------ MODULE ClientSync ------------------------------
(***************************************************************************)
(* The copies of one room's map: the server's rows, the copy in every      *)
(* browser's room store, and the messages between them.                    *)
(*                                                                         *)
(* An edit by request is one statement or transaction and the broadcast    *)
(* that follows it without an await; a handler that reads again before it  *)
(* broadcasts is two steps, and the second is in `tells`.  A save by       *)
(* socket is a full snapshot of the sender's copy: the server deletes the  *)
(* rows it does not list, and the sender is not told of its own save.      *)
(*                                                                         *)
(* Of a node only its presence is kept, so a store that upserts unions.    *)
(* Which nodes a chain owns is module RoomGraph's: here an edit that sweeps*)
(* a chain takes any nodes that are no sources.  Every member may edit:    *)
(* lock and session are module Session's.                                  *)
(***************************************************************************)
EXTENDS Naturals, FiniteSets, Sequences

CONSTANTS
  Clients,   \* browsers
  Zones,
  Home,      \* the zone the room was created with
  ConnIds,   \* identities of connections, never reused
  MaxEdits,  \* bound: edits, drags, joins and leaves
  MaxUp,     \* bound: snapshots on their way from one client
  Imports    \* exported rooms to import, as the rows become

ASSUME ClientSyncAssumption ==
  /\ Home \in Zones
  /\ "nobody" \notin Clients /\ "gone" \notin Clients
  /\ MaxEdits \in Nat /\ MaxUp \in Nat

Map == [nodes : SUBSET Zones,
        conns : SUBSET [id : ConnIds, from : Zones, to : Zones],
        sources : SUBSET Zones, home : Zones]

ASSUME ImportsAreRooms ==
  \A f \in Imports : /\ f \in Map /\ f.home \in f.sources
                     /\ \A k, l \in f.conns : k.id = l.id => k = l

VARIABLES
  db,     \* the room's rows: nodes, connections, chain sources, home
  copy,   \* the same fields as each client's store has them
  link,   \* how far the server's handshake with each client has come
  seen,   \* what that handshake has read so far
  down,   \* messages on their way to each client, in order
  up,     \* snapshots on their way from each client, in order
  tells,  \* handlers between their commit and their broadcast or answer
  behind, \* what a client may have missed, and why no later event repairs it
  used,   \* connection ids handed out
  edits   \* edits so far

vars == <<db, copy, link, seen, down, up, tells, behind, used, edits>>

Ends(k) == {k.from, k.to}
EndsOf(K) == UNION {Ends(k) : k \in K}

NewRoom == [nodes |-> {Home}, conns |-> {},
            sources |-> {Home}, home |-> Home]
EmptyStore == [nodes |-> {}, conns |-> {},
               sources |-> {}, home |-> Home]

\* Some have joined the new room already, the others have yet to.
Init ==
  /\ db = NewRoom
  /\ link \in [Clients -> {"away", "live"}]
  /\ copy = [c \in Clients |-> IF link[c] = "live" THEN NewRoom ELSE EmptyStore]
  /\ seen = [c \in Clients |-> EmptyStore]
  /\ down = [c \in Clients |-> <<>>]
  /\ up = [c \in Clients |-> <<>>]
  /\ tells = {}
  /\ behind = [c \in Clients |-> {}]
  /\ used = {}
  /\ edits = 0

-----------------------------------------------------------------------------
(* The store: applyMessage and what it calls *)

\* Mutant: only the nodes the store knows are updated.
UpdateKnown(nodes, new) == nodes \cup (new \cap nodes)

\* node_positions_updated upserts: nothing is dropped.
Upsert(nodes, new) == nodes \cup new

\* Nodes, and with them the connections' ends, leave the store by name only.
Dropped(s, m) ==
  [s EXCEPT !.conns = {k \in @ : k.id \notin m.ids}, !.nodes = @ \ m.zones]

\* chain_removed
ChainGone(s, m) == [Dropped(s, m) EXCEPT !.sources = @ \ {m.chain}]

\* Mutant: the home zone stays behind.
ChainMovedHomeStays(s, m) ==
  LET t == Dropped(s, m)
  IN [t EXCEPT !.sources = IF m.chain \in @ THEN (@ \ {m.chain}) \cup {m.to} ELSE @,
               !.nodes = @ \cup {m.to}]

\* chain_relocated: a chain the store does not know stays unknown; a second
\* entry for a node it still has is not shown.
ChainMoved(s, m) ==
  LET t == Dropped(s, m)
  IN [t EXCEPT !.sources = IF m.chain \in @ THEN (@ \ {m.chain}) \cup {m.to} ELSE @,
               !.nodes = @ \cup {m.to},
               !.home = m.home]

Applied(s, m) ==
  CASE m.kind = "sync" -> m.map
    [] m.kind = "nodes" -> [s EXCEPT !.nodes = Upsert(@, m.nodes)]
    [] m.kind = "connection_added" ->
         [s EXCEPT !.conns = @ \cup {m.conn}]
    [] m.kind = "connection_updated" -> s
    [] m.kind = "connection_removed" -> Dropped(s, m)
    [] m.kind = "chain_added" -> [s EXCEPT !.sources = @ \cup {m.chain}]
    [] m.kind = "chain_removed" -> ChainGone(s, m)
    [] m.kind = "chain_relocated" -> ChainMoved(s, m)
    [] m.kind = "room_reset" -> [s EXCEPT !.conns = {}, !.nodes = @ \cap {s.home}]

\* The store s after each message of the queue q.
After(s, q) ==
  LET after[n \in 0..Len(q)] == IF n = 0 THEN s ELSE Applied(after[n - 1], q[n])
  IN after

\* A store whose queue has been applied.
CaughtUp(c) == After(copy[c], down[c])[Len(down[c])]

\* markNodeExplored: each end of the connection that the store knows and that
\* is not explored yet may send a snapshot.
Marks(s, m) ==
  IF m.kind \in {"connection_added", "connection_updated"}
  THEN 0..Cardinality(Ends(m.conn) \cap s.nodes) ELSE {0}

Deliver(c) ==
  /\ down[c] # <<>>
  /\ copy' = [copy EXCEPT ![c] = Applied(@, Head(down[c]))]
  /\ \E n \in Marks(copy[c], Head(down[c])) :
       /\ Len(up[c]) + n <= MaxUp
       /\ up' = [up EXCEPT ![c] = @ \o [i \in 1..n |-> copy[c].nodes]]
  /\ down' = [down EXCEPT ![c] = Tail(@)]
  /\ UNCHANGED <<db, link, seen, tells, behind, used, edits>>

\* The graph draws the home zone and every connection's ends, known or not.
Drawn(s) == s.nodes \cup {s.home} \cup EndsOf(s.conns)

\* ws.send on an open socket; without one the snapshot is dropped.
Sent(c, all) ==
  /\ edits < MaxEdits
  /\ edits' = edits + 1
  /\ copy' = [copy EXCEPT ![c].nodes = all]
  /\ IF link[c] = "away" THEN UNCHANGED up
     ELSE Len(up[c]) < MaxUp /\ up' = [up EXCEPT ![c] = Append(@, all)]
  /\ UNCHANGED <<db, link, seen, down, tells, behind, used>>

\* onNodeDragStop: the snapshot lists everything that is drawn.  Nothing makes
\* it wait for the sync of a new socket.
DragStop(c) == copy[c].nodes # {} /\ Sent(c, Drawn(copy[c]))

\* updateNodeFeatures, updateNodeCustomHandles: the snapshot is the store.
EditNode(c) == copy[c].nodes # {} /\ Sent(c, copy[c].nodes)

-----------------------------------------------------------------------------
(* The server: requests *)

Registered == {c \in Clients : link[c] # "away"}

\* broadcast(): every registered socket but one.
ToAllBut(X, m) == [c \in Clients |-> IF c \in Registered \ X THEN Append(down[c], m) ELSE down[c]]

\* A change during a handshake that has read this part already is not in the
\* sync, and the sync replaces what the broadcast told.
Races(new) ==
  [c \in Clients |-> behind[c] \cup
     (IF link[c] \in {"room", "conns", "nodes"}
         /\ (new.sources # db.sources \/ new.home # db.home) THEN {"chains"} ELSE {}) \cup
     (IF link[c] \in {"conns", "nodes"} /\ new.conns # db.conns THEN {"conns"} ELSE {}) \cup
     (IF link[c] = "nodes" /\ ~(new.nodes \subseteq db.nodes) THEN {"nodes"} ELSE {})]

Edit(new, m) ==
  /\ edits < MaxEdits
  /\ edits' = edits + 1
  /\ db' = new
  /\ down' = ToAllBut({}, m)
  /\ behind' = Races(new)
  /\ UNCHANGED <<copy, link, seen, up>>

Unattached(K, Z) == {z \in Z : z # db.home /\ z \notin db.sources /\ z \notin EndsOf(K)}

\* What a removal broadcasts.
Removed(K, Z) == [kind |-> "connection_removed", ids |-> {k.id : k \in K}, zones |-> Z]

\* DELETE connections, one or many.  The three statements that delete one are
\* apart in module RoomInterleaved.
RemoveConnections(K) ==
  LET rest == db.conns \ K
      gone == Unattached(rest, EndsOf(K)) \cap db.nodes
  IN /\ K # {} /\ K \subseteq db.conns
     /\ Edit([db EXCEPT !.conns = rest, !.nodes = @ \ gone], Removed(K, gone))
     /\ UNCHANGED <<used, tells>>

\* The expiry job leaves the nodes, orphaned or not.  It tells of one connection
\* after the other, without an await.
Expire(K) ==
  /\ K # {} /\ K \subseteq db.conns
  /\ Edit([db EXCEPT !.conns = @ \ K], Removed(K, {}))
  /\ UNCHANGED <<used, tells>>

\* DELETE a node, whether it is there or not; its reads and its deletion are apart
\* in module RoomInterleaved.
RemoveNode(z) ==
  /\ z \notin db.sources \cup {db.home}
  /\ Edit([db EXCEPT !.nodes = @ \ {z}], Removed({}, {z}))
  /\ UNCHANGED <<used, tells>>

NodesMsg(nodes) == [kind |-> "nodes", nodes |-> nodes]

\* PATCH a connection: all nodes are told, then the connection, read once more.
\* A PATCH that changes nothing, which no client sends, tells no nodes.
UpdateConnection(k) ==
  /\ k \in db.conns
  /\ Edit(db, NodesMsg(db.nodes))
  /\ tells' = tells \cup {[kind |-> "update", conn |-> k]}
  /\ UNCHANGED used

\* The chains at Z are deleted before who asked for them has their answer.
Orphaned(Z) ==
  {IF t.kind \in {"chain", "answer"} /\ t.zone \in Z THEN [t EXCEPT !.gone = TRUE] ELSE t :
     t \in tells}

\* Which nodes belong to a chain is not kept here.
Sweepable == db.nodes \ (db.sources \cup {db.home})

RemoveChain(s, Z) ==
  LET gone == Z \cup {s}
      K == {k \in db.conns : Ends(k) \cap gone # {}}
  IN /\ s \in db.sources \ {db.home}
     /\ Z \subseteq Sweepable
     /\ Edit([db EXCEPT !.conns = @ \ K, !.nodes = @ \ gone, !.sources = @ \ {s}],
             [kind |-> "chain_removed", chain |-> s, zones |-> gone, ids |-> {k.id : k \in K}])
     /\ tells' = Orphaned({s})
     /\ UNCHANGED used

\* A chain keeps its id when it is relocated, so the answer about s adds nothing.
Renamed(s) ==
  {IF t.kind = "chain" /\ t.zone = s /\ ~t.gone THEN [t EXCEPT !.by = "nobody"] ELSE t :
     t \in {u \in tells : ~(u.kind = "answer" /\ u.zone = s /\ ~u.gone)}}

RelocateChain(s, to, Z) ==
  LET gone == Z \cup {s}
      K == {k \in db.conns : Ends(k) \cap gone # {}}
      home == IF s = db.home THEN to ELSE db.home
  IN /\ s \in db.sources
     /\ to \notin db.sources \cup db.nodes
     /\ Z \subseteq Sweepable
     /\ Edit([nodes |-> (db.nodes \ gone) \cup {to},
              conns |-> db.conns \ K,
              sources |-> (db.sources \ {s}) \cup {to}, home |-> home],
             [kind |-> "chain_relocated", chain |-> s, to |-> to, home |-> home, zones |-> gone,
              ids |-> {k.id : k \in K}])
     /\ tells' = Renamed(s)
     /\ UNCHANGED used

\* room_reset is all that is broadcast of a room written anew.  A store that
\* joined empties its connections and drops every node but that of the home it
\* knows: it misses the new connections, the nodes it has not kept, and `lost`.
TellReset(new, lost) ==
  LET m == [kind |-> "room_reset"]
      missed(c) == IF link[c] # "live" THEN {}
                   ELSE (IF new.conns = {} THEN {} ELSE {"conns"}) \cup
                        (IF new.nodes \subseteq Applied(CaughtUp(c), m).nodes
                         THEN {} ELSE {"nodes"})
  IN /\ edits < MaxEdits
     /\ edits' = edits + 1
     /\ db' = new
     /\ down' = ToAllBut({}, m)
     /\ behind' = [c \in Clients |-> Races(new)[c] \cup lost \cup missed(c)]
     /\ UNCHANGED <<copy, link, seen, up>>

\* The rows of the chains' sources stay or are made again.
ResetRoom ==
  /\ TellReset([db EXCEPT !.conns = {}, !.nodes = db.sources \cup (db.nodes \cap {db.home})], {})
  /\ UNCHANGED <<used, tells>>

\* PUT import: chains and connections get new ids, so nobody's chains are the
\* room's any more.  Who imported reloads the page, which is Leave and Register.
ImportRoom(f) ==
  LET ids == {k.id : k \in f.conns}
  IN /\ ids \cap used = {}
     /\ TellReset(f, {"chains"})
     /\ used' = used \cup ids
     /\ tells' = Orphaned(Zones)

\* POST chains: the chain is announced, after one more read its node, and then
\* who asked gets an answer.
AddChain(c, z) ==
  /\ copy[c].nodes # {}
  /\ z \notin db.sources
  /\ Edit([db EXCEPT !.sources = @ \cup {z}, !.nodes = @ \cup {z}],
          [kind |-> "chain_added", chain |-> z])
  /\ tells' = tells \cup {[kind |-> IF z \notin db.nodes THEN "chain" ELSE "answer",
                           zone |-> z, by |-> c, gone |-> FALSE]}
  /\ UNCHANGED used

\* POST connections places the target, reads all nodes and tells them; the
\* connection follows as a statement of its own.  What the foreign keys refuse
\* is module RoomInterleaved's.
PlaceTarget(k) ==
  LET new == [db EXCEPT !.nodes = @ \cup {k.to}]
  IN /\ edits < MaxEdits
     /\ edits' = edits + 1
     /\ k.from # k.to
     /\ k.id \notin used
     /\ used' = used \cup {k.id}
     /\ k.from \in db.nodes
     /\ db' = new
     /\ behind' = Races(new)
     /\ tells' = tells \cup {[kind |-> "target", conn |-> k]}
     /\ UNCHANGED <<copy, link, seen, down, up>>

-----------------------------------------------------------------------------
(* The server: the handlers' later steps *)

\* A handler reads rows again, broadcasts them to all but X and goes on to next.
Tells(t, X, nodes, next) ==
  /\ tells' = (tells \ {t}) \cup next
  /\ down' = ToAllBut(X, NodesMsg(nodes))
  /\ UNCHANGED <<db, copy, link, seen, up, behind, used, edits>>

TellChain(t) ==
  /\ t.kind = "chain"
  /\ Tells(t, {}, db.nodes \cap {t.zone},
           IF t.by \in Clients THEN {[t EXCEPT !.kind = "answer"]} ELSE {})

TellSave(t) == t.kind = "save" /\ Tells(t, {t.by}, db.nodes, {})

\* The client merges the answer, whatever it was told of the chain since.
MergeChain(t) ==
  /\ t.kind = "answer"
  /\ tells' = tells \ {t}
  /\ copy' = [copy EXCEPT ![t.by].sources = @ \cup {t.zone}]
  /\ behind' = [behind EXCEPT ![t.by] = @ \cup
       (IF t.gone THEN {"chains"} ELSE {})]
  /\ UNCHANGED <<db, link, seen, down, up, used, edits>>

TellTarget(t) == t.kind = "target" /\ Tells(t, {}, db.nodes, {[t EXCEPT !.kind = "insert"]})

InsertConnection(t) ==
  LET new == [db EXCEPT !.conns = @ \cup {t.conn}]
  IN /\ t.kind = "insert"
     /\ tells' = tells \ {t}
     /\ db' = new
     /\ behind' = Races(new)
     /\ down' = ToAllBut({}, [kind |-> "connection_added", conn |-> t.conn])
     /\ UNCHANGED <<copy, link, seen, up, used, edits>>

\* The last read of PATCH a connection: without a row the handler fails.
TellUpdate(t) ==
  /\ t.kind = "update"
  /\ tells' = tells \ {t}
  /\ IF t.conn \in db.conns
     THEN down' = ToAllBut({}, [kind |-> "connection_updated", conn |-> t.conn])
     ELSE UNCHANGED down
  /\ UNCHANGED <<db, copy, link, seen, up, behind, used, edits>>

\* update_node_positions: all rows are deleted and the listed ones inserted.
\* The sender is never told: what its snapshot brought back after it was told
\* to drop it, it does not know of.
Save(c) ==
  /\ up[c] # <<>>
  /\ LET new == [db EXCEPT !.nodes = Head(up[c])]
         back == new.nodes \ db.nodes
     IN /\ db' = new
        /\ behind' = [Races(new) EXCEPT ![c] = @ \cup
             (IF back \subseteq CaughtUp(c).nodes THEN {} ELSE {"nodes"})]
  /\ up' = [up EXCEPT ![c] = Tail(@)]
  /\ tells' = tells \cup {[kind |-> "save", by |-> c]}
  /\ UNCHANGED <<copy, link, seen, down, used, edits>>

\* rotate_zone tells everyone, the sender too, the one row it wrote.
RotateZone(z) ==
  /\ z \in db.nodes
  /\ Edit(db, NodesMsg({z}))
  /\ UNCHANGED <<used, tells>>

-----------------------------------------------------------------------------
(* The handshake: the socket is registered before anything is read *)

Handshake(c, from, to, part) ==
  /\ link[c] = from
  /\ link' = [link EXCEPT ![c] = to]
  /\ seen' = [seen EXCEPT ![c] = part]
  /\ UNCHANGED <<db, copy, up, tells, used>>

\* The socket's registration and the first reads, of the room and its chains.
Register(c) ==
  /\ edits < MaxEdits
  /\ edits' = edits + 1
  /\ Handshake(c, "away", "room", [EmptyStore EXCEPT !.home = db.home, !.sources = db.sources])
  /\ behind' = [behind EXCEPT ![c] = {}]
  /\ UNCHANGED down

ReadConnections(c) ==
  /\ Handshake(c, "room", "conns", [seen[c] EXCEPT !.conns = db.conns])
  /\ UNCHANGED <<down, behind, edits>>

ReadNodes(c) ==
  /\ Handshake(c, "conns", "nodes", [seen[c] EXCEPT !.nodes = db.nodes])
  /\ UNCHANGED <<down, behind, edits>>

SendSync(c) ==
  /\ Handshake(c, "nodes", "live", EmptyStore)
  /\ down' = [down EXCEPT ![c] = Append(@, [kind |-> "sync", map |-> seen[c]])]
  /\ UNCHANGED <<behind, edits>>

\* The socket closes: what was on its way is lost, the store keeps its copy.
\* A save whose sender left is told to everyone.
Leave(c) ==
  /\ c \in Registered
  /\ edits < MaxEdits
  /\ edits' = edits + 1
  /\ link' = [link EXCEPT ![c] = "away"]
  /\ seen' = [seen EXCEPT ![c] = EmptyStore]
  /\ down' = [down EXCEPT ![c] = <<>>]
  /\ up' = [up EXCEPT ![c] = <<>>]
  /\ behind' = [behind EXCEPT ![c] = {}]
  /\ tells' = {IF t.kind = "save" /\ t.by = c THEN [t EXCEPT !.by = "gone"] ELSE t : t \in tells}
  /\ UNCHANGED <<db, copy, used>>

-----------------------------------------------------------------------------
ClientStep == \E c \in Clients : Deliver(c) \/ DragStop(c) \/ EditNode(c)

RequestStep ==
  \/ \E i \in ConnIds, f, t \in Zones : PlaceTarget([id |-> i, from |-> f, to |-> t])
  \/ \E K \in SUBSET db.conns : RemoveConnections(K) \/ Expire(K)
  \/ \E k \in db.conns : UpdateConnection(k)
  \/ \E z \in Zones : RotateZone(z) \/ RemoveNode(z) \/ \E c \in Clients : AddChain(c, z)
  \/ \E s \in db.sources, Z \in SUBSET Sweepable :
       RemoveChain(s, Z) \/ \E to \in Zones : RelocateChain(s, to, Z)
  \/ ResetRoom
  \/ \E f \in Imports : ImportRoom(f)

TellStep ==
  \E t \in tells : TellChain(t) \/ TellTarget(t) \/ InsertConnection(t)
                    \/ TellSave(t) \/ MergeChain(t) \/ TellUpdate(t)

LinkStep ==
  \E c \in Clients : \/ Register(c) \/ ReadConnections(c) \/ ReadNodes(c)
                     \/ SendSync(c) \/ Leave(c) \/ Save(c)

Next == ClientStep \/ RequestStep \/ TellStep \/ LinkStep

Spec == Init /\ [][Next]_vars

-----------------------------------------------------------------------------
\* Type invariant.
TypeOK ==
  /\ db \in Map
  /\ copy \in [Clients -> Map]
  /\ seen \in [Clients -> Map]
  /\ link \in [Clients -> {"away", "room", "conns", "nodes", "live"}]
  /\ behind \in [Clients -> SUBSET {"chains", "conns", "nodes"}]
  /\ \A c \in Clients : Len(up[c]) <= MaxUp /\ \A i \in DOMAIN up[c] : up[c][i] \subseteq Zones
  /\ used \subseteq ConnIds
  /\ edits \in 0..MaxEdits

\* What some handler has yet to tell client c.
Untold(c) ==
  IF \E t \in tells : t.kind = "target" \/ (t.kind = "save" /\ t.by # c) THEN Zones
  ELSE {t.zone : t \in {u \in tells : u.kind = "chain"}}

\* A client that joined knows every node of the room once it has applied what
\* is on its way and no handler has anything left to tell: no order of edits,
\* full saves and broadcasts hides a node, but for a handshake raced by an
\* edit (auth.ts:181), a reset, which the stores take further than the server
\* (useRoomStore.ts:463), an import, which is told as a reset (rooms.ts:1166),
\* and a save that brings back what its own sender has dropped
\* (update_node_positions.ts:115).
KnowsEveryNode ==
  \A c \in Clients : link[c] = "live" /\ "nodes" \notin behind[c] =>
    db.nodes \ Untold(c) \subseteq CaughtUp(c).nodes

\* Connections, chains and the home zone are never saved by snapshot: a client's
\* own are the server's once it has applied what is on its way, whatever was lost
\* before it joined again, unless its handshake was raced (auth.ts:181), it
\* merged the answer about a chain removed since (useRoomStore.ts:1137), or the
\* room was imported anew, of which only the reset is told (rooms.ts:1166).
SameMap ==
  /\ TypeOK
  /\ \A c \in Clients : link[c] = "live" =>
       LET s == CaughtUp(c)
       IN /\ "conns" \notin behind[c] => s.conns = db.conns
          /\ "chains" \notin behind[c] => s.sources = db.sources /\ s.home = db.home
=============================================================================
