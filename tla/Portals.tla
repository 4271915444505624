-------------------------------- MODULE Portals --------------------------------
(***************************************************************************)
(* How members connect portals: the checks RoomView and ReportForm make    *)
(* when a drag ends, the form or the dialog they open, the requests these  *)
(* send one by one, and what the server checks again.                      *)
(*                                                                         *)
(* One chain; members read the rows themselves (the copies and their       *)
(* messages are module ClientSync's).  A portal is a handle of a zone, and *)
(* every zone has the centre besides.  The store's find() takes the first  *)
(* connection in an order nothing fixes, so any that fits.  A second       *)
(* gesture of a member whose requests are still under way is that of       *)
(* another member.                                                         *)
(***************************************************************************)
EXTENDS Naturals, FiniteSets, Sequences, SequencesExt

CONSTANTS
  Members,
  Zones,
  Home,        \* source of the chain
  Roads,       \* the zones of type roads and roadsHideout
  Portals,     \* handles other than the centre
  MaxConns,    \* bound: connections ever made
  MaxGestures, \* bound: drags, edits and expiries
  Cost         \* bound: what a gesture of each member takes of it

ASSUME PortalsAssumption ==
  /\ Home \in Zones
  /\ Roads \subseteq Zones
  /\ "center" \notin Portals
  /\ "the job" \notin Members
  /\ MaxConns \in Nat /\ MaxGestures \in Nat /\ Cost \in [Members -> Nat]

Center == "center"
Handles == Portals \cup {Center}

VARIABLES
  conns,    \* connections of the room, and how each came to be (a ghost)
  nodes,    \* zones with a row in room_node_positions
  disabled, \* disabled portals, as <<zone, portal>>
  over,     \* ids of connections whose time is over
  grey,     \* ids each member was told have expired
  form,     \* the open ReportForm of each member, if any
  dialog,   \* the open "Portal already occupied" of each member, if any
  todo,     \* requests of each member, in order; the first is under way
  last,     \* id of the last connection made
  gestures, \* how much of the gestures is taken
  fresh,    \* ghost: no write of others since the member's last gesture
  blind     \* ghost: portals, pairs and zones that a write reached unchecked

vars == <<conns, nodes, disabled, over, grey, form, dialog, todo, last,
          gestures, fresh, blind>>

Init ==
  /\ conns = {} /\ nodes = {Home} /\ disabled = {} /\ over = {} /\ last = 0
  /\ grey = [m \in Members |-> {}]
  /\ form = [m \in Members |-> {}]
  /\ dialog = [m \in Members |-> {}]
  /\ todo = [m \in Members |-> <<>>]
  /\ gestures = 0
  /\ fresh = [m \in Members |-> TRUE]
  /\ blind = [portals |-> {}, pairs |-> {}, zones |-> {}]

-----------------------------------------------------------------------------
(* What the client looks up *)

PortalsOf(k) == {<<k.from, k.fh>>, <<k.to, k.th>>}
Pair(k) == {k.from, k.to}

\* isExpired is what the member was told; the server never sets it.
Live(m) == {k \in conns : k.id \notin grey[m]}

Occupants(K, z, h) == {k \in K : <<z, h>> \in PortalsOf(k)}
Between(K, a, b) == {k \in K : Pair(k) = {a, b}}

\* isNodeIsolated
Isolated(m, z) == z # Home /\ \A k \in conns : z \in Pair(k) => k.id \in grey[m] \cup over

\* The ends of connections are drawn without a row, too.
Drawn == nodes \cup UNION {Pair(k) : k \in conns}

\* canReach: one step of its search, which takes connections in both directions
\* and expired ones too.
Spread(K, Z) == Z \cup UNION {Pair(k) : k \in {l \in K : Pair(l) \cap Z # {}}}
\* Mutant: only a connection in the other direction makes a loop.
WouldCycle(K, a, b) == \E k \in K : k.from = b /\ k.to = a

\* A loop exists if the target reaches the source already.
WouldLoop(K, a, b) ==
  a \in FoldLeft(LAMBDA Z, i : Spread(K, Z), {b}, [i \in 1..Cardinality(K) |-> i])

\* The first that find() returns: none, or any that fits.
Found(K) == IF K = {} THEN {{}} ELSE {{k} : k \in K}

-----------------------------------------------------------------------------
(* Gestures: what a member may start when nothing of his is open *)

Ready(m) ==
  /\ form[m] = {} /\ dialog[m] = {} /\ todo[m] = <<>>
  /\ gestures + Cost[m] <= MaxGestures

Gesture(m) ==
  /\ gestures' = gestures + Cost[m]
  /\ fresh' = [fresh EXCEPT ![m] = TRUE]
  /\ UNCHANGED <<conns, nodes, disabled, over, grey, last, blind>>

Open(m, f) == form' = [form EXCEPT ![m] = {f}] /\ UNCHANGED <<dialog, todo>>
Ask(m, d) == dialog' = [dialog EXCEPT ![m] = {d}] /\ UNCHANGED <<form, todo>>
Send(m, R) == todo' = [todo EXCEPT ![m] = R] /\ UNCHANGED <<form, dialog>>

\* A request to change the two handles of a connection; `checked` is whether
\* the client looked who else uses them, and at none whose time was over.
Patch(id, fh, th, checked) ==
  [op |-> "patch", id |-> id, fh |-> fh, th |-> th, checked |-> checked]
DeleteIt(id) == [op |-> "delete", id |-> id]

\* Between a roads zone and one that is none the other's entrance stays, and
\* its road's portal moves when one of both is the centre or they are equal.
SameEntrance(e, sh, th) == IF e.from \in Roads THEN e.th = th ELSE e.fh = sh
MovesRoadEnd(e, sh, th) ==
  LET old == IF e.from \in Roads THEN e.fh ELSE e.th
      new == IF e.from \in Roads THEN sh ELSE th
  IN old = Center \/ new = Center \/ old = new

OneIsRoads(e) == Cardinality(Pair(e) \cap Roads) = 1
\* Both roads: a side at the centre is replaced, the side not dragged follows.
MovesPortal(e, sh, th) ==
  IF OneIsRoads(e) THEN MovesRoadEnd(e, sh, th)
  ELSE Pair(e) \subseteq Roads => Center \in {e.fh, e.th} \/ e.fh = sh

ConnectForm(a, ah, b, bh, how) ==
  [from |-> a, fh |-> ah, to |-> b, th |-> bh, between |-> TRUE, how |-> how]

\* Two zones are connected already: the drag is turned to the direction of the
\* connection, and changes its handles or asks, with a warning, for another one.
Reconnect(m, e, a, ah, b, bh, checked) ==
  LET sh == IF e.from = a THEN ah ELSE bh
      th == IF e.from = a THEN bh ELSE ah
  IN /\ OneIsRoads(e) => SameEntrance(e, sh, th)
     /\ IF MovesPortal(e, sh, th) THEN Send(m, <<Patch(e.id, sh, th, checked)>>)
        ELSE Open(m, ConnectForm(e.from, sh, e.to, th, IF checked THEN "warned" ELSE "misled"))

\* The form warns of a loop.
Warning(a, b) == IF WouldLoop(conns, a, b) THEN "warned" ELSE "plain"

\* Mutant: nobody asks about the target portal.
HandleConnectUnasked(m, a, ah, b, bh) ==
  /\ Gesture(m)
  /\ a # b
  /\ {<<a, ah>>, <<b, bh>>} \cap disabled = {}
  /\ Occupants(Live(m), a, ah) = {} /\ Between(Live(m), a, b) = {}
  /\ Open(m, ConnectForm(a, ah, b, bh, Warning(a, b)))

\* handleConnect: a source portal in use by another pair is refused, a target
\* portal in use by another pair asks first, and before all that follows.
HandleConnect(m, a, ah, b, bh) ==
  /\ Gesture(m)
  /\ a # b
  /\ {<<a, ah>>, <<b, bh>>} \cap disabled = {}
  /\ \E S \in Found(Occupants(Live(m), a, ah)), T \in Found(Occupants(Live(m), b, bh)) :
       /\ \A k \in S : Pair(k) = {a, b}
       /\ IF \E k \in T : Pair(k) # {a, b}
          THEN \E k \in T : Ask(m, [from |-> a, fh |-> ah, to |-> b, th |-> bh, id |-> k.id])
          ELSE IF Between(Live(m), a, b) = {}
               THEN Open(m, ConnectForm(a, ah, b, bh, Warning(a, b)))
               ELSE \E e \in Between(Live(m), a, b) :
                      Reconnect(m, e, a, ah, b, bh, \A k \in S \cup T \cup {e} : k.id \notin over)

\* handleConnectStart: a drag from a zone that is cut off, or from a disabled
\* portal, is not remembered.
StartsDrag(m, a, ah) == ~Isolated(m, a) /\ <<a, ah>> \notin disabled

\* handleConnectEnd on the empty canvas: the form asks for the zone.
DropOnPane(m, a, ah) ==
  /\ Gesture(m)
  /\ StartsDrag(m, a, ah)
  /\ Occupants(Live(m), a, ah) = {}
  /\ Open(m, [from |-> a, fh |-> ah, to |-> a, th |-> Center,
              between |-> FALSE, how |-> "plain"])

\* onEdgeUpdate: an end is dragged to another portal of its zone; nothing is
\* looked up.
DragEdgeEnd(m, k, fh, th) ==
  /\ Gesture(m)
  /\ (fh = k.fh) # (th = k.th)
  /\ Send(m, <<Patch(k.id, fh, th, FALSE)>>)

\* The popover of an edge: a new time, also for one that has expired.
SetTime(m, k) == Gesture(m) /\ Send(m, <<[op |-> "time", id |-> k.id]>>)

DeleteEdge(m, k) == Gesture(m) /\ Send(m, <<DeleteIt(k.id)>>)

\* Mutant: connections that end at a disabled portal are left there.
LeavesNot(k, z, D) == IF k.from = z /\ k.fh \in D THEN DeleteIt(k.id) ELSE [op |-> "time", id |-> k.id]

\* A connection that ends at a portal to be disabled moves to the centre, one
\* that starts there is deleted.
Leaves(k, z, D) ==
  IF k.to = z /\ k.th \in D THEN [op |-> "center", id |-> k.id] ELSE DeleteIt(k.id)

\* saveCustomHandles: the connections leave the portals before these are
\* disabled, one request each.
EditHandles(m, z, D) ==
  LET used == SetToSeq({k \in conns : \E h \in D : <<z, h>> \in PortalsOf(k)})
  IN /\ Gesture(m)
     /\ Send(m, [i \in DOMAIN used |-> Leaves(used[i], z, D)]
                \o <<[op |-> "disable", zone |-> z, portals |-> D]>>)

-----------------------------------------------------------------------------
(* The form and the dialog *)

Idle == UNCHANGED <<conns, nodes, disabled, over, grey, last, fresh, blind>>

\* The To field: any zone not connected to From yet.  It can be changed as well
\* when the form was opened between two zones.  (Other chains and zone types
\* that cannot be neighbours are not offered either.)
Pick(m, z) ==
  /\ todo[m] = <<>>
  /\ \E f \in form[m] :
       /\ z # f.from /\ z # f.to
       /\ Between(Live(m), f.from, z) = {}
       /\ form' = [form EXCEPT ![m] = {[f EXCEPT !.to = z, !.th = Center,
                     !.how = CASE f.between -> "repicked"
                               [] ~f.between /\ z \in Drawn -> "picked"
                               [] OTHER -> "plain"]}]
  /\ Idle /\ UNCHANGED <<dialog, todo, gestures>>

\* isPortalOccupied: several connections may meet at the centre.
PortalOccupied(m, z, h) == h # Center /\ Occupants(Live(m), z, h) # {}

\* submitAndClose, submitAndAddMore: the zone of an empty canvas gets a
\* position; between two zones neither portals are looked up again nor a
\* position sent.
Submit(m, close) ==
  /\ todo[m] = <<>>
  /\ \E f \in form[m] :
       /\ f.to # f.from
       /\ f.between \/ ~(PortalOccupied(m, f.from, f.fh) \/ PortalOccupied(m, f.to, f.th))
       /\ todo' = [todo EXCEPT ![m] = <<[op |-> "add", from |-> f.from, fh |-> f.fh,
                     to |-> f.to, th |-> f.th, how |-> f.how,
                     place |-> ~f.between, close |-> close]>>]
  /\ Idle /\ UNCHANGED <<form, dialog, gestures>>

CloseForm(m) ==
  /\ form[m] # {} /\ todo[m] = <<>>
  /\ form' = [form EXCEPT ![m] = {}]
  /\ Idle /\ UNCHANGED <<dialog, todo, gestures>>

\* handleConfirmOccupied: the connection of the target portal and then the one
\* of the source portal are deleted, and the new one is added.
ConfirmDialog(m) ==
  /\ \E d \in dialog[m] : \E S \in Found(Occupants(Live(m), d.from, d.fh)) :
       todo' = [todo EXCEPT ![m] =
         <<DeleteIt(d.id)>> \o SetToSeq({DeleteIt(k.id) : k \in {l \in S : l.id # d.id}})
         \o <<[op |-> "add", from |-> d.from, fh |-> d.fh, to |-> d.to, th |-> d.th,
               how |-> "replaced", place |-> FALSE, close |-> TRUE]>>]
  /\ dialog' = [dialog EXCEPT ![m] = {}]
  /\ Idle /\ UNCHANGED <<form, gestures>>

CancelDialog(m) ==
  /\ dialog[m] # {}
  /\ dialog' = [dialog EXCEPT ![m] = {}]
  /\ Idle /\ UNCHANGED <<form, todo, gestures>>

-----------------------------------------------------------------------------
(* The server, one request at a time *)

Ids == {k.id : k \in conns}
Done(m) == todo' = [todo EXCEPT ![m] = Tail(@)]

\* Who is in the middle of something has looked at rows that are no more.
Overtakes(m) ==
  fresh' = [n \in Members |-> fresh[n] /\
              (n = m \/ (form[n] = {} /\ dialog[n] = {} /\ todo[n] = <<>>))]

\* A write reaches the rows.  It is blind when the client did not look, or when
\* another write came between the look and this one.
Lands(m, K, unseen) ==
  /\ Overtakes(m)
  /\ LET U == IF unseen \/ ~fresh[m] THEN K ELSE {}
         R == {k \in K : k.how = "repicked"}
     IN blind' = [portals |-> blind.portals \cup UNION {PortalsOf(k) : k \in U},
                  pairs |-> blind.pairs \cup {Pair(k) : k \in U},
                  zones |-> blind.zones \cup UNION {Pair(k) : k \in U \cup R}]

\* A failed request ends a replacement; the handle editor goes on.
Fails(m) ==
  /\ todo' = [todo EXCEPT ![m] = IF Last(@).op \in {"add", "insert"} THEN <<>> ELSE Tail(@)]
  /\ form' = [form EXCEPT ![m] = IF Last(todo[m]).op = "add" /\ Last(todo[m]).close THEN {} ELSE @]
  /\ UNCHANGED <<conns, nodes, disabled, over, grey, dialog, last, gestures, fresh, blind>>

\* POST: the source must be on the map and its portal free, of expired
\* connections too; of the target only that it is not disabled.
Accepts(r) ==
  /\ r.from \in nodes
  /\ Occupants(conns, r.from, r.fh) = {}
  /\ {<<r.from, r.fh>>, <<r.to, r.th>>} \cap disabled = {}

AddChecks(m, r) ==
  /\ r.op = "add"
  /\ IF ~Accepts(r) THEN Fails(m)
     ELSE /\ nodes' = IF r.place THEN nodes \cup {r.to} ELSE nodes
          /\ todo' = [todo EXCEPT ![m] = <<[r EXCEPT !.op = "insert"]>>]
          /\ UNCHANGED <<conns, disabled, over, grey, form, dialog, last,
                         gestures, fresh, blind>>

\* "Save and add more": From stays, at its centre.
NextEntry(f) ==
  [f EXCEPT !.fh = Center, !.to = f.from, !.th = Center]

AddInserts(m, r) ==
  LET k == [id |-> last + 1, from |-> r.from, fh |-> r.fh, to |-> r.to, th |-> r.th,
            how |-> r.how]
  IN /\ r.op = "insert"
     /\ last < MaxConns
     /\ last' = k.id
     /\ conns' = conns \cup {k}
     /\ form' = [form EXCEPT ![m] = IF r.close THEN {} ELSE {NextEntry(f) : f \in @}]
     /\ Done(m) /\ Lands(m, {k}, r.how \in {"replaced", "misled"})
     /\ UNCHANGED <<nodes, disabled, over, grey, dialog, gestures>>

\* The store keeps the row it is told, which never says isExpired.
Told(id) == grey' = [n \in Members |-> grey[n] \ {id}]

PatchLands(m, r) ==
  /\ r.op \in {"patch", "center"}
  /\ IF r.id \notin Ids THEN Fails(m)
     ELSE \E k \in conns :
            LET new == IF r.op = "center" THEN [k EXCEPT !.th = Center]
                       ELSE [k EXCEPT !.fh = r.fh, !.th = r.th]
            IN /\ k.id = r.id
               /\ conns' = (conns \ {k}) \cup {new}
               /\ Done(m) /\ Told(k.id)
               /\ Lands(m, {new}, r.op = "patch" /\ ~r.checked)
               /\ UNCHANGED <<nodes, disabled, over, form, dialog, last, gestures>>

TimeLands(m, r) ==
  /\ r.op = "time"
  /\ IF r.id \notin Ids THEN Fails(m)
     ELSE \E k \in conns :
            /\ k.id = r.id
            /\ over' = over \ {k.id}
            /\ Done(m) /\ Told(k.id) /\ Lands(m, {k}, k.id \in over)
            /\ UNCHANGED <<conns, nodes, disabled, form, dialog, last, gestures>>

\* The zones K leaves without a connection, but for the source.
Orphans(K) ==
  (UNION {Pair(k) : k \in conns \ K}) \ ((UNION {Pair(k) : k \in K}) \cup {Home})

DeleteLands(m, r) ==
  /\ r.op = "delete"
  /\ IF r.id \notin Ids THEN Fails(m)
     ELSE LET rest == {k \in conns : k.id # r.id}
          IN /\ conns' = rest
             /\ nodes' = nodes \ Orphans(rest)
             /\ over' = over \ {r.id}
             /\ Done(m) /\ Told(r.id) /\ Lands(m, {}, FALSE)
             /\ UNCHANGED <<disabled, form, dialog, last, gestures>>

DisableLands(m, r) ==
  /\ r.op = "disable"
  /\ disabled' = {p \in disabled : p[1] # r.zone} \cup ({r.zone} \X r.portals)
  /\ LET Left == {k \in conns : \E h \in r.portals : <<r.zone, h>> \in PortalsOf(k)}
     IN blind' = IF fresh[m] THEN blind
                 ELSE [blind EXCEPT !.portals = @ \cup ({r.zone} \X r.portals),
                                    !.pairs = @ \cup {Pair(k) : k \in Left}]
  /\ Overtakes(m)
  /\ Done(m)
  /\ UNCHANGED <<conns, nodes, over, grey, form, dialog, last, gestures>>

Serve(m) ==
  /\ todo[m] # <<>>
  /\ LET r == Head(todo[m])
     IN \/ AddChecks(m, r) \/ AddInserts(m, r) \/ PatchLands(m, r) \/ TimeLands(m, r)
        \/ DeleteLands(m, r) \/ DisableLands(m, r)

\* The time of a connection is over and the minutely job tells who is there; a
\* connection of two zones that are no roads is permanent.
Expire(k, N) ==
  /\ gestures < MaxGestures /\ gestures' = gestures + 1
  /\ k.id \notin over
  /\ Pair(k) \cap Roads # {}
  /\ over' = over \cup {k.id}
  /\ grey' = [n \in Members |-> IF n \in N THEN grey[n] \cup {k.id} ELSE grey[n]]
  /\ UNCHANGED <<conns, nodes, disabled, form, dialog, todo, last, fresh, blind>>

\* Six hours later the row goes, and no node with it.
Cleanup(k) ==
  /\ k.id \in over
  /\ conns' = conns \ {k}
  /\ over' = over \ {k.id}
  /\ Told(k.id)
  /\ Overtakes("the job")
  /\ UNCHANGED <<nodes, disabled, form, dialog, todo, last, gestures, blind>>

-----------------------------------------------------------------------------
Drag(m) ==
  /\ Ready(m)
  /\ \/ \E a \in Drawn, ah \in Handles : DropOnPane(m, a, ah)
     \/ \E a, b \in Drawn, ah, bh \in Handles : HandleConnect(m, a, ah, b, bh)
     \/ \E k \in conns, fh, th \in Handles : DragEdgeEnd(m, k, fh, th)

Change(m) ==
  /\ Ready(m)
  /\ \/ \E k \in conns : SetTime(m, k) \/ DeleteEdge(m, k)
     \/ \E z \in nodes, D \in SUBSET Portals : EditHandles(m, z, D)

Answer(m) ==
  \/ \E z \in Zones : Pick(m, z)
  \/ \E close \in BOOLEAN : Submit(m, close)
  \/ CloseForm(m) \/ ConfirmDialog(m) \/ CancelDialog(m)

Pass == \E k \in conns : Cleanup(k) \/ \E N \in SUBSET Members : Expire(k, N)

Next == Pass \/ \E m \in Members : Drag(m) \/ Change(m) \/ Answer(m) \/ Serve(m)

Spec == Init /\ [][Next]_vars

-----------------------------------------------------------------------------
Connection == [id : 1..MaxConns, from : Zones, fh : Handles, to : Zones, th : Handles,
               how : {"plain", "warned", "misled", "picked", "repicked", "replaced"}]

\* Type invariant: what a form or a request names are handles, and the centre
\* where a field is empty.
TypeOK ==
  /\ conns \subseteq Connection
  /\ \A k, l \in conns : k.id = l.id => k = l
  /\ nodes \subseteq Zones /\ Home \in nodes
  /\ disabled \subseteq Zones \X Portals
  /\ over \subseteq Ids
  /\ \A m \in Members : grey[m] \subseteq over
  /\ \A m \in Members : \A f \in form[m] : {f.fh, f.th} \subseteq Handles
  /\ last \in 0..MaxConns

Alive == {k \in conns : k.id \notin over}

HandlesEdited ==
  {r.zone : r \in {q \in UNION {Range(todo[m]) : m \in Members} : q.op = "disable"}}

\* A portal leads to one zone: whoever connects, moves, times and deletes, two
\* connections on one portal join the same two zones, but on a portal that some
\* write reached unseen: an edge's end dragged, a replacement, an expired
\* connection that came back, a drag over one whose end its member was not told
\* of, or a check that another member's write overtook.
\* The server compares the source portal alone (connections.ts:136).  Unless one
\* was made unseen, connections of the same two zones agree: all in one
\* direction, which the server does not look at (RoomView turns the drag), and
\* on one entrance where one of the two is no road, but while the handles are
\* edited, when connections move to the centre one by one.
PortalsAgree ==
  \A k, l \in Alive :
    /\ \A p \in PortalsOf(k) \cap PortalsOf(l) :
         p[2] # Center /\ p \notin blind.portals => Pair(k) = Pair(l)
    /\ Pair(k) = Pair(l) /\ Pair(k) \notin blind.pairs =>
         /\ k.from = l.from
         /\ OneIsRoads(k) => \A z \in Pair(k) \ (Roads \cup HandlesEdited) :
              {p \in PortalsOf(k) : p[1] = z} = {p \in PortalsOf(l) : p[1] = z}

\* Every loop holds a connection its member was warned of, whose zone was picked
\* by name though drawn already or after a drag between two zones, or that was
\* made unseen.
LoopsWarned ==
  LET quiet == {k \in conns : k.how = "plain" /\ Pair(k) \notin blind.pairs}
  IN \A K \in (SUBSET quiet) \ {{}} :
       \E z \in Zones : Cardinality({k \in K : z \in Pair(k)}) = 1

\* What a connection stands on is there: none uses a disabled portal that was
\* not reached unseen (those moved away before, and those that come later, are
\* checked), and both ends have their rows, or it can never be continued (a form
\* opened between two zones and sent to a third places none).
EndsAreThere ==
  /\ TypeOK
  /\ \A k \in conns : /\ PortalsOf(k) \cap disabled \subseteq blind.portals
                      /\ Pair(k) \subseteq nodes \cup blind.zones
=============================================================================
