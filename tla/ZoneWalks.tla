------------------------------- MODULE ZoneWalks -------------------------------
(***************************************************************************)
(* The walks the browser makes over its list of connections: the shortest  *)
(* route between two zones, which zones and edges are shown as cut off     *)
(* from home, and what a branch or zone deletion takes with it; and the    *)
(* reference definitions they are measured by.                             *)
(*                                                                         *)
(* A connection is its place in the list, and has a direction, from the    *)
(* zone nearer home to the zone beyond.                                    *)
(***************************************************************************)
EXTENDS Naturals, FiniteSets, Sequences, SequencesExt

CONSTANTS
  Zones,
  Sources   \* the home zone and the source zones of the other chains

ASSUME ZonesOK == IsFiniteSet(Zones) /\ Sources \subseteq Zones

Ids(L) == 1..Len(L)

\* The elements of L in the places K, in the order they have.
Kept(L, K) ==
  LET kept[i \in 0..Len(L)] ==
        IF i = 0 THEN <<>> ELSE IF i \in K THEN Append(kept[i-1], L[i]) ELSE kept[i-1]
  IN kept[Len(L)]
Without(L, D) == Kept(L, Ids(L) \ D)

\* Where the pairs R lead from S, in one step and in n or fewer.
After(S, R) == {e[2] : e \in {d \in R : d[1] \in S}}
Within(S, n, R) ==
  LET ball[i \in 0..n] ==
        IF i = 0 THEN S ELSE LET T == ball[i-1] IN T \cup After(T, R)
  IN ball[n]

-----------------------------------------------------------------------------
(* The route search *)

Touching(L, z) == {k \in Ids(L) : z \in {L[k].from, L[k].to}}
Other(L, k, z) == IF L[k].from = z THEN L[k].to ELSE L[k].from

\* Mutant: connections are only travelled forwards.
FirstForward(L, z, visited) ==
  Kept([k \in Ids(L) |-> k], {k \in Touching(L, z) :
    /\ L[k].from = z /\ Other(L, k, z) \notin visited
    /\ \A j \in Touching(L, z) : Other(L, j, z) = Other(L, k, z) => k <= j})
\* Of the connections to a neighbour not yet visited the first is taken.
FirstTo(L, z, visited) ==
  Kept([k \in Ids(L) |-> k], {k \in Touching(L, z) :
    /\ Other(L, k, z) \notin visited
    /\ \A j \in Touching(L, z) : Other(L, j, z) = Other(L, k, z) => k <= j})

\* One round of the search: the head of the queue ends it or is replaced, at
\* the back, by its unvisited neighbours.
Round(L, end, s) ==
  IF s.queue = <<>> \/ Head(s.queue).zone = end THEN s
  ELSE LET at == Head(s.queue)
           new == FirstTo(L, at.zone, s.visited)
       IN [queue |-> Tail(s.queue) \o [i \in DOMAIN new |->
                        [zone |-> Other(L, new[i], at.zone),
                         path |-> Append(at.path, new[i]),
                         reversed |-> at.reversed \cup
                           {k \in {new[i]} : L[k].to = at.zone}]],
           visited |-> s.visited \cup {Other(L, k, at.zone) : k \in ToSet(new)}]

\* The route found, if there is one: each round takes a zone off the queue and
\* a zone enters it once.
bfsRoute(L, start, end) ==
  LET n == Cardinality(Zones)
      round[i \in 0..n] ==
        IF i = 0 THEN [queue |-> <<[zone |-> start, path |-> <<>>, reversed |-> {}]>>,
                       visited |-> {start}]
        ELSE Round(L, end, round[i-1])
      s == round[n]
  IN IF s.queue = <<>> THEN {} ELSE {Head(s.queue)}

-----------------------------------------------------------------------------
(* What is cut off from home *)

\* From a connection those that leave the zone it leads to, and back.
Children(L) == {e \in Ids(L) \X Ids(L) : L[e[1]].to = L[e[2]].from}
Parents(L) == {<<e[2], e[1]>> : e \in Children(L)}

\* treeQuery, as the set of its results.
Closure(L, Near, S) == Within(S, Len(L), Near)
treeQuery(L, k, queryType) ==
  LET Near == IF queryType = "ancestors" THEN Parents(L) ELSE Children(L)
  IN Closure(L, Near, After({k}, Near))

isEdgeIsolated(L, k) == \E i \in treeQuery(L, k, "ancestors") : L[i].expired

\* Mutant: an edge cut off further up is as good as any.
isNodeExpiredNear(L, z) ==
  z \notin Sources /\ ~\E k \in Touching(L, z) : ~L[k].expired
isNodeExpired(L, z) ==
  z \notin Sources
    /\ ~\E k \in Touching(L, z) : ~isEdgeIsolated(L, k) /\ ~L[k].expired

isNodeIsolated(L, z) ==
  z \notin Sources /\ \A k \in Touching(L, z) : L[k].expired

\* What is greyed out.
isNodeRestricted(L, z) == isNodeIsolated(L, z) \/ isNodeExpired(L, z)
isEdgeRestricted(L, k) == L[k].expired \/ isEdgeIsolated(L, k)

-----------------------------------------------------------------------------
(* What a deletion takes *)

\* The branch beyond connection k; the walk does not go on from the zone the
\* connection leaves, nor twice from any other.
\* Mutant: the walk also turns back at the zone it starts from.
BranchBack(L, k) ==
  {k} \cup Closure(L, Children(L) \cup Parents(L), After({k}, Children(L)))
onDeleteRecursive(L, k) ==
  LET beyond == {e \in Children(L) : L[e[1]].to # L[k].from}
  IN {k} \cup Closure(L, beyond, After({k}, beyond))

\* Deleting a zone takes its connections, of a zone that is no road those that
\* lead to it, and everything beyond them.
WalkFrom(L, S) == Closure(L, Children(L), S)
handleDeleteRoads(L, z) == WalkFrom(L, Touching(L, z))
handleDeleteOther(L, z) == WalkFrom(L, {k \in Ids(L) : L[k].to = z})

-----------------------------------------------------------------------------
(* Reference definitions, by distance instead of by search *)

Reached(L, from, K) ==
  Within(from, Cardinality(Zones), {<<L[k].from, L[k].to>> : k \in K})

Live(L) == {k \in Ids(L) : ~L[k].expired}
FromHome(L, K) == Reached(L, Sources, K)

\* Every connection lies beyond a root.
NoIslands(L) == {L[k].from : k \in Ids(L)} \subseteq FromHome(L, Ids(L))
Entrances(L, z) == {k \in Ids(L) : L[k].to = z}
OneWayIn(L) == /\ \A z \in Zones : Cardinality(Entrances(L, z)) <= 1
               /\ \A z \in Sources : Entrances(L, z) = {}
NoLoops(L) == \A k \in Ids(L) : L[k].from \notin Reached(L, {L[k].to}, Ids(L))

\* The zones at most n connections away, whichever way these point.
Neighbours(L) == {<<L[k].from, L[k].to>> : k \in Ids(L)} \cup {<<L[k].to, L[k].from>> : k \in Ids(L)}
Ball(L, z, n) == Within({z}, n, Neighbours(L))
=============================================================================
