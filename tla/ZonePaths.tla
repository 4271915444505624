------------------------------- MODULE ZonePaths -------------------------------
(***************************************************************************)
(* The walks of ZoneWalks on the lists of connections a store may hold.    *)
(*                                                                         *)
(* The list is in the store's order: a new connection is appended, a       *)
(* removed one closes the gap.  Whoever draws the map chooses a            *)
(* connection's direction, so any list may come about.                     *)
(***************************************************************************)
EXTENDS ZoneWalks

CONSTANT MaxConns   \* bound: connections on the map

ASSUME MaxConnsOK == MaxConns \in Nat

VARIABLE conns

PathsInit == conns = <<>>

Connect(from, to) ==
  /\ Len(conns) < MaxConns
  /\ from # to
  /\ conns' = Append(conns, [from |-> from, to |-> to, expired |-> FALSE])

Expire(k) ==
  /\ ~conns[k].expired
  /\ conns' = [conns EXCEPT ![k].expired = TRUE]

DeleteOne(k) == conns' = Without(conns, {k})
DeleteBranch(k) == conns' = Without(conns, onDeleteRecursive(conns, k))
\* A zone with no connections loses its position only.
DeleteRoadsZone(z) ==
  /\ Touching(conns, z) # {}
  /\ conns' = Without(conns, handleDeleteRoads(conns, z))
DeleteOtherZone(z) ==
  /\ handleDeleteOther(conns, z) # {}
  /\ conns' = Without(conns, handleDeleteOther(conns, z))

PathsNext ==
  \/ \E from, to \in Zones : Connect(from, to)
  \/ \E k \in Ids(conns) : Expire(k) \/ DeleteOne(k) \/ DeleteBranch(k)
  \/ \E z \in Zones : DeleteRoadsZone(z) \/ DeleteOtherZone(z)

PathsSpec == PathsInit /\ [][PathsNext]_conns

-----------------------------------------------------------------------------
\* The list as the store may hold it; no connection joins a zone to itself.
PathsTypeOK ==
  /\ conns \in Seq([from : Zones, to : Zones, expired : BOOLEAN])
  /\ Len(conns) <= MaxConns
  /\ \A k \in Ids(conns) : conns[k].from # conns[k].to

\* The plotted route leads from the one zone to the other connection by
\* connection, the ones marked reversed and no others being travelled
\* backwards; no route is shorter; and there is none only between zones no
\* connections join.
RouteIsShortest == PathsTypeOK /\
  \A a, b \in Zones :
    LET routes == bfsRoute(conns, a, b)
    IN /\ routes = {} => b \notin Ball(conns, a, Cardinality(Zones))
       /\ \A r \in routes :
            LET n == Len(r.path)
                start(k) == IF k \in r.reversed THEN conns[k].to ELSE conns[k].from
                stop(k) == IF k \in r.reversed THEN conns[k].from ELSE conns[k].to
            IN IF n = 0 THEN a = b
               ELSE /\ start(r.path[1]) = a /\ stop(r.path[n]) = b
                    /\ \A i \in 1..(n-1) : stop(r.path[i]) = start(r.path[i+1])
                    /\ b \notin Ball(conns, a, n - 1)

\* While every connection lies beyond home or a chain's source, a zone or an
\* edge that is not greyed out can be reached from there through portals still
\* open; and on a map where no zone has two ways in, a zone that can be reached
\* so is not greyed out, nor are the edges on the way.
ShownAliveIffReachable ==
  /\ NoIslands(conns) =>
       /\ \A z \in Zones : Touching(conns, z) # {} /\ ~isNodeRestricted(conns, z)
                             => z \in FromHome(conns, Live(conns))
       /\ \A k \in Ids(conns) : ~isEdgeRestricted(conns, k)
                                => conns[k].to \in FromHome(conns, Live(conns))
  /\ OneWayIn(conns) =>
       \A z \in FromHome(conns, Live(conns)) :
         /\ ~isNodeRestricted(conns, z)
         /\ \A k \in Entrances(conns, z) : ~isEdgeRestricted(conns, k)

\* Deleting a branch, or a zone with all beyond it, leaves no part of a map
\* without loops cut off from home and the chains' sources, and deleting a zone
\* leaves none of its connections; and where no zone has two ways in, deleting a
\* branch takes nothing that can be reached by another way than that branch.
DeletionTakesTheBranch ==
  /\ NoIslands(conns) /\ NoLoops(conns) =>
       /\ \A k \in Ids(conns) : NoIslands(Without(conns, onDeleteRecursive(conns, k)))
       /\ \A z \in Zones \ Sources :
            LET left == Without(conns, handleDeleteOther(conns, z)) IN
            /\ NoIslands(left) /\ Touching(left, z) = {}
            /\ NoIslands(Without(conns, handleDeleteRoads(conns, z)))
  /\ OneWayIn(conns) =>
       \A k \in Ids(conns) :
         LET others == Ids(conns) \ {k}
         IN \A d \in onDeleteRecursive(conns, k) \ {k} :
              conns[d].from \notin FromHome(conns, others)
=============================================================================
