---------------------------- MODULE ServerProofs ----------------------------
(***************************************************************************)
(* What the server keeps in memory and counts: DbPool, Presence and        *)
(* Upkeep, one after the other.                                            *)
(***************************************************************************)
EXTENDS DbPool, Presence, Upkeep, FiniteSetTheorems, WellFoundedInduction, TLAPS

-----------------------------------------------------------------------------
(* DbPool, for every set of requests, every handler each of them may be and    *)
(* every size of the pool.  IInv strengthens the types by what a deadlock of   *)
(* the transactions that lock the room first would contradict: such a          *)
(* transaction holds the room's row before it holds anything else.             *)

HandlerStep == [does : {"query", "begin", "run", "commit"}, locks : SUBSET Lock]

Own(r) == <<r, "own">>

\* The two halves of TypeOK: where the requests stand, and who holds what.
RequestsOK ==
    /\ kind \in [Request -> DOMAIN Handler \cup {Idle}]
    /\ \A r \in Request :
         /\ at[r] \in 0..(IF Active(r) THEN Len(Handler[kind[r]]) + 1 ELSE 0)
         /\ Active(r) => at[r] # 0
    /\ at = [r \in Request |-> at[r]]

NoConflict == \A c, d \in open : c # d => \A l \in held[c], m \in held[d] : ~Conflicts(l, m)

PoolOK ==
    /\ open \subseteq Client /\ IsFiniteSet(open) /\ Cardinality(open) <= PoolSize
    /\ held \in [Client -> SUBSET Lock]
    /\ \A c \in Client \ open : held[c] = {}
    /\ NoConflict

\* c holds the row of the room in a mode that conflicts with itself.
HoldsRoom(c) == \E m \in {"NoKeyUpdate", "Update"} : <<"room", m>> \in held[c]

\* A client that is out belongs to a request that is being served.
ClientsServe == \A c \in open : Active(c[1])

RoomComesFirst ==
    \A r \in Request :
        kind[r] \in RoomFirst /\ Own(r) \in open /\ (held[Own(r)] # {} \/ at[r] > 3)
            => HoldsRoom(Own(r))

IInv ==
    /\ RequestsOK
    /\ PoolOK
    /\ ClientsServe
    /\ RoomComesFirst

-----------------------------------------------------------------------------
(* The handlers *)

LEMMA LocksAreLocks ==
    ASSUME NEW S \in SUBSET Row
    PROVE  Share(S) \in SUBSET Lock /\ Change(S) \in SUBSET Lock /\ Take(S) \in SUBSET Lock
BY DEF Share, Change, Take, Lock

LEMMA StepsAreSteps ==
    ASSUME NEW L \in SUBSET Lock
    PROVE  Query(L) \in HandlerStep /\ Run(L) \in HandlerStep
BY DEF Query, Run, HandlerStep

LEMMA FixedSteps == Begin \in HandlerStep /\ Commit \in HandlerStep /\ Query({}) \in HandlerStep
BY DEF Begin, Commit, Query, HandlerStep

\* Every handler is a list of such steps.
LEMMA HandlersAreLists ==
    \A k \in DOMAIN Handler : Handler[k] \in Seq(HandlerStep)
<1>r. \A x \in Row : {x} \in SUBSET Row
  OBVIOUS
<1>a. /\ {"nodes"} \in SUBSET Row /\ {"memory"} \in SUBSET Row /\ {"conns"} \in SUBSET Row
      /\ {"room"} \in SUBSET Row /\ {"chains"} \in SUBSET Row
      /\ {"room", "chains"} \in SUBSET Row /\ {"nodes", "conns", "chains"} \in SUBSET Row
  BY DEF Row
<1>u. \A L, M \in SUBSET Lock : L \cup M \in SUBSET Lock
  OBVIOUS
<1>s. \A S \in SUBSET Row :
        /\ Query(Share(S)) \in HandlerStep /\ Run(Share(S)) \in HandlerStep
        /\ Query(Change(S)) \in HandlerStep /\ Run(Change(S)) \in HandlerStep
        /\ Query(Take(S)) \in HandlerStep /\ Run(Take(S)) \in HandlerStep
  BY LocksAreLocks, StepsAreSteps
<1>t. \A S, T \in SUBSET Row :
        /\ Query(Take(S) \cup Share(T)) \in HandlerStep
        /\ Query(Take(S) \cup Change(T)) \in HandlerStep
  BY LocksAreLocks, StepsAreSteps, <1>u
<1>q. /\ Query(Take({"nodes"}) \cup Share({"room", "chains"})) \in HandlerStep
      /\ Query(Take({"memory"}) \cup Share({"room"})) \in HandlerStep
      /\ Query(Take({"nodes", "conns", "chains"}) \cup Change({"room"})) \in HandlerStep
      /\ Query(Take({"nodes"})) \in HandlerStep /\ Query(Take({"conns"})) \in HandlerStep
      /\ Query(Share({"room", "chains"})) \in HandlerStep
      /\ Query(Change({"room"})) \in HandlerStep
  BY <1>a, <1>s, <1>t
<1>n. /\ Run(Share({"room"})) \in HandlerStep /\ Run(Share({"chains"})) \in HandlerStep
      /\ Run(Share({"room", "chains"})) \in HandlerStep
      /\ Run(Change({"room"})) \in HandlerStep /\ Run(Change({"chains"})) \in HandlerStep
      /\ Run(Take({"room"})) \in HandlerStep /\ Run(Take({"chains"})) \in HandlerStep
      /\ Run(Take({"nodes"})) \in HandlerStep /\ Run(Take({"conns"})) \in HandlerStep
      /\ Run(Take({"memory"})) \in HandlerStep /\ Run(Take({"room", "chains"})) \in HandlerStep
  BY <1>a, <1>s
<1>1. CreateConnection \in Seq(HandlerStep)
  BY <1>q, <1>n, FixedSteps DEF CreateConnection
<1>2. DeleteConnection \in Seq(HandlerStep)
  BY <1>q, <1>n, FixedSteps DEF DeleteConnection
<1>3. AddChain \in Seq(HandlerStep)
  BY <1>q, <1>n, FixedSteps DEF AddChain
<1>4. RelocateChain \in Seq(HandlerStep)
  BY <1>q, <1>n, FixedSteps DEF RelocateChain
<1>5. DeleteChain \in Seq(HandlerStep)
  BY <1>q, <1>n, FixedSteps DEF DeleteChain
<1>6. ResetRoom \in Seq(HandlerStep)
  BY <1>q, <1>n, FixedSteps DEF ResetRoom
<1>7. DeleteRoom \in Seq(HandlerStep)
  BY <1>q, <1>n, FixedSteps DEF DeleteRoom
<1>8. ImportRoom \in Seq(HandlerStep)
  BY <1>q, <1>n, FixedSteps DEF ImportRoom
<1>9. UpdateNodePositions \in Seq(HandlerStep)
  BY <1>q, <1>n, FixedSteps DEF UpdateNodePositions
<1>10. RotateZone \in Seq(HandlerStep)
  BY <1>q, <1>n, FixedSteps DEF RotateZone
<1>11. MigrateRoom \in Seq(HandlerStep)
  BY <1>q, <1>n, FixedSteps DEF MigrateRoom
<1>12. UpdatePlotRoute \in Seq(HandlerStep) /\ Read \in Seq(HandlerStep)
  BY <1>q, <1>n, FixedSteps DEF UpdatePlotRoute, Read
<1> QED
  BY <1>1, <1>2, <1>3, <1>4, <1>5, <1>6, <1>7, <1>8, <1>9, <1>10, <1>11, <1>12 DEF Handler

\* What a transaction of RoomFirst does before anything can be in its way: a
\* query, BEGIN, and the room's row; it does not begin another.
LEMMA RoomFirstShape ==
    ASSUME NEW k \in RoomFirst
    PROVE  /\ k \in DOMAIN Handler
           /\ Handler[k][1].does = "query"
           /\ Handler[k][2].does = "begin" /\ Handler[k][2].locks = {}
           /\ Handler[k][3].does = "run"
           /\ \E m \in {"NoKeyUpdate", "Update"} : Handler[k][3].locks = {<<"room", m>>}
           /\ \A i \in 4..Len(Handler[k]) : Handler[k][i].does # "begin"
<1> USE DEF Query, Run, Begin, Commit
<1>t. Take({"room"}) = {<<"room", "Update">>} /\ Change({"room"}) = {<<"room", "NoKeyUpdate">>}
  BY DEF Take, Change
<1>1. CASE k = "reset"
  <2>1. k \in DOMAIN Handler /\ Handler[k] = ResetRoom
    BY <1>1 DEF Handler
  <2> QED BY <2>1, <1>t DEF ResetRoom
<1>2. CASE k = "import"
  <2>1. k \in DOMAIN Handler /\ Handler[k] = ImportRoom
    BY <1>2 DEF Handler
  <2> QED BY <2>1, <1>t DEF ImportRoom
<1>3. CASE k = "update_node_positions"
  <2>1. k \in DOMAIN Handler /\ Handler[k] = UpdateNodePositions
    BY <1>3 DEF Handler
  <2> QED BY <2>1, <1>t DEF UpdateNodePositions
<1>4. CASE k = "rotate_zone"
  <2>1. k \in DOMAIN Handler /\ Handler[k] = RotateZone
    BY <1>4 DEF Handler
  <2> QED BY <2>1, <1>t DEF RotateZone
<1> QED BY <1>1, <1>2, <1>3, <1>4 DEF RoomFirst

LEMMA RoomFirstServe == RoomFirst \subseteq DOMAIN Handler /\ Idle \notin RoomFirst
BY RoomFirstShape, ServesHandlers

LEMMA HandlerLengths ==
    ASSUME NEW k \in DOMAIN Handler
    PROVE  /\ Len(Handler[k]) \in Nat
           /\ \A i \in 1..Len(Handler[k]) : Handler[k][i] \in HandlerStep
BY HandlersAreLists

\* The step of a request that is being served, and the client it runs on.
LEMMA StepFacts ==
    ASSUME IInv, NEW r \in Request, Active(r), ~Done(r)
    PROVE  /\ kind[r] \in DOMAIN Handler
           /\ at[r] \in 1..Len(Handler[kind[r]]) /\ Len(Handler[kind[r]]) \in Nat
           /\ Step(r) \in HandlerStep
           /\ ClientOf(r) \in Client
<1>1. kind[r] \in DOMAIN Handler
  BY DEF IInv, RequestsOK, Active
<1>2. Len(Handler[kind[r]]) \in Nat
  BY <1>1, HandlerLengths
<1>3. at[r] \in 1..Len(Handler[kind[r]])
  BY <1>2 DEF IInv, RequestsOK, Done
<1>4. Step(r) \in HandlerStep
  BY <1>1, <1>3, HandlerLengths DEF Step
<1>5. ClientOf(r) \in Client
  BY DEF ClientOf, Client
<1> QED BY <1>1, <1>2, <1>3, <1>4, <1>5

-----------------------------------------------------------------------------
(* The pool and the locks *)

LEMMA InitIInv == Init => IInv
<1> SUFFICES ASSUME Init PROVE IInv
  OBVIOUS
<1> USE DEF Init
<1>1. RequestsOK
  BY DEF RequestsOK, Active
<1>2. PoolOK
  BY FS_EmptySet, ServesHandlers DEF PoolOK, NoConflict
<1>3. ClientsServe /\ RoomComesFirst
  BY DEF ClientsServe, RoomComesFirst
<1> QED BY <1>1, <1>2, <1>3 DEF IInv

LEMMA ReleaseKeepsPool ==
    ASSUME PoolOK, NEW C, Release(C)
    PROVE  /\ PoolOK'
           /\ open' \subseteq open
           /\ \A c \in open' : held'[c] = held[c]
<1> USE DEF Release, PoolOK
<1>1. open' \subseteq open /\ \A c \in open' : held'[c] = held[c]
  OBVIOUS
<1>2. IsFiniteSet(open') /\ Cardinality(open') <= Cardinality(open)
  BY <1>1, FS_Subset
<1>3. Cardinality(open') \in Nat /\ Cardinality(open) \in Nat
  BY <1>2, FS_CardinalityType
<1>4. Cardinality(open') <= PoolSize
  BY <1>2, <1>3, ServesHandlers
<1>5. held' \in [Client -> SUBSET Lock] /\ \A c \in Client \ open' : held'[c] = {}
  OBVIOUS
<1>6. NoConflict'
  <2> SUFFICES ASSUME NEW c \in open', NEW d \in open', c # d,
                      NEW l \in held'[c], NEW m \in held'[d]
               PROVE  ~Conflicts(l, m)
    BY DEF NoConflict, Conflicts
  <2>1. c \in open /\ d \in open /\ l \in held[c] /\ m \in held[d]
    BY <1>1
  <2> QED BY <2>1 DEF NoConflict
<1> QED BY <1>1, <1>2, <1>4, <1>5, <1>6

\* A request that gives back all it has disturbs nobody.
LEMMA EndIInv ==
    ASSUME IInv, NEW r \in Request, End(r)
    PROVE  IInv'
<1>1. PoolOK' /\ open' \subseteq open /\ \A c \in open' : held'[c] = held[c]
  BY ReleaseKeepsPool DEF End, IInv
<1>2. RequestsOK'
  <2>1. /\ kind' \in [Request -> DOMAIN Handler \cup {Idle}]
        /\ at' = [q \in Request |-> at'[q]]
    BY DEF End, IInv, RequestsOK
  <2>2. ASSUME NEW q \in Request
        PROVE  /\ at'[q] \in 0..(IF Active(q)' THEN Len(Handler[kind'[q]]) + 1 ELSE 0)
               /\ Active(q)' => at'[q] # 0
    <3>1. CASE q = r
      <4>1. kind'[q] = Idle /\ at'[q] = 0
        BY <3>1 DEF End, IInv, RequestsOK
      <4> QED BY <4>1 DEF Active
    <3>2. CASE q # r
      <4>1. kind'[q] = kind[q] /\ at'[q] = at[q]
        BY <3>2 DEF End, IInv, RequestsOK
      <4> QED BY <4>1 DEF Active, IInv, RequestsOK
    <3> QED BY <3>1, <3>2
  <2> QED BY <2>1, <2>2 DEF RequestsOK
<1>3. \A c \in open' : c[1] \in Request /\ c[1] # r
  BY <1>1 DEF End, Release, IInv, PoolOK, Client
<1>4. ClientsServe'
  BY <1>1, <1>3 DEF End, IInv, ClientsServe, Active, RequestsOK
<1>5. RoomComesFirst'
  <2> SUFFICES ASSUME NEW q \in Request, kind'[q] \in RoomFirst, Own(q) \in open',
                      held'[Own(q)] # {} \/ at'[q] > 3
               PROVE  HoldsRoom(Own(q))'
    BY DEF RoomComesFirst, Own
  <2>1. q # r
    BY <1>3 DEF Own
  <2>2. kind'[q] = kind[q] /\ at'[q] = at[q]
    BY <2>1 DEF End, IInv, RequestsOK
  <2>3. HoldsRoom(Own(q))
    BY <2>2, <1>1 DEF IInv, RoomComesFirst
  <2> QED BY <2>3, <1>1 DEF HoldsRoom, Own
<1> QED BY <1>1, <1>2, <1>4, <1>5 DEF IInv

LEMMA StartIInv ==
    ASSUME IInv, NEW r \in Request, NEW k \in MayServe[r], Start(r, k)
    PROVE  IInv'
<1> USE DEF Start
<1>k. k \in DOMAIN Handler /\ Len(Handler[k]) \in Nat /\ k # Idle
  BY ServesHandlers, HandlerLengths
<1>1. RequestsOK'
  BY <1>k DEF IInv, RequestsOK, Active
<1>2. PoolOK'
  BY DEF IInv, PoolOK, NoConflict, Conflicts
<1>3. \A c \in open : c[1] \in Request /\ c[1] # r
  BY DEF IInv, ClientsServe, PoolOK, Client
<1>4. ClientsServe'
  BY <1>3 DEF IInv, ClientsServe, Active, RequestsOK
<1>5. RoomComesFirst'
  <2> SUFFICES ASSUME NEW q \in Request, kind'[q] \in RoomFirst, Own(q) \in open',
                      held'[Own(q)] # {} \/ at'[q] > 3
               PROVE  HoldsRoom(Own(q))'
    BY DEF RoomComesFirst, Own
  <2>1. q # r
    BY <1>3 DEF Own
  <2>2. kind'[q] = kind[q] /\ at'[q] = at[q]
    BY <2>1 DEF IInv, RequestsOK
  <2> QED BY <2>2 DEF IInv, RoomComesFirst, HoldsRoom, Own
<1> QED BY <1>1, <1>2, <1>4, <1>5 DEF IInv

LEMMA TakeClientIInv ==
    ASSUME IInv, NEW r \in Request, TakeClient(r)
    PROVE  IInv'
<1> USE DEF TakeClient, LacksClient
<1>f. /\ kind[r] \in DOMAIN Handler
      /\ at[r] \in 1..Len(Handler[kind[r]]) /\ Len(Handler[kind[r]]) \in Nat
      /\ ClientOf(r) \in Client
  BY StepFacts
<1>1. RequestsOK'
  BY DEF IInv, RequestsOK, Active
<1>c. held[ClientOf(r)] = {}
  BY <1>f DEF IInv, PoolOK
<1>2. PoolOK'
  <2>1. IsFiniteSet(open') /\ Cardinality(open') = Cardinality(open) + 1
    BY FS_AddElement DEF IInv, PoolOK
  <2>2. Cardinality(open) \in Nat
    BY FS_CardinalityType DEF IInv, PoolOK
  <2>3. Cardinality(open') <= PoolSize
    BY <2>1, <2>2, ServesHandlers
  <2>4. NoConflict'
    <3> SUFFICES ASSUME NEW c \in open', NEW d \in open', c # d,
                        NEW l \in held'[c], NEW m \in held'[d]
                 PROVE  ~Conflicts(l, m)
      BY DEF NoConflict, Conflicts
    <3>1. c \in open /\ d \in open /\ l \in held[c] /\ m \in held[d]
      BY <1>c
    <3> QED BY <3>1 DEF IInv, PoolOK, NoConflict
  <2> QED BY <2>1, <2>3, <2>4, <1>f DEF IInv, PoolOK
<1>3. ClientsServe'
  BY DEF IInv, ClientsServe, Active, ClientOf
<1>4. RoomComesFirst'
  <2> SUFFICES ASSUME NEW q \in Request, kind'[q] \in RoomFirst, Own(q) \in open',
                      held'[Own(q)] # {} \/ at'[q] > 3
               PROVE  HoldsRoom(Own(q))'
    BY DEF RoomComesFirst, Own
  <2>1. CASE Own(q) \in open
    BY <2>1 DEF IInv, RoomComesFirst, HoldsRoom, Own
  <2>2. CASE Own(q) \notin open
    <3>1. Own(q) = ClientOf(r) /\ q = r
      BY <2>2 DEF Own, ClientOf
    <3>2. Step(r).does = "begin" /\ at[r] > 3
      BY <3>1, <1>c DEF Own, ClientOf
    <3>3. at[r] \in 4..Len(Handler[kind[r]])
      BY <3>2, <1>f
    <3> QED BY <3>1, <3>2, <3>3, RoomFirstShape DEF Step
  <2> QED BY <2>1, <2>2
<1> QED BY <1>1, <1>2, <1>3, <1>4 DEF IInv

LEMMA GetLockIInv ==
    ASSUME IInv, NEW r \in Request, GetLock(r)
    PROVE  IInv'
<1> USE DEF GetLock
<1>0. PICK l \in Wanted(r) :
        /\ Blockers(ClientOf(r), l) = {}
        /\ held' = [held EXCEPT ![ClientOf(r)] = @ \cup {l}]
  OBVIOUS
<1>1. /\ Active(r) /\ ~Done(r) /\ ClientOf(r) \in open
      /\ l \in Step(r).locks
  BY <1>0 DEF Wanted
<1>f. /\ kind[r] \in DOMAIN Handler
      /\ at[r] \in 1..Len(Handler[kind[r]]) /\ Len(Handler[kind[r]]) \in Nat
      /\ Step(r) \in HandlerStep
      /\ ClientOf(r) \in Client
  BY <1>1, StepFacts
<1>l. l \in Lock
  BY <1>1, <1>f DEF HandlerStep
<1>h. /\ held'[ClientOf(r)] = held[ClientOf(r)] \cup {l}
      /\ \A c \in Client \ {ClientOf(r)} : held'[c] = held[c]
  BY <1>0, <1>f DEF IInv, PoolOK
<1>2. RequestsOK'
  BY DEF IInv, RequestsOK, Active
<1>3. PoolOK'
  <2>1. held' \in [Client -> SUBSET Lock] /\ \A c \in Client \ open' : held'[c] = {}
    BY <1>0, <1>1, <1>f, <1>l DEF IInv, PoolOK
  <2>2. NoConflict'
    <3> SUFFICES ASSUME NEW c \in open, NEW d \in open, c # d,
                        NEW x \in held'[c], NEW y \in held'[d]
                 PROVE  ~Conflicts(x, y)
      BY DEF NoConflict, Conflicts
    <3>c. c \in Client /\ d \in Client
      BY DEF IInv, PoolOK
    <3>1. \A m : Conflicts(l, m) <=> Conflicts(m, l)
      <4>1. \A m : {l[2], m[2]} = {m[2], l[2]}
        OBVIOUS
      <4> QED BY <4>1 DEF Conflicts
    <3>2. \A e \in open \ {ClientOf(r)} : \A m \in held[e] : ~Conflicts(l, m) /\ ~Conflicts(m, l)
      BY <1>0, <3>1 DEF Blockers
    <3>3. \A m \in held[c], n \in held[d] : ~Conflicts(m, n)
      BY DEF IInv, PoolOK, NoConflict
    <3>4. CASE c = ClientOf(r)
      <4>1. y \in held[d] /\ d \in open \ {ClientOf(r)}
        BY <3>4, <3>c, <1>h
      <4>2. x \in held[c] \/ x = l
        BY <3>4, <1>h
      <4> QED BY <4>1, <4>2, <3>2, <3>3
    <3>5. CASE d = ClientOf(r)
      <4>1. x \in held[c] /\ c \in open \ {ClientOf(r)}
        BY <3>5, <3>c, <1>h
      <4>2. y \in held[d] \/ y = l
        BY <3>5, <1>h
      <4> QED BY <4>1, <4>2, <3>2, <3>3
    <3>6. CASE c # ClientOf(r) /\ d # ClientOf(r)
      BY <3>6, <3>c, <3>3, <1>h
    <3> QED BY <3>4, <3>5, <3>6
  <2> QED BY <2>1, <2>2 DEF IInv, PoolOK
<1>4. ClientsServe'
  BY DEF IInv, ClientsServe, Active
<1>5. RoomComesFirst'
  <2> SUFFICES ASSUME NEW q \in Request, kind[q] \in RoomFirst, Own(q) \in open,
                      held'[Own(q)] # {} \/ at[q] > 3
               PROVE  HoldsRoom(Own(q))'
    BY DEF RoomComesFirst, Own
  <2>o. Own(q) \in Client
    BY DEF Own, Client
  <2>1. CASE held[Own(q)] # {} \/ at[q] > 3
    <3>1. HoldsRoom(Own(q))
      BY <2>1 DEF IInv, RoomComesFirst
    <3>2. held[Own(q)] \subseteq held'[Own(q)]
      BY <2>o, <1>h
    <3> QED BY <3>1, <3>2 DEF HoldsRoom, Own
  <2>2. CASE ~(held[Own(q)] # {} \/ at[q] > 3)
    <3>1. Own(q) = ClientOf(r) /\ q = r
      BY <2>2, <2>o, <1>h DEF Own, ClientOf
    <3>2. Step(r).does # "query"
      BY <3>1 DEF Own, ClientOf
    <3>3. at[r] = 1 \/ at[r] = 2 \/ at[r] = 3
      BY <2>2, <3>1, <1>f
    <3>4. at[r] = 3
      BY <3>1, <3>2, <3>3, <1>1, RoomFirstShape DEF Step
    <3>5. \E m \in {"NoKeyUpdate", "Update"} : Step(r).locks = {<<"room", m>>}
      BY <3>1, <3>4, RoomFirstShape DEF Step
    <3> QED BY <3>1, <3>5, <1>1, <1>h DEF HoldsRoom, Own
  <2> QED BY <2>1, <2>2
<1> QED BY <1>2, <1>3, <1>4, <1>5 DEF IInv

LEMMA AdvanceKeepsRequests ==
    ASSUME IInv, NEW r \in Request, Active(r), ~Done(r), Advance(r)
    PROVE  /\ RequestsOK'
           /\ at'[r] = at[r] + 1 /\ \A q \in Request \ {r} : at'[q] = at[q]
<1> USE DEF Advance
<1>f. /\ kind[r] \in DOMAIN Handler
      /\ at[r] \in 1..Len(Handler[kind[r]]) /\ Len(Handler[kind[r]]) \in Nat
  BY StepFacts
<1>1. at'[r] = at[r] + 1 /\ \A q \in Request \ {r} : at'[q] = at[q]
  BY DEF IInv, RequestsOK
<1>2. kind' = kind /\ at' = [q \in Request |-> at'[q]]
  BY DEF IInv, RequestsOK
<1>3. at'[r] \in 0..(Len(Handler[kind[r]]) + 1) /\ at'[r] # 0
  BY <1>1, <1>f
<1>4. \A q \in Request \ {r} :
        /\ at'[q] \in 0..(IF Active(q)' THEN Len(Handler[kind'[q]]) + 1 ELSE 0)
        /\ Active(q)' => at'[q] # 0
  BY <1>1, <1>2 DEF IInv, RequestsOK, Active
<1> QED BY <1>1, <1>2, <1>3, <1>4 DEF IInv, RequestsOK, Active

LEMMA FinishStepIInv ==
    ASSUME IInv, NEW r \in Request, Active(r), ~Done(r), FinishStep(r)
    PROVE  IInv'
<1> USE DEF FinishStep
<1>f. /\ kind[r] \in DOMAIN Handler
      /\ at[r] \in 1..Len(Handler[kind[r]]) /\ Len(Handler[kind[r]]) \in Nat
      /\ ClientOf(r) \in Client
  BY StepFacts
<1>a. RequestsOK' /\ kind' = kind
      /\ at'[r] = at[r] + 1 /\ \A q \in Request \ {r} : at'[q] = at[q]
  BY AdvanceKeepsRequests DEF Advance
<1>1. PoolOK' /\ open' \subseteq open /\ \A c \in open' : held'[c] = held[c]
  <2>1. CASE Step(r).does = "query"
    BY <2>1, ReleaseKeepsPool DEF IInv
  <2>2. CASE Step(r).does # "query"
    BY <2>2 DEF IInv, PoolOK, NoConflict, Conflicts
  <2> QED BY <2>1, <2>2
<1>2. ClientsServe'
  BY <1>1, <1>a DEF IInv, ClientsServe, Active
<1>3. RoomComesFirst'
  <2> SUFFICES ASSUME NEW q \in Request, kind[q] \in RoomFirst, Own(q) \in open',
                      held'[Own(q)] # {} \/ at'[q] > 3
               PROVE  HoldsRoom(Own(q))'
    BY <1>a DEF RoomComesFirst, Own
  <2>h. held'[Own(q)] = held[Own(q)] /\ Own(q) \in open
    BY <1>1
  <2>1. CASE held[Own(q)] # {} \/ at[q] > 3
    BY <2>1, <2>h DEF IInv, RoomComesFirst, HoldsRoom, Own
  <2>2. CASE ~(held[Own(q)] # {} \/ at[q] > 3)
    <3>1. q = r
      BY <2>2, <2>h, <1>a
    <3>2. at[r] = 3
      BY <2>2, <2>h, <3>1, <1>a, <1>f
    <3>3. Step(r).does = "run" /\ \E m \in {"NoKeyUpdate", "Update"} : Step(r).locks = {<<"room", m>>}
      BY <3>1, <3>2, RoomFirstShape DEF Step
    <3>4. ClientOf(r) = Own(r)
      BY <3>3 DEF ClientOf, Own
    <3>5. Step(r).locks \subseteq held[Own(r)]
      BY <3>4 DEF Wanted
    <3> QED BY <3>1, <3>3, <3>5, <2>2
  <2> QED BY <2>1, <2>2
<1> QED BY <1>1, <1>2, <1>3, <1>a DEF IInv

LEMMA CommitTxIInv ==
    ASSUME IInv, NEW r \in Request, Active(r), ~Done(r), CommitTx(r)
    PROVE  IInv'
<1> USE DEF CommitTx
<1>a. RequestsOK' /\ kind' = kind /\ \A q \in Request \ {r} : at'[q] = at[q]
  BY AdvanceKeepsRequests DEF Advance
<1>1. PoolOK' /\ open' \subseteq open /\ \A c \in open' : held'[c] = held[c]
  BY ReleaseKeepsPool DEF IInv
<1>o. Own(r) \notin open'
  BY DEF Release, ClientOf, Own
<1>2. ClientsServe'
  BY <1>1, <1>a DEF IInv, ClientsServe, Active
<1>3. RoomComesFirst'
  <2> SUFFICES ASSUME NEW q \in Request, kind[q] \in RoomFirst, Own(q) \in open',
                      held'[Own(q)] # {} \/ at'[q] > 3
               PROVE  HoldsRoom(Own(q))'
    BY <1>a DEF RoomComesFirst, Own
  <2>1. q # r
    BY <1>o
  <2> QED BY <2>1, <1>1, <1>a DEF IInv, RoomComesFirst, HoldsRoom, Own
<1> QED BY <1>1, <1>2, <1>3, <1>a DEF IInv

-----------------------------------------------------------------------------
(* Steps of the whole system *)

\* The client of a cycle that PostgreSQL gives up is the client of a request.
LEMMA CycleFacts ==
    ASSUME PoolOK, NEW S \in Cycles, NEW c \in S
    PROVE  c \in open /\ c[1] \in Request /\ c[2] \in {"own", "pool"}
<1>1. c \in open
  BY DEF Cycles
<1> QED BY <1>1 DEF PoolOK, Client

LEMMA NextIInv == IInv /\ [Next]_vars => IInv'
<1> SUFFICES ASSUME IInv, [Next]_vars PROVE IInv'
  OBVIOUS
<1>1. ASSUME NEW r \in Request, NEW k \in MayServe[r], Start(r, k) PROVE IInv'
  BY <1>1, StartIInv
<1>2. ASSUME NEW r \in Request, Proceed(r) PROVE IInv'
  BY <1>2, EndIInv, TakeClientIInv, GetLockIInv, FinishStepIInv, CommitTxIInv DEF Proceed, Reply
<1>3. ASSUME NEW r \in Request, GiveUp(r) \/ NotHandedOut(r) \/ Canceled(r) \/ KilledIdle(r)
      PROVE  IInv'
  BY <1>3, EndIInv DEF GiveUp, NotHandedOut, Canceled, QueryFails, KilledIdle
<1>4. CASE DeadlockDetected
  <2>1. PICK S \in Cycles : \E c \in S : End(c[1])
    BY <1>4 DEF DeadlockDetected, QueryFails
  <2>2. PICK c \in S : End(c[1])
    BY <2>1
  <2>3. c[1] \in Request
    BY CycleFacts DEF IInv
  <2> QED BY <2>2, <2>3, EndIInv
<1>5. CASE UNCHANGED vars
  BY <1>5 DEF vars, IInv, RequestsOK, PoolOK, NoConflict, ClientsServe, RoomComesFirst,
     HoldsRoom, Active, Conflicts
<1>6. CASE CloseIdle
  BY <1>6 DEF CloseIdle, IInv, RequestsOK, PoolOK, NoConflict, ClientsServe, RoomComesFirst,
     HoldsRoom, Active, Conflicts
<1> QED BY <1>1, <1>2, <1>3, <1>4, <1>5, <1>6 DEF Next

\* Nobody holds a client without being served, and whoever locks the room first
\* holds it from the first lock on.
THEOREM AlwaysIInv == Spec => []IInv
BY InitIInv, NextIInv, PTL DEF Spec

\* Two clients that both hold the room exclude each other, so that a circle of
\* transactions that lock the room first cannot have a second member.
LEMMA NoRoomFirstCycle ==
    ASSUME IInv, NEW S \in Cycles,
           \A c \in S : c[2] # "pool" /\ kind[c[1]] \in RoomFirst
    PROVE  FALSE
<1>1. Waiting(S) /\ \A c \in S : c \in open
  BY DEF Cycles
<1>2. ASSUME NEW c \in S, NEW d \in S, Waits(c, d)
      PROVE  d # c /\ HoldsRoom(d)
  <2>1. d # c /\ held[d] # {}
    BY <1>2 DEF Waits, Blockers
  <2>2. d[1] \in Request /\ d = Own(d[1])
    BY <1>1 DEF IInv, PoolOK, Client, Own
  <2> QED BY <2>1, <2>2, <1>1 DEF IInv, RoomComesFirst
<1>3. PICK c \in S : TRUE
  BY <1>1 DEF Waiting
<1>4. PICK d \in S : Waits(c, d)
  BY <1>1 DEF Waiting
<1>5. PICK e \in S : Waits(d, e)
  BY <1>1 DEF Waiting
<1>6. d # e /\ HoldsRoom(d) /\ HoldsRoom(e)
  BY <1>2, <1>4, <1>5
<1>7. \A m, n \in {"NoKeyUpdate", "Update"} : Conflicts(<<"room", m>>, <<"room", n>>)
  BY DEF Conflicts, Conflicting
<1> QED BY <1>1, <1>6, <1>7 DEF HoldsRoom, IInv, PoolOK, NoConflict

-----------------------------------------------------------------------------
(* Incidents.  A client is wrapped once for as long as it lives, in a handler's *)
(* hands as well as in the pool, so that its errors are counted once.           *)

WrappedOnce ==
    /\ watchers \in [Client -> Nat] /\ \A c \in open : watchers[c] = 1
    /\ idle \in Seq({1})
    /\ EveryDiscardCountsOnce

\* What is given back is wrapped as what is in the pool.
LEMMA BackIsWrapped ==
    ASSUME WrappedOnce, NEW r
    PROVE  /\ \A c : Back(c) \in Seq({1}) /\ Back(c) \o idle \in Seq({1})
           /\ AllBack(r) \in Seq({1})
<1>1. ASSUME NEW c PROVE Back(c) \in Seq({1})
  <2>1. CASE c \in open
    <3>1. PICK n : n = watchers[c]
      OBVIOUS
    <3>2. n = 1
      BY <2>1, <3>1 DEF WrappedOnce
    <3>3. Back(c) = <<1>>
      BY <2>1, <3>1, <3>2 DEF Back
    <3> QED BY <3>3
  <2>2. CASE c \notin open
    BY <2>2 DEF Back
  <2> QED BY <2>1, <2>2
<1>2. \A s, t \in Seq({1}) : s \o t \in Seq({1})
  OBVIOUS
<1>3. \A c : Back(c) \o idle \in Seq({1})
  BY <1>1, <1>2 DEF WrappedOnce
<1> QED BY <1>1, <1>2, <1>3 DEF AllBack

\* Clients that go out of a handler's hands change nothing for the others.
LEMMA ReleaseKeepsWrapping ==
    ASSUME IInv, WrappedOnce, NEW C, Release(C)
    PROVE  watchers' \in [Client -> Nat] /\ \A c \in open' : watchers'[c] = 1
<1>1. watchers' = [c \in Client |-> IF c \in C THEN 0 ELSE watchers[c]]
  BY DEF Release
<1>2. open' = open \ C /\ open \subseteq Client
  BY DEF Release, IInv, PoolOK
<1>3. \A c \in Client : watchers[c] \in Nat
  BY DEF WrappedOnce
<1>4. watchers' \in [Client -> Nat]
  BY <1>1, <1>3
<1>5. ASSUME NEW c \in open' PROVE watchers'[c] = 1
  BY <1>1, <1>2, <1>5 DEF WrappedOnce
<1> QED BY <1>4, <1>5

\* An error of a client that is out is counted once.
LEMMA IncidentCountsOnce ==
    ASSUME WrappedOnce, NEW c \in open, c[2] \in {"own", "pool"}, NEW err
    PROVE  /\ Incident(err, RecordedByQuery(c)) => EveryDiscardCountsOnce'
           /\ Incident(err, RecordedByEvent(c)) => EveryDiscardCountsOnce'
BY DEF WrappedOnce, RecordedByQuery, RecordedByEvent, Incident, EveryDiscardCountsOnce

LEMMA TakeClientWraps ==
    ASSUME IInv, WrappedOnce, NEW r \in Request, TakeClient(r)
    PROVE  WrappedOnce'
<1>1. PICK n, new : n = ClientOf(r) /\ new = InstrumentClient(IF idle = << >> THEN 0 ELSE Head(idle))
  OBVIOUS
<1>2. new = 1
  BY <1>1 DEF WrappedOnce, InstrumentClient
<1>3. watchers' = [watchers EXCEPT ![n] = new] /\ open' = open \cup {n}
  BY <1>1 DEF TakeClient
<1>4. n \in Client
  BY <1>1, StepFacts DEF TakeClient, LacksClient
<1>5. watchers' \in [Client -> Nat] /\ \A c \in open' : watchers'[c] = 1
  BY <1>2, <1>3, <1>4 DEF WrappedOnce
<1>6. idle' \in Seq({1})
  BY DEF TakeClient, WrappedOnce
<1> QED BY <1>5, <1>6 DEF TakeClient, WrappedOnce, EveryDiscardCountsOnce

\* A statement that fails on a client that is out is counted once.
LEMMA QueryFailsWraps ==
    ASSUME IInv, WrappedOnce, NEW r \in Request, NEW err, QueryFails(r, err),
           ClientOf(r) \in open
    PROVE  WrappedOnce'
<1>1. ClientOf(r)[2] \in {"own", "pool"}
  BY DEF ClientOf
<1>2. EveryDiscardCountsOnce'
  BY <1>1, IncidentCountsOnce DEF QueryFails
<1>3. watchers' \in [Client -> Nat] /\ \A c \in open' : watchers'[c] = 1
  BY ReleaseKeepsWrapping DEF QueryFails, End
<1>4. idle' \in Seq({1})
  BY BackIsWrapped DEF QueryFails
<1> QED BY <1>2, <1>3, <1>4 DEF WrappedOnce

LEMMA NextWraps == IInv /\ WrappedOnce /\ [Next]_vars => WrappedOnce'
<1> SUFFICES ASSUME IInv, WrappedOnce, [Next]_vars
             PROVE  WrappedOnce'
  OBVIOUS
<1>1. ASSUME NEW r \in Request, NEW k \in MayServe[r], Start(r, k) PROVE WrappedOnce'
  BY <1>1 DEF Start, WrappedOnce, EveryDiscardCountsOnce
<1>2. ASSUME NEW r \in Request, Proceed(r) PROVE WrappedOnce'
  <2>1. CASE Reply(r)
    BY <2>1, ReleaseKeepsWrapping, BackIsWrapped
       DEF Reply, End, WrappedOnce, EveryDiscardCountsOnce
  <2>2. CASE TakeClient(r)
    BY <2>2, TakeClientWraps
  <2>3. CASE GetLock(r)
    BY <2>3 DEF GetLock, WrappedOnce, EveryDiscardCountsOnce
  <2>4. CASE FinishStep(r)
    BY <2>4, ReleaseKeepsWrapping, BackIsWrapped
       DEF FinishStep, WrappedOnce, EveryDiscardCountsOnce
  <2>5. CASE CommitTx(r)
    BY <2>5, ReleaseKeepsWrapping, BackIsWrapped
       DEF CommitTx, WrappedOnce, EveryDiscardCountsOnce
  <2> QED BY <1>2, <2>1, <2>2, <2>3, <2>4, <2>5 DEF Proceed
<1>3. ASSUME NEW r \in Request, GiveUp(r) \/ NotHandedOut(r) PROVE WrappedOnce'
  BY <1>3, ReleaseKeepsWrapping, BackIsWrapped
     DEF GiveUp, NotHandedOut, End, WrappedOnce, EveryDiscardCountsOnce
<1>4. ASSUME NEW r \in Request, Canceled(r) PROVE WrappedOnce'
  BY <1>4, QueryFailsWraps DEF Canceled, Wanted
<1>5. ASSUME NEW r \in Request, KilledIdle(r) PROVE WrappedOnce'
  <2>1. ClientOf(r) \in open /\ ClientOf(r)[2] \in {"own", "pool"}
    BY <1>5 DEF KilledIdle, ClientOf
  <2>2. EveryDiscardCountsOnce'
    BY <1>5, <2>1, IncidentCountsOnce DEF KilledIdle
  <2> QED BY <1>5, <2>2, ReleaseKeepsWrapping DEF KilledIdle, End, WrappedOnce
<1>6. CASE DeadlockDetected
  <2>1. PICK S \in Cycles : \E c \in S : QueryFails(c[1], "deadlock")
    BY <1>6 DEF DeadlockDetected
  <2>2. PICK c \in S : QueryFails(c[1], "deadlock")
    BY <2>1
  <2>3. c[1] \in Request /\ Wanted(c[1]) # {}
    BY CycleFacts DEF IInv, Cycles
  <2>4. ClientOf(c[1]) \in open
    BY <2>3 DEF Wanted
  <2> QED BY <2>2, <2>3, <2>4, QueryFailsWraps
<1>7. CASE CloseIdle
  <2>1. PICK i \in 1..Len(idle) :
          idle' = SubSeq(idle, 1, i - 1) \o SubSeq(idle, i + 1, Len(idle))
    BY <1>7 DEF CloseIdle
  <2>2. idle \in Seq({1}) /\ Len(idle) \in Nat
    BY DEF WrappedOnce
  <2>3. SubSeq(idle, 1, i - 1) \in Seq({1}) /\ SubSeq(idle, i + 1, Len(idle)) \in Seq({1})
    BY <2>1, <2>2
  <2>4. idle' \in Seq({1})
    BY <2>1, <2>3
  <2> QED BY <1>7, <2>4 DEF CloseIdle, WrappedOnce, EveryDiscardCountsOnce
<1>8. CASE UNCHANGED vars
  BY <1>8 DEF vars, WrappedOnce, EveryDiscardCountsOnce
<1> QED BY <1>1, <1>2, <1>3, <1>4, <1>5, <1>6, <1>7, <1>8 DEF Next

\* The wrapping of a client is an invariant of the pool.
LEMMA AlwaysWrappedOnce == Spec => []WrappedOnce
<1>1. Init => WrappedOnce
  BY DEF Init, WrappedOnce, EveryDiscardCountsOnce
<1> QED BY <1>1, NextWraps, AlwaysIInv, PTL DEF Spec

\* Every discarded transaction is counted exactly once, for any requests and size
\* of the pool, however its client was asked for and how often it was handed out
\* before (db_incidents.ts:123-173).
THEOREM DiscardsAreCountedOnce == Spec => []EveryDiscardCountsOnce
<1>1. WrappedOnce => EveryDiscardCountsOnce
  BY DEF WrappedOnce
<1> QED BY <1>1, AlwaysWrappedOnce, PTL

-----------------------------------------------------------------------------
(* Deadlocks. *)

\* PostgreSQL never finds a deadlock in which only transactions that lock the
\* room first take part, whatever the other requests do and however many there
\* are; and the pool never has more clients out than it may.
THEOREM RoomFirstIsDeadlockFree == Spec => []RoomFirstNeverDeadlocks
<1>1. IInv /\ WrappedOnce => TypeOK
  <2>1. \A s \in Seq({1}) : s \in Seq(Nat)
    OBVIOUS
  <2> QED BY <2>1 DEF IInv, RequestsOK, PoolOK, NoConflict, WrappedOnce, TypeOK
<1>2. IInv => \A S \in Cycles : \E c \in S : c[2] = "pool" \/ kind[c[1]] \notin RoomFirst
  BY NoRoomFirstCycle
<1>3. IInv /\ WrappedOnce => RoomFirstNeverDeadlocks
  BY <1>1, <1>2 DEF RoomFirstNeverDeadlocks
<1> QED BY <1>3, AlwaysIInv, AlwaysWrappedOnce, PTL

-----------------------------------------------------------------------------
(* Presence, for any number of sockets and rooms.  The four conjuncts of        *)
(* PresenceIInv need each other: that the heartbeat stops with the last viewer  *)
(* rests on who is registered, and that nobody is registered twice or too long  *)
(* rests on the states a handler may run in.                                    *)

PresenceIInv ==
    /\ PresenceTypeOK
    /\ HeartbeatIffSockets
    /\ NoEmptyRooms
    /\ RegisteredIffAuthenticated

LEMMA InitPresenceIInv == PresenceInit => PresenceIInv
<1> SUFFICES ASSUME PresenceInit PROVE PresenceIInv
  OBVIOUS
<1> USE RoomOfOK DEF PresenceInit
<1>1. PresenceTypeOK
  BY DEF PresenceTypeOK, States
<1>2. HeartbeatIffSockets
  BY DEF HeartbeatIffSockets, Registered
<1>3. NoEmptyRooms
  BY DEF NoEmptyRooms
<1>4. RegisteredIffAuthenticated
  BY DEF RegisteredIffAuthenticated, Sockets
<1> QED
  BY <1>1, <1>2, <1>3, <1>4 DEF PresenceIInv

-----------------------------------------------------------------------------
\* The actions that leave the registry and the heartbeat alone.
LEMMA SameRegistry ==
    ASSUME PresenceIInv, PresenceTypeOK', UNCHANGED <<roomSockets, interval>>, window' => window,
           \A s \in Socket :
              s \in authed /\ state[s] \in {"open", "closing"}
                 <=> s \in authed' /\ state'[s] \in {"open", "closing"}
    PROVE  PresenceIInv'
<1>1. HeartbeatIffSockets' /\ NoEmptyRooms'
  BY DEF PresenceIInv, HeartbeatIffSockets, NoEmptyRooms, Registered
<1>2. RegisteredIffAuthenticated'
  BY DEF PresenceIInv, RegisteredIffAuthenticated, Sockets
<1> QED
  BY <1>1, <1>2 DEF PresenceIInv

LEMMA CloseKeeps ==
    ASSUME PresenceTypeOK, NEW S, Close(S)
    PROVE  /\ state' \in [Socket -> States]
           /\ \A s \in Socket : state[s] \in {"open", "closing"} <=> state'[s] \in {"open", "closing"}
BY DEF PresenceTypeOK, States, Close

LEMMA ConnectIInv ==
    ASSUME PresenceIInv, NEW s \in Socket, Connect(s)
    PROVE  PresenceIInv'
<1>1. PresenceTypeOK'
  BY DEF Connect, PresenceIInv, PresenceTypeOK, States
<1>2. \A t \in Socket : t \in authed /\ state[t] \in {"open", "closing"}
                 <=> t \in authed' /\ state'[t] \in {"open", "closing"}
  BY DEF Connect, PresenceIInv, PresenceTypeOK
<1> QED
  BY <1>1, <1>2, SameRegistry DEF Connect

LEMMA AuthTimeoutIInv ==
    ASSUME PresenceIInv, NEW s \in Socket, AuthTimeout(s)
    PROVE  PresenceIInv'
<1>1. /\ state' \in [Socket -> States]
      /\ \A t \in Socket : state[t] \in {"open", "closing"} <=> state'[t] \in {"open", "closing"}
  BY CloseKeeps DEF AuthTimeout, AuthDeadline, PresenceIInv, PresenceTypeOK
<1>2. PresenceTypeOK'
  BY <1>1 DEF AuthTimeout, PresenceIInv, PresenceTypeOK
<1> QED
  BY <1>1, <1>2, SameRegistry DEF AuthTimeout

LEMMA AuthRefusedIInv ==
    ASSUME PresenceIInv, NEW s \in Socket, AuthRefused(s)
    PROVE  PresenceIInv'
<1>1. /\ state' \in [Socket -> States]
      /\ \A t \in Socket : state[t] \in {"open", "closing"} <=> state'[t] \in {"open", "closing"}
  BY CloseKeeps DEF AuthRefused, PresenceIInv
<1>2. PresenceTypeOK'
  BY <1>1 DEF AuthRefused, PresenceIInv, PresenceTypeOK
<1> QED
  BY <1>1, <1>2, SameRegistry DEF AuthRefused

LEMMA SyncIInv ==
    ASSUME PresenceIInv, NEW s \in Socket, Sync(s)
    PROVE  PresenceIInv'
<1>1. PresenceTypeOK'
  BY DEF Sync, PresenceIInv, PresenceTypeOK
<1> QED
  BY <1>1, SameRegistry DEF Sync

LEMMA SyncFailedIInv ==
    ASSUME PresenceIInv, NEW s \in Socket, SyncFailed(s)
    PROVE  PresenceIInv'
<1>1. /\ state' \in [Socket -> States]
      /\ \A t \in Socket : state[t] \in {"open", "closing"} <=> state'[t] \in {"open", "closing"}
  BY CloseKeeps DEF SyncFailed, PresenceIInv
<1>2. PresenceTypeOK'
  BY <1>1 DEF SyncFailed, PresenceIInv, PresenceTypeOK
<1> QED
  BY <1>1, <1>2, SameRegistry DEF SyncFailed

LEMMA SessionExpiredIInv ==
    ASSUME PresenceIInv, NEW s \in Socket, SessionExpired(s)
    PROVE  PresenceIInv'
<1>1. /\ state' \in [Socket -> States]
      /\ \A t \in Socket : state[t] \in {"open", "closing"} <=> state'[t] \in {"open", "closing"}
  BY CloseKeeps DEF SessionExpired, PresenceIInv
<1>2. PresenceTypeOK'
  BY <1>1 DEF SessionExpired, PresenceIInv, PresenceTypeOK
<1> QED
  BY <1>1, <1>2, SameRegistry DEF SessionExpired

LEMMA GoSilentIInv ==
    ASSUME PresenceIInv, NEW s \in Socket, GoSilent(s)
    PROVE  PresenceIInv'
<1>1. PresenceTypeOK'
  BY DEF GoSilent, PresenceIInv, PresenceTypeOK
<1> QED
  BY <1>1, SameRegistry DEF GoSilent

LEMMA PoloIInv ==
    ASSUME PresenceIInv, NEW s \in Socket, Polo(s)
    PROVE  PresenceIInv'
<1>1. PresenceTypeOK'
  BY DEF Polo, PresenceIInv, PresenceTypeOK
<1> QED
  BY <1>1, SameRegistry DEF Polo

LEMMA CollectIInv ==
    ASSUME PresenceIInv, Collect
    PROVE  PresenceIInv'
<1>1. /\ state' \in [Socket -> States]
      /\ \A t \in Socket : state[t] \in {"open", "closing"} <=> state'[t] \in {"open", "closing"}
  BY CloseKeeps DEF Collect, PresenceIInv
<1>2. PresenceTypeOK'
  BY <1>1 DEF Collect, PresenceIInv, PresenceTypeOK
<1> QED
  BY <1>1, <1>2, SameRegistry DEF Collect

LEMMA MarcoIInv ==
    ASSUME PresenceIInv, Marco
    PROVE  PresenceIInv'
<1>1. PresenceTypeOK'
  BY DEF Marco, Registered, PresenceIInv, PresenceTypeOK
<1>2. HeartbeatIffSockets' /\ NoEmptyRooms'
  BY DEF Marco, PresenceIInv, HeartbeatIffSockets, NoEmptyRooms, Registered
<1>3. RegisteredIffAuthenticated'
  BY DEF Marco, PresenceIInv, RegisteredIffAuthenticated, Sockets
<1> QED
  BY <1>1, <1>2, <1>3 DEF PresenceIInv

-----------------------------------------------------------------------------
LEMMA AuthIInv ==
    ASSUME PresenceIInv, NEW s \in Socket, Auth(s)
    PROVE  PresenceIInv'
<1> USE RoomOfOK
<1>d. DOMAIN roomSockets' = DOMAIN roomSockets \cup {RoomOf[s]}
  BY DEF Auth, AddSocket
<1>r. /\ roomSockets'[RoomOf[s]] = Sockets(RoomOf[s]) \cup {s}
      /\ \A r \in DOMAIN roomSockets \ {RoomOf[s]} : roomSockets'[r] = roomSockets[r]
  BY DEF Auth, AddSocket
<1>1. PresenceTypeOK'
  <2>2. \A r \in DOMAIN roomSockets' : roomSockets'[r] \subseteq Socket
    BY <1>d, <1>r DEF PresenceIInv, PresenceTypeOK, Sockets
  <2> QED
    BY <2>2, <1>d DEF Auth, AddSocket, PresenceIInv, PresenceTypeOK
<1>2. HeartbeatIffSockets'
  <2>1. s \in Registered'
    BY <1>d, <1>r DEF Registered
  <2> QED
    BY <2>1 DEF Auth, AddSocket, HeartbeatIffSockets
<1>3. NoEmptyRooms'
  BY <1>d, <1>r DEF PresenceIInv, NoEmptyRooms, Sockets
<1>4. RegisteredIffAuthenticated'
  <2>1. \A r \in Room : Sockets(r)' = IF r = RoomOf[s] THEN Sockets(r) \cup {s} ELSE Sockets(r)
    BY <1>d, <1>r DEF Sockets
  <2> QED
    BY <2>1 DEF Auth, Receives, PresenceIInv, RegisteredIffAuthenticated
<1> QED
  BY <1>1, <1>2, <1>3, <1>4 DEF PresenceIInv

\* What the Map is once s has left.
LEMMA WithoutFacts ==
    ASSUME NEW s \in Socket
    PROVE  /\ DOMAIN Without(s) \subseteq DOMAIN roomSockets
           /\ \A r \in DOMAIN roomSockets : r \notin DOMAIN Without(s)
                 => r = RoomOf[s] /\ roomSockets[r] \subseteq {s}
           /\ \A r \in DOMAIN Without(s) :
                 Without(s)[r] = IF r = RoomOf[s] THEN roomSockets[r] \ {s} ELSE roomSockets[r]
           /\ RoomOf[s] \in DOMAIN Without(s) => Without(s)[RoomOf[s]] # {}
BY DEF Without

LEMMA RemoveIInv ==
    ASSUME PresenceIInv, NEW s \in Socket, RemoveSocket(s),
           state' \in [Socket -> States], state'[s] \in {"closed", "errored"},
           \A t \in Socket \ {s} : state'[t] = state[t],
           authTimer' \subseteq Socket, UNCHANGED <<authed, syncing, asked, silent>>
    PROVE  PresenceIInv'
<1> USE RoomOfOK
<1>w. roomSockets' = Without(s)
  BY DEF RemoveSocket
<1>s. \A r \in Room : Sockets(r)' = IF r = RoomOf[s] THEN Sockets(r) \ {s} ELSE Sockets(r)
  BY <1>w, WithoutFacts DEF Sockets
<1>1. PresenceTypeOK'
  <2>2. DOMAIN roomSockets' \subseteq Room /\ \A r \in DOMAIN roomSockets' : roomSockets'[r] \subseteq Socket
    BY <1>w, WithoutFacts DEF PresenceIInv, PresenceTypeOK
  <2>3. interval' \in BOOLEAN /\ window' \in BOOLEAN /\ responders' \subseteq Socket
    BY DEF RemoveSocket, PresenceIInv, PresenceTypeOK
  <2> QED
    BY <2>2, <2>3 DEF PresenceIInv, PresenceTypeOK
<1>2. HeartbeatIffSockets'
  <2>1. LastOfAll(s) <=> Registered' = {}
    BY <1>w DEF LastOfAll, Registered
  <2>2. Registered' \subseteq Registered
    BY <1>w, WithoutFacts DEF Registered
  <2> QED
    BY <2>1, <2>2 DEF RemoveSocket, PresenceIInv, PresenceTypeOK, HeartbeatIffSockets
<1>3. NoEmptyRooms'
  BY <1>w, WithoutFacts DEF PresenceIInv, NoEmptyRooms
<1>4. RegisteredIffAuthenticated'
  BY <1>s DEF PresenceIInv, RegisteredIffAuthenticated
<1> QED
  BY <1>1, <1>2, <1>3, <1>4 DEF PresenceIInv

LEMMA LeaveIInv ==
    ASSUME PresenceIInv, NEW s \in Socket, Leave(s), NEW e \in {"closed", "errored"},
           state' = [state EXCEPT ![s] = e]
    PROVE  PresenceIInv'
<1>1. /\ state' \in [Socket -> States]
      /\ state'[s] \in {"closed", "errored"}
      /\ \A t \in Socket \ {s} : state'[t] = state[t]
  BY DEF PresenceIInv, PresenceTypeOK, States
<1>2. authTimer' \subseteq Socket
  BY DEF Leave, PresenceIInv, PresenceTypeOK
<1>3. CASE s \in authed
  BY <1>1, <1>2, <1>3, RemoveIInv DEF Leave
<1>4. CASE s \notin authed
  <2>1. PresenceTypeOK'
    BY <1>1, <1>2, <1>4 DEF Leave, PresenceIInv, PresenceTypeOK
  <2>2. \A t \in Socket : t \in authed /\ state[t] \in {"open", "closing"}
                 <=> t \in authed' /\ state'[t] \in {"open", "closing"}
    BY <1>1, <1>4 DEF Leave
  <2> QED
    BY <1>4, <2>1, <2>2, SameRegistry DEF Leave
<1> QED
  BY <1>3, <1>4

-----------------------------------------------------------------------------
LEMMA NextPresenceIInv == PresenceIInv /\ [PresenceNext]_presenceVars => PresenceIInv'
<1> SUFFICES ASSUME PresenceIInv, [PresenceNext]_presenceVars PROVE PresenceIInv'
  OBVIOUS
<1>1. ASSUME NEW s \in Socket, SocketStep(s) PROVE PresenceIInv'
  <2>1. CASE Connect(s) \/ AuthTimeout(s) \/ AuthRefused(s) \/ Auth(s)
    BY <2>1, ConnectIInv, AuthTimeoutIInv, AuthRefusedIInv, AuthIInv
  <2>2. CASE Sync(s) \/ SyncFailed(s) \/ SessionExpired(s)
              \/ GoSilent(s) \/ Polo(s)
    BY <2>2, SyncIInv, SyncFailedIInv, SessionExpiredIInv, GoSilentIInv, PoloIInv
  <2>3. CASE PeerCloses(s) \/ Closed(s) \/ Errored(s)
    BY <2>3, LeaveIInv DEF PeerCloses, Closed, Errored
  <2> QED
    BY <1>1, <2>1, <2>2, <2>3 DEF SocketStep
<1>2. CASE Marco \/ Collect
  BY <1>2, MarcoIInv, CollectIInv
<1>3. CASE UNCHANGED presenceVars
  BY <1>3 DEF presenceVars, PresenceIInv, PresenceTypeOK, HeartbeatIffSockets, NoEmptyRooms,
     RegisteredIffAuthenticated, Registered, Sockets
<1> QED
  BY <1>1, <1>2, <1>3 DEF PresenceNext

THEOREM AlwaysPresenceIInv == PresenceSpec => []PresenceIInv
BY InitPresenceIInv, NextPresenceIInv, PTL DEF PresenceSpec

\* The registry, the timers keep their types.
THEOREM PresenceTypeCorrect == PresenceSpec => []PresenceTypeOK
<1>1. PresenceIInv => PresenceTypeOK
  BY DEF PresenceIInv
<1> QED BY <1>1, AlwaysPresenceIInv, PTL

\* The heartbeat runs exactly while somebody is registered.
THEOREM HeartbeatFollowsViewers == PresenceSpec => []HeartbeatIffSockets
<1>1. PresenceIInv => HeartbeatIffSockets
  BY DEF PresenceIInv
<1> QED BY <1>1, AlwaysPresenceIInv, PTL

\* Exactly the authenticated sockets that have not gone are registered, and the
\* Map has no entry for a room without viewers.
THEOREM RegistryIsExact == PresenceSpec => []RegistryExact
<1>1. PresenceIInv => RegistryExact
  BY DEF PresenceIInv, RegistryExact
<1> QED BY <1>1, AlwaysPresenceIInv, PTL

-----------------------------------------------------------------------------
(* Upkeep, for any finite number of rooms.  While no statement has failed, *)
(* the counters are what can be told from the rooms: the created ones are  *)
(* those that are no longer unborn, the removed ones at least those that   *)
(* are gone.  What is to be deleted was there before, so deleting makes no *)
(* room that was never created.                                            *)

CountsOK ==
  /\ global \in [{"created", "deleted", "aborted", "abandoned", "updates", "modified"} -> Nat]
  /\ daily \in [Rooms -> Nat] /\ alltime \in [Rooms -> Nat]
  /\ tracked \in Nat /\ faults \in Nat

\* What a request or the job is about to delete has been created.
DeletesWhatWas ==
  \A r \in Rooms : deleting[r] > 0 \/ r \in job.ids => rooms[r].state # "unborn"

Born == {r \in Rooms : rooms[r].state # "unborn"}
Gone == {r \in Rooms : rooms[r].state = "gone"}

\* The rows of rooms and the row of the day.
RowsAgree ==
  /\ alltime = daily
  /\ global.updates = SumOf(daily)
  /\ global.modified = Recount(daily)

\* The row of the day and the rooms there are.
RoomsAgree ==
  /\ global.created = Cardinality(Born)
  /\ Cardinality(Gone) <= RoomsRemoved

UpkeepIInv ==
  /\ UpkeepTypeOK /\ CountsOK /\ DeletesWhatWas
  /\ faults = 0 => RowsAgree /\ RoomsAgree

-----------------------------------------------------------------------------
(* Sums *)

\* Induction, as a fact about a set of numbers.
LEMMA NatSet ==
    ASSUME NEW S \in SUBSET Nat, 0 \in S, \A n \in S : n + 1 \in S
    PROVE  S = Nat
<1>1. SUFFICES ASSUME Nat \ S # {} PROVE FALSE
  OBVIOUS
<1>2. PICK T : T = Nat \ S
  OBVIOUS
<1>3. PICK R : R = OpToRel(<, Nat) /\ IsWellFoundedOn(R, Nat)
  BY NatLessThanWellFounded
<1>4. PICK x \in T : \A y \in T : <<y, x>> \notin R
  BY <1>1, <1>2, <1>3, WFMin
<1>5. \A y \in T : ~(y < x)
  BY <1>2, <1>3, <1>4 DEF OpToRel
<1>6. x \in Nat /\ x # 0 /\ x - 1 \in Nat /\ x - 1 < x
  BY <1>2, <1>4
<1>7. x \in S
  BY <1>2, <1>5, <1>6
<1> QED BY <1>2, <1>4, <1>7


\* What SumOf's fold leaves to be found: a function on sets of rooms that adds up.
First(s) == CHOOSE x \in s : TRUE
Adds(f, it) ==
  it = [s \in SUBSET Rooms |-> IF s = {} THEN 0 ELSE f[First(s)] + it[s \ {First(s)}]]

LEMMA RoomSubsets ==
    ASSUME NEW s \in SUBSET Rooms
    PROVE  /\ IsFiniteSet(s) /\ Cardinality(s) \in Nat
           /\ Cardinality(s) = 0 <=> s = {}
           /\ \A x \in s : Cardinality(s \ {x}) = Cardinality(s) - 1
BY UpkeepAssumption, FS_Subset, FS_CardinalityType, FS_EmptySet, FS_RemoveElement

LEMMA Additions ==
    ASSUME NEW f \in [Rooms -> Nat]
    PROVE  \E it \in [SUBSET Rooms -> Nat] : Adds(f, it)
<1> DEFINE Upto(m) == {s \in SUBSET Rooms : Cardinality(s) <= m}
           Is(it, m) == /\ it \in [Upto(m) -> Nat]
                        /\ \A s \in Upto(m) :
                             it[s] = IF s = {} THEN 0 ELSE f[First(s)] + it[s \ {First(s)}]
           N == {m \in Nat : \E it : Is(it, m)}
<1>0. \A s \in SUBSET Rooms : s # {} => First(s) \in s
  BY DEF First
<1>1. 0 \in N
  <2>1. \A s \in Upto(0) : s = {}
    BY RoomSubsets
  <2>2. Is([s \in Upto(0) |-> 0], 0)
    BY <2>1
  <2> QED BY <2>2
<1>2. ASSUME NEW m \in N PROVE m + 1 \in N
  <2>1. PICK it : Is(it, m)
    OBVIOUS
  <2>2. \A s \in Upto(m + 1) : s # {} => s \ {First(s)} \in Upto(m) /\ First(s) \in Rooms
    BY <1>0, RoomSubsets
  <2> DEFINE jt == [s \in Upto(m + 1) |-> IF s = {} THEN 0 ELSE f[First(s)] + it[s \ {First(s)}]]
  <2>3. jt \in [Upto(m + 1) -> Nat]
    BY <2>1, <2>2
  <2>4. \A s \in Upto(m) : s \in Upto(m + 1) /\ jt[s] = it[s]
    <3>1. \A s \in Upto(m) : s \in Upto(m + 1)
      BY RoomSubsets
    <3> QED BY <2>1, <3>1
  <2>5. \A s \in Upto(m + 1) : jt[s] = IF s = {} THEN 0 ELSE f[First(s)] + jt[s \ {First(s)}]
    BY <2>2, <2>4
  <2> HIDE DEF jt
  <2>6. Is(jt, m + 1)
    BY <2>3, <2>5
  <2> HIDE DEF Is
  <2> QED BY <2>6
<1>3. N = Nat
  <2> HIDE DEF N
  <2>1. N \subseteq Nat
    BY DEF N
  <2> QED BY <1>1, <1>2, <2>1, NatSet
<1>4. PICK it : Is(it, Cardinality(Rooms))
  <2>1. Cardinality(Rooms) \in Nat
    BY RoomSubsets
  <2> QED BY <1>3, <2>1
<1>5. Upto(Cardinality(Rooms)) = SUBSET Rooms
  BY UpkeepAssumption, FS_Subset
<1>6. it \in [SUBSET Rooms -> Nat]
  BY <1>4, <1>5
<1>7. Adds(f, it)
  BY <1>4, <1>5, <1>6 DEF Adds
<1> QED BY <1>6, <1>7

\* The function SumOf applies to all rooms.
LEMMA SumOfAdds ==
    ASSUME NEW f \in [Rooms -> Nat]
    PROVE  \E it : Adds(f, it) /\ SumOf(f) = it[Rooms]
<1>1. SumOf(f) = (CHOOSE it : Adds(f, it))[Rooms]
  BY DEF SumOf, MapThenSumSet, MapThenFoldSet, Adds, First
<1>2. \E it : Adds(f, it)
  BY Additions
<1> QED BY <1>1, <1>2

\* Two counts that differ by n in one room differ by n in the sum.
LEMMA SumRises ==
    ASSUME NEW f \in [Rooms -> Nat], NEW r \in Rooms, NEW n \in Nat,
           NEW g, g = [f EXCEPT ![r] = @ + n]
    PROVE  SumOf(g) = SumOf(f) + n
<1>1. g \in [Rooms -> Nat] /\ g[r] = f[r] + n /\ \A q \in Rooms \ {r} : g[q] = f[q]
  OBVIOUS
<1>2. PICK it : Adds(f, it) /\ SumOf(f) = it[Rooms]
  BY SumOfAdds
<1>3. PICK jt : Adds(g, jt) /\ SumOf(g) = jt[Rooms]
  BY <1>1, SumOfAdds
<1> DEFINE N == {m \in Nat : \A s \in SUBSET Rooms : Cardinality(s) = m =>
                   /\ it[s] \in Nat
                   /\ jt[s] = it[s] + IF r \in s THEN n ELSE 0}
<1>4. 0 \in N
  <2>1. it[{}] = 0 /\ jt[{}] = 0
    BY <1>2, <1>3 DEF Adds
  <2> QED BY <2>1, RoomSubsets
<1>5. ASSUME NEW m \in N PROVE m + 1 \in N
  <2>1. ASSUME NEW s \in SUBSET Rooms, Cardinality(s) = m + 1
        PROVE  it[s] \in Nat /\ jt[s] = it[s] + IF r \in s THEN n ELSE 0
    <3>1. s # {}
      BY <2>1, RoomSubsets
    <3>2. PICK x : x = First(s)
      OBVIOUS
    <3>3. x \in s /\ x \in Rooms
      BY <3>1, <3>2 DEF First
    <3>4. it[s] = f[x] + it[s \ {x}] /\ jt[s] = g[x] + jt[s \ {x}]
      BY <1>2, <1>3, <3>1, <3>2 DEF Adds
    <3>5. it[s \ {x}] \in Nat /\ jt[s \ {x}] = it[s \ {x}] + IF r \in s \ {x} THEN n ELSE 0
      BY <2>1, <3>3, RoomSubsets
    <3>6. f[x] \in Nat /\ g[x] = f[x] + IF x = r THEN n ELSE 0
      BY <1>1, <3>3
    <3> QED BY <3>3, <3>4, <3>5, <3>6
  <2> QED BY <2>1
<1>6. N = Nat
  <2> HIDE DEF N
  <2>1. N \subseteq Nat
    BY DEF N
  <2> QED BY <1>4, <1>5, <2>1, NatSet
<1>7. Cardinality(Rooms) \in N
  BY <1>6, RoomSubsets
<1> QED BY <1>2, <1>3, <1>7

LEMMA SumOfNothing == SumOf([r \in Rooms |-> 0]) = 0
<1>1. PICK it : Adds([r \in Rooms |-> 0], it) /\ SumOf([r \in Rooms |-> 0]) = it[Rooms]
  <2>1. [r \in Rooms |-> 0] \in [Rooms -> Nat]
    OBVIOUS
  <2> QED BY <2>1, SumOfAdds
<1> DEFINE N == {m \in Nat : \A s \in SUBSET Rooms : Cardinality(s) = m => it[s] = 0}
<1>2. 0 \in N
  <2>1. it[{}] = 0
    BY <1>1 DEF Adds
  <2> QED BY <2>1, RoomSubsets
<1>3. ASSUME NEW m \in N PROVE m + 1 \in N
  <2>1. ASSUME NEW s \in SUBSET Rooms, Cardinality(s) = m + 1 PROVE it[s] = 0
    <3>1. s # {}
      BY <2>1, RoomSubsets
    <3>2. PICK x : x = First(s)
      OBVIOUS
    <3>3. x \in s /\ x \in Rooms
      BY <3>1, <3>2 DEF First
    <3>4. it[s] = 0 + it[s \ {x}]
      BY <1>1, <3>1, <3>2, <3>3 DEF Adds
    <3>5. it[s \ {x}] = 0
      BY <2>1, <3>3, RoomSubsets
    <3> QED BY <3>4, <3>5
  <2> QED BY <2>1
<1>4. N = Nat
  <2> HIDE DEF N
  <2>1. N \subseteq Nat
    BY DEF N
  <2> QED BY <1>2, <1>3, <2>1, NatSet
<1> QED BY <1>1, <1>4, RoomSubsets

-----------------------------------------------------------------------------
(* The steps *)

LEMMA UpkeepInitIInv == UpkeepInit => UpkeepIInv
<1> SUFFICES ASSUME UpkeepInit PROVE UpkeepIInv
  OBVIOUS
<1>1. UpkeepTypeOK /\ CountsOK /\ DeletesWhatWas
  BY UpkeepAssumption DEF UpkeepInit, UpkeepTypeOK, CountsOK, DeletesWhatWas, RoomRow, Never
<1>2. Born = {} /\ Gone = {} /\ {r \in Rooms : daily[r] > 0} = {}
  BY DEF UpkeepInit, Born, Gone
<1>3. RowsAgree
  BY <1>2, SumOfNothing, FS_EmptySet DEF UpkeepInit, RowsAgree, Recount
<1>4. RoomsAgree
  BY <1>2, FS_EmptySet DEF UpkeepInit, RoomsAgree, RoomsRemoved
<1> QED BY <1>1, <1>3, <1>4 DEF UpkeepIInv

\* Tracking keeps the rows agreeing, unless one of its statements fails.
LEMMA TrackKeeps ==
    ASSUME UpkeepIInv, NEW r \in Rooms, NEW n \in {1, 2}, Track(r, n)
    PROVE  /\ CountsOK'
           /\ faults' = 0 => faults = 0 /\ RowsAgree'
           /\ global'.created = global.created /\ RoomsRemoved' = RoomsRemoved
<1>1. PICK inGlobal \in 0..n, inDaily \in 0..n, inAlltime \in 0..n, recounted \in BOOLEAN :
         /\ faults' = faults + (inGlobal + inDaily + inAlltime
                                + IF recounted \/ inDaily = n THEN 0 ELSE 1)
         /\ daily' = [daily EXCEPT ![r] = @ + n - inDaily]
         /\ global' = [global EXCEPT !.updates = @ + n - inGlobal,
                                    !.modified = IF recounted THEN Recount(daily') ELSE @]
         /\ alltime' = [alltime EXCEPT ![r] = @ + n - inAlltime]
  <2>1. PICK failed \in [{"global", "daily", "alltime"} -> 0..n], recounted \in BOOLEAN :
         /\ faults' = faults + (failed["global"] + failed["daily"] + failed["alltime"]
                                + IF recounted \/ failed["daily"] = n THEN 0 ELSE 1)
         /\ daily' = [daily EXCEPT ![r] = @ + n - failed["daily"]]
         /\ global' = [global EXCEPT !.updates = @ + n - failed["global"],
                                    !.modified = IF recounted THEN Recount(daily') ELSE @]
         /\ alltime' = [alltime EXCEPT ![r] = @ + n - failed["alltime"]]
    BY Zenon DEF Track
  <2>2. failed["global"] \in 0..n /\ failed["daily"] \in 0..n /\ failed["alltime"] \in 0..n
    OBVIOUS
  <2> QED BY Zenon, <2>1, <2>2
<1>2. CountsOK /\ n \in Nat /\ inGlobal \in Nat /\ inDaily \in Nat /\ inAlltime \in Nat
  BY DEF UpkeepIInv
<1>3. tracked' = tracked + n
  BY DEF Track
<1>4. daily' \in [Rooms -> Nat] /\ alltime' \in [Rooms -> Nat]
  BY <1>1, <1>2 DEF CountsOK
<1>5. Recount(daily') \in Nat
  BY RoomSubsets DEF Recount
<1>6. global' \in [{"created", "deleted", "aborted", "abandoned", "updates", "modified"} -> Nat]
  <2>1. PICK updates, modified :
          /\ updates = global.updates + n - inGlobal
          /\ modified = IF recounted THEN Recount(daily') ELSE global.modified
    OBVIOUS
  <2>2. updates \in Nat /\ modified \in Nat
    BY <1>2, <1>5, <2>1 DEF CountsOK
  <2>3. global' = [global EXCEPT !.updates = updates, !.modified = modified]
    BY <1>1, <2>1
  <2> QED BY <1>2, <2>2, <2>3 DEF CountsOK
<1>7. CountsOK'
  BY <1>1, <1>2, <1>3, <1>4, <1>6 DEF CountsOK
<1>8. global'.created = global.created /\ RoomsRemoved' = RoomsRemoved
  BY <1>1, <1>2 DEF CountsOK, RoomsRemoved
<1>9. ASSUME faults' = 0 PROVE faults = 0 /\ RowsAgree'
  <2>1. faults = 0 /\ recounted /\ inGlobal = 0 /\ inDaily = 0 /\ inAlltime = 0
    <3>1. faults \in Nat /\ n # 0
      BY <1>2 DEF CountsOK
    <3>2. PICK uncounted \in {0, 1} : /\ uncounted = IF recounted \/ inDaily = n THEN 0 ELSE 1
                                      /\ 0 = faults + (inGlobal + inDaily + inAlltime + uncounted)
      BY <1>1, <1>9
    <3>3. faults = 0 /\ inGlobal = 0 /\ inDaily = 0 /\ inAlltime = 0 /\ uncounted = 0
      BY <1>2, <3>1, <3>2
    <3> QED BY <3>1, <3>2, <3>3
  <2>2. RowsAgree
    BY <2>1 DEF UpkeepIInv
  <2>3. daily' = [daily EXCEPT ![r] = @ + n] /\ alltime' = [alltime EXCEPT ![r] = @ + n]
    <3>1. daily[r] \in Nat /\ alltime[r] \in Nat
      BY <1>2 DEF CountsOK
    <3>2. daily[r] + n - 0 = daily[r] + n /\ alltime[r] + n - 0 = alltime[r] + n
      BY <1>2, <3>1
    <3> QED BY <1>1, <2>1, <3>2
  <2>4. SumOf(daily') = SumOf(daily) + n
    <3>1. daily \in [Rooms -> Nat]
      BY <1>2 DEF CountsOK
    <3> QED BY <1>2, <2>3, <3>1, SumRises
  <2>5. global'.updates = global.updates + n /\ global'.modified = Recount(daily')
    BY <1>1, <1>2, <2>1 DEF CountsOK
  <2>6. alltime' = daily'
    BY <2>2, <2>3 DEF RowsAgree
  <2>7. SumOf(daily)' = SumOf(daily')
    BY DEF SumOf, MapThenSumSet, MapThenFoldSet
  <2> QED BY <2>1, <2>2, <2>4, <2>5, <2>6, <2>7 DEF RowsAgree, Recount
<1> QED BY <1>7, <1>8, <1>9

\* So does counting, which adds to its column unless its statement fails.
LEMMA CountKeeps ==
    ASSUME UpkeepIInv, NEW column \in {"created", "deleted", "aborted", "abandoned"},
           NEW n \in Nat, Count(column, n)
    PROVE  /\ CountsOK'
           /\ faults' = 0 =>
                /\ faults = 0 /\ RowsAgree'
                /\ global' = [global EXCEPT ![column] = @ + n]
<1>1. CountsOK
  BY DEF UpkeepIInv
<1>2. CountsOK'
  BY <1>1 DEF Count, CountsOK
<1>3. ASSUME faults' = 0 PROVE faults = 0 /\ global' = [global EXCEPT ![column] = @ + n]
  BY <1>1, <1>3 DEF Count, CountsOK
<1>4. ASSUME faults' = 0 PROVE RowsAgree'
  <2>1. RowsAgree /\ global'.updates = global.updates /\ global'.modified = global.modified
    BY <1>1, <1>3, <1>4 DEF UpkeepIInv, CountsOK
  <2>2. daily' = daily /\ alltime' = alltime /\ SumOf(daily)' = SumOf(daily')
    BY DEF Count, SumOf, MapThenSumSet, MapThenFoldSet
  <2> QED BY <2>1, <2>2 DEF RowsAgree, Recount
<1> QED BY <1>2, <1>3, <1>4

\* What leaves the states of the rooms, the requests and the job alone.
LEMMA SameRooms ==
    ASSUME UpkeepIInv, NEW r \in Rooms, NEW row \in RoomRow, row.state = rooms[r].state,
           Touch(r, row)
    PROVE  /\ UpkeepTypeOK' /\ DeletesWhatWas'
           /\ Born' = Born /\ Gone' = Gone
<1>1. UpkeepTypeOK'
  BY DEF UpkeepIInv, UpkeepTypeOK, Touch
<1>2. \A q \in Rooms : rooms'[q].state = rooms[q].state
  BY DEF UpkeepIInv, UpkeepTypeOK, Touch
<1>3. DeletesWhatWas'
  BY <1>2 DEF UpkeepIInv, DeletesWhatWas, Touch
<1> QED BY <1>1, <1>2, <1>3 DEF Born, Gone

\* An event of a room whose rows stay in the states they are in.
LEMMA TrackedIInv ==
    ASSUME UpkeepIInv, UpkeepTypeOK', DeletesWhatWas', Born' = Born, Gone' = Gone,
           NEW r \in Rooms, NEW n \in {1, 2}, Track(r, n)
    PROVE  UpkeepIInv'
<1>1. /\ CountsOK'
      /\ faults' = 0 => faults = 0 /\ RowsAgree'
      /\ global'.created = global.created /\ RoomsRemoved' = RoomsRemoved
  BY TrackKeeps
<1>2. faults' = 0 => RoomsAgree'
  BY <1>1 DEF UpkeepIInv, RoomsAgree
<1> QED BY <1>1, <1>2 DEF UpkeepIInv

LEMMA UntrackedIInv ==
    ASSUME UpkeepIInv, UpkeepTypeOK', DeletesWhatWas', Born' = Born, Gone' = Gone,
           CountsOK', faults' = 0 => faults = 0, UNCHANGED <<global, daily, alltime>>
    PROVE  UpkeepIInv'
<1>1. SumOf(daily)' = SumOf(daily)
  BY DEF SumOf, MapThenSumSet, MapThenFoldSet
<1>2. RowsAgree => RowsAgree'
  BY <1>1 DEF RowsAgree, Recount
<1>3. RoomsAgree => RoomsAgree'
  BY DEF RoomsAgree, RoomsRemoved
<1> QED BY <1>2, <1>3 DEF UpkeepIInv

LEMMA RowsOK ==
    ASSUME UpkeepIInv
    PROVE  clock \in 0..MaxClock /\ rooms \in [Rooms -> RoomRow]
<1>1. MaxClock \in Nat
  BY UpkeepAssumption
<1> QED BY <1>1 DEF UpkeepIInv, UpkeepTypeOK

LEMMA CreateIInv ==
    ASSUME UpkeepIInv, NEW r \in Rooms, Create(r)
    PROVE  UpkeepIInv'
<1> DEFINE row == [rooms[r] EXCEPT !.state = "there", !.created = clock]
<1>1. /\ rooms[r].state = "unborn" /\ Count("created", 1)
      /\ rooms' = [rooms EXCEPT ![r] = row] /\ UNCHANGED <<clock, job, deleting>>
  BY DEF Create, Touch
<1>2. rooms \in [Rooms -> RoomRow] /\ row \in RoomRow /\ row.state = "there"
  BY RowsOK DEF RoomRow
<1> HIDE DEF row
<1>3. UpkeepTypeOK'
  BY <1>1, <1>2 DEF UpkeepIInv, UpkeepTypeOK
<1>4. DeletesWhatWas'
  BY <1>1, <1>2 DEF UpkeepIInv, DeletesWhatWas
<1>5. r \notin Born /\ Born' = Born \cup {r} /\ Gone' = Gone
  BY <1>1, <1>2 DEF Born, Gone
<1>6. Cardinality(Born') = Cardinality(Born) + 1
  BY <1>5, UpkeepAssumption, FS_Subset, FS_AddElement DEF Born
<1>7. /\ CountsOK'
      /\ faults' = 0 =>
           /\ faults = 0 /\ RowsAgree'
           /\ global' = [global EXCEPT !.created = @ + 1]
  BY <1>1, CountKeeps
<1>8. ASSUME faults' = 0 PROVE RoomsAgree'
  <2>1. RoomsAgree /\ global'.created = global.created + 1 /\ RoomsRemoved' = RoomsRemoved
    BY <1>7, <1>8 DEF UpkeepIInv, CountsOK, RoomsRemoved
  <2> QED BY <1>5, <1>6, <2>1 DEF RoomsAgree
<1> QED BY <1>3, <1>4, <1>7, <1>8 DEF UpkeepIInv

LEMMA RoomStepsIInv ==
    ASSUME UpkeepIInv, NEW r \in Rooms,
           AddConnection(r) \/ SaveZones(r) \/ RemoveConnections(r)
             \/ ResetConnections(r) \/ WipeMemory(r)
    PROVE  UpkeepIInv'
<1>1. \E row \in RoomRow : row.state = rooms[r].state /\ Touch(r, row)
  <2>1. clock \in 0..MaxClock /\ rooms[r] \in RoomRow
    BY RowsOK
  <2>2. CASE AddConnection(r)
    <3>1. PICK row : /\ row = [rooms[r] EXCEPT !.zones = TRUE, !.history = TRUE, !.connections = TRUE]
                     /\ Touch(r, row)
      BY <2>2 DEF AddConnection
    <3> QED BY <2>1, <3>1 DEF RoomRow
  <2>3. CASE SaveZones(r)
    <3>1. PICK zones \in BOOLEAN : Touch(r, [rooms[r] EXCEPT !.zones = zones, !.updated = clock])
      BY <2>3 DEF SaveZones
    <3>2. PICK row : row = [rooms[r] EXCEPT !.zones = zones, !.updated = clock]
      OBVIOUS
    <3> QED BY <2>1, <3>1, <3>2 DEF RoomRow
  <2>4. CASE RemoveConnections(r)
    <3>1. PICK row : row = [rooms[r] EXCEPT !.connections = FALSE] /\ Touch(r, row)
      BY <2>4 DEF RemoveConnections
    <3> QED BY <2>1, <3>1 DEF RoomRow
  <2>5. CASE ResetConnections(r)
    <3>1. PICK zones \in BOOLEAN :
            Touch(r, [rooms[r] EXCEPT !.zones = zones, !.connections = FALSE, !.updated = clock])
      BY <2>1, <2>5 DEF ResetConnections, RoomRow
    <3>2. PICK row : row = [rooms[r] EXCEPT !.zones = zones, !.connections = FALSE, !.updated = clock]
      OBVIOUS
    <3> QED BY <2>1, <3>1, <3>2 DEF RoomRow
  <2>6. CASE WipeMemory(r)
    <3>1. PICK row : row = [rooms[r] EXCEPT !.history = FALSE] /\ Touch(r, row)
      BY <2>6 DEF WipeMemory
    <3> QED BY <2>1, <3>1 DEF RoomRow
  <2> QED BY <2>2, <2>3, <2>4, <2>5, <2>6
<1>2. UpkeepTypeOK' /\ DeletesWhatWas' /\ Born' = Born /\ Gone' = Gone
  BY <1>1, SameRooms
<1>3. CASE \E n \in {1, 2} : Track(r, n)
  BY <1>2, <1>3, TrackedIInv
<1>4. CASE Untracked
  <2>1. CountsOK' /\ UNCHANGED <<global, daily, alltime, faults>>
    BY <1>4 DEF Untracked, countVars, UpkeepIInv, CountsOK
  <2> QED BY <1>2, <2>1, UntrackedIInv
<1> QED
  BY <1>3, <1>4 DEF AddConnection, SaveZones, RemoveConnections, ResetConnections, WipeMemory

LEMMA EditedIInv ==
    ASSUME UpkeepIInv, NEW r \in Rooms, Edited(r)
    PROVE  UpkeepIInv'
<1>1. UNCHANGED <<rooms, clock, job, deleting>> /\ Track(r, 1)
  BY DEF Edited, roomVars
<1>2. UpkeepTypeOK' /\ DeletesWhatWas' /\ Born' = Born /\ Gone' = Gone
  BY <1>1 DEF UpkeepIInv, UpkeepTypeOK, DeletesWhatWas, Born, Gone
<1> QED BY <1>1, <1>2, TrackedIInv

\* Rooms that were there or gone are gone; the count rises by as many.
LEMMA DeletionIInv ==
    ASSUME UpkeepIInv, NEW I \in SUBSET Rooms, \A r \in I : rooms[r].state # "unborn",
           NEW column \in {"deleted", "aborted", "abandoned"}, Count(column, Cardinality(I)),
           rooms' = [r \in Rooms |-> IF r \in I THEN [rooms[r] EXCEPT !.state = "gone"]
                                     ELSE rooms[r]],
           UNCHANGED clock, job'.at \in {"idle", "aborted", "between", "abandoned"},
           job'.ids \subseteq job.ids, deleting' \in [Rooms -> 0..1],
           \A r \in Rooms : deleting'[r] > 0 => deleting[r] > 0
    PROVE  UpkeepIInv'
<1>1. rooms' \in [Rooms -> RoomRow] /\ \A r \in Rooms :
        rooms'[r].state = IF r \in I THEN "gone" ELSE rooms[r].state
  BY DEF UpkeepIInv, UpkeepTypeOK, RoomRow
<1>2. UpkeepTypeOK'
  BY <1>1 DEF UpkeepIInv, UpkeepTypeOK
<1>3. DeletesWhatWas'
  BY <1>1 DEF UpkeepIInv, DeletesWhatWas
<1>4. Born' = Born /\ Gone' = Gone \cup I /\ Gone \in SUBSET Rooms
  BY <1>1 DEF Born, Gone
<1>5. Cardinality(Gone') <= Cardinality(Gone) + Cardinality(I)
  <2>1. IsFiniteSet(Gone) /\ IsFiniteSet(I) /\ Gone \cap I \in SUBSET Rooms
    BY <1>4, RoomSubsets
  <2>2. Cardinality(Gone \cup I) = Cardinality(Gone) + Cardinality(I) - Cardinality(Gone \cap I)
    BY <2>1, FS_Union
  <2> QED BY <1>4, <2>1, <2>2, RoomSubsets
<1>6. Cardinality(I) \in Nat /\ Cardinality(Gone) \in Nat /\ Cardinality(Gone') \in Nat
  BY <1>4, RoomSubsets
<1>7. /\ CountsOK'
      /\ faults' = 0 =>
           /\ faults = 0 /\ RowsAgree'
           /\ global' = [global EXCEPT ![column] = @ + Cardinality(I)]
  BY <1>6, CountKeeps
<1>8. ASSUME faults' = 0 PROVE RoomsAgree'
  <2>1. RoomsAgree /\ CountsOK /\ global' = [global EXCEPT ![column] = @ + Cardinality(I)]
    BY <1>7, <1>8 DEF UpkeepIInv
  <2>2. global'.created = global.created /\ RoomsRemoved' = RoomsRemoved + Cardinality(I)
    BY <1>6, <2>1 DEF CountsOK, RoomsRemoved
  <2>3. RoomsRemoved \in Nat
    BY <2>1 DEF CountsOK, RoomsRemoved
  <2> QED BY <1>4, <1>5, <1>6, <2>1, <2>2, <2>3 DEF RoomsAgree
<1> QED BY <1>2, <1>3, <1>7, <1>8 DEF UpkeepIInv

LEMMA AskDeleteIInv ==
    ASSUME UpkeepIInv, NEW r \in Rooms, AskDelete(r)
    PROVE  UpkeepIInv'
<1>1. UpkeepTypeOK' /\ DeletesWhatWas' /\ Born' = Born /\ Gone' = Gone
  BY DEF AskDelete, UpkeepIInv, UpkeepTypeOK, DeletesWhatWas, Born, Gone, There
<1>2. CountsOK' /\ UNCHANGED <<global, daily, alltime, faults>>
  BY DEF AskDelete, countVars, UpkeepIInv, CountsOK
<1> QED BY <1>1, <1>2, UntrackedIInv

LEMMA DeleteAskedIInv ==
    ASSUME UpkeepIInv, NEW r \in Rooms, DeleteAsked(r)
    PROVE  UpkeepIInv'
<1>1. deleting[r] > 0 /\ rooms[r].state # "unborn"
  BY DEF DeleteAsked, UpkeepIInv, DeletesWhatWas
<1>2. deleting' \in [Rooms -> 0..1] /\ \A q \in Rooms : deleting'[q] > 0 => deleting[q] > 0
  BY <1>1 DEF DeleteAsked, UpkeepIInv, UpkeepTypeOK
<1>3. rooms' = [q \in Rooms |-> IF q \in {r} THEN [rooms[q] EXCEPT !.state = "gone"] ELSE rooms[q]]
  BY RowsOK DEF DeleteAsked
<1>4. Count("deleted", Cardinality({r}))
  BY FS_Singleton DEF DeleteAsked
<1>5. UNCHANGED <<clock, job>> /\ job.at \in {"idle", "aborted", "between", "abandoned"}
  BY DEF DeleteAsked, UpkeepIInv, UpkeepTypeOK
<1> QED BY <1>1, <1>2, <1>3, <1>4, <1>5, DeletionIInv

LEMMA DeleteSelectedIInv ==
    ASSUME UpkeepIInv, DeleteAborted \/ DeleteAbandoned
    PROVE  UpkeepIInv'
<1>1. PICK where \in {"aborted", "abandoned"}, after \in {"between", "idle"} :
        DeleteSelected(where, after)
  BY DEF DeleteAborted, DeleteAbandoned
<1>2. job.ids \in SUBSET Rooms /\ (\A r \in job.ids : rooms[r].state # "unborn")
        /\ deleting \in [Rooms -> 0..1]
  BY DEF UpkeepIInv, UpkeepTypeOK, DeletesWhatWas
<1>3. /\ rooms' = [r \in Rooms |-> IF r \in job.ids THEN [rooms[r] EXCEPT !.state = "gone"]
                                   ELSE rooms[r]]
      /\ job' = [at |-> after, ids |-> {}] /\ Count(where, Cardinality(job.ids))
      /\ UNCHANGED <<clock, deleting>>
  BY <1>1 DEF DeleteSelected
<1> QED BY <1>1, <1>2, <1>3, DeletionIInv

\* The job selects rooms that are there.
LEMMA JobIInv ==
    ASSUME UpkeepIInv, SelectAborted \/ SelectAbandoned \/ JobFails \/ TimePasses
    PROVE  UpkeepIInv'
<1>1. /\ rooms' = rooms /\ deleting' = deleting
      /\ job'.at \in {"idle", "aborted", "between", "abandoned"}
      /\ job'.ids \subseteq job.ids \cup {r \in Rooms : There(r)}
      /\ clock' \in 1..MaxClock
      /\ UNCHANGED <<global, daily, alltime, tracked>>
      /\ faults' \in {faults, faults + 1}
  <2>1. CASE SelectAborted \/ SelectAbandoned
    BY <2>1 DEF SelectAborted, SelectAbandoned, Select, Aborted, Abandoned, countVars,
                UpkeepIInv, UpkeepTypeOK
  <2>2. CASE JobFails
    BY <2>2 DEF JobFails, UpkeepIInv, UpkeepTypeOK
  <2>3. CASE TimePasses
    <3>1. MaxClock \in Nat
      BY UpkeepAssumption
    <3> QED BY <2>3, <3>1 DEF TimePasses, countVars, UpkeepIInv, UpkeepTypeOK
  <2> QED BY <2>1, <2>2, <2>3
<1>2. UpkeepTypeOK' /\ DeletesWhatWas'
  BY <1>1 DEF UpkeepIInv, UpkeepTypeOK, DeletesWhatWas, There
<1>3. CountsOK' /\ (faults' = 0 => faults = 0)
  BY <1>1 DEF UpkeepIInv, CountsOK
<1>4. Born' = Born /\ Gone' = Gone
  BY <1>1 DEF Born, Gone
<1> QED BY <1>1, <1>2, <1>3, <1>4, UntrackedIInv

LEMMA UpkeepNextIInv == UpkeepIInv /\ [UpkeepNext]_upkeepVars => UpkeepIInv'
<1> SUFFICES ASSUME UpkeepIInv, [UpkeepNext]_upkeepVars PROVE UpkeepIInv'
  OBVIOUS
<1>1. ASSUME NEW r \in Rooms,
             \/ Create(r) \/ AddConnection(r) \/ PlotRoute(r) \/ SaveZones(r)
             \/ RenameRoom(r) \/ SetServer(r) \/ UpdateChainColor(r)
             \/ RemoveConnections(r) \/ ResetConnections(r) \/ WipeMemory(r)
             \/ AskDelete(r) \/ DeleteAsked(r)
      PROVE  UpkeepIInv'
  BY <1>1, CreateIInv, RoomStepsIInv, EditedIInv, AskDeleteIInv, DeleteAskedIInv
     DEF PlotRoute, RenameRoom, SetServer, UpdateChainColor
<1>2. CASE Job \/ JobFails \/ TimePasses
  BY <1>2, DeleteSelectedIInv, JobIInv DEF Job
<1>3. CASE UNCHANGED upkeepVars
  <2>1. UNCHANGED <<rooms, clock, job, deleting, global, daily, alltime, tracked, faults>>
    BY <1>3 DEF upkeepVars, roomVars, countVars
  <2>2. UpkeepTypeOK' /\ DeletesWhatWas' /\ Born' = Born /\ Gone' = Gone /\ CountsOK'
    BY <2>1 DEF UpkeepIInv, UpkeepTypeOK, DeletesWhatWas, CountsOK, Born, Gone
  <2> QED BY <2>1, <2>2, UntrackedIInv
<1> QED BY <1>1, <1>2, <1>3 DEF UpkeepNext

\* The inductive invariant.
THEOREM AlwaysUpkeepIInv == UpkeepSpec => []UpkeepIInv
BY UpkeepInitIInv, UpkeepNextIInv, PTL DEF UpkeepSpec

\* Unless a statement failed, the day's row, the rooms' rows of the day and the
\* all-time rows tell the same modifications and the same rooms, and every room
\* ever created is there or was counted.
THEOREM CountersAlwaysAddUp == UpkeepSpec => []CountersAddUp
<1>1. UpkeepIInv => CountersAddUp
  <2> SUFFICES ASSUME UpkeepIInv, faults = 0
               PROVE  /\ UpdatesToday = UpdatesTodayPerRoom /\ UpdatesToday = UpdatesAllTimePerRoom
                      /\ global.modified = Cardinality({r \in Rooms : alltime[r] > 0})
                      /\ RoomsTotal = RoomsEmpty + RoomsUsed
                      /\ RoomsTotal <= global.created
                      /\ RoomsTotal + RoomsRemoved >= global.created
    BY DEF UpkeepIInv, CountersAddUp
  <2> DEFINE here == {r \in Rooms : There(r)}
             bare == {r \in Rooms : There(r) /\ ~rooms[r].connections}
             linked == {r \in Rooms : There(r) /\ rooms[r].connections}
  <2>1. RowsAgree /\ RoomsAgree /\ CountsOK /\ UpkeepTypeOK
    BY DEF UpkeepIInv
  <2>2. /\ UpdatesToday = UpdatesTodayPerRoom /\ UpdatesToday = UpdatesAllTimePerRoom
        /\ global.modified = Cardinality({r \in Rooms : alltime[r] > 0})
    BY <2>1 DEF RowsAgree, Recount, UpdatesToday, UpdatesTodayPerRoom, UpdatesAllTimePerRoom
  <2>3. RoomsTotal = RoomsEmpty + RoomsUsed
    <3>1. here = bare \cup linked /\ bare \cap linked = {}
      OBVIOUS
    <3>2. IsFiniteSet(bare) /\ IsFiniteSet(linked)
      BY RoomSubsets
    <3>3. Cardinality(here) = Cardinality(bare) + Cardinality(linked) - Cardinality({})
      BY <3>1, <3>2, FS_Union
    <3>4. Cardinality({}) = 0 /\ Cardinality(bare) \in Nat /\ Cardinality(linked) \in Nat
      BY <3>2, FS_EmptySet, FS_CardinalityType
    <3> QED BY <3>3, <3>4 DEF RoomsTotal, RoomsEmpty, RoomsUsed
  <2>4. Cardinality(Born) = Cardinality(here) + Cardinality(Gone)
    <3>1. Born = here \cup Gone /\ here \cap Gone = {}
      BY <2>1 DEF Born, Gone, There, UpkeepTypeOK, RoomRow
    <3>2. IsFiniteSet(here) /\ IsFiniteSet(Gone)
      BY RoomSubsets DEF Gone
    <3>3. Cardinality(Born) = Cardinality(here) + Cardinality(Gone) - Cardinality({})
      BY <3>1, <3>2, FS_Union
    <3>4. Cardinality({}) = 0 /\ Cardinality(here) \in Nat /\ Cardinality(Gone) \in Nat
      BY <3>2, FS_EmptySet, FS_CardinalityType
    <3> QED BY <3>3, <3>4
  <2>5. Cardinality(here) \in Nat /\ Cardinality(Gone) \in Nat /\ RoomsTotal = Cardinality(here)
    BY RoomSubsets DEF Gone, RoomsTotal
  <2>6. RoomsRemoved \in Nat
    BY <2>1 DEF CountsOK, RoomsRemoved
  <2>7. RoomsTotal <= global.created /\ RoomsTotal + RoomsRemoved >= global.created
    <3> HIDE DEF here
    <3> QED BY <2>1, <2>4, <2>5, <2>6 DEF RoomsAgree
  <2> QED BY <2>2, <2>3, <2>7
<1> QED BY <1>1, AlwaysUpkeepIInv, PTL
=============================================================================
