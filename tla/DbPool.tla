------------------------------- MODULE DbPool -------------------------------
(***************************************************************************)
(* What the requests on one room hold while they run: a client of the pg   *)
(* pool (db.ts) and, in PostgreSQL, row locks.  A handler is the list of   *)
(* its steps: a query through the pool, a transaction on a client of its   *)
(* own, the statements in it.  A plain SELECT locks nothing; SELECT ... FOR *)
(* UPDATE and DELETE lock a row in mode Update, UPDATE in NoKeyUpdate, and *)
(* an INSERT locks the row its foreign key names in KeyShare.              *)
(*                                                                         *)
(* Several queries in a row that lock the same rows are one step.  All the *)
(* rows a room has in a table are one row here, so two requests may wait   *)
(* for each other where the server would have found different rows.        *)
(*                                                                         *)
(* db_incidents.ts counts the transactions PostgreSQL discards by wrapping *)
(* the pool and each client it hands out.  A client goes back to the pool  *)
(* with what is wrapped around it, and is handed out again.                *)
(*                                                                         *)
(* MemoryThroughThePool and RowsBeforeRoom are the handlers of rotate_zone *)
(* and of the reset with a slip in them; no action uses them.              *)
(***************************************************************************)
EXTENDS Integers, Sequences, FiniteSets

CONSTANTS
    Request,     \* the HTTP requests and WebSocket messages being served
    MayServe,    \* the handlers each of them may be
    PoolSize,    \* max of the pool
    Idle         \* no request

VARIABLES
    kind,     \* the handler a request runs
    at,       \* its next step
    open,     \* the clients taken out of the pool
    held,     \* the row locks each of them holds
    watchers, \* how many times each of them is wrapped by db_incidents.ts
    idle,     \* the same of the clients that wait in the pool, the last back first
    miscounted  \* the errors counted not once but never, or twice

vars == <<kind, at, open, held, watchers, idle, miscounted>>

Row == {"room", "chains", "nodes", "conns", "memory"}

Lock == Row \X {"KeyShare", "NoKeyUpdate", "Update"}

\* A client is the one a handler has checked out or one the pool runs a
\* single query on.
Client == Request \X {"own", "pool"}

-----------------------------------------------------------------------------
(* Handlers *)

Query(locks) == [does |-> "query", locks |-> locks]   \* app.db.query
Begin == [does |-> "begin", locks |-> {}]             \* app.db.connect, BEGIN
Run(locks) == [does |-> "run", locks |-> locks]       \* client.query
Commit == [does |-> "commit", locks |-> {}]

Share(S) == {<<x, "KeyShare">> : x \in S}
Change(S) == {<<x, "NoKeyUpdate">> : x \in S}
Take(S) == {<<x, "Update">> : x \in S}

CreateConnection == <<
    Query({}),
    Query(Take({"nodes"}) \cup Share({"room", "chains"})),
    Query(Take({"memory"}) \cup Share({"room"})),
    Query(Take({"nodes"})),
    Query(Share({"room", "chains"}))>>

DeleteConnection == <<Query({}), Query(Take({"conns"})), Query(Take({"nodes"}))>>

AddChain == <<
    Query({}), Begin, Run(Share({"room"})),
    Run(Take({"nodes"})), Run(Take({"memory"})), Commit, Query({})>>

RelocateChain == <<
    Query({}), Begin, Run(Take({"conns"})), Run(Take({"nodes"})),
    Run(Share({"room", "chains"})), Run(Take({"memory"})),
    Run(Change({"chains"})), Run(Change({"room"})), Commit>>

\* One statement: the order in which its CTEs write is not defined.
DeleteChain == <<
    Query({}), Query(Take({"nodes", "conns", "chains"}) \cup Change({"room"}))>>

RowsBeforeRoom == <<
    Query({}), Begin, Run(Take({"conns"})), Run(Take({"nodes"})),
    Run(Take({"room"})), Run(Share({"chains"})), Commit>>

ResetRoom == <<
    Query({}), Begin, Run(Take({"room"})), Run(Take({"conns"})),
    Run(Take({"nodes"})), Run(Share({"chains"})), Commit>>

DeleteRoom == <<
    Query({}), Begin, Run(Take({"conns"})), Run(Take({"nodes"})),
    Run(Take({"memory"})), Run(Take({"room", "chains"})), Commit>>

ImportRoom == <<
    Query({}), Begin, Run(Change({"room"})), Run(Take({"conns"})),
    Run(Take({"nodes"})), Run(Take({"memory"})), Run(Take({"chains"})), Commit>>

UpdateNodePositions == <<
    Query({}), Begin, Run(Take({"room"})), Run(Take({"nodes"})),
    Run(Share({"chains"})), Commit,
    Query({}), Query(Take({"memory"}) \cup Share({"room"}))>>

MemoryThroughThePool == <<
    Query({}), Begin, Run(Take({"room"})), Run(Take({"nodes"})),
    Query(Take({"memory"}) \cup Share({"room"})), Commit, Query({})>>

RotateZone == <<
    Query({}), Begin, Run(Take({"room"})), Run(Take({"nodes"})),
    Run(Take({"memory"})), Commit, Query({})>>

MigrateRoom == <<
    Query({}), Begin, Run(Share({"room"})), Run(Take({"conns"})),
    Run(Take({"nodes"})), Run(Change({"room"})), Commit>>

UpdatePlotRoute == <<Query({}), Query(Change({"room"}))>>

\* GET /api/health, and every handler that only reads.
Read == <<Query({})>>

Handler ==
    [create_connection |-> CreateConnection, delete_connection |-> DeleteConnection,
     add_chain |-> AddChain, relocate |-> RelocateChain, delete_chain |-> DeleteChain,
     reset |-> ResetRoom, delete_room |-> DeleteRoom, import |-> ImportRoom,
     update_node_positions |-> UpdateNodePositions, rotate_zone |-> RotateZone,
     migrate |-> MigrateRoom, update_plot_route |-> UpdatePlotRoute, read |-> Read]

ASSUME ServesHandlers ==
    /\ MayServe \in [Request -> SUBSET DOMAIN Handler]
    /\ PoolSize \in Nat \ {0}
    /\ Idle \notin DOMAIN Handler

-----------------------------------------------------------------------------
(* Locks *)

Conflicting == {
    {"KeyShare", "Update"}, {"NoKeyUpdate"}, {"NoKeyUpdate", "Update"}, {"Update"}}

Conflicts(l, m) == l[1] = m[1] /\ {l[2], m[2]} \in Conflicting

\* The other clients that hold a lock in conflict with l.
Blockers(c, l) == {d \in open \ {c} : \E m \in held[d] : Conflicts(l, m)}

Active(r) == kind[r] # Idle

Step(r) == Handler[kind[r]][at[r]]

Done(r) == at[r] > Len(Handler[kind[r]])

\* The client the current step of r runs on.
ClientOf(r) == <<r, IF Step(r).does = "query" THEN "pool" ELSE "own">>

\* The locks the statement that r is running still has to get.
Wanted(r) ==
    IF Active(r) /\ ~Done(r) /\ ClientOf(r) \in open
    THEN Step(r).locks \ held[ClientOf(r)] ELSE {}

\* c is waiting in PostgreSQL for d.  A client between two statements is
\* waiting for nothing that PostgreSQL can see.
Waits(c, d) ==
    LET r == c[1] IN
    /\ Wanted(r) # {}
    /\ c = ClientOf(r)
    /\ \E l \in Wanted(r) : d \in Blockers(c, l)

Waiting(S) == S # {} /\ \A c \in S : \E d \in S : Waits(c, d)

\* The cycles of the waits-for graph.
Cycles ==
    {S \in SUBSET {c \in open : Wanted(c[1]) # {}} :
        Waiting(S) /\ \A T \in SUBSET S : Waiting(T) => T = S}

-----------------------------------------------------------------------------
(* Incidents: the transactions PostgreSQL discarded, as db_incidents.ts       *)
(* counts them.  The clients the pool did not hand out it counts apart, one   *)
(* that Pool.query asked for twice and one that was slow to connect not at    *)
(* all; and it counts a connection that breaks while idle, which discards no  *)
(* transaction.  Those two are not kept here.                                 *)

\* Mutant: a client that is handed out again is wrapped again.
InstrumentAgain(n) == n + 1

\* A client is wrapped when it is handed out for the first time.
InstrumentClient(n) == IF n > 0 THEN n ELSE 1

\* A query on a client of the handler's own gives a promise, which every wrapper
\* watches.  Pool.query runs with a callback, and only its own promise is watched.
RecordedByQuery(c) == IF c[2] = "own" THEN watchers[c] ELSE 1

\* A client whose backend ends while nothing runs on it emits an event, to every
\* wrapper's listener.  The query after that fails with an error without a code,
\* which nobody counts.
RecordedByEvent(c) == watchers[c]

Incident(err, times) ==
    miscounted' = IF times = 1 THEN miscounted ELSE miscounted \cup {err}

-----------------------------------------------------------------------------
Init ==
    /\ kind = [r \in Request |-> Idle]
    /\ at = [r \in Request |-> 0]
    /\ open = {}
    /\ held = [c \in Client |-> {}]
    /\ watchers = [c \in Client |-> 0]
    /\ idle = << >>
    /\ miscounted = {}

Start(r, k) ==
    /\ ~Active(r)
    /\ kind' = [kind EXCEPT ![r] = k]
    /\ at' = [at EXCEPT ![r] = 1]
    /\ UNCHANGED <<open, held, watchers, idle, miscounted>>

Advance(r) == at' = [at EXCEPT ![r] = @ + 1] /\ UNCHANGED kind

\* A client goes back to the pool and lets its locks go.
Release(C) ==
    /\ open' = open \ C
    /\ held' = [c \in Client |-> IF c \in C THEN {} ELSE held[c]]
    /\ watchers' = [c \in Client |-> IF c \in C THEN 0 ELSE watchers[c]]

\* It is kept for the next one who asks.
Back(c) == IF c \in open THEN <<watchers[c]>> ELSE << >>
AllBack(r) == Back(<<r, "own">>) \o Back(<<r, "pool">>) \o idle

End(r) ==
    /\ kind' = [kind EXCEPT ![r] = Idle]
    /\ at' = [at EXCEPT ![r] = 0]
    /\ Release({c \in Client : c[1] = r})

\* The next step needs a client that has still to be got.
LacksClient(r) ==
    /\ Active(r) /\ ~Done(r)
    /\ Step(r).does \in {"begin", "query"}
    /\ ClientOf(r) \notin open

\* pool.connect(), waiting until the pool has one or may make one.
TakeClient(r) ==
    /\ LacksClient(r)
    /\ Cardinality(open) < PoolSize
    /\ open' = open \cup {ClientOf(r)}
    /\ IF idle = << >>
       THEN /\ watchers' = [watchers EXCEPT ![ClientOf(r)] = InstrumentClient(0)]
            /\ idle' = idle
       ELSE /\ watchers' = [watchers EXCEPT ![ClientOf(r)] = InstrumentClient(Head(idle))]
            /\ idle' = Tail(idle)
    /\ UNCHANGED <<kind, at, held, miscounted>>

GetLock(r) ==
    /\ \E l \in Wanted(r) :
          /\ Blockers(ClientOf(r), l) = {}
          /\ held' = [held EXCEPT ![ClientOf(r)] = @ \cup {l}]
    /\ UNCHANGED <<kind, at, open, watchers, idle, miscounted>>

\* The statement is over: a query gives its client back, a transaction keeps
\* client and locks.
FinishStep(r) ==
    /\ Step(r).does # "commit"
    /\ ClientOf(r) \in open
    /\ Wanted(r) = {}
    /\ Advance(r)
    /\ IF Step(r).does = "query"
       THEN Release({ClientOf(r)}) /\ idle' = Back(ClientOf(r)) \o idle
       ELSE UNCHANGED <<open, held, watchers, idle>>
    /\ UNCHANGED miscounted

CommitTx(r) ==
    /\ Step(r).does = "commit"
    /\ Advance(r)
    /\ Release({ClientOf(r)})
    /\ idle' = Back(ClientOf(r)) \o idle
    /\ UNCHANGED miscounted

Reply(r) == Done(r) /\ End(r) /\ idle' = AllBack(r) /\ UNCHANGED miscounted

Proceed(r) ==
    /\ Active(r)
    /\ \/ Reply(r)
       \/ ~Done(r) /\ (TakeClient(r) \/ GetLock(r) \/ FinishStep(r) \/ CommitTx(r))

\* The handler returns early, rolling back the transaction it has open.
GiveUp(r) ==
    /\ Active(r) /\ ~Done(r) /\ Wanted(r) = {}
    /\ End(r)
    /\ idle' = AllBack(r)
    /\ UNCHANGED miscounted

\* connectionTimeoutMillis: the pool was used up, or a new client did not connect
\* in time.
NotHandedOut(r) ==
    /\ LacksClient(r)
    /\ Cardinality(open) = PoolSize \/ idle = << >>
    /\ End(r)
    /\ idle' = AllBack(r)
    /\ UNCHANGED miscounted

\* A statement fails: the handler ends in its catch and finally blocks and gives
\* its client back; one that Pool.query ran on is closed by the pool.
QueryFails(r, err) ==
    /\ Incident(err, RecordedByQuery(ClientOf(r)))
    /\ End(r)
    /\ idle' = Back(<<r, "own">>) \o idle

\* statement_timeout, while waiting for a lock.
Canceled(r) == Wanted(r) # {} /\ QueryFails(r, "canceled")

\* idle_in_transaction_session_timeout, or a backend that is terminated: the
\* handler finds out by its next statement, and the client is closed.
KilledIdle(r) ==
    /\ Active(r) /\ ~Done(r) /\ Step(r).does \in {"run", "commit"}
    /\ ClientOf(r) \in open /\ Wanted(r) = {}
    /\ Incident("killed idle", RecordedByEvent(ClientOf(r)))
    /\ End(r)
    /\ UNCHANGED idle

\* PostgreSQL ends one transaction of a cycle (40P01).
DeadlockDetected ==
    \E S \in Cycles : \E c \in S : QueryFails(c[1], "deadlock")

\* A client that waits in the pool for too long (idleTimeoutMillis) or whose
\* connection breaks is closed.
CloseIdle ==
    /\ \E i \in 1..Len(idle) :
          idle' = SubSeq(idle, 1, i - 1) \o SubSeq(idle, i + 1, Len(idle))
    /\ UNCHANGED <<kind, at, open, held, watchers, miscounted>>

Next ==
    \/ \E r \in Request : \E k \in MayServe[r] : Start(r, k)
    \/ \E r \in Request : Proceed(r) \/ GiveUp(r) \/ NotHandedOut(r) \/ Canceled(r) \/ KilledIdle(r)
    \/ DeadlockDetected
    \/ CloseIdle

Spec == Init /\ [][Next]_vars

\* The pool and PostgreSQL serve their queues in order, and deadlock_timeout
\* looks for cycles; no time-out is assumed to be needed.
FairSpec ==
    /\ Spec
    /\ \A r \in Request : SF_vars(Proceed(r))
    /\ WF_vars(DeadlockDetected)

-----------------------------------------------------------------------------
\* The pool's clients are those of requests that are inside a query or a
\* transaction, and no two of them hold conflicting locks.
TypeOK ==
    /\ kind \in [Request -> DOMAIN Handler \cup {Idle}]
    /\ \A r \in Request : at[r] \in 0..(IF Active(r) THEN Len(Handler[kind[r]]) + 1 ELSE 0)
    /\ open \subseteq Client /\ Cardinality(open) <= PoolSize
    /\ held \in [Client -> SUBSET Lock]
    /\ watchers \in [Client -> Nat] /\ idle \in Seq(Nat)
    /\ \A c \in Client \ open : held[c] = {}
    /\ \A c, d \in open : c # d => \A l \in held[c], m \in held[d] : ~Conflicts(l, m)

\* Every transaction that PostgreSQL discards is counted, and counted once: by
\* whatever way the handler asked for its client and however often that client
\* was handed out before, by whatever way then (docs/database.md:120, "so no call
\* site can swallow one"; db_incidents.ts:125, the guard against wrapping twice).
EveryDiscardCountsOnce == miscounted = {}

\* A request that is being served is answered, without any time-out firing:
\* nobody waits for a client or a lock that only its own transaction, or one
\* that waits for it, could give back (docs/database.md, "Pool timeouts and
\* discarded transactions").
EveryRequestEnds == \A r \in Request : Active(r) ~> ~Active(r)

\* The transactions that lock the rooms row before anything else.
RoomFirst == {"reset", "import", "update_node_positions", "rotate_zone"}

\* Locking the room first serializes these handlers: PostgreSQL never finds a
\* deadlock in which only their transactions take part.
RoomFirstNeverDeadlocks ==
    /\ TypeOK
    /\ \A S \in Cycles : \E c \in S : c[2] = "pool" \/ kind[c[1]] \notin RoomFirst
=============================================================================
