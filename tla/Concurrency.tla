----------------------------- MODULE Concurrency -----------------------------
(***************************************************************************)
(* How many people use the mapper: the peaks of concurrent sockets and the *)
(* distinct tokens of each room and day.  They are gathered in memory when *)
(* a socket is registered (broadcast_analytics.ts) and carried to the      *)
(* database by a tick every minute (analyticsCron.ts).  A tick awaits one  *)
(* query after another and the interval does not wait for the tick before  *)
(* it, so ticks overlap when the database is slow; a query may fail, which *)
(* is logged and forgotten; the process may restart; the London day ends.  *)
(***************************************************************************)
EXTENDS Integers, FiniteSets

CONSTANTS Rooms,
          TokensOf,    \* per room, the tokens issued for it
          MaxDay,      \* London days, from 1
          MaxSockets,  \* sockets open at a time
          MaxTicks,    \* ticks in flight at a time
          MaxConnects, \* sockets registered in all
          MaxFaults    \* failed queries and restarts

ASSUME ConcurrencyAssumption ==
  /\ IsFiniteSet(Rooms) /\ \A r \in Rooms : IsFiniteSet(TokensOf[r])
  /\ {MaxDay, MaxSockets, MaxTicks, MaxConnects, MaxFaults} \subseteq Nat
  /\ MaxDay >= 1

VARIABLES day,       \* londonDateString()
          open,      \* per room, the sockets registered
          memory,    \* the four maps of broadcast_analytics.ts
          lastDate,  \* the cron's local
          ticks,     \* per tick in flight, where it stands
          stored,    \* the rows of the analytics tables
          truth,     \* history: what happened on each day
          lost,      \* history: days of which something never reached the tables
          connects, faults

vars == <<day, open, memory, lastDate, ticks, stored, truth, lost, connects, faults>>

Days == 1..MaxDay
Tokens == UNION {TokensOf[r] : r \in Rooms}
Count == 0..MaxSockets
Larger(a, b) == IF a < b THEN b ELSE a

PerDay(x) == [d \in Days |-> x]
PerRoomDay(x) == [r \in Rooms |-> PerDay(x)]
\* getTotalSocketCount; the sockets of a room are numbered.
Total(o) == Cardinality(UNION {{r} \X (1..o[r]) : r \in Rooms})

Nothing == [tokens |-> PerRoomDay({}), peak |-> PerRoomDay(0),
            allTokens |-> PerDay({}), allPeak |-> PerDay(0)]

NoTick == [query |-> "none", rollover |-> FALSE]

----------------------------------------------------------------------------
(* Sockets *)

(* addSocket counts the new socket in before recordSocketAnalytics looks. *)
Connect(r, k) ==
  /\ Total(open) < MaxSockets /\ connects < MaxConnects
  /\ connects' = connects + 1
  /\ LET now == [open EXCEPT ![r] = @ + 1]
         all == Total(now)
     IN /\ open' = now
        /\ memory' = [memory EXCEPT !.tokens[r][day] = @ \union {k},
                                    !.allTokens[day] = @ \union {k},
                                    !.peak[r][day] = Larger(@, now[r]),
                                    !.allPeak[day] = Larger(@, all)]
        /\ truth' = [truth EXCEPT !.tokens[r][day] = @ \union {k},
                                  !.peak[r][day] = Larger(@, now[r]),
                                  !.allPeak[day] = Larger(@, all),
                                  !.hour[day] = Larger(@, all)]
  /\ UNCHANGED <<day, lastDate, ticks, stored, lost, faults>>

(* removeSocket; a socket is counted out once. *)
Disconnect(r) ==
  /\ open[r] > 0
  /\ open' = [open EXCEPT ![r] = @ - 1]
  /\ UNCHANGED <<day, memory, lastDate, ticks, stored, truth, lost, connects, faults>>

(* A flush takes minutes at worst: the cron has turned the page on a day, and no   *)
(* flush of the last midnight is still under way, before the next one.  Sockets    *)
(* stay open over midnight.                                                        *)
NextDay ==
  /\ day < MaxDay /\ lastDate = day
  /\ \A i \in 1..MaxTicks : ~ticks[i].rollover
  /\ day' = day + 1
  /\ truth' = [truth EXCEPT !.hour[day + 1] = Total(open)]
  /\ UNCHANGED <<open, memory, lastDate, ticks, stored, lost, connects, faults>>

----------------------------------------------------------------------------
(* A tick: the synchronous code between two awaits is one step *)

(* getAnalyticsSnapshot *)
Snapshot ==
  {[room |-> r, date |-> d, peak |-> memory.peak[r][d],
    tokens |-> Cardinality(memory.tokens[r][d])] :
     r \in Rooms, d \in {x \in Days : memory.allPeak[x] > 0}}

Entries == {e \in Snapshot : e.peak > 0 \/ e.tokens > 0}

(* clearAnalyticsDate *)
Cleared(d) ==
  [tokens |-> [r \in Rooms |-> [memory.tokens[r] EXCEPT ![d] = {}]],
   peak |-> [r \in Rooms |-> [memory.peak[r] EXCEPT ![d] = 0]],
   allTokens |-> [memory.allTokens EXCEPT ![d] = {}],
   allPeak |-> [memory.allPeak EXCEPT ![d] = 0]]

(* flushHourlyConnections, the last query of a tick.  Its maximum commutes with *)
(* that of others and nothing follows it, so it takes effect where it is        *)
(* issued; one that fails is left out, as are the least and the average count.  *)
(* The hours of a day are one.                                                  *)
Sampled(rows) == [rows EXCEPT !.hourly[day] = Larger(@, Total(open))]

\* Mutant: yesterday is cleared without a last flush.
RunOnUnflushed(i, t, rows) ==
  /\ memory' = IF t.rollover THEN Cleared(lastDate) ELSE memory
  /\ lastDate' = IF t.rollover THEN t.today ELSE lastDate
  /\ ticks' = [ticks EXCEPT ![i] = NoTick]
  /\ stored' = Sampled(rows)

(* The tick i, now at t, runs on to the query it awaits next, the tables holding *)
(* the rows.  The row seeded for a new day touches nothing here.  Entries are    *)
(* taken in one order: the rooms of the map are alike.                           *)
RunOn(i, t, rows) ==
  LET dates == {d \in t.dates : memory.allPeak[d] > 0} IN
  \/ /\ t.entries # {}
     /\ LET e == CHOOSE e \in t.entries : TRUE IN
          ticks' = [ticks EXCEPT ![i] =
                      [t EXCEPT !.query = "daily", !.entry = e, !.entries = @ \ {e}]]
     /\ stored' = rows /\ UNCHANGED <<memory, lastDate>>
  \/ /\ t.entries = {} /\ dates # {}
     /\ \E d \in dates :
          ticks' = [ticks EXCEPT ![i] =
                      [t EXCEPT !.query = "global", !.dates = dates \ {d},
                                !.entry = [date |-> d, peak |-> memory.allPeak[d],
                                           tokens |-> Cardinality(memory.allTokens[d])]]]
     /\ stored' = rows /\ UNCHANGED <<memory, lastDate>>
  \/ /\ t.entries = {} /\ dates = {}
     /\ memory' = IF t.rollover THEN Cleared(lastDate) ELSE memory
     /\ lastDate' = IF t.rollover THEN t.today ELSE lastDate
     /\ ticks' = [ticks EXCEPT ![i] = NoTick]
     /\ stored' = Sampled(rows)

(* The second of two midnight ticks clears the day it should begin. *)
ClearedToday == {d \in Days : memory.allPeak[d] > 0 /\ memory'.allPeak[d] = 0 /\ d = day}

StartTick(i) ==
  /\ ticks[i] = NoTick /\ \A j \in 1..(i - 1) : ticks[j] # NoTick
  /\ RunOn(i, [query |-> "none", rollover |-> day # lastDate, today |-> day, entries |-> Entries,
               dates |-> {d \in Days : memory.allPeak[d] > 0}, entry |-> [date |-> 0]],
           stored)
  /\ lost' = lost \union ClearedToday
  /\ UNCHANGED <<day, open, truth, connects, faults>>

\* Mutant: ON CONFLICT DO NOTHING.
FirstWins(row, e) == IF row.peak > 0 THEN row ELSE [peak |-> e.peak, tokens |-> e.tokens]

\* Mutant: ON CONFLICT DO UPDATE with the new values.
LatestWins(row, e) == [peak |-> e.peak, tokens |-> e.tokens]

Greatest(row, e) == [peak |-> Larger(row.peak, e.peak),
                     tokens |-> Larger(row.tokens, e.tokens)]

Upserted(t) ==
  CASE t.query = "daily" ->
         [stored EXCEPT !.daily[t.entry.room][t.entry.date] = Greatest(@, t.entry)]
    [] t.query = "alltime" ->
         [stored EXCEPT !.alltime[t.entry.room] = Greatest(@, t.entry)]
    [] t.query = "global" ->
         [stored EXCEPT !.global[t.entry.date] = Greatest(@, t.entry)]

(* A query has answered: flushConcurrencyStats goes on to its second. *)
GoOn(i, t) ==
  \/ /\ t.query = "daily"
     /\ ticks' = [ticks EXCEPT ![i].query = "alltime"]
     /\ stored' = Upserted(t) /\ UNCHANGED <<memory, lastDate>>
  \/ /\ t.query \in {"alltime", "global"}
     /\ RunOn(i, t, Upserted(t))

Answer(i) ==
  /\ ticks[i] # NoTick
  /\ GoOn(i, ticks[i])
  /\ lost' = lost \union ClearedToday
  /\ UNCHANGED <<day, open, truth, connects, faults>>

(* The error is caught inside the function that issued the query: the rest of *)
(* that function is skipped and the tick goes on.                             *)
Fail(i) ==
  /\ faults < MaxFaults /\ ticks[i] # NoTick
  /\ LET t == ticks[i] IN
       /\ RunOn(i, t, stored)
       /\ lost' = lost \union ClearedToday
                    \union {d \in Days : t.rollover /\ d = t.entry.date /\ d < t.today}
  /\ faults' = faults + 1
  /\ UNCHANGED <<day, open, truth, connects>>

(* A restart drops the sockets, the four maps and every tick. *)
Restart ==
  /\ faults < MaxFaults
  /\ open' = [r \in Rooms |-> 0]
  /\ memory' = Nothing
  /\ ticks' = [i \in 1..MaxTicks |-> NoTick]
  /\ lastDate' = day
  /\ lost' = lost \union {d \in Days : memory.allPeak[d] > 0}
  /\ faults' = faults + 1
  /\ UNCHANGED <<day, stored, truth, connects>>

Init ==
  LET none == [peak |-> 0, tokens |-> 0] IN
  /\ day = 1 /\ lastDate = 1
  /\ open = [r \in Rooms |-> 0]
  /\ memory = Nothing
  /\ ticks = [i \in 1..MaxTicks |-> NoTick]
  /\ stored = [daily |-> PerRoomDay(none), alltime |-> [r \in Rooms |-> none],
               global |-> PerDay(none), hourly |-> PerDay(0)]
  /\ truth = [tokens |-> PerRoomDay({}), peak |-> PerRoomDay(0), allPeak |-> PerDay(0),
              hour |-> PerDay(0)]
  /\ lost = {} /\ connects = 0 /\ faults = 0

Next ==
  \/ \E r \in Rooms : \E k \in TokensOf[r] : Connect(r, k)
  \/ \E r \in Rooms : Disconnect(r)
  \/ NextDay \/ Restart
  \/ \E i \in 1..MaxTicks : StartTick(i) \/ Answer(i) \/ Fail(i)

(* setInterval keeps starting ticks, and the pool answers every query. *)
Fairness ==
  \A i \in 1..MaxTicks : WF_vars(StartTick(i)) /\ WF_vars(Answer(i))

Spec == Init /\ [][Next]_vars
FairSpec == Spec /\ Fairness

----------------------------------------------------------------------------
TypeOK ==
  /\ day \in Days /\ lastDate \in Days
  /\ open \in [Rooms -> Count]
  /\ memory.tokens \in [Rooms -> [Days -> SUBSET Tokens]]
  /\ memory.peak \in [Rooms -> [Days -> Count]]
  /\ memory.allTokens \in [Days -> SUBSET Tokens]
  /\ memory.allPeak \in [Days -> Count]
  /\ \A i \in 1..MaxTicks :
       ticks[i].query \in {"none", "daily", "alltime", "global"}
  /\ lost \subseteq Days /\ faults \in 0..MaxFaults

Complete(d) ==
  /\ \A r \in Rooms :
       LET row == stored.daily[r][d] IN
         /\ row = [peak |-> truth.peak[r][d], tokens |-> Cardinality(truth.tokens[r][d])]
         /\ stored.alltime[r].peak >= row.peak /\ stored.alltime[r].tokens >= row.tokens
  /\ stored.global[d] =
       [peak |-> truth.allPeak[d],
        tokens |-> Cardinality(UNION {truth.tokens[r][d] : r \in Rooms})]

(* Nothing of day d is left in the four maps. *)
Forgotten(d) ==
  /\ memory.allPeak[d] = 0 /\ memory.allTokens[d] = {}
  /\ \A r \in Rooms : memory.peak[r][d] = 0 /\ memory.tokens[r][d] = {}

(* When the cron has turned the page on a day (analyticsCron.ts:101-105) memory    *)
(* has let go of it, or it would grow with the days, and the rows are exactly what *)
(* happened, whatever ticks overlapped it: only a restart, a query that failed in  *)
(* the midnight flush itself, and a second midnight tick that clears the new day   *)
(* take anything away.                                                             *)
ClosedDaysAreComplete ==
  /\ TypeOK
  /\ \A d \in Days : d < lastDate => Forgotten(d) /\ (d \notin lost => Complete(d))

(* A failed flush is made good by a later tick, since memory is not cleared before *)
(* midnight: every day not lost ends with complete rows.                           *)
EventuallyComplete == \A d \in Days : <>[](d \in lost \/ Complete(d))

(* The rows of a room and day, of the server's day and of its hours are high-water *)
(* marks of what happened then: late and repeated flushes, overlapping ticks and   *)
(* restarts never lower a row nor raise it over what happened (GREATEST in         *)
(* flushConcurrencyStats, flushGlobalConcurrencyStats, flushHourlyConnections).    *)
Marks == ({"peak", "tokens"} \X Rooms \X Days)
           \union ({"peak of all", "tokens of all", "hour"} \X Days)

Reached(m) ==
  CASE m[1] = "peak" -> truth.peak[m[2]][m[3]]
    [] m[1] = "tokens" -> Cardinality(truth.tokens[m[2]][m[3]])
    [] m[1] = "peak of all" -> truth.allPeak[m[2]]
    [] m[1] = "tokens of all" -> Cardinality(UNION {truth.tokens[r][m[2]] : r \in Rooms})
    [] m[1] = "hour" -> truth.hour[m[2]]

Told(m) ==
  CASE m[1] = "peak" -> stored.daily[m[2]][m[3]].peak
    [] m[1] = "tokens" -> stored.daily[m[2]][m[3]].tokens
    [] m[1] = "peak of all" -> stored.global[m[2]].peak
    [] m[1] = "tokens of all" -> stored.global[m[2]].tokens
    [] m[1] = "hour" -> stored.hourly[m[2]]

HW == INSTANCE HighWater WITH
        Keys <- Marks,
        actual <- [m \in Marks |-> Reached(m)],
        reported <- [m \in Marks |-> Told(m)]

RowsAreHighWaterMarks == HW!Spec

=============================================================================
