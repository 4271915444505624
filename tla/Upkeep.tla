------------------------------- MODULE Upkeep -------------------------------
(***************************************************************************)
(* The life of rooms as the clean-up job (roomCleanup.ts) and the counters *)
(* (analytics.ts, rooms_analytics.ts) see it.  The job selects rooms,      *)
(* awaits, and deletes them by id, while members go on using them.  Every  *)
(* handler reports what it did by statements it does not wait for, on      *)
(* tables without keys to each other; a statement that fails is logged and *)
(* forgotten.  The increments commute, so each is applied, or fails, where *)
(* it is issued.  Counters are those of one day; of a room's columns only the    *)
(* sum is told apart.                                                      *)
(***************************************************************************)
EXTENDS Integers, FiniteSets, FiniteSetsExt

CONSTANTS Rooms,
          AbortedGrace, AbandonedGrace, \* in steps of the clock
          MaxClock,   \* steps of the clock
          MaxTracked, \* events tracked
          MaxFaults   \* failed statements

ASSUME UpkeepAssumption ==
  /\ IsFiniteSet(Rooms)
  /\ {AbortedGrace, AbandonedGrace, MaxClock, MaxTracked, MaxFaults} \subseteq Nat
  /\ AbortedGrace <= AbandonedGrace /\ MaxClock > 0

VARIABLES rooms,    \* per room, its row and whether it has zones, history, connections
          clock,
          job,      \* where the clean-up job stands and the ids it has read
          deleting, \* per room, DELETE requests past their check
          global,   \* analytics_global_daily, and the same columns of _global_alltime
          daily,    \* analytics_room_daily, per room
          alltime,  \* analytics_room_alltime, per room
          tracked, faults

roomVars == <<rooms, clock, job, deleting>>
countVars == <<global, daily, alltime, tracked, faults>>
upkeepVars == <<roomVars, countVars>>

Never == 0
RoomRow == [state: {"unborn", "there", "gone"}, created: 0..MaxClock, updated: 0..MaxClock,
            zones: BOOLEAN, history: BOOLEAN, connections: BOOLEAN]
There(r) == rooms[r].state = "there"

----------------------------------------------------------------------------
(* The counters *)

(* recalculateRoomCounts: the rooms with a row of the day.  (Its other counts are   *)
(* gauges; rows that only the flush of module Concurrency makes are left out.)      *)
Recount(rows) == Cardinality({r \in Rooms : rows[r] > 0})

(* n events of a room: incrementGlobal, incrementRoomDaily and incrementRoomAlltime *)
(* issue a statement each, and any of the 3n may fail alone.  After one of the      *)
(* second kind the rooms are counted again, which may fail as well.                 *)
Track(r, n) ==
  /\ tracked + n <= MaxTracked /\ tracked' = tracked + n
  /\ \E failed \in [{"global", "daily", "alltime"} -> 0..n], recounted \in BOOLEAN :
       LET failures == failed["global"] + failed["daily"] + failed["alltime"]
                       + IF recounted \/ failed["daily"] = n THEN 0 ELSE 1 IN
       /\ faults + failures <= MaxFaults
       /\ faults' = faults + failures
       /\ recounted => failed["daily"] < n
       /\ daily' = [daily EXCEPT ![r] = @ + n - failed["daily"]]
       /\ global' = [global EXCEPT !.updates = @ + n - failed["global"],
                                  !.modified = IF recounted THEN Recount(daily') ELSE @]
       /\ alltime' = [alltime EXCEPT ![r] = @ + n - failed["alltime"]]

(* Events of the whole server: incrementGlobal, incrementGlobalAlltime. *)
Count(column, n) ==
  /\ UNCHANGED <<daily, alltime, tracked>>
  /\ \/ global' = [global EXCEPT ![column] = @ + n] /\ UNCHANGED faults
     \/ faults < MaxFaults /\ faults' = faults + 1 /\ UNCHANGED global

Untracked == UNCHANGED countVars

----------------------------------------------------------------------------
(* What members do *)

(* The clean-up looks at two timestamps and three tables; of the other handlers *)
(* only what they do to these is told apart.                                    *)
Touch(r, row) ==
  /\ rooms' = [rooms EXCEPT ![r] = row]
  /\ UNCHANGED <<clock, job, deleting>>

Create(r) ==
  /\ rooms[r].state = "unborn"
  /\ Touch(r, [rooms[r] EXCEPT !.state = "there", !.created = clock])
  /\ Count("created", 1)

(* A connection brings its zone, which is an event of its own when it is new, and *)
(* the zone's history, and leaves updated_at alone.                               *)
AddConnection(r) ==
  /\ There(r)
  /\ Touch(r, [rooms[r] EXCEPT !.zones = TRUE, !.history = TRUE, !.connections = TRUE])
  /\ \/ rooms[r].zones /\ Track(r, 1)
     \/ Track(r, 2)

(* Edits of a room's own columns, a plotted route among them, and of its chains *)
(* count as events but leave the room as idle as it was: the clean-up looks at  *)
(* updated_at alone.                                                            *)
Edited(r) == There(r) /\ UNCHANGED roomVars /\ Track(r, 1)

PlotRoute(r) == Edited(r)
RenameRoom(r) == Edited(r)
SetServer(r) == Edited(r)
UpdateChainColor(r) == Edited(r)

(* A save, a rotation, a relocated or removed chain. *)
SaveZones(r) ==
  /\ There(r)
  /\ \E zones \in BOOLEAN :
       Touch(r, [rooms[r] EXCEPT !.zones = zones, !.updated = clock])
  /\ Track(r, 1)

RemoveConnections(r) ==
  /\ There(r) /\ rooms[r].connections
  /\ Touch(r, [rooms[r] EXCEPT !.connections = FALSE])
  /\ \/ Track(r, 1)
     \/ Untracked                         \* runExpiryCleanup

ResetConnections(r) ==
  /\ There(r)
  /\ \E zones \in {FALSE, rooms[r].zones} :     \* other chains keep their sources
       Touch(r, [rooms[r] EXCEPT !.zones = zones, !.connections = FALSE, !.updated = clock])
  /\ Untracked

WipeMemory(r) ==
  /\ There(r) /\ rooms[r].history
  /\ Touch(r, [rooms[r] EXCEPT !.history = FALSE])
  /\ Untracked

(* DELETE finds the room, checks the password and deletes whatever is there then. *)
AskDelete(r) ==
  /\ There(r) /\ deleting[r] = 0
  /\ deleting' = [deleting EXCEPT ![r] = @ + 1]
  /\ UNCHANGED <<rooms, clock, job, countVars>>

DeleteAsked(r) ==
  /\ deleting[r] > 0
  /\ deleting' = [deleting EXCEPT ![r] = @ - 1]
  /\ rooms' = [rooms EXCEPT ![r].state = "gone"]
  /\ Count("deleted", 1)
  /\ UNCHANGED <<clock, job>>

----------------------------------------------------------------------------
(* The clean-up job *)

Used(row) == row.zones \/ row.history

IdleSince(row) == IF row.updated # Never THEN row.updated ELSE row.created

\* Mutant: no fallback to created_at.
AbortedOnceSaved == {r \in Rooms : LET row == rooms[r] IN
              /\ There(r) /\ ~Used(row) /\ ~row.connections
              /\ row.updated # Never /\ row.updated < clock - AbortedGrace}

Aborted == {r \in Rooms : LET row == rooms[r] IN
              /\ There(r) /\ ~Used(row) /\ ~row.connections
              /\ IdleSince(row) < clock - AbortedGrace}

Abandoned == {r \in Rooms : LET row == rooms[r] IN
                /\ There(r) /\ Used(row)
                /\ row.updated # Never /\ row.updated < clock - AbandonedGrace}

Select(at, next, found, after) ==
  /\ job.at = at
  /\ job' = IF found # {} THEN [at |-> next, ids |-> found] ELSE [at |-> after, ids |-> {}]
  /\ UNCHANGED <<rooms, clock, deleting, countVars>>

SelectAborted == Select("idle", "aborted", Aborted, "between")
SelectAbandoned == Select("between", "abandoned", Abandoned, "idle")

\* Mutant: only the first of the rooms deleted is counted.
DeleteCountingOne(at, after) ==
  /\ job.at = at
  /\ rooms' = [r \in Rooms |-> IF r \in job.ids THEN [rooms[r] EXCEPT !.state = "gone"]
                               ELSE rooms[r]]
  /\ job' = [at |-> after, ids |-> {}]
  /\ Count(at, 1)
  /\ UNCHANGED <<clock, deleting>>

(* DELETE FROM rooms WHERE id IN (...): the ids were read before. *)
DeleteSelected(at, after) ==
  /\ job.at = at
  /\ rooms' = [r \in Rooms |-> IF r \in job.ids THEN [rooms[r] EXCEPT !.state = "gone"]
                               ELSE rooms[r]]
  /\ job' = [at |-> after, ids |-> {}]
  /\ Count(at, Cardinality(job.ids))
  /\ UNCHANGED <<clock, deleting>>

DeleteAborted == DeleteSelected("aborted", "between")
DeleteAbandoned == DeleteSelected("abandoned", "idle")

(* A query of the job fails: the run is over, the next one starts afresh. *)
JobFails ==
  /\ job.at # "idle" /\ faults < MaxFaults
  /\ job' = [at |-> "idle", ids |-> {}] /\ faults' = faults + 1
  /\ UNCHANGED <<rooms, clock, deleting, global, daily, alltime, tracked>>

(* A step of the clock is days long, a run of the job far shorter. *)
TimePasses ==
  /\ clock < MaxClock /\ job.at = "idle" /\ clock' = clock + 1
  /\ UNCHANGED <<rooms, job, deleting, countVars>>

UpkeepInit ==
  /\ rooms = [r \in Rooms |-> [state |-> "unborn", created |-> Never, updated |-> Never,
                               zones |-> FALSE, history |-> FALSE, connections |-> FALSE]]
  /\ clock = 1
  /\ job = [at |-> "idle", ids |-> {}]
  /\ deleting = [r \in Rooms |-> 0]
  /\ global = [created |-> 0, deleted |-> 0, aborted |-> 0, abandoned |-> 0, updates |-> 0,
               modified |-> 0]
  /\ daily = [r \in Rooms |-> 0] /\ alltime = [r \in Rooms |-> 0]
  /\ tracked = 0 /\ faults = 0

Job == SelectAborted \/ DeleteAborted \/ SelectAbandoned \/ DeleteAbandoned

UpkeepNext ==
  \/ \E r \in Rooms :
       \/ Create(r) \/ AddConnection(r) \/ PlotRoute(r) \/ SaveZones(r)
       \/ RenameRoom(r) \/ SetServer(r) \/ UpdateChainColor(r)
       \/ RemoveConnections(r) \/ ResetConnections(r) \/ WipeMemory(r)
       \/ AskDelete(r) \/ DeleteAsked(r)
  \/ Job \/ JobFails \/ TimePasses

(* setInterval starts the job every hour and the pool answers its queries. *)
UpkeepSpec == UpkeepInit /\ [][UpkeepNext]_upkeepVars
FairUpkeepSpec == UpkeepSpec /\ WF_upkeepVars(Job)

----------------------------------------------------------------------------
UpkeepTypeOK ==
  /\ rooms \in [Rooms -> RoomRow] /\ clock \in 1..MaxClock
  /\ job.at \in {"idle", "aborted", "between", "abandoned"} /\ job.ids \subseteq Rooms
  /\ deleting \in [Rooms -> 0..1]

(* What /metrics (metrics.ts) shows of this, each by a statement of its own. *)
SumOf(counts) == MapThenSumSet(LAMBDA r : counts[r], Rooms)

RoomsTotal == Cardinality({r \in Rooms : There(r)})
RoomsEmpty == Cardinality({r \in Rooms : There(r) /\ ~rooms[r].connections})
RoomsUsed == Cardinality({r \in Rooms : There(r) /\ rooms[r].connections})
UpdatesToday == global.updates
UpdatesTodayPerRoom == SumOf(daily)
UpdatesAllTimePerRoom == SumOf(alltime)
RoomsRemoved == global.deleted + global.aborted + global.abandoned

(* Unless a statement failed, what the server counts in tables without keys to     *)
(* each other adds up: the day's row, the rooms' rows of the day and the all-time  *)
(* rows tell the same modifications, those of deleted rooms included, and the      *)
(* same rooms, and every room ever created is there or was counted, whoever        *)
(* deleted it.  (One that an administrator and the job delete together is counted  *)
(* twice.)                                                                         *)
CountersAddUp ==
  /\ UpkeepTypeOK
  /\ faults = 0 =>
       /\ UpdatesToday = UpdatesTodayPerRoom /\ UpdatesToday = UpdatesAllTimePerRoom
       /\ global.modified = Cardinality({r \in Rooms : alltime[r] > 0})
       /\ RoomsTotal = RoomsEmpty + RoomsUsed
       /\ RoomsTotal <= global.created
       /\ RoomsTotal + RoomsRemoved >= global.created

Last(row) == IF row.created < row.updated THEN row.updated ELSE row.created

Empty(row) == ~row.zones /\ ~row.history /\ ~row.connections

Forgotten(r) ==
  LET row == rooms[r] IN
  /\ There(r)
  /\ \/ Empty(row) /\ Last(row) + AbortedGrace < clock
     \/ /\ row.zones \/ row.history
        /\ row.updated # Never /\ row.updated + AbandonedGrace < clock

(* No room stays that was never used for the first grace period, or was saved once *)
(* and not for the second, whatever run of the job failed and whatever the members *)
(* did in between.                                                                 *)
IdleRoomsGo == \A r \in Rooms : <>[]~Forgotten(r)
=============================================================================
