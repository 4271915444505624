----------------------------- MODULE ZoneDetails -----------------------------
(***************************************************************************)
(* What a room knows of one roads zone besides its place: the features the *)
(* members note on it (cores and chests with timers, reds, counts), its    *)
(* portals and how far they are turned, and the map history from which all *)
(* this comes back when the zone is put on the map again.                  *)
(*                                                                         *)
(* Every edit in ZoneNode.vue changes the member's copy at once and sends  *)
(* either the whole node (a "save") or its layout alone (a "rotate").  A   *)
(* save is a transaction and a broadcast, and later a write to the map     *)
(* history; a rotate does all in its transaction.  Handlers of different   *)
(* messages, even of one socket, overlap.                                  *)
(*                                                                         *)
(* The members' clocks are one clock.  Of the counts one is kept           *)
(* ("count") and of the resources one ("res"); a name marked is a          *)
(* suggestion of the game's data nobody has confirmed.  Which connections  *)
(* a portal carries is module Portals'.                                    *)
(***************************************************************************)
EXTENDS ZoneHandles, FiniteSets, Sequences

CONSTANTS
  Members,    \* browsers with the room open, all allowed to edit
  Noters,     \* bound: those of them who note features, or have the zone for their home
  Arrangers,  \* bound: those of them who change portals, and export the map
  Shapes,     \* the shapes the zone may have: a letter, "rest" or "hideout"
  MaxTimes,   \* core |-> the longest timer the game gives it
  RedsTime,   \* how long a sighting of reds counts
  Typed,      \* timers members type
  Known,      \* which of "count" and "res" the game's data suggests
  Switches,   \* portals a member switches in the editor
  Spots,      \* where a member puts a portal of their own
  MaxClock,   \* bound: the clock
  MaxEdits,   \* bound: edits sent
  MaxUp,      \* bound: messages a member sends another one before
  MaxDown,    \* bound: broadcasts a member is behind
  MaxBacks    \* bound: times it is put on the map, reset or imported

Cores == DOMAIN MaxTimes
None == -1   \* undefined: no timer, no count, no entry

ASSUME ZoneDetailsAssumption ==
  /\ \A c \in Cores : MaxTimes[c] \in Nat
  /\ RedsTime \in Nat /\ Typed \subseteq Nat /\ Spots \subseteq Int \X Int
  /\ Known \subseteq {"count", "res"}
  /\ Noters \subseteq Members /\ Arrangers \subseteq Members
  /\ {MaxClock, MaxEdits, MaxUp, MaxDown, MaxBacks} \subseteq Nat

VARIABLES
  shape,  \* of the zone
  now,    \* the clock
  row,    \* the zone's room_node_positions
  memory, \* its room_node_memory
  view,   \* the node as each member's store has it
  active, \* the core whose timer a member is editing
  editor, \* a member's open portal editor
  fixed,  \* members whose store has sent its one repair of this zone
  resets, \* members waiting for the answer that their history is deleted
  up,     \* messages the server has yet to commit
  after,  \* saves committed and told, not yet written to the history
  down,   \* messages on their way to each member
  apart,  \* row and history were last written apart, by writes that do not keep
          \* them together or between a save and its write to the history
  untold, \* the row was last written by a reset or an import, which tell no store
  edits, backs

vars == <<shape, now, row, memory, view, active, editor, fixed, resets, up,
          after, down, apart, untold, edits, backs>>

NoFeatures ==
  [core |-> [c \in Cores |-> FALSE], timer |-> [c \in Cores |-> None],
   reds |-> FALSE, redsTimer |-> None, chest |-> None,
   count |-> None, res |-> None, marks |-> {}]

\* What the game's data says of a zone nobody has noted anything on.
GetInitialFeatures ==
  [NoFeatures EXCEPT !.count = IF "count" \in Known THEN 0 ELSE None,
                     !.res = IF "res" \in Known THEN 0 ELSE None,
                     !.marks = Known]

\* The history keeps no timers.  NoFeatures is the missing features.
MemoryFeatures(f) ==
  [NoFeatures EXCEPT !.count = f.count, !.res = f.res, !.marks = f.marks]

Gone == [on |-> FALSE, feat |-> NoFeatures, handles |-> NoHandles, rotation |-> 0]
NoMemory == [there |-> FALSE, feat |-> NoFeatures, handles |-> NoHandles, rotation |-> 0]
Closed == [open |-> FALSE, handles |-> NoHandles, rotation |-> 0]

Shaped == DOMAIN GetShapeHandlePositions(shape) # {}

Init ==
  /\ shape \in Shapes
  /\ now = 1
  /\ row = [Gone EXCEPT !.on = TRUE, !.feat = GetInitialFeatures]
  /\ memory = [NoMemory EXCEPT !.there = TRUE, !.feat = GetInitialFeatures]
  /\ view = [m \in Members |-> row]
  /\ active = [m \in Members |-> "none"]
  /\ editor = [m \in Members |-> Closed]
  /\ fixed = {} /\ resets = {} /\ up = {} /\ after = {}
  /\ down = [m \in Members |-> << >>]
  /\ apart = FALSE /\ untold = FALSE /\ edits = 0 /\ backs = 0

-----------------------------------------------------------------------------
(* The zone's panel.  An edit replaces the features as a whole, made from   *)
(* the member's copy, and sends the node as the member has it.              *)

MayEdit(m) == view[m].on /\ edits < MaxEdits /\ Cardinality(up) < MaxUp

SendSave(m, node) ==
  /\ edits' = edits + 1
  /\ view' = [view EXCEPT ![m] = node]
  /\ up' = up \union {[kind |-> "save", by |-> m, nr |-> edits, feat |-> node.feat,
                       handles |-> node.handles, rotation |-> node.rotation]}
  /\ UNCHANGED <<apart, untold, shape, now, row, memory, editor, fixed, resets, after, down, backs>>

UpdateNodeFeatures(m, features) ==
  SendSave(m, [view[m] EXCEPT !.feat = features])

Expired(t) == t # None /\ t <= now

\* A click on a core starts editing it, with its longest timer unless one
\* still runs; a click on the core in editing renews a timer that ran out.
ToggleFeature(m, c) ==
  LET f == view[m].feat
      restart == [f EXCEPT !.core[c] = TRUE, !.timer[c] = now + MaxTimes[c]]
  IN /\ MayEdit(m)
     /\ \/ /\ active[m] = c
           /\ Expired(f.timer[c])
           /\ UpdateNodeFeatures(m, restart)
        \/ /\ active[m] # c
           /\ UpdateNodeFeatures(m, IF f.timer[c] = None \/ Expired(f.timer[c])
                                    THEN restart ELSE [f EXCEPT !.core[c] = TRUE])
     /\ active' = [active EXCEPT ![m] = c]

IsCoreUnlocked(f, c) == f.core[c] /\ (f.timer[c] = None \/ Expired(f.timer[c]))

\* The core in editing shows a button to clear it, one to unlock or lock it
\* and, while it is locked, the timer's input.
Editing(m, c) == MayEdit(m) /\ active[m] = c
ShowsTimer(m, c) == Editing(m, c) /\ ~IsCoreUnlocked(view[m].feat, c)

\* What the input may hold: what is typed, or what is left by the member's copy,
\* which follows other members' edits while the input has no focus.
TimerValue(f, c) ==
  Typed \union {IF f.timer[c] = None THEN None
                ELSE IF f.timer[c] < now THEN 0 ELSE f.timer[c] - now}

IsTimerTooLong(c, t) == t > MaxTimes[c]

\* Enter in the input; an empty one clears the core.
SaveTimer(m) ==
  \E c \in Cores : \E t \in TimerValue(view[m].feat, c) :
    /\ ShowsTimer(m, c)
    /\ ~IsTimerTooLong(c, t)
    /\ UpdateNodeFeatures(m,
         IF t = None THEN [view[m].feat EXCEPT !.core[c] = FALSE, !.timer[c] = None]
         ELSE [view[m].feat EXCEPT !.timer[c] = now + t])
    /\ active' = [active EXCEPT ![m] = "none"]

ClearTimer(m) ==
  \E c \in Cores :
    /\ Editing(m, c)
    /\ UpdateNodeFeatures(m, [view[m].feat EXCEPT !.core[c] = FALSE, !.timer[c] = None])
    /\ active' = [active EXCEPT ![m] = "none"]

ClickOutside(m) ==
  /\ active[m] # "none"
  /\ active' = [active EXCEPT ![m] = "none"]
  /\ UNCHANGED <<apart, untold, shape, now, row, memory, view, editor, fixed, resets, up,
                 after, down, edits, backs>>

UnlockCore(m) ==
  \E c \in Cores :
    /\ ShowsTimer(m, c)
    /\ UpdateNodeFeatures(m, [view[m].feat EXCEPT !.timer[c] = now])
    /\ active' = [active EXCEPT ![m] = "none"]

LockCore(m) ==
  \E c \in Cores :
    /\ Editing(m, c) /\ ~ShowsTimer(m, c)
    /\ UpdateNodeFeatures(m, [view[m].feat EXCEPT !.timer[c] = now + MaxTimes[c]])
    /\ UNCHANGED active

\* Noted, with or without their number, or gone; noting starts the timer again.
UpdateReds(m, seen) ==
  /\ UpdateNodeFeatures(m,
       [view[m].feat EXCEPT !.reds = seen,
                            !.redsTimer = IF seen THEN now + RedsTime ELSE None])
  /\ UNCHANGED active

\* A click on the panel notes reds whose number is unknown, or clears them.
ToggleReds(m) == MayEdit(m) /\ UpdateReds(m, ~view[m].feat.reds)

\* The number of reds is typed, or left empty.
EnterReds(m) == MayEdit(m) /\ view[m].feat.reds /\ UpdateReds(m, TRUE)

UpdateChest(m, timer) ==
  /\ MayEdit(m)
  /\ UpdateNodeFeatures(m, [view[m].feat EXCEPT !.chest = timer])
  /\ UNCHANGED active

\* The chest's dialog offers a time by size and takes any other.
SaveChest(m) == \E t \in Typed : UpdateChest(m, now + t)
ClearChest(m) == UpdateChest(m, None)

\* What the panel's inputs and steppers give, whatever is typed.
Counts == 0..1

\* Mutant: the count stays a suggestion.
SetCountOnly(m) ==
  \E n \in Counts :
    /\ MayEdit(m)
    /\ UpdateNodeFeatures(m, [view[m].feat EXCEPT !.count = IF n > 0 THEN n ELSE None])
    /\ UNCHANGED active

\* A count somebody enters is no suggestion any more; zero is no entry.
SetFeatureCount(m) ==
  \E n \in Counts :
    /\ MayEdit(m)
    /\ UpdateNodeFeatures(m, [view[m].feat EXCEPT !.count = IF n > 0 THEN n ELSE None,
                                                  !.marks = @ \ {"count"}])
    /\ UNCHANGED active

SetResourceCount(m) ==
  \E n \in Counts :
    /\ MayEdit(m)
    /\ UpdateNodeFeatures(m, [view[m].feat EXCEPT !.res = IF n > 0 THEN n ELSE None,
                                                  !.marks = @ \ {"res"}])
    /\ UNCHANGED active

ClearResource(m) ==
  /\ MayEdit(m)
  /\ view[m].feat.res # None
  /\ UpdateNodeFeatures(m, [view[m].feat EXCEPT !.res = None, !.marks = @ \ {"res"}])
  /\ UNCHANGED active

HandleMarkAsCorrect(m) ==
  /\ MayEdit(m)
  /\ UpdateNodeFeatures(m, view[m].feat)
  /\ UNCHANGED active

-----------------------------------------------------------------------------
(* The zone's portals.                                                      *)

\* A "rotate" brings the layout; a "turn" leaves the server the stored one.
SendRotate(m, kind, nr, layout, rotation) ==
  [kind |-> kind, by |-> m, nr |-> nr, feat |-> NoFeatures,
   handles |-> layout, rotation |-> rotation]

\* The shapes' portals are switched on and off, those of others put anywhere.
IsToggleMode == shape \notin {"rest", "hideout"}

GetInitialHandles(node) ==
  IF node.handles = NoHandles THEN GetDefaultHandles(shape) ELSE node.handles

OpenHandleEditor(m) ==
  /\ view[m].on /\ ~editor[m].open /\ edits < MaxEdits
  /\ editor' = [editor EXCEPT ![m] = [open |-> TRUE, rotation |-> view[m].rotation,
                                      handles |-> GetInitialHandles(view[m])]]
  /\ UNCHANGED <<apart, untold, shape, now, row, memory, view, active, fixed, resets, up, after,
                 down, edits, backs>>

\* One of: a portal switched off or on, put on the edge or dragged, removed, or
\* the whole turned by a quarter.
EditedHandles(e) ==
  {[e EXCEPT !.handles[id].off = ~@] :
     id \in IF IsToggleMode THEN Switches \intersect DOMAIN e.handles ELSE {}}
  \union
  {[e EXCEPT !.handles = [id \in DOMAIN @ \union {"own"} |->
                            IF id = "own" THEN [at |-> spot, off |-> FALSE] ELSE @[id]]] :
     spot \in IF IsToggleMode THEN {} ELSE Spots}
  \union
  {[e EXCEPT !.handles = OnlyIds(@, DOMAIN @ \ {id})] :
     id \in IF IsToggleMode THEN {} ELSE {"own", "n"} \intersect DOMAIN e.handles}
  \union
  {[e EXCEPT !.rotation = next,
             !.handles = IF IsToggleMode
                         THEN CanonicalizeHandlesForRotation(shape, e.handles, next)
                         ELSE [id \in DOMAIN e.handles |-> [e.handles[id] EXCEPT !.at =
                                 TurnedAlong(@, next - e.rotation)]]] :
     next \in IF shape = "hideout" THEN {}
              ELSE {RotateClockwise(e.rotation), RotateCounterClockwise(e.rotation)}}

\* Nobody sees the changes before they are saved, so they are made here, up to
\* two to what the editor was opened with.  Layout and rotation travel together.
SaveZoneHandles(m) ==
  /\ editor[m].open /\ MayEdit(m)
  /\ \E first \in EditedHandles(editor[m]) :
     \E e \in EditedHandles(first) \union {first} :
       /\ view' = [view EXCEPT ![m].handles = e.handles, ![m].rotation = e.rotation]
       /\ up' = up \union {SendRotate(m, "rotate", edits, e.handles, e.rotation)}
  /\ editor' = [editor EXCEPT ![m] = Closed]
  /\ edits' = edits + 1
  /\ UNCHANGED <<apart, untold, shape, now, row, memory, active, fixed, resets, after, down, backs>>

\* A connection confirmed to the middle of the zone gives it a portal there.
UpdateNodeHandlePosition(m) ==
  LET with == [id \in DOMAIN view[m].handles \union {"center"} |->
                 IF id = "center" THEN [at |-> Centre, off |-> FALSE]
                 ELSE view[m].handles[id]]
  IN /\ MayEdit(m)
     /\ SendSave(m, [view[m] EXCEPT !.handles = with])
     /\ UNCHANGED active

\* Map history's button deletes the zone's entry; the hourglass on the node
\* also, answered, resets the portals.
DeleteHistory(m) ==
  /\ memory.there /\ m \notin resets /\ edits < MaxEdits
  /\ memory' = NoMemory
  /\ resets' \in {resets, resets \union {m}}
  /\ edits' = edits + 1
  /\ UNCHANGED <<apart, untold, shape, now, row, view, active, editor, fixed, up, after, down,
                 backs>>

ResetZonePortals(m) ==
  /\ m \in resets
  /\ resets' = resets \ {m}
  /\ IF view[m].on
     THEN /\ view' = [view EXCEPT ![m].handles = NoHandles, ![m].rotation = 0]
          /\ up' = up \union {SendRotate(m, "turn", edits, NoHandles, 0)}
     ELSE UNCHANGED <<view, up>>
  /\ UNCHANGED <<apart, untold, shape, now, row, memory, active, editor, fixed, after, down,
                 edits, backs>>

-----------------------------------------------------------------------------
(* The server.                                                              *)

Broadcast(to, node) ==
  /\ \A m \in to : Len(down[m]) < MaxDown
  /\ down' = [m \in Members |-> IF m \in to THEN Append(down[m], node) ELSE down[m]]

\* Mutant: handles that tell no rotation are left as they came.
HealedIfTold(layout, rotation) ==
  LET inferred == InferRotationForZone(shape, layout)
  IN [handles |-> layout,
      rotation |-> IF inferred = NoRotation THEN rotation ELSE inferred]

\* What a save does to a layout and a rotation that contradict each other: if
\* the handles tell a rotation, they win, else they are built anew.
Healed(layout, rotation) ==
  LET inferred == InferRotationForZone(shape, layout)
  IN IF shape = "hideout" \/ layout = NoHandles
     THEN [handles |-> layout, rotation |-> rotation]
     ELSE IF inferred = NoRotation
     THEN [handles |-> CanonicalizeHandlesForRotation(shape, layout, rotation),
           rotation |-> rotation]
     ELSE [handles |-> layout, rotation |-> inferred]

CommitSave ==
  \E s \in up :
    LET healed == Healed(s.handles, s.rotation)
        saved == [s EXCEPT !.handles = healed.handles, !.rotation = healed.rotation]
    IN /\ s.kind = "save"
       /\ row' = [on |-> TRUE, feat |-> s.feat, handles |-> saved.handles,
                  rotation |-> saved.rotation]
       /\ up' = up \ {s}
       /\ after' = after \union {saved}
       /\ Broadcast(Members \ {s.by}, row')
       /\ apart' = (after # {}) /\ untold' = FALSE
       /\ UNCHANGED <<shape, now, memory, view, active, editor, fixed, resets,
                      edits, backs>>

\* Mutant: features that were cleared leave the remembered ones.
RememberSaveKeepingFeatures ==
  \E s \in after :
    LET feat == MemoryFeatures(s.feat)
    IN /\ after' = after \ {s}
       /\ memory' = [there |-> TRUE, rotation |-> s.rotation,
                     feat |-> IF feat = NoFeatures THEN memory.feat ELSE feat,
                     handles |-> IF s.handles = NoHandles THEN memory.handles ELSE s.handles]
       /\ UNCHANGED <<apart, untold, shape, now, row, view, active, editor, fixed, resets, up,
                      down, edits, backs>>

\* The history takes features and rotation, and handles if there are any.
RememberSave ==
  \E s \in after :
    /\ after' = after \ {s}
    /\ memory' = [there |-> TRUE, feat |-> MemoryFeatures(s.feat), rotation |-> s.rotation,
                  handles |-> IF s.handles = NoHandles THEN memory.handles ELSE s.handles]
    /\ UNCHANGED <<apart, untold, shape, now, row, view, active, editor, fixed, resets, up,
                   down, edits, backs>>

RotateZone ==
  \E s \in up :
    LET incoming == IF s.kind = "rotate" THEN s.handles ELSE row.handles
        layout == CanonicalizeHandlesForRotation(shape, incoming, s.rotation)
        turned == [row EXCEPT !.handles = layout, !.rotation = s.rotation]
    IN /\ s.kind # "save"
       /\ up' = up \ {s}
       /\ IF row.on
          THEN /\ row' = turned
               /\ memory' = [memory EXCEPT !.there = TRUE, !.handles = layout,
                                           !.rotation = s.rotation]
               /\ Broadcast(Members, turned)
               /\ untold' = FALSE
          ELSE UNCHANGED <<row, memory, down, untold>>
       /\ apart' = (apart \/ after # {})
       /\ UNCHANGED <<shape, now, view, active, editor, fixed, resets, after,
                      edits, backs>>

\* A connection reported to the zone puts it on the map, as history or the
\* game's data has it; handles that are no turn of the shape's are replaced by
\* the shape's own, unturned.  Not all of the entry is written back.
RestoredLayout ==
  LET default == GetDefaultHandles(shape)
      isOff(id) == id \in DOMAIN memory.handles /\ memory.handles[id].off
  IN IF \/ memory.handles = NoHandles \/ shape = "hideout"
        \/ InferRotationFromHandles(memory.handles, default) # NoRotation
     THEN [handles |-> memory.handles, rotation |-> memory.rotation]
     ELSE [handles |-> [id \in DOMAIN default |-> [default[id] EXCEPT !.off = isOff(id)]],
           rotation |-> 0]

\* An entry without features gives the game's, or none if an import left it so.
RestoredFeatures ==
  IF memory.feat # NoFeatures THEN {memory.feat}
  ELSE {GetInitialFeatures} \union {NoFeatures : t \in {memory.there} \ {FALSE}}

ReportConnection ==
  \E feat \in RestoredFeatures :
  LET node == [on |-> TRUE, feat |-> feat, handles |-> RestoredLayout.handles,
               rotation |-> RestoredLayout.rotation]
      entry == [memory EXCEPT !.there = TRUE, !.feat = feat, !.handles = node.handles]
  IN /\ backs < MaxBacks
     /\ backs' = backs + 1
     /\ row' = node
     /\ memory' \in IF ~memory.there \/ node.handles # memory.handles
                    THEN {entry} ELSE {memory, entry}
     /\ Broadcast(Members, node)
     /\ apart' = (after # {}) /\ untold' = FALSE
     /\ UNCHANGED <<shape, now, view, active, editor, fixed, resets, up, after, edits>>

\* A new chain, or one that is relocated, begins at the zone: it is put on the
\* map as the game has it, and an entry of the history stays what it is.
AddSource ==
  LET node == [Gone EXCEPT !.on = TRUE, !.feat = GetInitialFeatures]
  IN /\ ~row.on /\ backs < MaxBacks
     /\ backs' = backs + 1
     /\ row' = node
     /\ memory' = IF memory.there THEN memory
                  ELSE [NoMemory EXCEPT !.there = TRUE, !.feat = GetInitialFeatures]
     /\ Broadcast(Members, node)
     /\ apart' = (memory.there \/ after # {}) /\ untold' = FALSE
     /\ UNCHANGED <<shape, now, view, active, editor, fixed, resets, up, after, edits>>

\* "room_reset" brings no rows: a store keeps the node of the zone it takes for
\* the home as it has it, and drops the others.
TellReset ==
  /\ \E homes \in SUBSET Noters : Broadcast(Members \ homes, Gone)
  /\ backs < MaxBacks
  /\ backs' = backs + 1
  /\ apart' = TRUE /\ untold' = row'.on

\* A reset deletes the row, or strips it if a chain begins here, and makes the
\* one a source lacks.  Rotation and history stay.
ResetRoom ==
  /\ row' \in {Gone, [row EXCEPT !.on = TRUE, !.feat = NoFeatures, !.handles = NoHandles]}
  /\ TellReset
  /\ UNCHANGED <<shape, now, memory, view, active, editor, fixed, resets, up, after,
                 edits>>

\* An import replaces row and history by those of its file as they are there:
\* the node of a member's copy, or none, and the entry, or none.  Bound: the file
\* was exported just before.  The page that imports loads again, which is left out.
ImportRoom ==
  /\ row' \in {Gone} \union {view[m] : m \in Arrangers}
  /\ memory' \in {NoMemory, memory}
  /\ TellReset
  /\ UNCHANGED <<shape, now, view, active, editor, fixed, resets, up, after, edits>>

\* A connection between zones that are on the map, or one that is changed, has
\* all rows sent again.  Bound: only once nobody was told of the row.
TellNodes ==
  /\ row.on /\ untold
  /\ Broadcast(Members, row)
  /\ untold' = FALSE
  /\ UNCHANGED <<apart, shape, now, row, memory, view, active, editor, fixed, resets,
                 up, after, edits, backs>>

\* The zone leaves the map with its last connection; history stays.
RemoveZone ==
  /\ row.on /\ backs < MaxBacks
  /\ row' = Gone
  /\ Broadcast(Members, Gone)
  /\ apart' = (apart \/ after # {}) /\ untold' = FALSE
  /\ UNCHANGED <<shape, now, memory, view, active, editor, fixed, resets, up,
                 after, edits, backs>>

-----------------------------------------------------------------------------
(* What a store makes of a broadcast.                                       *)

\* The layout contradicts the rotation: the store flags the zone.
RotationError(node) ==
  LET ids == DOMAIN GetShapeHandlePositions(shape)
  IN /\ node.on /\ Shaped
     /\ IF node.handles = NoHandles THEN node.rotation # 0
        ELSE InferRotationForZone(shape, node.handles) # node.rotation

\* Mutant: a zone that claims not to be turned is never repaired.
ValidateTurnedNodes(m, node) ==
  IF RotationError(node) /\ node.rotation # 0 /\ m \notin fixed
  THEN /\ fixed' = fixed \union {m}
       /\ up' = up \union {SendRotate(m, "turn", MaxEdits, NoHandles, node.rotation)}
  ELSE UNCHANGED <<fixed, up>>

\* A node that is flagged is repaired, once in the life of the page.
ValidateNodeRotations(m, node) ==
  IF RotationError(node) /\ m \notin fixed
  THEN /\ fixed' = fixed \union {m}
       /\ up' = up \union {SendRotate(m, "turn", MaxEdits, NoHandles, node.rotation)}
  ELSE UNCHANGED <<fixed, up>>

ApplyMessage(m) ==
  /\ down[m] # << >>
  /\ down' = [down EXCEPT ![m] = Tail(@)]
  /\ view' = [view EXCEPT ![m] = Head(down[m])]
  /\ active' = IF Head(down[m]).on THEN active ELSE [active EXCEPT ![m] = "none"]
  /\ editor' = IF Head(down[m]).on THEN editor ELSE [editor EXCEPT ![m] = Closed]
  /\ ValidateNodeRotations(m, Head(down[m]))
  /\ UNCHANGED <<apart, untold, shape, now, row, memory, resets, after, edits, backs>>

\* Bound: a minute passes only while no message is under way, and some timer is
\* noted: without one nothing depends on the clock.
Tick ==
  LET timed(f) == f.redsTimer # None \/ f.chest # None \/ \E c \in Cores : f.timer[c] # None
  IN /\ now < MaxClock
     /\ timed(row.feat) \/ \E m \in Members : timed(view[m].feat)
     /\ up = {} /\ after = {} /\ \A m \in Members : down[m] = << >>
     /\ now' = now + 1
     /\ UNCHANGED <<apart, untold, shape, row, memory, view, active, editor, fixed, resets, up,
                    after, down, edits, backs>>

Note(m) ==
  \/ \E c \in Cores : ToggleFeature(m, c)
  \/ SaveTimer(m) \/ ClearTimer(m) \/ ClickOutside(m)
  \/ UnlockCore(m) \/ LockCore(m) \/ ToggleReds(m) \/ EnterReds(m)
  \/ SaveChest(m) \/ ClearChest(m)
  \/ SetFeatureCount(m) \/ SetResourceCount(m) \/ ClearResource(m)
  \/ HandleMarkAsCorrect(m)

Arrange(m) ==
  \/ OpenHandleEditor(m) \/ SaveZoneHandles(m)
  \/ UpdateNodeHandlePosition(m) \/ DeleteHistory(m) \/ ResetZonePortals(m)

Serve == CommitSave \/ RememberSave \/ RotateZone

Next ==
  \/ \E m \in Members : ApplyMessage(m)
  \/ \E m \in Noters : Note(m)
  \/ \E m \in Arrangers : Arrange(m)
  \/ Serve \/ ReportConnection \/ AddSource \/ RemoveZone
  \/ ResetRoom \/ ImportRoom \/ TellNodes \/ Tick

Spec == Init /\ [][Next]_vars

-----------------------------------------------------------------------------
(* Properties.                                                              *)

\* Timers never run longer than the game's, reds are timed exactly while they
\* are noted, a core that is on has a timer, and what is marked as a suggestion
\* has no count.
Sensible(f) ==
  /\ \A c \in Cores : /\ f.timer[c] <= now + MaxTimes[c]
                      /\ f.core[c] => f.timer[c] # None
  /\ f.redsTimer <= now + RedsTime
  /\ f.reds = (f.redsTimer # None)
  /\ "count" \in f.marks => f.count = 0
  /\ "res" \in f.marks => f.res = 0

\* What is noted makes sense in the row, in every copy and in every message,
\* whoever edited from however old a copy.
NotesMakeSense ==
  /\ Sensible(row.feat)
  /\ \A m \in Members : Sensible(view[m].feat)
  /\ \A s \in up : Sensible(s.feat)

\* While no save is between its commit and its write to the history, the history
\* has what the map shows of the zone, so that it comes back as it was left;
\* unless the two were last written apart: by a write between a save and what it
\* writes to the history (update_node_positions.ts:118), by a reset or an import,
\* which write one without the other (rooms.ts:874, 1138), or by a chain that
\* begins at a zone with an entry (rooms.ts:440, 645).  The next save mends it.
HistoryKeepsUp ==
  (row.on /\ memory.there /\ after = {} /\ ~apart) =>
    /\ memory.feat # NoFeatures => memory.feat = MemoryFeatures(row.feat)
    /\ row.handles # NoHandles => memory.handles = row.handles

\* The geometry itself, not along the edge: a quarter turn clockwise about the
\* centre takes (x, y) to (100 - y, x).
QuarterTurn(pos) == <<2 * Side - pos[2], pos[1]>>

Turned(k, pos) ==
  CASE k = 0 -> pos
    [] k = 1 -> QuarterTurn(pos)
    [] k = 2 -> QuarterTurn(QuarterTurn(pos))
    [] OTHER -> QuarterTurn(QuarterTurn(QuarterTurn(pos)))

IsTurnedShape(node) ==
  LET default == GetShapeHandlePositions(shape)
  IN IF node.handles = NoHandles THEN node.rotation = 0
     ELSE \A id \in DOMAIN default :
            /\ id \in DOMAIN node.handles
            /\ node.handles[id].at = Turned(node.rotation, default[id].at)

\* Whatever layout and rotation a message brings, what the server writes for it
\* is the zone's shape with every portal of it, turned as far as it says; a save
\* without a layout is written as it comes (update_node_positions.ts:20), and is
\* turned only if its copy is of a zone that a reset or an import stripped.
WritesAreTurnedShapes ==
  [][row' # row /\ row'.on /\ backs' = backs /\ Shaped =>
       \/ IsTurnedShape(row')
       \/ \E s \in up : /\ s.kind = "save" /\ s.handles = NoHandles
                        /\ row'.handles = NoHandles /\ row'.rotation = s.rotation]_vars

\* A layout that contradicts its rotation, as a zone may come back with, does
\* not stay: when nothing is under way there is none, unless every member's
\* page has spent its one repair of the zone (useRoomStore.ts:315), or the row is
\* as a reset or an import wrote it, on which no store looks at its layout
\* (useRoomStore.ts:461) until the rows are sent again.
ContradictionsHeal ==
  (up = {} /\ after = {} /\ (\A m \in Members : down[m] = << >>)
    /\ RotationError(row) /\ ~untold)
  => fixed = Members
=============================================================================
