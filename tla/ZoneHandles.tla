----------------------------- MODULE ZoneHandles -----------------------------
(***************************************************************************)
(* The portals drawn on a zone's diamond: where a shape has them, and the  *)
(* arithmetic that turns them.  A position is <<left, top>> in hundredths  *)
(* of a percent, the precision it is stored with; the same point on the    *)
(* edge is also a distance t from the top corner, clockwise, one Side per  *)
(* edge.  A layout maps the ids of handles to positions and whether they   *)
(* are off; the empty layout is the missing custom_handles.                *)
(***************************************************************************)
EXTENDS Integers

Side == 5000
Centre == <<Side, Side>>
NoRotation == -1

Distance(a, b) == IF a < b THEN b - a ELSE a - b
Clamped(n) == IF n < 0 THEN 0 ELSE IF n > Side THEN Side ELSE n

\* The edge a position is nearest to (the first of equals), then how far along.
HandleToT(pos) ==
  LET x == pos[1]
      y == pos[2]
      gap == <<Distance(x, Side + y), Distance(x + y, 3 * Side),
               Distance(x + Side, y), Distance(x + y, Side)>>
      nearest(e) == \A f \in 1..4 : gap[e] <= gap[f]
  IN IF nearest(1) THEN Clamped(x - Side)
     ELSE IF nearest(2) THEN Side + Clamped(2 * Side - x)
     ELSE IF nearest(3) THEN 2 * Side + Clamped(Side - x)
     ELSE 3 * Side + Clamped(x)

TToHandlePos(t) ==
  LET a == t % Side
  IN << <<Side + a, a>>, <<2 * Side - a, Side + a>>,
        <<Side - a, 2 * Side - a>>, <<a, Side - a>> >>[((t \div Side) % 4) + 1]

TurnedAlong(pos, steps) == TToHandlePos(HandleToT(pos) + steps * Side)

RotateClockwise(steps) == (steps + 1) % 4
RotateCounterClockwise(steps) == (steps - 1) % 4

\* The portals of the eight shapes the game draws its roads zones with.
ShapePositions ==
  [c |-> << <<3640, 1360>>, <<1180, 3820>>, <<1780, 6780>>,
            <<3200, 8200>>, <<6860, 8140>>, <<8600, 6400>> >>,
   f |-> << <<2160, 2840>>, <<3700, 1300>>, <<7720, 2720>>,
            <<8740, 3740>>, <<7080, 7920>>, <<1360, 6360>> >>,
   h |-> << <<1100, 3900>>, <<3540, 1460>>, <<7300, 2300>>,
            <<8520, 6480>>, <<5960, 9040>>, <<2300, 7300>> >>,
   o |-> << <<6280, 1280>>, <<8960, 3960>>, <<6860, 8140>>,
            <<3880, 8880>>, <<1240, 6240>>, <<3120, 1880>> >>,
   p |-> << <<6120, 1120>>, <<7600, 2600>>, <<6480, 8520>>,
            <<2520, 7520>>, <<1120, 6120>>, <<2600, 2400>> >>,
   s |-> << <<7320, 2320>>, <<8780, 6220>>, <<7080, 7920>>,
            <<2220, 7220>>, <<1020, 3980>>, <<3220, 1780>> >>,
   t |-> << <<7320, 2320>>, <<8820, 6180>>, <<7700, 7300>>,
            <<2380, 7380>>, <<1020, 3980>>, <<3840, 1160>> >>,
   x |-> << <<2560, 2440>>, <<2460, 7460>>, <<3460, 8460>>,
            <<7460, 7540>>, <<7520, 2520>>, <<6580, 1580>> >>]

ShapeIds == <<"p1", "p2", "p3", "p4", "p5", "p6">>
NoHandles == [id \in {} |-> [at |-> Centre, off |-> FALSE]]

ShapeHandles ==
  [shape \in DOMAIN ShapePositions |->
     [id \in {ShapeIds[i] : i \in 1..6} |->
        [at |-> ShapePositions[shape][CHOOSE i \in 1..6 : ShapeIds[i] = id],
         off |-> FALSE]]]

GetShapeHandlePositions(shape) ==
  IF shape \in DOMAIN ShapeHandles THEN ShapeHandles[shape] ELSE NoHandles

\* A hideout ("hideout" here, roadsHideout in the data) has one per edge.
GetDefaultHandles(shape) ==
  IF shape = "hideout"
  THEN [n |-> [at |-> <<7500, 2500>>, off |-> FALSE],
        e |-> [at |-> <<7500, 7500>>, off |-> FALSE],
        s |-> [at |-> <<2500, 7500>>, off |-> FALSE],
        w |-> [at |-> <<2500, 2500>>, off |-> FALSE]]
  ELSE GetShapeHandlePositions(shape)

OnlyIds(layout, ids) == [id \in DOMAIN layout \intersect ids |-> layout[id]]

\* All the handles are the same number of quarter turns off their default
\* positions, each within a tenth of an edge.
InferRotationFromHandles(actual, default) ==
  LET diff(id) == (HandleToT(actual[id].at) - HandleToT(default[id].at)) % (4 * Side)
      votes == {v \in 0..4 : \A id \in DOMAIN default :
                                10 * Distance(diff(id), v * Side) <= Side}
  IN IF \/ DOMAIN actual # DOMAIN default \/ DOMAIN default = {} \/ votes = {}
     THEN NoRotation
     ELSE CHOOSE v \in votes : TRUE

\* Only the shape's own handles tell how a zone is turned.
InferRotationForZone(shape, layout) ==
  LET default == GetShapeHandlePositions(shape)
  IN IF shape = "hideout" THEN NoRotation
     ELSE InferRotationFromHandles(OnlyIds(layout, DOMAIN default), default)

\* The shape's handles are rebuilt at the target; the others turn along by as
\* much as the incoming ones were off it, except those of the centre.
CanonicalizeHandlesForRotation(shape, incoming, target) ==
  LET default == GetShapeHandlePositions(shape)
      shapes == DOMAIN default
      inferred == InferRotationForZone(shape, incoming)
      delta == IF inferred = NoRotation THEN 0 ELSE (target - inferred) % 4
      isOff(id) == id \in DOMAIN incoming /\ incoming[id].off
      turned(id) ==
        IF id \in shapes
        THEN [at |-> TurnedAlong(default[id].at, target), off |-> isOff(id)]
        ELSE IF id = "center" \/ delta = 0 THEN incoming[id]
        ELSE [incoming[id] EXCEPT !.at = TurnedAlong(@, delta)]
  IN IF \/ shape = "hideout" \/ shapes = {}
        \/ incoming = NoHandles /\ target = 0
     THEN incoming
     ELSE [id \in shapes \union DOMAIN incoming |-> turned(id)]
=============================================================================
