--------------------------- MODULE ZoneDetailsProofs ---------------------------
(***************************************************************************)
(* Notes, portals and history of a zone, for any members, timers and clock *)
(* and for all shapes.                                                     *)
(*                                                                         *)
(* The first half is about the model's operators alone.  Handles are moved *)
(* along the outline of the zone (TurnedAlong), while WritesAreTurnedShapes*)
(* speaks of quarter turns about its centre (Turned): TurnAlong shows that *)
(* they are the same for what is drawn on the outline, and PositionsDrawn  *)
(* that all handles of all shapes are.  Hence layouts are Exact: whatever  *)
(* rotation one tells is the one it is turned by.                          *)
(*                                                                         *)
(* The second half is the inductive invariant, ZoneInv.  None of the       *)
(* properties is inductive.  A note made from a copy makes sense only if   *)
(* every copy, message, editor and entry is good (TypeOK); the history     *)
(* keeps up only if the one save still due is the row's (HistoryInv); and  *)
(* a contradiction heals because whoever has not repaired it yet is about  *)
(* to be told of it (HealInv).                                             *)
(***************************************************************************)
EXTENDS ZoneDetails, SequenceTheorems, TLAPS

Pos == Int \X Int
Ids == {"p1", "p2", "p3", "p4", "p5", "p6", "n", "e", "s", "w", "own", "center"}
ShapeIdSet == {"p1", "p2", "p3", "p4", "p5", "p6"}
Handle == [at : Pos, off : BOOLEAN]
Layout == UNION {[D -> Handle] : D \in SUBSET Ids}

\* On an edge of the diamond.
Drawn(p) ==
  /\ p \in Pos
  /\ \/ p[1] - p[2] = Side /\ Side <= p[1] /\ p[1] < 2 * Side
     \/ p[1] + p[2] = 3 * Side /\ Side < p[1] /\ p[1] <= 2 * Side
     \/ p[2] - p[1] = Side /\ 0 < p[1] /\ p[1] <= Side
     \/ p[1] + p[2] = Side /\ 0 <= p[1] /\ p[1] < Side

\* A position by the edge it is on and how far along.
Along(q, a) ==
  CASE q = 0 -> <<Side + a, a>>
    [] q = 1 -> <<2 * Side - a, Side + a>>
    [] q = 2 -> <<Side - a, 2 * Side - a>>
    [] OTHER -> <<a, Side - a>>

\* A measure along the outline gives its edge and how far along it is, whole
\* rounds of the outline left out.
LEMMA EdgeAndOffset ==
    ASSUME NEW q \in 0..3, NEW a \in 0..(Side - 1), NEW n \in Int
    PROVE  TToHandlePos(4 * Side * n + Side * q + a) = Along(q, a)
<1>1. a \in 0..4999
  BY DEF Side
<1>2. (20000 * n + 5000 * q + a) % 5000 = a
  BY <1>1
<1>3. (20000 * n + 5000 * q + a) \div 5000 = 4 * n + q
  BY <1>1
<1>4. (4 * n + q) % 4 = q
  OBVIOUS
<1>5. 4 * Side * n + Side * q + a = 20000 * n + 5000 * q + a
  BY DEF Side
<1>6. TToHandlePos(20000 * n + 5000 * q + a) =
        << <<Side + a, a>>, <<2 * Side - a, Side + a>>,
           <<Side - a, 2 * Side - a>>, <<a, Side - a>> >>[q + 1]
  <2>1. PICK t : t = 20000 * n + 5000 * q + a
    OBVIOUS
  <2>2. t % Side = a /\ (t \div Side) % 4 = q
    BY <1>2, <1>3, <1>4, <2>1 DEF Side
  <2>3. PICK b, r : b = t % Side /\ r = (t \div Side) % 4
    OBVIOUS
  <2>4. TToHandlePos(t) = << <<Side + b, b>>, <<2 * Side - b, Side + b>>,
                             <<Side - b, 2 * Side - b>>, <<b, Side - b>> >>[r + 1]
    BY <2>3, Zenon DEF TToHandlePos
  <2>5. b = a /\ r = q
    BY <2>2, <2>3
  <2>6. TToHandlePos(t) = << <<Side + a, a>>, <<2 * Side - a, Side + a>>,
                             <<Side - a, 2 * Side - a>>, <<a, Side - a>> >>[q + 1]
    BY <2>4, <2>5, Zenon
  <2> QED BY <2>1, <2>6
<1>7. q = 0 \/ q = 1 \/ q = 2 \/ q = 3
  OBVIOUS
<1>8. << <<Side + a, a>>, <<2 * Side - a, Side + a>>,
         <<Side - a, 2 * Side - a>>, <<a, Side - a>> >>[q + 1] = Along(q, a)
  BY <1>7 DEF Along
<1> QED BY <1>5, <1>6, <1>8

\* Where on the outline a position is measured: on the edge nearest to it.
LEMMA Edges ==
    ASSUME NEW x \in Int, NEW y \in Int, NEW g1, NEW g2, NEW g3, NEW g4,
           g1 = Distance(x, Side + y), g2 = Distance(x + y, 3 * Side),
           g3 = Distance(x + Side, y), g4 = Distance(x + y, Side)
    PROVE  HandleToT(<<x, y>>) =
             IF g1 <= g1 /\ g1 <= g2 /\ g1 <= g3 /\ g1 <= g4 THEN Clamped(x - Side)
             ELSE IF g2 <= g1 /\ g2 <= g2 /\ g2 <= g3 /\ g2 <= g4 THEN Side + Clamped(2 * Side - x)
             ELSE IF g3 <= g1 /\ g3 <= g2 /\ g3 <= g3 /\ g3 <= g4 THEN 2 * Side + Clamped(Side - x)
             ELSE 3 * Side + Clamped(x)
<1>1. PICK gap : gap = <<g1, g2, g3, g4>>
  OBVIOUS
<1>2. \A e \in 1..4 : (\A f \in 1..4 : gap[e] <= gap[f])
        <=> gap[e] <= gap[1] /\ gap[e] <= gap[2] /\ gap[e] <= gap[3] /\ gap[e] <= gap[4]
  <2>1. 1..4 = {1, 2, 3, 4}
    OBVIOUS
  <2> QED BY <2>1, Zenon
<1>3. gap[1] = g1 /\ gap[2] = g2 /\ gap[3] = g3 /\ gap[4] = g4
  BY <1>1
<1>4. 1 \in 1..4 /\ 2 \in 1..4 /\ 3 \in 1..4
  OBVIOUS
<1>5. HandleToT(<<x, y>>) =
             IF \A f \in 1..4 : gap[1] <= gap[f] THEN Clamped(x - Side)
             ELSE IF \A f \in 1..4 : gap[2] <= gap[f] THEN Side + Clamped(2 * Side - x)
             ELSE IF \A f \in 1..4 : gap[3] <= gap[f] THEN 2 * Side + Clamped(Side - x)
             ELSE 3 * Side + Clamped(x)
  <2>1. <<x, y>>[1] = x /\ <<x, y>>[2] = y
    OBVIOUS
  <2> QED BY <1>1, <2>1, Zenon DEF HandleToT
<1> QED BY <1>2, <1>3, <1>4, <1>5, Zenon

\* A position on an edge is measured on that edge, without loss.
LEMMA HandleToTAlong ==
    ASSUME NEW q \in 0..3, NEW a \in 0..(Side - 1)
    PROVE  Along(q, a) \in Pos /\ HandleToT(Along(q, a)) = Side * q + a
<1>1. CASE q = 0
  <2>1. PICK x \in Int, y \in Int : x = Side + a /\ y = a
    BY DEF Side
  <2>2. Along(q, a) = <<x, y>>
    BY <1>1, <2>1 DEF Along
  <2>3. HandleToT(<<x, y>>) = Clamped(x - Side)
    BY <2>1, Edges DEF Distance, Side
  <2> QED BY <1>1, <2>1, <2>2, <2>3 DEF Clamped, Side, Pos
<1>2. CASE q = 1
  <2>1. PICK x \in Int, y \in Int : x = 2 * Side - a /\ y = Side + a
    BY DEF Side
  <2>2. Along(q, a) = <<x, y>>
    BY <1>2, <2>1 DEF Along
  <2>3. HandleToT(<<x, y>>) = IF a = 0 THEN Clamped(x - Side) ELSE Side + Clamped(2 * Side - x)
    BY <2>1, Edges DEF Distance, Side
  <2> QED BY <1>2, <2>1, <2>2, <2>3 DEF Clamped, Side, Pos
<1>3. CASE q = 2
  <2>1. PICK x \in Int, y \in Int : x = Side - a /\ y = 2 * Side - a
    BY DEF Side
  <2>2. Along(q, a) = <<x, y>>
    BY <1>3, <2>1 DEF Along
  <2>3. HandleToT(<<x, y>>) =
          IF a = 0 THEN Side + Clamped(2 * Side - x) ELSE 2 * Side + Clamped(Side - x)
    BY <2>1, Edges DEF Distance, Side
  <2> QED BY <1>3, <2>1, <2>2, <2>3 DEF Clamped, Side, Pos
<1>4. CASE q = 3
  <2>1. PICK x \in Int, y \in Int : x = a /\ y = Side - a
    BY DEF Side
  <2>2. Along(q, a) = <<x, y>>
    BY <1>4, <2>1 DEF Along
  <2>3. HandleToT(<<x, y>>) = IF a = 0 THEN 2 * Side + Clamped(Side - x) ELSE 3 * Side + Clamped(x)
    BY <2>1, Edges DEF Distance, Side
  <2> QED BY <1>4, <2>1, <2>2, <2>3 DEF Clamped, Side, Pos
<1> QED BY <1>1, <1>2, <1>3, <1>4

\* A quarter turn about the centre takes an edge to the next.
LEMMA QuarterTurnAlong ==
    ASSUME NEW q \in 0..3, NEW a \in 0..(Side - 1)
    PROVE  QuarterTurn(Along(q, a)) = Along((q + 1) % 4, a)
<1>1. ASSUME NEW x \in Int, NEW y \in Int
      PROVE  QuarterTurn(<<x, y>>) = <<2 * Side - y, x>>
  BY DEF QuarterTurn
<1>2. CASE q = 0
  <2>1. Along(q, a) = <<Side + a, a>> /\ Along((q + 1) % 4, a) = <<2 * Side - a, Side + a>>
    BY <1>2 DEF Along
  <2> QED BY <1>1, <2>1 DEF Side
<1>3. CASE q = 1
  <2>1. /\ Along(q, a) = <<2 * Side - a, Side + a>>
        /\ Along((q + 1) % 4, a) = <<Side - a, 2 * Side - a>>
    BY <1>3 DEF Along
  <2>2. 2 * Side - (Side + a) = Side - a
    BY DEF Side
  <2> QED BY <1>1, <2>1, <2>2 DEF Side
<1>4. CASE q = 2
  <2>1. Along(q, a) = <<Side - a, 2 * Side - a>> /\ Along((q + 1) % 4, a) = <<a, Side - a>>
    BY <1>4 DEF Along
  <2>2. 2 * Side - (2 * Side - a) = a
    BY DEF Side
  <2> QED BY <1>1, <2>1, <2>2 DEF Side
<1>5. CASE q = 3
  <2>1. Along(q, a) = <<a, Side - a>> /\ Along((q + 1) % 4, a) = <<Side + a, a>>
    BY <1>5 DEF Along
  <2>2. 2 * Side - (Side - a) = Side + a
    BY DEF Side
  <2> QED BY <1>1, <2>1, <2>2 DEF Side
<1> QED BY <1>2, <1>3, <1>4, <1>5

\* A position drawn on the diamond is some way along one of its edges.
LEMMA DrawnAlong ==
    ASSUME NEW p, Drawn(p)
    PROVE  \E q \in 0..3, a \in 0..(Side - 1) : p = Along(q, a)
<1>0. PICK x \in Int, y \in Int : p = <<x, y>> /\ p[1] = x /\ p[2] = y
  BY DEF Drawn, Pos
<1>1. CASE x - y = Side /\ Side <= x /\ x < 2 * Side
  <2>1. y \in 0..(Side - 1) /\ x = Side + y
    BY <1>1 DEF Side
  <2>2. p = Along(0, y)
    BY <1>0, <2>1 DEF Along
  <2> QED BY <2>1, <2>2
<1>2. CASE x + y = 3 * Side /\ Side < x /\ x <= 2 * Side
  <2>1. PICK a \in 0..(Side - 1) : a = y - Side
    BY <1>2 DEF Side
  <2>2. x = 2 * Side - a /\ y = Side + a
    BY <1>2, <2>1 DEF Side
  <2>3. p = Along(1, a)
    BY <1>0, <2>2 DEF Along
  <2> QED BY <2>1, <2>3
<1>3. CASE y - x = Side /\ 0 < x /\ x <= Side
  <2>1. PICK a \in 0..(Side - 1) : a = Side - x
    BY <1>3 DEF Side
  <2>2. x = Side - a /\ y = 2 * Side - a
    BY <1>3, <2>1 DEF Side
  <2>3. p = Along(2, a)
    BY <1>0, <2>2 DEF Along
  <2> QED BY <2>1, <2>3
<1>4. CASE x + y = Side /\ 0 <= x /\ x < Side
  <2>1. x \in 0..(Side - 1) /\ y = Side - x
    BY <1>4 DEF Side
  <2>2. p = Along(3, x)
    BY <1>0, <2>1 DEF Along
  <2> QED BY <2>1, <2>2
<1> QED BY <1>0, <1>1, <1>2, <1>3, <1>4 DEF Drawn

\* A handle of a shape goes where the whole zone's turn takes it, and its place
\* on the edge tells by how much.
LEMMA TurnAlong ==
    ASSUME NEW p, Drawn(p), NEW k \in 0..3
    PROVE  /\ TurnedAlong(p, k) \in Pos
           /\ TurnedAlong(p, k) = Turned(k, p)
           /\ (HandleToT(TurnedAlong(p, k)) - HandleToT(p)) % (4 * Side) = k * Side
<1>1. PICK q \in 0..3, a \in 0..(Side - 1) : p = Along(q, a)
  BY DrawnAlong
<1>2. HandleToT(p) = Side * q + a
  BY <1>1, HandleToTAlong
<1>3. PICK r \in 0..3, n \in 0..1 : q + k = 4 * n + r /\ r = (q + k) % 4
  OBVIOUS
<1>4. HandleToT(p) + k * Side = 4 * Side * n + Side * r + a
  BY <1>2, <1>3 DEF Side
<1>5. TurnedAlong(p, k) = Along(r, a)
  BY <1>4, EdgeAndOffset DEF TurnedAlong
<1>6. HandleToT(TurnedAlong(p, k)) = Side * r + a /\ TurnedAlong(p, k) \in Pos
  BY <1>5, HandleToTAlong
<1>7. ((Side * r + a) - (Side * q + a)) % (4 * Side) = k * Side
  BY <1>3 DEF Side
<1>8. Turned(k, p) = Along((q + k) % 4, a)
  <2>1. /\ QuarterTurn(p) = Along((q + 1) % 4, a)
        /\ (q + 1) % 4 \in 0..3
    BY <1>1, QuarterTurnAlong
  <2>2. /\ QuarterTurn(QuarterTurn(p)) = Along((q + 2) % 4, a)
        /\ (q + 2) % 4 \in 0..3
    <3>1. QuarterTurn(Along((q + 1) % 4, a)) = Along((((q + 1) % 4) + 1) % 4, a)
      BY <2>1, QuarterTurnAlong
    <3>2. (((q + 1) % 4) + 1) % 4 = (q + 2) % 4 /\ (q + 2) % 4 \in 0..3
      OBVIOUS
    <3> QED BY <2>1, <3>1, <3>2
  <2>3. QuarterTurn(QuarterTurn(QuarterTurn(p))) = Along((q + 3) % 4, a)
    <3>1. QuarterTurn(Along((q + 2) % 4, a)) = Along((((q + 2) % 4) + 1) % 4, a)
      BY <2>2, QuarterTurnAlong
    <3>2. (((q + 2) % 4) + 1) % 4 = (q + 3) % 4
      OBVIOUS
    <3> QED BY <2>2, <3>1, <3>2
  <2>4. (q + 0) % 4 = q
    OBVIOUS
  <2>5. k = 0 \/ k = 1 \/ k = 2 \/ k = 3
    OBVIOUS
  <2> QED BY <1>1, <2>1, <2>2, <2>3, <2>4, <2>5 DEF Turned
<1> QED BY <1>2, <1>3, <1>5, <1>6, <1>7, <1>8

-----------------------------------------------------------------------------
(* The shapes.                                                              *)

\* The same of two coordinates.
LEMMA DrawnPair ==
    ASSUME NEW x \in Int, NEW y \in Int,
           \/ x - y = Side /\ Side <= x /\ x < 2 * Side
           \/ x + y = 3 * Side /\ Side < x /\ x <= 2 * Side
           \/ y - x = Side /\ 0 < x /\ x <= Side
           \/ x + y = Side /\ 0 <= x /\ x < Side
    PROVE  Drawn(<<x, y>>)
BY DEF Drawn, Pos

\* Six such positions.
LEMMA SixDrawn ==
    ASSUME NEW a, NEW b, NEW c, NEW d, NEW e, NEW f,
           Drawn(a), Drawn(b), Drawn(c), Drawn(d), Drawn(e), Drawn(f)
    PROVE  \A i \in 1..6 : Drawn(<<a, b, c, d, e, f>>[i])
<1> TAKE i \in 1..6
<1>1. i = 1 \/ i = 2 \/ i = 3 \/ i = 4 \/ i = 5 \/ i = 6
  OBVIOUS
<1> QED BY <1>1

\* Every handle of every shape is drawn on the diamond (handlePositions.ts).
LEMMA PositionsDrawn ==
    ASSUME NEW s \in DOMAIN ShapePositions
    PROVE  \A i \in 1..6 : Drawn(ShapePositions[s][i])
<1>0. DOMAIN ShapePositions = {"c", "f", "h", "o", "p", "s", "t", "x"}
  BY DEF ShapePositions
<1>1. CASE s = "c"
  <2>1. /\ Drawn(<<3640, 1360>>) /\ Drawn(<<1180, 3820>>) /\ Drawn(<<1780, 6780>>)
        /\ Drawn(<<3200, 8200>>) /\ Drawn(<<6860, 8140>>) /\ Drawn(<<8600, 6400>>)
    BY DrawnPair DEF Side
  <2>2. ShapePositions["c"] = << <<3640, 1360>>, <<1180, 3820>>, <<1780, 6780>>,
                               <<3200, 8200>>, <<6860, 8140>>, <<8600, 6400>> >>
    BY DEF ShapePositions
  <2> QED BY <1>1, <2>1, <2>2, SixDrawn
<1>2. CASE s = "f"
  <2>1. /\ Drawn(<<2160, 2840>>) /\ Drawn(<<3700, 1300>>) /\ Drawn(<<7720, 2720>>)
        /\ Drawn(<<8740, 3740>>) /\ Drawn(<<7080, 7920>>) /\ Drawn(<<1360, 6360>>)
    BY DrawnPair DEF Side
  <2>2. ShapePositions["f"] = << <<2160, 2840>>, <<3700, 1300>>, <<7720, 2720>>,
                               <<8740, 3740>>, <<7080, 7920>>, <<1360, 6360>> >>
    BY DEF ShapePositions
  <2> QED BY <1>2, <2>1, <2>2, SixDrawn
<1>3. CASE s = "h"
  <2>1. /\ Drawn(<<1100, 3900>>) /\ Drawn(<<3540, 1460>>) /\ Drawn(<<7300, 2300>>)
        /\ Drawn(<<8520, 6480>>) /\ Drawn(<<5960, 9040>>) /\ Drawn(<<2300, 7300>>)
    BY DrawnPair DEF Side
  <2>2. ShapePositions["h"] = << <<1100, 3900>>, <<3540, 1460>>, <<7300, 2300>>,
                               <<8520, 6480>>, <<5960, 9040>>, <<2300, 7300>> >>
    BY DEF ShapePositions
  <2> QED BY <1>3, <2>1, <2>2, SixDrawn
<1>4. CASE s = "o"
  <2>1. /\ Drawn(<<6280, 1280>>) /\ Drawn(<<8960, 3960>>) /\ Drawn(<<6860, 8140>>)
        /\ Drawn(<<3880, 8880>>) /\ Drawn(<<1240, 6240>>) /\ Drawn(<<3120, 1880>>)
    BY DrawnPair DEF Side
  <2>2. ShapePositions["o"] = << <<6280, 1280>>, <<8960, 3960>>, <<6860, 8140>>,
                               <<3880, 8880>>, <<1240, 6240>>, <<3120, 1880>> >>
    BY DEF ShapePositions
  <2> QED BY <1>4, <2>1, <2>2, SixDrawn
<1>5. CASE s = "p"
  <2>1. /\ Drawn(<<6120, 1120>>) /\ Drawn(<<7600, 2600>>) /\ Drawn(<<6480, 8520>>)
        /\ Drawn(<<2520, 7520>>) /\ Drawn(<<1120, 6120>>) /\ Drawn(<<2600, 2400>>)
    BY DrawnPair DEF Side
  <2>2. ShapePositions["p"] = << <<6120, 1120>>, <<7600, 2600>>, <<6480, 8520>>,
                               <<2520, 7520>>, <<1120, 6120>>, <<2600, 2400>> >>
    BY DEF ShapePositions
  <2> QED BY <1>5, <2>1, <2>2, SixDrawn
<1>6. CASE s = "s"
  <2>1. /\ Drawn(<<7320, 2320>>) /\ Drawn(<<8780, 6220>>) /\ Drawn(<<7080, 7920>>)
        /\ Drawn(<<2220, 7220>>) /\ Drawn(<<1020, 3980>>) /\ Drawn(<<3220, 1780>>)
    BY DrawnPair DEF Side
  <2>2. ShapePositions["s"] = << <<7320, 2320>>, <<8780, 6220>>, <<7080, 7920>>,
                               <<2220, 7220>>, <<1020, 3980>>, <<3220, 1780>> >>
    BY DEF ShapePositions
  <2> QED BY <1>6, <2>1, <2>2, SixDrawn
<1>7. CASE s = "t"
  <2>1. /\ Drawn(<<7320, 2320>>) /\ Drawn(<<8820, 6180>>) /\ Drawn(<<7700, 7300>>)
        /\ Drawn(<<2380, 7380>>) /\ Drawn(<<1020, 3980>>) /\ Drawn(<<3840, 1160>>)
    BY DrawnPair DEF Side
  <2>2. ShapePositions["t"] = << <<7320, 2320>>, <<8820, 6180>>, <<7700, 7300>>,
                               <<2380, 7380>>, <<1020, 3980>>, <<3840, 1160>> >>
    BY DEF ShapePositions
  <2> QED BY <1>7, <2>1, <2>2, SixDrawn
<1>8. CASE s = "x"
  <2>1. /\ Drawn(<<2560, 2440>>) /\ Drawn(<<2460, 7460>>) /\ Drawn(<<3460, 8460>>)
        /\ Drawn(<<7460, 7540>>) /\ Drawn(<<7520, 2520>>) /\ Drawn(<<6580, 1580>>)
    BY DrawnPair DEF Side
  <2>2. ShapePositions["x"] = << <<2560, 2440>>, <<2460, 7460>>, <<3460, 8460>>,
                               <<7460, 7540>>, <<7520, 2520>>, <<6580, 1580>> >>
    BY DEF ShapePositions
  <2> QED BY <1>8, <2>1, <2>2, SixDrawn
<1> QED BY <1>0, <1>1, <1>2, <1>3, <1>4, <1>5, <1>6, <1>7, <1>8

\* A shape's handles are numbered from one.
LEMMA ShapeIdNumber ==
    \A id \in ShapeIdSet : (CHOOSE i \in 1..6 : ShapeIds[i] = id) \in 1..6
<1> TAKE id \in ShapeIdSet
<1>1. \E i \in 1..6 : ShapeIds[i] = id
  <2>1. ShapeIds[1] = "p1" /\ ShapeIds[2] = "p2" /\ ShapeIds[3] = "p3"
        /\ ShapeIds[4] = "p4" /\ ShapeIds[5] = "p5" /\ ShapeIds[6] = "p6"
    BY DEF ShapeIds
  <2>2. 1 \in 1..6 /\ 2 \in 1..6 /\ 3 \in 1..6 /\ 4 \in 1..6 /\ 5 \in 1..6 /\ 6 \in 1..6
    OBVIOUS
  <2> QED BY <2>1, <2>2, Zenon DEF ShapeIdSet
<1> QED BY <1>1

\* The handles of a shape by name.
LEMMA ShapeIdsAre == {ShapeIds[i] : i \in 1..6} = ShapeIdSet
<1>1. /\ ShapeIds[1] = "p1" /\ ShapeIds[2] = "p2" /\ ShapeIds[3] = "p3"
      /\ ShapeIds[4] = "p4" /\ ShapeIds[5] = "p5" /\ ShapeIds[6] = "p6"
  BY DEF ShapeIds
<1>2. 1..6 = {1, 2, 3, 4, 5, 6}
  OBVIOUS
<1>3. \A id : (\E i \in 1..6 : ShapeIds[i] = id) <=> id \in ShapeIdSet
  BY <1>1, <1>2, Zenon DEF ShapeIdSet
<1> QED BY <1>3, Zenon

\* What GetShapeHandlePositions gives for a shape that has handles.
LEMMA ShapeFacts ==
    ASSUME NEW s \in DOMAIN ShapePositions
    PROVE  /\ GetShapeHandlePositions(s) \in [ShapeIdSet -> Handle]
           /\ \A id \in ShapeIdSet : Drawn(GetShapeHandlePositions(s)[id].at)
<1>1. GetShapeHandlePositions(s) = [id \in ShapeIdSet |->
         [at |-> ShapePositions[s][CHOOSE i \in 1..6 : ShapeIds[i] = id], off |-> FALSE]]
  BY ShapeIdsAre DEF GetShapeHandlePositions, ShapeHandles
<1>2. \A id \in ShapeIdSet : Drawn(ShapePositions[s][CHOOSE i \in 1..6 : ShapeIds[i] = id])
  BY PositionsDrawn, ShapeIdNumber
<1>3. PICK default : default = GetShapeHandlePositions(s)
  OBVIOUS
<1>4. \A id \in ShapeIdSet :
        /\ default[id] = [at |-> ShapePositions[s][CHOOSE i \in 1..6 : ShapeIds[i] = id],
                          off |-> FALSE]
        /\ default[id].at = ShapePositions[s][CHOOSE i \in 1..6 : ShapeIds[i] = id]
  BY <1>1, <1>3
<1>5. \A id \in ShapeIdSet : Drawn(default[id].at)
  BY <1>2, <1>4, Zenon
<1>6. \A id \in ShapeIdSet : default[id] \in Handle
  <2> TAKE id \in ShapeIdSet
  <2>1. PICK p : p = ShapePositions[s][CHOOSE i \in 1..6 : ShapeIds[i] = id]
    OBVIOUS
  <2>2. Drawn(p) /\ default[id] = [at |-> p, off |-> FALSE]
    BY <1>2, <1>4, <2>1
  <2> QED BY <2>2 DEF Drawn, Handle
<1>7. default = [id \in ShapeIdSet |-> default[id]]
  BY <1>1, <1>3
<1> QED BY <1>3, <1>5, <1>6, <1>7

\* What it gives for one that has none.
LEMMA NoShape ==
    ASSUME NEW s, s \notin DOMAIN ShapePositions
    PROVE  GetShapeHandlePositions(s) = NoHandles
BY DEF GetShapeHandlePositions, ShapeHandles

\* Hideouts and rests have no handles of a shape.
LEMMA NamedShapes == "hideout" \notin DOMAIN ShapePositions /\ "rest" \notin DOMAIN ShapePositions
BY DEF ShapePositions

-----------------------------------------------------------------------------
(* Layouts.                                                                 *)

\* A layout is a function from some handles.
LEMMA LayoutFacts ==
    \A l : l \in Layout <=> DOMAIN l \in SUBSET Ids /\ l \in [DOMAIN l -> Handle]
BY DEF Layout

\* All the handles of shape s are there, k quarters from where it has them.
TurnedBy(s, l, k) ==
  \A id \in DOMAIN GetShapeHandlePositions(s) :
    /\ id \in DOMAIN l
    /\ l[id].at = TurnedAlong(GetShapeHandlePositions(s)[id].at, k)

Exact(s, l) ==
  s \in DOMAIN ShapePositions =>
    (\E id \in ShapeIdSet : id \notin DOMAIN l) \/ \E k \in 0..3 : TurnedBy(s, l, k)

\* A layout turned by k quarters tells k.
LEMMA InferTurned ==
    ASSUME NEW s \in DOMAIN ShapePositions, NEW l, NEW k \in 0..3, TurnedBy(s, l, k)
    PROVE  InferRotationForZone(s, l) = k
<1>1. PICK default \in [ShapeIdSet -> Handle] : default = GetShapeHandlePositions(s)
  BY ShapeFacts
<1>2. PICK actual : actual = OnlyIds(l, DOMAIN default)
  OBVIOUS
<1>3. /\ DOMAIN actual = DOMAIN default /\ DOMAIN default = ShapeIdSet
      /\ \A id \in DOMAIN default : actual[id] = l[id]
  BY <1>1, <1>2 DEF OnlyIds, TurnedBy
<1>4. \A id \in DOMAIN default :
        (HandleToT(actual[id].at) - HandleToT(default[id].at)) % (4 * Side) = k * Side
  BY <1>1, <1>3, ShapeFacts, TurnAlong DEF TurnedBy
<1>5. PICK id : id \in DOMAIN default
  BY <1>3 DEF ShapeIdSet
<1>6. \A v \in 0..4 : 10 * Distance(k * Side, v * Side) <= Side <=> v = k
  BY DEF Distance, Side
<1>7. {v \in 0..4 : \A d \in DOMAIN default :
          10 * Distance((HandleToT(actual[d].at) - HandleToT(default[d].at)) % (4 * Side), v * Side)
            <= Side} = {k}
  BY <1>4, <1>5, <1>6
<1>8. InferRotationFromHandles(actual, default) = CHOOSE v \in {k} : TRUE
  BY <1>3, <1>5, <1>7 DEF InferRotationFromHandles
<1>9. (CHOOSE v \in {k} : TRUE) = k
  OBVIOUS
<1> QED BY <1>1, <1>2, <1>8, <1>9, NamedShapes DEF InferRotationForZone

\* A layout that lacks a handle of its shape tells nothing.
LEMMA InferPartial ==
    ASSUME NEW s \in DOMAIN ShapePositions, NEW l, NEW id \in ShapeIdSet, id \notin DOMAIN l
    PROVE  InferRotationForZone(s, l) = NoRotation
<1>1. PICK default \in [ShapeIdSet -> Handle] : default = GetShapeHandlePositions(s)
  BY ShapeFacts
<1>2. PICK actual : actual = OnlyIds(l, DOMAIN default)
  OBVIOUS
<1>3. DOMAIN actual # DOMAIN default
  BY <1>1, <1>2 DEF OnlyIds
<1>4. InferRotationFromHandles(actual, default) = NoRotation
  BY <1>3 DEF InferRotationFromHandles
<1> QED BY <1>1, <1>2, <1>4, NamedShapes DEF InferRotationForZone

\* Whatever rotation a layout tells is the one it is turned by.
LEMMA InferExact ==
    ASSUME NEW s \in DOMAIN ShapePositions, NEW l, Exact(s, l),
           InferRotationForZone(s, l) # NoRotation
    PROVE  InferRotationForZone(s, l) \in 0..3 /\ TurnedBy(s, l, InferRotationForZone(s, l))
BY InferTurned, InferPartial DEF Exact

\* What is told is a rotation or none.
LEMMA InferAnything ==
    ASSUME NEW s, NEW l
    PROVE  InferRotationForZone(s, l) \in 0..4 \cup {NoRotation}
<1>1. ASSUME NEW actual, NEW default
      PROVE  InferRotationFromHandles(actual, default) \in 0..4 \cup {NoRotation}
  BY <1>1 DEF InferRotationFromHandles
<1> QED BY <1>1 DEF InferRotationForZone

\* A point of the edge, wherever along it, is a position.
LEMMA AlongAnywhere ==
    ASSUME NEW p \in Pos, NEW d \in Int
    PROVE  TurnedAlong(p, d) \in Pos
<1>1. PICK x \in Int, y \in Int : p = <<x, y>>
  BY DEF Pos
<1>2. HandleToT(<<x, y>>) \in Int
  BY Edges DEF Clamped, Side
<1>3. PICK t \in Int : t = HandleToT(p) + d * Side
  BY <1>1, <1>2 DEF Side
<1>4. PICK n \in Int, q \in 0..3, a \in 0..(Side - 1) : t = 4 * Side * n + Side * q + a
  <2>1. PICK a \in 0..(Side - 1), u \in Int : t = 5000 * u + a
    <3>1. t = 5000 * (t \div 5000) + (t % 5000) /\ t % 5000 \in 0..4999 /\ t \div 5000 \in Int
      OBVIOUS
    <3> QED BY <3>1 DEF Side
  <2>2. PICK q \in 0..3, n \in Int : u = 4 * n + q
    <3>1. u = 4 * (u \div 4) + (u % 4) /\ u % 4 \in 0..3 /\ u \div 4 \in Int
      OBVIOUS
    <3> QED BY <3>1
  <2>3. t = 4 * Side * n + Side * q + a
    BY <2>1, <2>2 DEF Side
  <2> QED BY <2>3
<1> QED BY <1>3, <1>4, EdgeAndOffset, HandleToTAlong DEF TurnedAlong

\* The shape's own handles are turned by none.
LEMMA DefaultsTurnedByNone ==
    ASSUME NEW s \in DOMAIN ShapePositions
    PROVE  TurnedBy(s, GetShapeHandlePositions(s), 0)
<1>1. ASSUME NEW p, Drawn(p)
      PROVE  TurnedAlong(p, 0) = p
  BY <1>1, TurnAlong DEF Turned
<1> QED BY <1>1, ShapeFacts DEF TurnedBy

\* Rebuilt handles are all turned as they should be, whatever came in.
LEMMA Canonical ==
    ASSUME NEW s, NEW l \in Layout, NEW k \in 0..3
    PROVE  /\ CanonicalizeHandlesForRotation(s, l, k) \in Layout
           /\ ~(s \in DOMAIN ShapePositions /\ ~(l = NoHandles /\ k = 0)) =>
                CanonicalizeHandlesForRotation(s, l, k) = l
           /\ s \in DOMAIN ShapePositions /\ ~(l = NoHandles /\ k = 0) =>
                /\ TurnedBy(s, CanonicalizeHandlesForRotation(s, l, k), k)
                /\ CanonicalizeHandlesForRotation(s, l, k) # NoHandles
<1>1. CASE ~(s \in DOMAIN ShapePositions /\ ~(l = NoHandles /\ k = 0))
  <2>1. s \in DOMAIN ShapePositions \/ DOMAIN GetShapeHandlePositions(s) = {}
    BY NoShape DEF NoHandles
  <2>2. CanonicalizeHandlesForRotation(s, l, k) = l
    BY <1>1, <2>1, Zenon DEF CanonicalizeHandlesForRotation
  <2> QED BY <1>1, <2>2
<1>2. CASE s \in DOMAIN ShapePositions /\ ~(l = NoHandles /\ k = 0)
  <2>1. PICK default \in [ShapeIdSet -> Handle] : default = GetShapeHandlePositions(s)
    BY <1>2, ShapeFacts
  <2>2. PICK delta \in 0..3 :
          delta = IF InferRotationForZone(s, l) = NoRotation THEN 0
                  ELSE (k - InferRotationForZone(s, l)) % 4
    <3>1. PICK i \in 0..4 \cup {NoRotation} : i = InferRotationForZone(s, l)
      BY InferAnything
    <3>2. (IF i = NoRotation THEN 0 ELSE (k - i) % 4) \in 0..3
      BY DEF NoRotation
    <3> QED BY <3>1, <3>2
  <2>3. PICK c : c = CanonicalizeHandlesForRotation(s, l, k)
    OBVIOUS
  <2>4. s # "hideout" /\ DOMAIN default # {}
    BY <1>2, <2>1, NamedShapes DEF ShapeIdSet
  <2>5. c = [id \in DOMAIN default \union DOMAIN l |->
          IF id \in DOMAIN default
          THEN [at |-> TurnedAlong(default[id].at, k), off |-> id \in DOMAIN l /\ l[id].off]
          ELSE IF id = "center" \/ delta = 0 THEN l[id]
          ELSE [l[id] EXCEPT !.at = TurnedAlong(l[id].at, delta)]]
    BY <1>2, <2>1, <2>2, <2>3, <2>4, Zenon DEF CanonicalizeHandlesForRotation
  <2>6. l \in [DOMAIN l -> Handle] /\ DOMAIN l \subseteq Ids
    BY LayoutFacts
  <2>7. ASSUME NEW id \in ShapeIdSet
        PROVE  /\ id \in DOMAIN c /\ c[id] \in Handle
               /\ c[id].at = TurnedAlong(default[id].at, k)
    <3>1. c[id] = [at |-> TurnedAlong(default[id].at, k), off |-> id \in DOMAIN l /\ l[id].off]
      BY <2>5
    <3>2. TurnedAlong(default[id].at, k) \in Pos
      BY <2>1, AlongAnywhere DEF Handle
    <3>3. (id \in DOMAIN l /\ l[id].off) \in BOOLEAN
      BY <2>6 DEF Handle
    <3> QED BY <2>5, <3>1, <3>2, <3>3 DEF Handle
  <2>8. ASSUME NEW id \in DOMAIN l, id \notin ShapeIdSet
        PROVE  c[id] \in Handle
    <3>1. l[id] \in Handle /\ l[id].at \in Pos
      BY <2>6 DEF Handle
    <3>2. TurnedAlong(l[id].at, delta) \in Pos
      BY <3>1, AlongAnywhere
    <3>3. [l[id] EXCEPT !.at = TurnedAlong(l[id].at, delta)] \in Handle
      BY <3>1, <3>2 DEF Handle
    <3>4. c[id] = l[id] \/ c[id] = [l[id] EXCEPT !.at = TurnedAlong(l[id].at, delta)]
      BY <2>5, <2>8
    <3> QED BY <3>1, <3>3, <3>4
  <2>9. DOMAIN c = ShapeIdSet \union DOMAIN l /\ c = [id \in DOMAIN c |-> c[id]]
    BY <2>5
  <2>10. DOMAIN c \subseteq Ids
    BY <2>6, <2>9 DEF ShapeIdSet, Ids
  <2>11. c \in [DOMAIN c -> Handle]
    BY <2>7, <2>8, <2>9
  <2>12. c \in Layout
    BY <2>10, <2>11, LayoutFacts
  <2>13. TurnedBy(s, c, k)
    BY <2>1, <2>7 DEF TurnedBy
  <2>14. c # NoHandles
    BY <2>9 DEF NoHandles, ShapeIdSet
  <2> QED BY <1>2, <2>3, <2>12, <2>13, <2>14
<1> QED BY <1>1, <1>2

\* No handles tell nothing.
LEMMA NoHandlesExact == NoHandles \in Layout /\ \A s : Exact(s, NoHandles)
<1>1. NoHandles \in Layout
  BY LayoutFacts DEF NoHandles
<1> QED BY <1>1 DEF Exact, NoHandles, ShapeIdSet

\* Nor does a layout that was built anew contradict itself.
LEMMA CanonicalExact ==
    ASSUME NEW s, NEW l \in Layout, NEW k \in 0..3, Exact(s, l)
    PROVE  Exact(s, CanonicalizeHandlesForRotation(s, l, k))
BY Canonical DEF Exact

-----------------------------------------------------------------------------
(* The invariant.                                                           *)

Feature ==
  [core : [Cores -> BOOLEAN], timer : [Cores -> Int], reds : BOOLEAN, redsTimer : Int,
   chest : Int, count : Int, res : Int, marks : SUBSET {"count", "res"}]

GoodFeatures == {f \in Feature : Sensible(f)}
GoodLayouts == {l \in Layout : Exact(shape, l)}

\* Off the map it is not turned.
GoodNodes ==
  {n \in [on : BOOLEAN, feat : GoodFeatures, handles : GoodLayouts, rotation : 0..3] :
     n.on \/ n.rotation = 0}

GoodEntries ==
  {n \in [there : BOOLEAN, feat : GoodFeatures, handles : GoodLayouts, rotation : 0..3] :
     /\ n.feat = MemoryFeatures(n.feat)
     /\ ~n.there => n.feat = NoFeatures}

GoodMessages ==
  [kind : {"save", "rotate", "turn"}, by : Members, nr : Nat, feat : GoodFeatures,
   handles : GoodLayouts, rotation : 0..3]

GoodEditors ==
  {e \in [open : BOOLEAN, handles : GoodLayouts, rotation : 0..3] :
     Shaped /\ e.open => e.handles # NoHandles}

TypeOK ==
  /\ shape \in Shapes /\ now \in Nat /\ edits \in Nat /\ backs \in Nat
  /\ apart \in BOOLEAN /\ untold \in BOOLEAN
  /\ row \in GoodNodes
  /\ memory \in GoodEntries
  /\ view \in [Members -> GoodNodes]
  /\ editor \in [Members -> GoodEditors]
  /\ active \in [Members -> Cores \union {"none"}]
  /\ fixed \subseteq Members /\ resets \subseteq Members
  /\ up \subseteq GoodMessages
  /\ after \subseteq {s \in GoodMessages : s.kind = "save"}
  /\ down \in [Members -> Seq(GoodNodes)]

\* The history agrees with the map, or the one save that has yet to reach it does.
HistoryInv ==
  ~apart /\ row.on =>
    /\ after = {} /\ memory.there =>
         /\ memory.feat # NoFeatures => memory.feat = MemoryFeatures(row.feat)
         /\ row.handles # NoHandles => memory.handles = row.handles
    /\ after # {} => \E s : after = {s} /\ s.feat = row.feat /\ s.handles = row.handles

\* Who has not repaired a contradiction yet is about to be told of it, if any
\* store is.
HealInv ==
  \A m \in Members \ fixed :
    RotationError(row) /\ ~untold => down[m] # << >> /\ down[m][Len(down[m])] = row

\* A zone that has a shape and no layout of its own is not turned.
Upright(n) == Shaped /\ n.handles = NoHandles => n.rotation = 0

\* Copies and saves that a reset or an import stripped of their layout are those
\* of members who have spent their repair.
StaleInv ==
  /\ \A m \in Members \ fixed : Upright(view[m])
  /\ \A s \in up : s.kind = "save" /\ s.by \notin fixed => Upright(s)

ZoneInv == TypeOK /\ HistoryInv /\ HealInv /\ StaleInv

-----------------------------------------------------------------------------
(* What the parts of the invariant are made of.                             *)

\* A zone has a shape that matters if its shape has handles.
LEMMA ShapedIs ==
    Shaped <=> shape \in DOMAIN ShapePositions
BY ShapeFacts, NoShape DEF Shaped, NoHandles, ShapeIdSet

\* What is good depends on the clock and the shape alone.
LEMMA GoodSame ==
    ASSUME UNCHANGED <<now, shape>>
    PROVE  /\ GoodFeatures' = GoodFeatures /\ GoodLayouts' = GoodLayouts
           /\ GoodNodes' = GoodNodes /\ GoodEntries' = GoodEntries
           /\ GoodMessages' = GoodMessages /\ GoodEditors' = GoodEditors
           /\ \A n : RotationError(n)' = RotationError(n)
<1>1. GoodFeatures' = GoodFeatures
  BY DEF GoodFeatures, Sensible
<1>2. GoodLayouts' = GoodLayouts
  BY DEF GoodLayouts
<1>3. Shaped' = Shaped
  BY DEF Shaped
<1>5. GoodNodes' = GoodNodes /\ GoodEntries' = GoodEntries /\ GoodMessages' = GoodMessages
  BY <1>1, <1>2, Zenon DEF GoodNodes, GoodEntries, GoodMessages
<1>6. GoodEditors' = GoodEditors
  BY <1>2, <1>3 DEF GoodEditors
<1>7. \A n : RotationError(n)' = RotationError(n)
  BY <1>3 DEF RotationError
<1> QED BY <1>1, <1>2, <1>5, <1>6, <1>7

\* What a good node is made of, and what follows from being one.
LEMMA MakeNode ==
    ASSUME NEW on \in BOOLEAN, NEW f \in GoodFeatures, NEW l \in GoodLayouts,
           NEW r \in 0..3, on \/ r = 0
    PROVE  [on |-> on, feat |-> f, handles |-> l, rotation |-> r] \in GoodNodes
BY DEF GoodNodes

\* A node is its parts.
LEMMA NodeParts ==
    ASSUME NEW n \in GoodNodes
    PROVE  /\ n.on \in BOOLEAN /\ n.feat \in GoodFeatures
           /\ n.handles \in GoodLayouts /\ n.rotation \in 0..3
           /\ n.on \/ n.rotation = 0
           /\ n = [on |-> n.on, feat |-> n.feat, handles |-> n.handles,
                   rotation |-> n.rotation]
BY DEF GoodNodes

\* Features are their parts, each in its range.
LEMMA FeatureParts ==
    ASSUME NEW f \in GoodFeatures
    PROVE  /\ f \in Feature /\ Sensible(f)
           /\ f = [core |-> f.core, timer |-> f.timer, reds |-> f.reds,
                   redsTimer |-> f.redsTimer, chest |-> f.chest, count |-> f.count,
                   res |-> f.res, marks |-> f.marks]
BY DEF GoodFeatures, Feature

\* Features made of sensible parts are good.
LEMMA MakeFeature ==
    ASSUME NEW core \in [Cores -> BOOLEAN], NEW timer \in [Cores -> Int],
           NEW reds \in BOOLEAN, NEW redsTimer \in Int, NEW chest \in Int,
           NEW count \in Int, NEW res \in Int, NEW marks \in SUBSET {"count", "res"},
           \A c \in Cores : timer[c] <= now + MaxTimes[c] /\ (core[c] => timer[c] # None),
           redsTimer <= now + RedsTime, reds = (redsTimer # None),
           "count" \in marks => count = 0, "res" \in marks => res = 0
    PROVE  [core |-> core, timer |-> timer, reds |-> reds, redsTimer |-> redsTimer,
            chest |-> chest, count |-> count, res |-> res, marks |-> marks] \in GoodFeatures
<1>1. PICK f : f = [core |-> core, timer |-> timer, reds |-> reds, redsTimer |-> redsTimer,
                    chest |-> chest, count |-> count, res |-> res, marks |-> marks]
  OBVIOUS
<1>2. f \in Feature
  BY <1>1, Zenon DEF Feature
<1>3. Sensible(f)
  BY <1>1 DEF Sensible
<1> QED BY <1>1, <1>2, <1>3, Zenon DEF GoodFeatures

\* What the panel makes of the features of one core.
LEMMA CoreEdits ==
    ASSUME now \in Nat, NEW f \in GoodFeatures, NEW c \in Cores
    PROVE  /\ \A t \in Int : t # None /\ t <= now + MaxTimes[c] =>
                /\ [f EXCEPT !.timer[c] = t] \in GoodFeatures
                /\ [f EXCEPT !.core[c] = TRUE, !.timer[c] = t] \in GoodFeatures
           /\ f.timer[c] # None => [f EXCEPT !.core[c] = TRUE] \in GoodFeatures
           /\ [f EXCEPT !.core[c] = FALSE, !.timer[c] = None] \in GoodFeatures
<1>1. /\ f.core \in [Cores -> BOOLEAN] /\ f.timer \in [Cores -> Int] /\ f.reds \in BOOLEAN
      /\ f.redsTimer \in Int /\ f.chest \in Int /\ f.count \in Int /\ f.res \in Int
      /\ f.marks \in SUBSET {"count", "res"}
  BY FeatureParts DEF Feature
<1>2. Sensible(f)
  BY FeatureParts
<1>3. MaxTimes[c] \in Nat
  BY ZoneDetailsAssumption
<1>4. ASSUME NEW core \in [Cores -> BOOLEAN], NEW timer \in [Cores -> Int],
             \A d \in Cores : timer[d] <= now + MaxTimes[d] /\ (core[d] => timer[d] # None)
      PROVE  [core |-> core, timer |-> timer, reds |-> f.reds, redsTimer |-> f.redsTimer,
              chest |-> f.chest, count |-> f.count, res |-> f.res, marks |-> f.marks]
                \in GoodFeatures
  <2>1. /\ f.redsTimer <= now + RedsTime /\ f.reds = (f.redsTimer # None)
        /\ "count" \in f.marks => f.count = 0
        /\ "res" \in f.marks => f.res = 0
    BY <1>2 DEF Sensible
  <2> QED BY <1>1, <1>4, <2>1, MakeFeature
<1>5. ASSUME NEW t \in Int, NEW b \in BOOLEAN, t <= now + MaxTimes[c], b => t # None
      PROVE  [core |-> [f.core EXCEPT ![c] = b], timer |-> [f.timer EXCEPT ![c] = t],
              reds |-> f.reds, redsTimer |-> f.redsTimer,
              chest |-> f.chest, count |-> f.count, res |-> f.res, marks |-> f.marks]
                \in GoodFeatures
  <2>1. PICK core, timer : core = [f.core EXCEPT ![c] = b] /\ timer = [f.timer EXCEPT ![c] = t]
    OBVIOUS
  <2>2. core \in [Cores -> BOOLEAN] /\ timer \in [Cores -> Int]
    BY <1>1, <2>1
  <2>3. \A d \in Cores : timer[d] <= now + MaxTimes[d] /\ (core[d] => timer[d] # None)
    BY <1>1, <1>2, <1>5, <2>1 DEF Sensible
  <2> QED BY <1>4, <2>1, <2>2, <2>3
<1>6. /\ f = [core |-> f.core, timer |-> f.timer, reds |-> f.reds,
              redsTimer |-> f.redsTimer, chest |-> f.chest, count |-> f.count,
              res |-> f.res, marks |-> f.marks]
      /\ [f.core EXCEPT ![c] = f.core[c]] = f.core /\ [f.timer EXCEPT ![c] = f.timer[c]] = f.timer
  BY <1>1, FeatureParts
<1>7. ASSUME NEW b, NEW t
      PROVE  [f EXCEPT !.core[c] = b, !.timer[c] = t] =
           [core |-> [f.core EXCEPT ![c] = b], timer |-> [f.timer EXCEPT ![c] = t],
            reds |-> f.reds, redsTimer |-> f.redsTimer, chest |-> f.chest,
            count |-> f.count, res |-> f.res, marks |-> f.marks]
  <2>1. PICK g : g = [f EXCEPT !.core = [f.core EXCEPT ![c] = b]]
    OBVIOUS
  <2>2. g = [core |-> [f.core EXCEPT ![c] = b], timer |-> f.timer,
            reds |-> f.reds, redsTimer |-> f.redsTimer, chest |-> f.chest,
            count |-> f.count, res |-> f.res, marks |-> f.marks]
    BY <1>6, <2>1
  <2>3. [g EXCEPT !.timer = [g.timer EXCEPT ![c] = t]] =
           [core |-> [f.core EXCEPT ![c] = b], timer |-> [f.timer EXCEPT ![c] = t],
            reds |-> f.reds, redsTimer |-> f.redsTimer, chest |-> f.chest,
            count |-> f.count, res |-> f.res, marks |-> f.marks]
    BY <2>2
  <2>4. [f EXCEPT !.core[c] = b, !.timer[c] = t] = [g EXCEPT !.timer = [g.timer EXCEPT ![c] = t]]
    BY <2>1
  <2> QED BY <2>3, <2>4
<1>12. ASSUME NEW t
       PROVE  [f EXCEPT !.timer[c] = t] =
            [core |-> f.core, timer |-> [f.timer EXCEPT ![c] = t],
             reds |-> f.reds, redsTimer |-> f.redsTimer, chest |-> f.chest,
             count |-> f.count, res |-> f.res, marks |-> f.marks]
  <2>1. PICK timer : timer = [f.timer EXCEPT ![c] = t]
    OBVIOUS
  <2> QED BY <1>6, <2>1
<1>13. ASSUME NEW b
       PROVE  [f EXCEPT !.core[c] = b] =
            [core |-> [f.core EXCEPT ![c] = b], timer |-> f.timer,
             reds |-> f.reds, redsTimer |-> f.redsTimer, chest |-> f.chest,
             count |-> f.count, res |-> f.res, marks |-> f.marks]
  <2>1. PICK core : core = [f.core EXCEPT ![c] = b]
    OBVIOUS
  <2> QED BY <1>6, <2>1
<1>8. f.timer[c] <= now + MaxTimes[c] /\ f.timer[c] \in Int /\ f.core[c] \in BOOLEAN
  BY <1>1, <1>2 DEF Sensible
<1>9. ASSUME NEW t \in Int, t # None, t <= now + MaxTimes[c]
      PROVE  /\ [f EXCEPT !.timer[c] = t] \in GoodFeatures
             /\ [f EXCEPT !.core[c] = TRUE, !.timer[c] = t] \in GoodFeatures
  <2>1. [f EXCEPT !.timer[c] = t] \in GoodFeatures
    <3>1. [core |-> f.core, timer |-> [f.timer EXCEPT ![c] = t],
             reds |-> f.reds, redsTimer |-> f.redsTimer, chest |-> f.chest,
             count |-> f.count, res |-> f.res, marks |-> f.marks] \in GoodFeatures
      BY <1>5, <1>6, <1>8, <1>9
    <3> QED BY <1>12, <3>1, Zenon
  <2>2. PICK b \in BOOLEAN : b = TRUE
    OBVIOUS
  <2>3. [f EXCEPT !.core[c] = b, !.timer[c] = t] \in GoodFeatures
    <3>1. [core |-> [f.core EXCEPT ![c] = b], timer |-> [f.timer EXCEPT ![c] = t],
             reds |-> f.reds, redsTimer |-> f.redsTimer, chest |-> f.chest,
             count |-> f.count, res |-> f.res, marks |-> f.marks] \in GoodFeatures
      BY <1>5, <1>9
    <3> QED BY <1>7, <3>1, Zenon
  <2> QED BY <2>1, <2>2, <2>3, Zenon
<1>10. f.timer[c] # None => [f EXCEPT !.core[c] = TRUE] \in GoodFeatures
  <2>1. PICK b \in BOOLEAN : b = TRUE
    OBVIOUS
  <2>2. ASSUME f.timer[c] # None
        PROVE  [core |-> [f.core EXCEPT ![c] = b], timer |-> f.timer,
             reds |-> f.reds, redsTimer |-> f.redsTimer, chest |-> f.chest,
             count |-> f.count, res |-> f.res, marks |-> f.marks] \in GoodFeatures
    BY <1>5, <1>6, <1>8, <2>2
  <2>3. f.timer[c] # None => [f EXCEPT !.core[c] = b] \in GoodFeatures
    BY <1>13, <2>2, Zenon
  <2> QED BY <2>1, <2>3, Zenon
<1>11. [f EXCEPT !.core[c] = FALSE, !.timer[c] = None] \in GoodFeatures
  <2>1. None \in Int /\ None <= now + MaxTimes[c]
    BY <1>3 DEF None
  <2>2. PICK b \in BOOLEAN : b = FALSE
    OBVIOUS
  <2>3. [core |-> [f.core EXCEPT ![c] = b], timer |-> [f.timer EXCEPT ![c] = None],
             reds |-> f.reds, redsTimer |-> f.redsTimer, chest |-> f.chest,
             count |-> f.count, res |-> f.res, marks |-> f.marks] \in GoodFeatures
    BY <1>5, <2>1, <2>2
  <2>4. [f EXCEPT !.core[c] = b, !.timer[c] = None] \in GoodFeatures
    BY <1>7, <2>3, Zenon
  <2> QED BY <2>2, <2>4, Zenon
<1> QED BY <1>9, <1>10, <1>11

\* What it makes of the others.
LEMMA OtherEdits ==
    ASSUME now \in Nat, NEW f \in GoodFeatures
    PROVE  /\ \A seen \in BOOLEAN :
                [f EXCEPT !.reds = seen, !.redsTimer = IF seen THEN now + RedsTime ELSE None]
                  \in GoodFeatures
           /\ \A t \in Int : [f EXCEPT !.chest = t] \in GoodFeatures
           /\ \A n \in Int : [f EXCEPT !.count = n, !.marks = f.marks \ {"count"}] \in GoodFeatures
           /\ \A n \in Int : [f EXCEPT !.res = n, !.marks = f.marks \ {"res"}] \in GoodFeatures
<1>1. /\ f.core \in [Cores -> BOOLEAN] /\ f.timer \in [Cores -> Int] /\ f.reds \in BOOLEAN
      /\ f.redsTimer \in Int /\ f.chest \in Int /\ f.count \in Int /\ f.res \in Int
      /\ f.marks \in SUBSET {"count", "res"}
  BY FeatureParts DEF Feature
<1>2. /\ \A c \in Cores : f.timer[c] <= now + MaxTimes[c] /\ (f.core[c] => f.timer[c] # None)
      /\ f.redsTimer <= now + RedsTime /\ f.reds = (f.redsTimer # None)
      /\ "count" \in f.marks => f.count = 0
      /\ "res" \in f.marks => f.res = 0
  BY FeatureParts DEF Sensible
<1>3. RedsTime \in Nat
  BY ZoneDetailsAssumption
<1>4. f = [core |-> f.core, timer |-> f.timer, reds |-> f.reds,
           redsTimer |-> f.redsTimer, chest |-> f.chest, count |-> f.count,
           res |-> f.res, marks |-> f.marks]
  BY FeatureParts
<1>5. ASSUME NEW seen \in BOOLEAN, NEW t \in Int, t = IF seen THEN now + RedsTime ELSE None
      PROVE  [f EXCEPT !.reds = seen, !.redsTimer = t] \in GoodFeatures
  <2>1. [core |-> f.core, timer |-> f.timer, reds |-> seen, redsTimer |-> t, chest |-> f.chest,
         count |-> f.count, res |-> f.res, marks |-> f.marks] \in GoodFeatures
    <3>1. t <= now + RedsTime /\ seen = (t # None)
      BY <1>3, <1>5 DEF None
    <3> QED BY <1>1, <1>2, <3>1, MakeFeature
  <2>2. PICK g : g = [f EXCEPT !.reds = seen]
    OBVIOUS
  <2>3. g = [core |-> f.core, timer |-> f.timer, reds |-> seen, redsTimer |-> f.redsTimer,
            chest |-> f.chest, count |-> f.count, res |-> f.res, marks |-> f.marks]
    BY <1>4, <2>2
  <2>4. [g EXCEPT !.redsTimer = t] =
           [core |-> f.core, timer |-> f.timer, reds |-> seen, redsTimer |-> t,
            chest |-> f.chest, count |-> f.count, res |-> f.res, marks |-> f.marks]
    BY <2>3
  <2>5. [f EXCEPT !.reds = seen, !.redsTimer = t] = [g EXCEPT !.redsTimer = t]
    BY <2>2
  <2> QED BY <2>1, <2>4, <2>5
<1>6. ASSUME NEW t \in Int
      PROVE  [f EXCEPT !.chest = t] \in GoodFeatures
  <2>1. [core |-> f.core, timer |-> f.timer, reds |-> f.reds, redsTimer |-> f.redsTimer,
         chest |-> t, count |-> f.count, res |-> f.res, marks |-> f.marks] \in GoodFeatures
    BY <1>1, <1>2, MakeFeature
  <2>2. [f EXCEPT !.chest = t] =
        [core |-> f.core, timer |-> f.timer, reds |-> f.reds, redsTimer |-> f.redsTimer,
         chest |-> t, count |-> f.count, res |-> f.res, marks |-> f.marks]
    BY <1>4
  <2> QED BY <2>1, <2>2
<1>7. ASSUME NEW n \in Int
      PROVE  [f EXCEPT !.count = n, !.marks = f.marks \ {"count"}] \in GoodFeatures
  <2>1. [core |-> f.core, timer |-> f.timer, reds |-> f.reds, redsTimer |-> f.redsTimer,
         chest |-> f.chest, count |-> n, res |-> f.res, marks |-> f.marks \ {"count"}]
           \in GoodFeatures
    <3>1. PICK marks : marks = f.marks \ {"count"}
      OBVIOUS
    <3>2. /\ marks \in SUBSET {"count", "res"} /\ "count" \in marks => n = 0
          /\ "res" \in marks => f.res = 0
      BY <1>1, <1>2, <3>1
    <3> QED BY <1>1, <1>2, <3>1, <3>2, MakeFeature
  <2>2. PICK g : g = [f EXCEPT !.count = n]
    OBVIOUS
  <2>3. g = [core |-> f.core, timer |-> f.timer, reds |-> f.reds, redsTimer |-> f.redsTimer,
            chest |-> f.chest, count |-> n, res |-> f.res, marks |-> f.marks]
    BY <1>4, <2>2
  <2>4. [g EXCEPT !.marks = f.marks \ {"count"}] =
           [core |-> f.core, timer |-> f.timer, reds |-> f.reds, redsTimer |-> f.redsTimer,
            chest |-> f.chest, count |-> n, res |-> f.res, marks |-> f.marks \ {"count"}]
    BY <2>3
  <2>5. [f EXCEPT !.count = n, !.marks = f.marks \ {"count"}] = [g EXCEPT !.marks = f.marks \ {"count"}]
    BY <2>2
  <2> QED BY <2>1, <2>4, <2>5
<1>8. ASSUME NEW n \in Int
      PROVE  [f EXCEPT !.res = n, !.marks = f.marks \ {"res"}] \in GoodFeatures
  <2>1. [core |-> f.core, timer |-> f.timer, reds |-> f.reds, redsTimer |-> f.redsTimer,
         chest |-> f.chest, count |-> f.count, res |-> n, marks |-> f.marks \ {"res"}]
           \in GoodFeatures
    <3>1. PICK marks : marks = f.marks \ {"res"}
      OBVIOUS
    <3>2. /\ marks \in SUBSET {"count", "res"} /\ "res" \in marks => n = 0
          /\ "count" \in marks => f.count = 0
      BY <1>1, <1>2, <3>1
    <3> QED BY <1>1, <1>2, <3>1, <3>2, MakeFeature
  <2>2. PICK g : g = [f EXCEPT !.res = n]
    OBVIOUS
  <2>3. g = [core |-> f.core, timer |-> f.timer, reds |-> f.reds, redsTimer |-> f.redsTimer,
            chest |-> f.chest, count |-> f.count, res |-> n, marks |-> f.marks]
    BY <1>4, <2>2
  <2>4. [g EXCEPT !.marks = f.marks \ {"res"}] =
           [core |-> f.core, timer |-> f.timer, reds |-> f.reds, redsTimer |-> f.redsTimer,
            chest |-> f.chest, count |-> f.count, res |-> n, marks |-> f.marks \ {"res"}]
    BY <2>3
  <2>5. [f EXCEPT !.res = n, !.marks = f.marks \ {"res"}] = [g EXCEPT !.marks = f.marks \ {"res"}]
    BY <2>2
  <2> QED BY <2>1, <2>4, <2>5
<1>9. \A seen \in BOOLEAN :
         [f EXCEPT !.reds = seen, !.redsTimer = IF seen THEN now + RedsTime ELSE None]
           \in GoodFeatures
  <2> TAKE seen \in BOOLEAN
  <2>1. PICK t \in Int : t = IF seen THEN now + RedsTime ELSE None
    BY <1>3 DEF None
  <2> QED BY <1>5, <2>1
<1> QED BY <1>6, <1>7, <1>8, <1>9

\* What the game's data says of a zone makes sense.
LEMMA StartFeatures ==
    ASSUME now \in Nat
    PROVE  /\ NoFeatures \in GoodFeatures /\ GetInitialFeatures \in GoodFeatures
           /\ \A f \in GoodFeatures : MemoryFeatures(f) \in GoodFeatures
           /\ \A f : MemoryFeatures(MemoryFeatures(f)) = MemoryFeatures(f)
           /\ MemoryFeatures(NoFeatures) = NoFeatures
           /\ MemoryFeatures(GetInitialFeatures) = GetInitialFeatures
<1>1. PICK core, timer :
        core = [c \in Cores |-> FALSE] /\ timer = [c \in Cores |-> None]
  OBVIOUS
<1>2. /\ core \in [Cores -> BOOLEAN] /\ timer \in [Cores -> Int]
      /\ \A c \in Cores : timer[c] <= now + MaxTimes[c] /\ (core[c] => timer[c] # None)
      /\ RedsTime \in Nat /\ Known \in SUBSET {"count", "res"}
  BY <1>1, ZoneDetailsAssumption DEF None
<1>3. ASSUME NEW count \in Int, NEW res \in Int, NEW marks \in SUBSET {"count", "res"},
             "count" \in marks => count = 0, "res" \in marks => res = 0
      PROVE  [core |-> core, timer |-> timer, reds |-> FALSE, redsTimer |-> None,
              chest |-> None, count |-> count, res |-> res, marks |-> marks] \in GoodFeatures
  <2>1. None <= now + RedsTime /\ FALSE = (None # None) /\ None \in Int
    BY <1>2 DEF None
  <2> QED BY <1>2, <1>3, <2>1, MakeFeature
<1>4. NoFeatures = [core |-> core, timer |-> timer, reds |-> FALSE, redsTimer |-> None,
                    chest |-> None, count |-> None, res |-> None, marks |-> {}]
  BY <1>1 DEF NoFeatures
<1>5. ASSUME NEW count, NEW res, NEW marks
      PROVE  [NoFeatures EXCEPT !.count = count, !.res = res, !.marks = marks] =
               [core |-> core, timer |-> timer, reds |-> FALSE, redsTimer |-> None,
                chest |-> None, count |-> count, res |-> res, marks |-> marks]
  <2>1. PICK g : g = [NoFeatures EXCEPT !.count = count]
    OBVIOUS
  <2>2. g = [core |-> core, timer |-> timer, reds |-> FALSE, redsTimer |-> None,
             chest |-> None, count |-> count, res |-> None, marks |-> {}]
    BY <1>4, <2>1
  <2>3. PICK h : h = [g EXCEPT !.res = res]
    OBVIOUS
  <2>4. PICK none, off, empty : none = None /\ off = FALSE /\ empty = {}
    OBVIOUS
  <2>5. h = [core |-> core, timer |-> timer, reds |-> off, redsTimer |-> none,
             chest |-> none, count |-> count, res |-> res, marks |-> empty]
    BY <2>2, <2>3, <2>4
  <2>6. [h EXCEPT !.marks = marks] =
           [core |-> core, timer |-> timer, reds |-> off, redsTimer |-> none,
            chest |-> none, count |-> count, res |-> res, marks |-> marks]
    BY <2>5
  <2>7. [NoFeatures EXCEPT !.count = count, !.res = res, !.marks = marks] =
           [h EXCEPT !.marks = marks]
    BY <2>1, <2>3
  <2> QED BY <2>4, <2>6, <2>7, Zenon
<1>6. GetInitialFeatures =
        [core |-> core, timer |-> timer, reds |-> FALSE, redsTimer |-> None,
         chest |-> None, count |-> IF "count" \in Known THEN 0 ELSE None,
         res |-> IF "res" \in Known THEN 0 ELSE None, marks |-> Known]
  BY <1>5, Zenon DEF GetInitialFeatures
<1>13. ASSUME NEW f
       PROVE  MemoryFeatures(f) =
               [core |-> core, timer |-> timer, reds |-> FALSE, redsTimer |-> None,
                chest |-> None, count |-> f.count, res |-> f.res, marks |-> f.marks]
  BY <1>5, Zenon DEF MemoryFeatures
<1>7. NoFeatures \in GoodFeatures
  BY <1>3, <1>4 DEF None
<1>8. GetInitialFeatures \in GoodFeatures
  <2>1. PICK count \in Int : count = IF "count" \in Known THEN 0 ELSE None
    BY DEF None
  <2>2. PICK res \in Int : res = IF "res" \in Known THEN 0 ELSE None
    BY DEF None
  <2> QED BY <1>2, <1>3, <1>6, <2>1, <2>2
<1>9. ASSUME NEW f \in GoodFeatures
      PROVE  MemoryFeatures(f) \in GoodFeatures
  <2>1. /\ f.count \in Int /\ f.res \in Int /\ f.marks \in SUBSET {"count", "res"}
        /\ "count" \in f.marks => f.count = 0
        /\ "res" \in f.marks => f.res = 0
    BY FeatureParts DEF Feature, Sensible
  <2> QED BY <1>3, <1>13, <2>1
<1>10. \A f : MemoryFeatures(MemoryFeatures(f)) = MemoryFeatures(f)
  BY <1>13
<1>11. MemoryFeatures(NoFeatures) = NoFeatures
  BY <1>4, <1>13
<1>12. MemoryFeatures(GetInitialFeatures) = GetInitialFeatures
  BY <1>6, <1>13
<1> QED BY <1>7, <1>8, <1>9, <1>10, <1>11, <1>12

\* A good node given another layout and rotation stays good.
LEMMA NodeWith ==
    ASSUME NEW n \in GoodNodes
    PROVE  /\ \A f \in GoodFeatures : [n EXCEPT !.feat = f] \in GoodNodes
           /\ \A l \in GoodLayouts : [n EXCEPT !.handles = l] \in GoodNodes
           /\ \A l \in GoodLayouts, r \in 0..3 :
                n.on \/ r = 0 =>
                  [n EXCEPT !.handles = l, !.rotation = r] \in GoodNodes
<1>1. /\ n.on \in BOOLEAN /\ n.feat \in GoodFeatures
      /\ n.handles \in GoodLayouts /\ n.rotation \in 0..3
      /\ n.on \/ n.rotation = 0
      /\ n = [on |-> n.on, feat |-> n.feat, handles |-> n.handles, rotation |-> n.rotation]
  BY NodeParts
<1>2. ASSUME NEW f \in GoodFeatures
      PROVE  [n EXCEPT !.feat = f] \in GoodNodes
  <2>1. [n EXCEPT !.feat = f] =
          [on |-> n.on, feat |-> f, handles |-> n.handles, rotation |-> n.rotation]
    BY <1>1
  <2>2. [on |-> n.on, feat |-> f, handles |-> n.handles, rotation |-> n.rotation] \in GoodNodes
    BY <1>1, MakeNode
  <2> QED BY <2>1, <2>2, Zenon
<1>3. ASSUME NEW l \in GoodLayouts, NEW r \in 0..3, n.on \/ r = 0
      PROVE  [n EXCEPT !.handles = l, !.rotation = r] \in GoodNodes
  <2>1. [n EXCEPT !.handles = l, !.rotation = r] =
          [on |-> n.on, feat |-> n.feat, handles |-> l, rotation |-> r]
    <3>1. PICK h : h = [n EXCEPT !.handles = l]
      OBVIOUS
    <3>2. h = [on |-> n.on, feat |-> n.feat, handles |-> l, rotation |-> n.rotation]
      BY <1>1, <3>1
    <3>3. [h EXCEPT !.rotation = r] =
            [on |-> n.on, feat |-> n.feat, handles |-> l, rotation |-> r]
      BY <3>2
    <3>4. [n EXCEPT !.handles = l, !.rotation = r] = [h EXCEPT !.rotation = r]
      BY <3>1
    <3> QED BY <3>3, <3>4
  <2>2. [on |-> n.on, feat |-> n.feat, handles |-> l, rotation |-> r] \in GoodNodes
    BY <1>1, <1>3, MakeNode
  <2> QED BY <2>1, <2>2, Zenon
<1>4. ASSUME NEW l \in GoodLayouts
      PROVE  [n EXCEPT !.handles = l] \in GoodNodes
  <2>1. [n EXCEPT !.handles = l] =
          [on |-> n.on, feat |-> n.feat, handles |-> l, rotation |-> n.rotation]
    BY <1>1
  <2>2. [on |-> n.on, feat |-> n.feat, handles |-> l, rotation |-> n.rotation] \in GoodNodes
    BY <1>1, <1>4, MakeNode
  <2> QED BY <2>1, <2>2, Zenon
<1> QED BY <1>2, <1>3, <1>4

\* What a message is made of.
LEMMA MakeMessage ==
    ASSUME NEW kind \in {"save", "rotate", "turn"}, NEW by \in Members, NEW nr \in Nat,
           NEW f \in GoodFeatures, NEW l \in GoodLayouts, NEW r \in 0..3
    PROVE  [kind |-> kind, by |-> by, nr |-> nr, feat |-> f, handles |-> l,
            rotation |-> r] \in GoodMessages
BY Zenon DEF GoodMessages

\* Copies and saves stay as they are while neither copies nor messages change.
LEMMA StaleSame ==
    ASSUME ZoneInv, UNCHANGED <<shape, view>>, up' \subseteq up, fixed \subseteq fixed'
    PROVE  StaleInv'
<1>1. Shaped' = Shaped
  BY DEF Shaped
<1> QED BY <1>1 DEF ZoneInv, StaleInv, Upright

\* Nothing the rest of the invariant speaks of is touched by a save's sending.
LEMMA SendSaveKeeps ==
    ASSUME ZoneInv, NEW m \in Members, NEW node \in GoodNodes, SendSave(m, node),
           m \notin fixed => Upright(node),
           active' \in [Members -> Cores \union {"none"}]
    PROVE  ZoneInv'
<1>1. /\ UNCHANGED <<apart, untold, shape, now, row, memory, editor, fixed, resets, after, down, backs>>
      /\ edits' = edits + 1 /\ view' = [view EXCEPT ![m] = node]
  BY DEF SendSave
<1>2. /\ GoodNodes' = GoodNodes /\ GoodEntries' = GoodEntries
      /\ GoodMessages' = GoodMessages /\ GoodEditors' = GoodEditors
      /\ \A n : RotationError(n)' = RotationError(n)
  BY <1>1, GoodSame
<1>3. view' \in [Members -> GoodNodes]
  BY <1>1 DEF ZoneInv, TypeOK
<1>4. up' \subseteq GoodMessages
  <2>1. /\ node.feat \in GoodFeatures /\ node.handles \in GoodLayouts /\ node.rotation \in 0..3
    BY NodeParts
  <2>2. edits \in Nat /\ up \subseteq GoodMessages
    BY DEF ZoneInv, TypeOK
  <2>3. [kind |-> "save", by |-> m, nr |-> edits, feat |-> node.feat,
         handles |-> node.handles, rotation |-> node.rotation] \in GoodMessages
    BY <2>1, <2>2, MakeMessage
  <2>4. up' = up \union {[kind |-> "save", by |-> m, nr |-> edits, feat |-> node.feat,
                          handles |-> node.handles, rotation |-> node.rotation]}
    BY Zenon DEF SendSave
  <2> QED BY <2>2, <2>3, <2>4
<1>5. TypeOK'
  BY <1>1, <1>2, <1>3, <1>4 DEF ZoneInv, TypeOK
<1>6. HistoryInv'
  BY <1>1 DEF ZoneInv, HistoryInv
<1>7. HealInv'
  BY <1>1, <1>2 DEF ZoneInv, HealInv
<1>8. StaleInv'
  <2>1. Shaped' = Shaped
    BY <1>1 DEF Shaped
  <2>2. \A k \in Members : view'[k] = IF k = m THEN node ELSE view[k]
    BY <1>1 DEF ZoneInv, TypeOK
  <2>3. \A k \in Members \ fixed' : Upright(view[k])'
    BY <1>1, <2>1, <2>2 DEF ZoneInv, StaleInv, Upright
  <2>4. PICK sent : sent = [kind |-> "save", by |-> m, nr |-> edits, feat |-> node.feat,
                            handles |-> node.handles, rotation |-> node.rotation]
    OBVIOUS
  <2>5. sent.by = m /\ sent.handles = node.handles /\ sent.rotation = node.rotation
    BY <2>4
  <2>6. up' = up \union {sent}
    BY <2>4, Zenon DEF SendSave
  <2>7. ASSUME NEW t \in up', t.kind = "save", t.by \notin fixed'
        PROVE  Upright(t)'
    BY <1>1, <2>1, <2>5, <2>6, <2>7 DEF ZoneInv, StaleInv, Upright
  <2> QED BY <2>3, <2>7 DEF StaleInv
<1> QED BY <1>5, <1>6, <1>7, <1>8 DEF ZoneInv

\* An edit that makes sense keeps the invariant.
LEMMA UpdateNodeFeaturesKeeps ==
    ASSUME ZoneInv, NEW m \in Members, NEW f \in GoodFeatures, UpdateNodeFeatures(m, f),
           active' \in [Members -> Cores \union {"none"}]
    PROVE  ZoneInv'
<1>1. view[m] \in GoodNodes
  BY DEF ZoneInv, TypeOK
<1>2. PICK node \in GoodNodes : node = [view[m] EXCEPT !.feat = f]
  BY <1>1, NodeWith
<1>3. SendSave(m, node)
  BY <1>2, Zenon DEF UpdateNodeFeatures
<1>4. m \notin fixed => Upright(node)
  <2>1. PICK n \in GoodNodes : n = view[m]
    BY <1>1
  <2>2. n = [on |-> n.on, feat |-> n.feat, handles |-> n.handles, rotation |-> n.rotation]
    BY NodeParts
  <2>3. node = [on |-> n.on, feat |-> f, handles |-> n.handles, rotation |-> n.rotation]
    BY <1>2, <2>1, <2>2
  <2>4. node.handles = n.handles /\ node.rotation = n.rotation
    BY <2>3
  <2> QED BY <2>1, <2>4 DEF ZoneInv, StaleInv, Upright
<1> QED BY <1>3, <1>4, SendSaveKeeps

\* The panel's edits of a core.
LEMMA CoreNotesKeep ==
    ASSUME ZoneInv, NEW m \in Members,
           \/ \E c \in Cores : ToggleFeature(m, c)
           \/ SaveTimer(m) \/ ClearTimer(m) \/ UnlockCore(m) \/ LockCore(m)
    PROVE  ZoneInv'
<1>1. /\ now \in Nat /\ view[m].feat \in GoodFeatures
      /\ active \in [Members -> Cores \union {"none"}]
  BY NodeParts DEF ZoneInv, TypeOK
<1>2. PICK f \in GoodFeatures : f = view[m].feat
  BY <1>1
<1>3. f.timer \in [Cores -> Int] /\ \A c \in Cores : MaxTimes[c] \in Nat
  BY FeatureParts, ZoneDetailsAssumption DEF Feature
<1>4. \A c \in Cores : /\ [active EXCEPT ![m] = c] \in [Members -> Cores \union {"none"}]
                       /\ [active EXCEPT ![m] = "none"] \in [Members -> Cores \union {"none"}]
  BY <1>1
<1>5. ASSUME NEW c \in Cores, ToggleFeature(m, c)
      PROVE  ZoneInv'
  <2>1. PICK restart : restart = [f EXCEPT !.core[c] = TRUE, !.timer[c] = now + MaxTimes[c]]
    OBVIOUS
  <2>2. PICK on : on = [f EXCEPT !.core[c] = TRUE]
    OBVIOUS
  <2>3. /\ \/ UpdateNodeFeatures(m, restart)
           \/ UpdateNodeFeatures(m, IF f.timer[c] = None \/ Expired(f.timer[c])
                                    THEN restart ELSE on)
        /\ active' = [active EXCEPT ![m] = c]
    BY <1>2, <1>5, <2>1, <2>2, Zenon DEF ToggleFeature
  <2>4. restart \in GoodFeatures
    <3>1. PICK t \in Int : t = now + MaxTimes[c]
      BY <1>1, <1>3
    <3>2. t # None /\ t <= now + MaxTimes[c]
      BY <1>1, <1>3, <3>1 DEF None
    <3>3. [f EXCEPT !.core[c] = TRUE, !.timer[c] = t] \in GoodFeatures
      BY <1>1, <3>2, CoreEdits, Zenon
    <3> QED BY <2>1, <3>1, <3>3
  <2>5. f.timer[c] # None => on \in GoodFeatures
    BY <1>1, <2>2, CoreEdits, Zenon
  <2>6. PICK g \in GoodFeatures : UpdateNodeFeatures(m, g)
    BY <2>3, <2>4, <2>5, Zenon
  <2> QED BY <1>4, <2>3, <2>6, UpdateNodeFeaturesKeeps
<1>6. CASE SaveTimer(m)
  <2>1. PICK c \in Cores : \E t \in TimerValue(view[m].feat, c) :
          /\ ~IsTimerTooLong(c, t)
          /\ UpdateNodeFeatures(m,
               IF t = None THEN [view[m].feat EXCEPT !.core[c] = FALSE, !.timer[c] = None]
               ELSE [view[m].feat EXCEPT !.timer[c] = now + t])
          /\ active' = [active EXCEPT ![m] = "none"]
    BY <1>6, Zenon DEF SaveTimer
  <2>2. PICK t \in TimerValue(f, c) :
          /\ ~IsTimerTooLong(c, t)
          /\ UpdateNodeFeatures(m,
               IF t = None THEN [f EXCEPT !.core[c] = FALSE, !.timer[c] = None]
               ELSE [f EXCEPT !.timer[c] = now + t])
          /\ active' = [active EXCEPT ![m] = "none"]
    BY <1>2, <2>1, Zenon
  <2>3. t \in Nat \/ t = None
    BY <1>1, <1>3, ZoneDetailsAssumption DEF TimerValue
  <2>4. PICK g \in GoodFeatures : UpdateNodeFeatures(m, g)
    <3>1. CASE t = None
      BY <1>1, <2>2, <3>1, CoreEdits, Zenon
    <3>2. CASE t # None
      <4>1. PICK u \in Int : u = now + t
        BY <1>1, <2>3, <3>2
      <4>2. u # None /\ u <= now + MaxTimes[c]
        BY <1>1, <1>3, <2>2, <2>3, <3>2, <4>1 DEF None, IsTimerTooLong
      <4>3. [f EXCEPT !.timer[c] = u] \in GoodFeatures
        BY <1>1, <4>2, CoreEdits, Zenon
      <4> QED BY <2>2, <3>2, <4>1, <4>3, Zenon
    <3> QED BY <3>1, <3>2
  <2> QED BY <1>4, <2>2, <2>4, UpdateNodeFeaturesKeeps
<1>7. CASE ClearTimer(m)
  <2>1. PICK c \in Cores :
          /\ UpdateNodeFeatures(m, [f EXCEPT !.core[c] = FALSE, !.timer[c] = None])
          /\ active' = [active EXCEPT ![m] = "none"]
    BY <1>2, <1>7, Zenon DEF ClearTimer
  <2>2. PICK g \in GoodFeatures : UpdateNodeFeatures(m, g)
    BY <1>1, <2>1, CoreEdits, Zenon
  <2> QED BY <1>4, <2>1, <2>2, UpdateNodeFeaturesKeeps
<1>8. CASE UnlockCore(m)
  <2>1. PICK c \in Cores :
          /\ UpdateNodeFeatures(m, [f EXCEPT !.timer[c] = now])
          /\ active' = [active EXCEPT ![m] = "none"]
    BY <1>2, <1>8, Zenon DEF UnlockCore
  <2>2. now \in Int /\ now # None /\ now <= now + MaxTimes[c]
    BY <1>1, <1>3 DEF None
  <2>3. PICK g \in GoodFeatures : UpdateNodeFeatures(m, g)
    BY <1>1, <2>1, <2>2, CoreEdits, Zenon
  <2> QED BY <1>4, <2>1, <2>3, UpdateNodeFeaturesKeeps
<1>9. CASE LockCore(m)
  <2>1. PICK c \in Cores :
          /\ UpdateNodeFeatures(m, [f EXCEPT !.timer[c] = now + MaxTimes[c]])
          /\ UNCHANGED active
    BY <1>2, <1>9, Zenon DEF LockCore
  <2>2. PICK t \in Int : t = now + MaxTimes[c]
    BY <1>1, <1>3
  <2>3. t # None /\ t <= now + MaxTimes[c]
    BY <1>1, <1>3, <2>2 DEF None
  <2>4. [f EXCEPT !.timer[c] = t] \in GoodFeatures
    BY <1>1, <2>3, CoreEdits, Zenon
  <2>5. PICK g \in GoodFeatures : UpdateNodeFeatures(m, g)
    BY <2>1, <2>2, <2>4, Zenon
  <2> QED BY <1>1, <2>1, <2>5, UpdateNodeFeaturesKeeps
<1> QED BY <1>5, <1>6, <1>7, <1>8, <1>9

\* Its edits of all the rest.
LEMMA OtherNotesKeep ==
    ASSUME ZoneInv, NEW m \in Members,
           \/ ToggleReds(m) \/ EnterReds(m) \/ SaveChest(m) \/ ClearChest(m)
           \/ SetFeatureCount(m) \/ SetResourceCount(m) \/ ClearResource(m)
           \/ HandleMarkAsCorrect(m)
    PROVE  ZoneInv'
<1>1. /\ now \in Nat /\ view[m].feat \in GoodFeatures
      /\ active \in [Members -> Cores \union {"none"}]
  BY NodeParts DEF ZoneInv, TypeOK
<1>2. PICK f \in GoodFeatures : f = view[m].feat
  BY <1>1
<1>3. f.reds \in BOOLEAN
  BY FeatureParts DEF Feature
<1>4. active' = active
  <2>1. CASE ToggleReds(m)
    BY <2>1 DEF ToggleReds, UpdateReds
  <2>2. CASE EnterReds(m)
    BY <2>2 DEF EnterReds, UpdateReds
  <2>3. CASE SaveChest(m)
    BY <2>3 DEF SaveChest, UpdateChest
  <2>4. CASE ClearChest(m)
    BY <2>4 DEF ClearChest, UpdateChest
  <2>5. CASE SetFeatureCount(m) \/ SetResourceCount(m)
    BY <2>5 DEF SetFeatureCount, SetResourceCount
  <2>6. CASE ClearResource(m) \/ HandleMarkAsCorrect(m)
    BY <2>6 DEF ClearResource, HandleMarkAsCorrect
  <2> QED BY <2>1, <2>2, <2>3, <2>4, <2>5, <2>6
<1>5. ASSUME NEW seen \in BOOLEAN, UpdateReds(m, seen)
      PROVE  \E g \in GoodFeatures : UpdateNodeFeatures(m, g)
  <2>1. UpdateNodeFeatures(m, [f EXCEPT !.reds = seen,
                                 !.redsTimer = IF seen THEN now + RedsTime ELSE None])
    BY <1>2, <1>5, Zenon DEF UpdateReds
  <2> QED BY <1>1, <2>1, OtherEdits, Zenon
<1>6. ASSUME NEW t \in Int, UpdateChest(m, t)
      PROVE  \E g \in GoodFeatures : UpdateNodeFeatures(m, g)
  <2>1. UpdateNodeFeatures(m, [f EXCEPT !.chest = t])
    BY <1>2, <1>6, Zenon DEF UpdateChest
  <2> QED BY <1>1, <2>1, OtherEdits, Zenon
<1>7. CASE ToggleReds(m) \/ EnterReds(m)
  <2>1. PICK seen \in BOOLEAN : UpdateReds(m, seen)
    BY <1>2, <1>3, <1>7 DEF ToggleReds, EnterReds
  <2> QED BY <1>1, <1>4, <1>5, <2>1, UpdateNodeFeaturesKeeps
<1>8. CASE SaveChest(m) \/ ClearChest(m)
  <2>1. PICK t \in Int : UpdateChest(m, t)
    <3>1. CASE SaveChest(m)
      <4>1. PICK t \in Typed : UpdateChest(m, now + t)
        BY <3>1 DEF SaveChest
      <4>2. now + t \in Int
        BY <1>1, ZoneDetailsAssumption
      <4> QED BY <4>1, <4>2
    <3>2. CASE ClearChest(m)
      BY <3>2 DEF ClearChest, None
    <3> QED BY <1>8, <3>1, <3>2
  <2> QED BY <1>1, <1>4, <1>6, <2>1, UpdateNodeFeaturesKeeps
<1>9. CASE SetFeatureCount(m)
  <2>1. PICK n \in Counts :
          UpdateNodeFeatures(m, [f EXCEPT !.count = IF n > 0 THEN n ELSE None,
                                          !.marks = f.marks \ {"count"}])
    BY <1>2, <1>9, Zenon DEF SetFeatureCount
  <2>2. PICK k \in Int : k = IF n > 0 THEN n ELSE None
    BY DEF Counts, None
  <2>3. [f EXCEPT !.count = k, !.marks = f.marks \ {"count"}] \in GoodFeatures
    BY <1>1, OtherEdits, Zenon
  <2>4. PICK g \in GoodFeatures : UpdateNodeFeatures(m, g)
    BY <2>1, <2>2, <2>3, Zenon
  <2> QED BY <1>1, <1>4, <2>4, UpdateNodeFeaturesKeeps
<1>10. CASE SetResourceCount(m)
  <2>1. PICK n \in Counts :
          UpdateNodeFeatures(m, [f EXCEPT !.res = IF n > 0 THEN n ELSE None,
                                          !.marks = f.marks \ {"res"}])
    BY <1>2, <1>10, Zenon DEF SetResourceCount
  <2>2. PICK k \in Int : k = IF n > 0 THEN n ELSE None
    BY DEF Counts, None
  <2>3. [f EXCEPT !.res = k, !.marks = f.marks \ {"res"}] \in GoodFeatures
    BY <1>1, OtherEdits, Zenon
  <2>4. PICK g \in GoodFeatures : UpdateNodeFeatures(m, g)
    BY <2>1, <2>2, <2>3, Zenon
  <2> QED BY <1>1, <1>4, <2>4, UpdateNodeFeaturesKeeps
<1>11. CASE ClearResource(m)
  <2>1. UpdateNodeFeatures(m, [f EXCEPT !.res = None, !.marks = f.marks \ {"res"}])
    BY <1>2, <1>11, Zenon DEF ClearResource
  <2>2. None \in Int
    BY DEF None
  <2>3. PICK g \in GoodFeatures : UpdateNodeFeatures(m, g)
    BY <1>1, <2>1, <2>2, OtherEdits, Zenon
  <2> QED BY <1>1, <1>4, <2>3, UpdateNodeFeaturesKeeps
<1>12. CASE HandleMarkAsCorrect(m)
  <2>1. UpdateNodeFeatures(m, f)
    BY <1>2, <1>12, Zenon DEF HandleMarkAsCorrect
  <2> QED BY <1>1, <1>4, <2>1, UpdateNodeFeaturesKeeps
<1> QED BY <1>7, <1>8, <1>9, <1>10, <1>11, <1>12

-----------------------------------------------------------------------------
(* The portals' editor.                                                     *)

\* A hideout's own handles are a layout.
LEMMA HideoutLayout == GetDefaultHandles("hideout") \in Layout
<1>1. PICK l : l = GetDefaultHandles("hideout")
  OBVIOUS
<1>2. DOMAIN l = {"n", "e", "s", "w"} /\ l = [id \in DOMAIN l |-> l[id]]
  BY <1>1 DEF GetDefaultHandles
<1>3. l["n"] \in Handle /\ l["e"] \in Handle
  BY <1>1 DEF GetDefaultHandles, Handle, Pos
<1>4. l["s"] \in Handle /\ l["w"] \in Handle
  BY <1>1 DEF GetDefaultHandles, Handle, Pos
<1>5. l \in [DOMAIN l -> Handle]
  BY <1>2, <1>3, <1>4
<1> QED BY <1>1, <1>2, <1>5, LayoutFacts DEF Ids

\* The handles a zone starts with tell their rotation exactly.
LEMMA Defaults ==
    ASSUME NEW s
    PROVE  /\ GetDefaultHandles(s) \in Layout /\ Exact(s, GetDefaultHandles(s))
           /\ s \in DOMAIN ShapePositions => GetDefaultHandles(s) # NoHandles
<1>1. CASE s \in DOMAIN ShapePositions
  <2>1. GetDefaultHandles(s) = GetShapeHandlePositions(s)
    BY <1>1, NamedShapes DEF GetDefaultHandles
  <2>2. PICK default \in [ShapeIdSet -> Handle] : default = GetShapeHandlePositions(s)
    BY <1>1, ShapeFacts
  <2>3. default \in Layout
    BY <2>2, LayoutFacts DEF ShapeIdSet, Ids
  <2>4. default # NoHandles
    <3>1. DOMAIN default # {} /\ DOMAIN NoHandles = {}
      BY <2>2 DEF ShapeIdSet, NoHandles
    <3> QED BY <3>1
  <2>5. Exact(s, default)
    BY <1>1, <2>2, DefaultsTurnedByNone DEF Exact
  <2> QED BY <2>1, <2>2, <2>3, <2>4, <2>5
<1>2. CASE s = "hideout"
  BY <1>2, HideoutLayout, NamedShapes DEF Exact
<1>3. CASE s \notin DOMAIN ShapePositions /\ s # "hideout"
  <2>1. GetDefaultHandles(s) = NoHandles
    BY <1>3, NoShape DEF GetDefaultHandles
  <2> QED BY <1>3, <2>1, NoHandlesExact
<1> QED BY <1>1, <1>2, <1>3

\* Only where the shape's handles are counts.
LEMMA SameShapeHandles ==
    ASSUME NEW s, NEW l, NEW h, Exact(s, l), ShapeIdSet \intersect DOMAIN h \subseteq DOMAIN l,
           \A id \in ShapeIdSet \intersect DOMAIN l : id \in DOMAIN h /\ h[id].at = l[id].at
    PROVE  Exact(s, h)
<1>1. ASSUME s \in DOMAIN ShapePositions, NEW id \in ShapeIdSet, id \notin DOMAIN l
      PROVE  Exact(s, h)
  BY <1>1 DEF Exact
<1>2. ASSUME s \in DOMAIN ShapePositions, NEW k \in 0..3, TurnedBy(s, l, k)
      PROVE  Exact(s, h)
  <2>1. DOMAIN GetShapeHandlePositions(s) = ShapeIdSet
    BY <1>2, ShapeFacts
  <2>2. TurnedBy(s, h, k)
    BY <1>2, <2>1 DEF TurnedBy
  <2> QED BY <1>2, <2>2 DEF Exact
<1> QED BY <1>1, <1>2 DEF Exact

\* An editor is its parts.
LEMMA EditorParts ==
    ASSUME NEW e \in GoodEditors
    PROVE  /\ e.open \in BOOLEAN /\ e.handles \in GoodLayouts /\ e.rotation \in 0..3
           /\ Shaped /\ e.open => e.handles # NoHandles
           /\ e = [open |-> e.open, handles |-> e.handles, rotation |-> e.rotation]
BY DEF GoodEditors

\* What an editor is made of.
LEMMA MakeEditor ==
    ASSUME NEW open \in BOOLEAN, NEW l \in GoodLayouts, NEW r \in 0..3,
           Shaped /\ open => l # NoHandles
    PROVE  [open |-> open, handles |-> l, rotation |-> r] \in GoodEditors
BY DEF GoodEditors

\* An editor given another layout, and another rotation too.
GivenLayout(e, l) == [e EXCEPT !.handles = l]
TurnedWith(e, r, l) == [e EXCEPT !.rotation = r, !.handles = l]

\* It stays good.
LEMMA EditorWith ==
    ASSUME NEW e \in GoodEditors, NEW l \in GoodLayouts, NEW r \in 0..3,
           Shaped => l # NoHandles,
           NEW a, a = GivenLayout(e, l) \/ a = TurnedWith(e, r, l)
    PROVE  a \in GoodEditors /\ a.handles = l
<1>1. PICK open \in BOOLEAN, handles \in GoodLayouts, rotation \in 0..3 :
        e = [open |-> open, handles |-> handles, rotation |-> rotation]
  BY EditorParts
<1>2. /\ [open |-> open, handles |-> l, rotation |-> r] \in GoodEditors
      /\ [open |-> open, handles |-> l, rotation |-> rotation] \in GoodEditors
  BY MakeEditor
<1>3. /\ GivenLayout(e, l) = [open |-> open, handles |-> l, rotation |-> rotation]
      /\ TurnedWith(e, r, l) = [open |-> open, handles |-> l, rotation |-> r]
  <2>1. GivenLayout(e, l) = [open |-> open, handles |-> l, rotation |-> rotation]
    BY <1>1 DEF GivenLayout
  <2>2. PICK d : d = [e EXCEPT !.rotation = r]
    OBVIOUS
  <2>3. d = [open |-> open, handles |-> handles, rotation |-> r]
    BY <1>1, <2>2
  <2>4. [d EXCEPT !.handles = l] = [open |-> open, handles |-> l, rotation |-> r]
    BY <2>3
  <2>5. TurnedWith(e, r, l) = [d EXCEPT !.handles = l]
    BY <2>2 DEF TurnedWith
  <2> QED BY <2>1, <2>4, <2>5
<1>4. \/ a = [open |-> open, handles |-> l, rotation |-> r]
      \/ a = [open |-> open, handles |-> l, rotation |-> rotation]
  BY <1>3, Zenon
<1> QED BY <1>2, <1>4

\* An edit leaves a layout that tells its rotation exactly, if it has all the
\* shape's handles, and a zone with a shape never without handles.
LEMMA EditedHandlesGood ==
    ASSUME NEW e \in GoodEditors, Shaped => e.handles # NoHandles, NEW d \in EditedHandles(e)
    PROVE  d \in GoodEditors /\ (Shaped => d.handles # NoHandles)
<1>1. PICK l \in GoodLayouts : l = e.handles
  BY EditorParts
<1>2. /\ l \in Layout /\ Exact(shape, l) /\ l \in [DOMAIN l -> Handle] /\ DOMAIN l \subseteq Ids
      /\ e.rotation \in 0..3
  BY LayoutFacts, EditorParts DEF GoodLayouts
<1>3. ASSUME NEW h \in Layout, Exact(shape, h), Shaped => h # NoHandles, NEW r \in 0..3,
             d = [e EXCEPT !.handles = h] \/ d = [e EXCEPT !.rotation = r, !.handles = h]
      PROVE  d \in GoodEditors /\ (Shaped => d.handles # NoHandles)
  <2>1. h \in GoodLayouts
    BY <1>3 DEF GoodLayouts
  <2>2. d = GivenLayout(e, h) \/ d = TurnedWith(e, r, h)
    BY <1>3 DEF GivenLayout, TurnedWith
  <2> QED BY <1>3, <2>1, <2>2, EditorWith
<1>4. ~IsToggleMode => /\ ~Shaped
                       /\ \A h : Exact(shape, h)
  BY ShapedIs, NamedShapes DEF IsToggleMode, Exact
<1>5. CASE \E id \in IF IsToggleMode THEN Switches \intersect DOMAIN e.handles ELSE {} :
             d = [e EXCEPT !.handles[id].off = ~@]
  <2>1. PICK id \in DOMAIN l : d = [e EXCEPT !.handles[id].off = ~@]
    BY <1>1, <1>5
  <2>2. l[id] \in Handle /\ l[id].off \in BOOLEAN /\ l[id].at \in Pos
    BY <1>2 DEF Handle
  <2>3. PICK x \in Handle : x = [l[id] EXCEPT !.off = ~l[id].off] /\ x.at = l[id].at
    <3>1. PICK g, b : g = l[id] /\ b = ~l[id].off
      OBVIOUS
    <3>2. g \in Handle /\ b \in BOOLEAN
      BY <2>2, <3>1
    <3>3. [g EXCEPT !.off = b] \in Handle /\ [g EXCEPT !.off = b].at = g.at
      BY <3>2 DEF Handle
    <3> QED BY <3>1, <3>3, Zenon
  <2>4. PICK h : h = [l EXCEPT ![id] = x]
    OBVIOUS
  <2>5. DOMAIN h = DOMAIN l /\ h \in [DOMAIN h -> Handle]
    BY <1>2, <2>4
  <2>6. h \in Layout
    BY <1>2, <2>5, LayoutFacts
  <2>7. \A i \in DOMAIN l : h[i].at = l[i].at
    BY <1>2, <2>3, <2>4
  <2>8. Exact(shape, h)
    BY <1>2, <2>5, <2>7, SameShapeHandles
  <2>9. h # NoHandles
    <3>1. DOMAIN h # {} /\ DOMAIN NoHandles = {}
      BY <2>5 DEF NoHandles
    <3> QED BY <3>1
  <2>10. d = [e EXCEPT !.handles = h]
    BY <1>1, <2>1, <2>3, <2>4
  <2> QED BY <1>2, <1>3, <2>6, <2>8, <2>9, <2>10
<1>6. CASE \E spot \in IF IsToggleMode THEN {} ELSE Spots :
             d = [e EXCEPT !.handles = [id \in DOMAIN @ \union {"own"} |->
                    IF id = "own" THEN [at |-> spot, off |-> FALSE] ELSE @[id]]]
  <2>1. PICK spot \in Spots :
             d = [e EXCEPT !.handles = [id \in DOMAIN e.handles \union {"own"} |->
                    IF id = "own" THEN [at |-> spot, off |-> FALSE] ELSE e.handles[id]]]
    BY <1>6
  <2>2. ~IsToggleMode
    BY <1>6
  <2>3. PICK x \in Handle : x = [at |-> spot, off |-> FALSE]
    BY ZoneDetailsAssumption DEF Handle, Pos
  <2>4. PICK h : h = [id \in DOMAIN l \union {"own"} |-> IF id = "own" THEN x ELSE l[id]]
    OBVIOUS
  <2>5. DOMAIN h = DOMAIN l \union {"own"} /\ h \in [DOMAIN h -> Handle]
    BY <1>2, <2>4
  <2>6. h \in Layout
    BY <1>2, <2>5, LayoutFacts DEF Ids
  <2>7. d = [e EXCEPT !.handles = h]
    BY <1>1, <2>1, <2>3, <2>4, Zenon
  <2> QED BY <1>2, <1>3, <1>4, <2>2, <2>6, <2>7
<1>7. CASE \E id \in IF IsToggleMode THEN {} ELSE {"own", "n"} \intersect DOMAIN e.handles :
             d = [e EXCEPT !.handles = OnlyIds(@, DOMAIN @ \ {id})]
  <2>1. PICK id : d = [e EXCEPT !.handles = OnlyIds(e.handles, DOMAIN e.handles \ {id})]
    BY <1>7
  <2>2. ~IsToggleMode
    BY <1>7
  <2>3. PICK h : h = OnlyIds(l, DOMAIN l \ {id})
    OBVIOUS
  <2>4. DOMAIN h \subseteq DOMAIN l /\ h \in [DOMAIN h -> Handle]
    BY <1>2, <2>3 DEF OnlyIds
  <2>5. h \in Layout
    BY <1>2, <2>4, LayoutFacts
  <2>6. d = [e EXCEPT !.handles = h]
    BY <1>1, <2>1, <2>3, Zenon
  <2> QED BY <1>2, <1>3, <1>4, <2>2, <2>5, <2>6
<1>8. CASE \E next \in IF shape = "hideout" THEN {}
                       ELSE {RotateClockwise(e.rotation), RotateCounterClockwise(e.rotation)} :
             d = [e EXCEPT !.rotation = next,
                    !.handles = IF IsToggleMode
                                THEN CanonicalizeHandlesForRotation(shape, e.handles, next)
                                ELSE [id \in DOMAIN e.handles |->
                                        [e.handles[id] EXCEPT !.at =
                                           TurnedAlong(@, next - e.rotation)]]]
  <2>1. PICK next \in {RotateClockwise(e.rotation), RotateCounterClockwise(e.rotation)} :
             d = [e EXCEPT !.rotation = next,
                    !.handles = IF IsToggleMode
                                THEN CanonicalizeHandlesForRotation(shape, e.handles, next)
                                ELSE [id \in DOMAIN e.handles |->
                                        [e.handles[id] EXCEPT !.at =
                                           TurnedAlong(e.handles[id].at, next - e.rotation)]]]
    BY <1>8, Zenon
  <2>2. next \in 0..3
    BY <1>2 DEF RotateClockwise, RotateCounterClockwise
  <2>3. CASE IsToggleMode
    <3>1. PICK h : h = CanonicalizeHandlesForRotation(shape, l, next)
      OBVIOUS
    <3>2. h \in Layout /\ Exact(shape, h)
      BY <1>2, <2>2, <3>1, Canonical, CanonicalExact
    <3>3. Shaped => h # NoHandles
      BY <1>1, <1>2, <2>2, <3>1, Canonical, ShapedIs
    <3>4. d = [e EXCEPT !.rotation = next, !.handles = h]
      BY <1>1, <2>1, <2>3, <3>1, Zenon
    <3> QED BY <1>3, <2>2, <3>2, <3>3, <3>4
  <2>4. CASE ~IsToggleMode
    <3>1. PICK k \in Int : k = next - e.rotation
      BY <1>2, <2>2
    <3>2. PICK h : h = [id \in DOMAIN l |-> [l[id] EXCEPT !.at = TurnedAlong(l[id].at, k)]]
      OBVIOUS
    <3>3. ASSUME NEW id \in DOMAIN l
          PROVE  h[id] \in Handle
      <4>1. l[id] \in Handle /\ l[id].at \in Pos
        BY <1>2 DEF Handle
      <4>2. TurnedAlong(l[id].at, k) \in Pos
        BY <4>1, AlongAnywhere
      <4> QED BY <3>2, <4>1, <4>2 DEF Handle
    <3>4. DOMAIN h = DOMAIN l /\ h \in [DOMAIN h -> Handle]
      BY <3>2, <3>3
    <3>5. h \in Layout
      BY <1>2, <3>4, LayoutFacts
    <3>6. d = [e EXCEPT !.rotation = next, !.handles = h]
      BY <1>1, <2>1, <2>4, <3>1, <3>2, Zenon
    <3> QED BY <1>3, <1>4, <2>2, <2>4, <3>5, <3>6
  <2> QED BY <2>3, <2>4
<1> QED BY <1>5, <1>6, <1>7, <1>8, Zenon DEF EditedHandles

\* What only changes members' pages and what they send keeps the invariant, if
\* all they have and send is good.
LEMMA PagesKeep ==
    ASSUME ZoneInv, UNCHANGED <<apart, untold, shape, now, row, memory, fixed, after, down, backs>>,
           view' \in [Members -> GoodNodes], editor' \in [Members -> GoodEditors],
           active' \in [Members -> Cores \union {"none"}],
           resets' \subseteq Members, up' \subseteq GoodMessages, edits' \in Nat,
           StaleInv'
    PROVE  ZoneInv'
<1>1. /\ GoodNodes' = GoodNodes /\ GoodEntries' = GoodEntries
      /\ GoodMessages' = GoodMessages /\ GoodEditors' = GoodEditors
      /\ \A n : RotationError(n)' = RotationError(n)
  BY GoodSame
<1>2. TypeOK'
  BY <1>1 DEF ZoneInv, TypeOK
<1>3. HistoryInv'
  BY DEF ZoneInv, HistoryInv
<1>4. HealInv'
  BY <1>1 DEF ZoneInv, HealInv
<1> QED BY <1>2, <1>3, <1>4 DEF ZoneInv

\* No handles are a good layout.
LEMMA NoHandlesGood == NoHandles \in GoodLayouts
BY NoHandlesExact DEF GoodLayouts

\* A closed editor is a good one.
LEMMA ClosedGood == Closed \in GoodEditors
<1>1. PICK l \in GoodLayouts, r \in 0..3 : l = NoHandles /\ r = 0
  BY NoHandlesGood
<1>2. PICK open \in BOOLEAN : open = FALSE
  OBVIOUS
<1>3. [open |-> open, handles |-> l, rotation |-> r] \in GoodEditors
  BY <1>2, MakeEditor
<1> QED BY <1>1, <1>2, <1>3, Zenon DEF Closed

\* The messages the editor sends are good ones.
LEMMA SendRotateGood ==
    ASSUME now \in Nat, NEW m \in Members, NEW kind \in {"rotate", "turn"}, NEW nr \in Nat,
           NEW l \in GoodLayouts, NEW r \in 0..3
    PROVE  SendRotate(m, kind, nr, l, r) \in GoodMessages
<1>1. kind \in {"save", "rotate", "turn"} /\ kind # "save" /\ NoFeatures \in GoodFeatures
  BY StartFeatures
<1>2. [kind |-> kind, by |-> m, nr |-> nr, feat |-> NoFeatures, handles |-> l,
       rotation |-> r] \in GoodMessages
  BY <1>1, MakeMessage
<1> QED BY <1>2, Zenon DEF SendRotate

\* Opening the editor, saving it, giving the zone a portal, deleting its history
\* and resetting its portals keep the invariant.
LEMMA OpenHandleEditorKeeps ==
    ASSUME ZoneInv, NEW m \in Members, OpenHandleEditor(m)
    PROVE  ZoneInv'
<1>1. PICK node \in GoodNodes : node = view[m]
  BY DEF ZoneInv, TypeOK
<1>2. PICK l : l = GetInitialHandles(node)
  OBVIOUS
<1>3. l \in GoodLayouts /\ (Shaped => l # NoHandles)
  BY <1>2, Defaults, NodeParts, ShapedIs DEF GetInitialHandles, GoodLayouts
<1>4. [open |-> TRUE, rotation |-> node.rotation, handles |-> l] \in GoodEditors
  <2>1. node.rotation \in 0..3
    BY NodeParts
  <2>2. [open |-> TRUE, handles |-> l, rotation |-> node.rotation] \in GoodEditors
    BY <1>3, <2>1, MakeEditor
  <2>3. [open |-> TRUE, rotation |-> node.rotation, handles |-> l] =
        [open |-> TRUE, handles |-> l, rotation |-> node.rotation]
    OBVIOUS
  <2> QED BY <2>2, <2>3, Zenon
<1>5. editor' = [editor EXCEPT ![m] =
        [open |-> TRUE, rotation |-> node.rotation, handles |-> l]]
  BY <1>1, <1>2, Zenon DEF OpenHandleEditor
<1>6. PICK e \in GoodEditors : editor' = [editor EXCEPT ![m] = e]
  BY <1>4, <1>5, Zenon
<1>7. editor' \in [Members -> GoodEditors]
  BY <1>6 DEF ZoneInv, TypeOK
<1>8. /\ UNCHANGED <<apart, untold, shape, now, row, memory, fixed, after, down, backs>>
      /\ UNCHANGED <<view, active, resets, up, edits>>
  BY DEF OpenHandleEditor
<1>9. StaleInv'
  BY <1>8, StaleSame
<1> QED BY <1>7, <1>8, <1>9, PagesKeep DEF ZoneInv, TypeOK

\* Turning a copy to a layout of its own, or to none and no rotation, with the
\* message that goes with it, leaves no copy to be repaired.
LEMMA TurnedPageKeeps ==
    ASSUME ZoneInv, UNCHANGED <<shape, fixed>>, NEW m \in Members,
           NEW k, view' = [view EXCEPT ![m] = k], Upright(k),
           NEW kind \in {"rotate", "turn"}, NEW nr, NEW l, NEW r,
           up' = up \union {SendRotate(m, kind, nr, l, r)}
    PROVE  StaleInv'
<1>1. Shaped' = Shaped
  BY DEF Shaped
<1>2. \A j \in Members : view'[j] = IF j = m THEN k ELSE view[j]
  BY DEF ZoneInv, TypeOK
<1>3. SendRotate(m, kind, nr, l, r).kind # "save"
  BY DEF SendRotate
<1>4. ASSUME NEW s \in up', s.kind = "save", s.by \notin fixed'
      PROVE  Upright(s)'
  BY <1>1, <1>3, <1>4 DEF ZoneInv, StaleInv, Upright
<1>5. ASSUME NEW j \in Members, j \notin fixed'
      PROVE  Upright(view[j])'
  BY <1>1, <1>2, <1>5 DEF ZoneInv, StaleInv, Upright
<1> QED BY <1>4, <1>5 DEF StaleInv

\* Saving what the editor holds.
LEMMA SaveZoneHandlesKeeps ==
    ASSUME ZoneInv, NEW m \in Members, SaveZoneHandles(m)
    PROVE  ZoneInv'
<1>1. PICK e0 \in GoodEditors : e0 = editor[m] /\ (Shaped => e0.handles # NoHandles)
  BY EditorParts DEF ZoneInv, TypeOK, SaveZoneHandles
<1>2. PICK first \in EditedHandles(e0) : \E e \in EditedHandles(first) \union {first} :
        /\ view' = [view EXCEPT ![m].handles = e.handles, ![m].rotation = e.rotation]
        /\ up' = up \union {SendRotate(m, "rotate", edits, e.handles, e.rotation)}
  BY <1>1, Zenon DEF SaveZoneHandles
<1>3. PICK e \in EditedHandles(first) \union {first} :
        /\ view' = [view EXCEPT ![m].handles = e.handles, ![m].rotation = e.rotation]
        /\ up' = up \union {SendRotate(m, "rotate", edits, e.handles, e.rotation)}
  BY <1>2
<1>4. first \in GoodEditors /\ (Shaped => first.handles # NoHandles)
  BY <1>1, EditedHandlesGood
<1>5. e \in GoodEditors /\ (Shaped => e.handles # NoHandles)
  BY <1>4, EditedHandlesGood
<1>6. PICK l \in GoodLayouts, r \in 0..3 :
        l = e.handles /\ r = e.rotation /\ (Shaped => l # NoHandles)
  BY <1>5, EditorParts
<1>7. /\ view' \in [Members -> GoodNodes]
      /\ \E k : /\ view' = [view EXCEPT ![m] = k]
               /\ k.handles = l /\ k.rotation = r
  <2>1. view \in [Members -> GoodNodes]
    BY DEF ZoneInv, TypeOK
  <2>2. PICK n \in GoodNodes : n = view[m] /\ n.on
    BY <2>1 DEF SaveZoneHandles, MayEdit
  <2>3. PICK k \in GoodNodes : k = [n EXCEPT !.handles = l, !.rotation = r]
    BY <1>6, <2>2, NodeWith
  <2>4. PICK once : once = [view EXCEPT ![m] = [n EXCEPT !.handles = l]]
    OBVIOUS
  <2>5. once[m] = [n EXCEPT !.handles = l]
    BY <2>1, <2>4
  <2>6. view' = [once EXCEPT ![m] = [once[m] EXCEPT !.rotation = r]]
    BY <1>3, <1>6, <2>2, <2>4, Zenon
  <2>7. k = [once[m] EXCEPT !.rotation = r]
    BY <2>3, <2>5, Zenon
  <2>8. view' = [once EXCEPT ![m] = k]
    BY <2>6, <2>7, Zenon
  <2>9. view' = [view EXCEPT ![m] = k]
    BY <2>1, <2>4, <2>8
  <2>10. k.handles = l /\ k.rotation = r
    <3>1. n = [on |-> n.on, feat |-> n.feat, handles |-> n.handles, rotation |-> n.rotation]
      BY NodeParts
    <3> QED BY <2>3, <3>1
  <2>11. view' \in [Members -> GoodNodes]
    BY <2>1, <2>9
  <2> QED BY <2>9, <2>10, <2>11
<1>8. up' \subseteq GoodMessages
  <2>1. edits \in Nat /\ now \in Nat /\ up \subseteq GoodMessages
    BY DEF ZoneInv, TypeOK
  <2>2. SendRotate(m, "rotate", edits, l, r) \in GoodMessages
    BY <2>1, SendRotateGood
  <2> QED BY <1>3, <1>6, <2>1, <2>2
<1>9. editor' \in [Members -> GoodEditors]
  BY ClosedGood DEF SaveZoneHandles, ZoneInv, TypeOK
<1>10. edits' \in Nat /\ active' = active /\ resets' = resets
  BY DEF SaveZoneHandles, ZoneInv, TypeOK
<1>11. UNCHANGED <<apart, untold, shape, now, row, memory, fixed, after, down, backs>>
  BY DEF SaveZoneHandles
<1>12. StaleInv'
  <2>1. PICK k : view' = [view EXCEPT ![m] = k] /\ k.handles = l /\ k.rotation = r
    BY <1>7
  <2>2. Upright(k)
    BY <1>6, <2>1 DEF Upright
  <2>3. up' = up \union {SendRotate(m, "rotate", edits, l, r)}
    BY <1>3, <1>6, Zenon
  <2> QED BY <1>11, <2>1, <2>2, <2>3, TurnedPageKeeps
<1> QED BY <1>7, <1>8, <1>9, <1>10, <1>11, <1>12, PagesKeep DEF ZoneInv, TypeOK

\* A portal in the middle is none of the shape's.
LEMMA UpdateNodeHandlePositionKeeps ==
    ASSUME ZoneInv, NEW m \in Members, UpdateNodeHandlePosition(m)
    PROVE  ZoneInv'
<1>1. PICK n \in GoodNodes : n = view[m]
  BY DEF ZoneInv, TypeOK
<1>2. PICK l \in GoodLayouts : l = n.handles
  BY NodeParts
<1>3. l \in [DOMAIN l -> Handle] /\ DOMAIN l \subseteq Ids /\ Exact(shape, l)
  BY LayoutFacts DEF GoodLayouts
<1>4. PICK x \in Handle : x = [at |-> Centre, off |-> FALSE]
  <2>1. Centre \in Pos
    BY DEF Centre, Side, Pos
  <2> QED BY <2>1 DEF Handle
<1>5. PICK h : h = [id \in DOMAIN l \union {"center"} |-> IF id = "center" THEN x ELSE l[id]]
  OBVIOUS
<1>6. DOMAIN h = DOMAIN l \union {"center"} /\ h \in [DOMAIN h -> Handle]
  BY <1>3, <1>5
<1>7. h \in GoodLayouts
  <2>1. h \in Layout
    BY <1>3, <1>6, LayoutFacts DEF Ids
  <2>2. "center" \notin ShapeIdSet
    BY DEF ShapeIdSet
  <2>3. \A id \in ShapeIdSet \intersect DOMAIN l : id \in DOMAIN h /\ h[id].at = l[id].at
    BY <1>5, <2>2
  <2>4. Exact(shape, h)
    BY <1>3, <1>6, <2>2, <2>3, SameShapeHandles
  <2> QED BY <2>1, <2>4 DEF GoodLayouts
<1>8. h # NoHandles
  <2>1. DOMAIN h # {} /\ DOMAIN NoHandles = {}
    BY <1>6 DEF NoHandles
  <2> QED BY <2>1
<1>9. PICK node \in GoodNodes : node = [n EXCEPT !.handles = h]
  BY <1>7, NodeWith
<1>10. SendSave(m, node) /\ UNCHANGED active
  <2>1. SendSave(m, [n EXCEPT !.handles = h])
    BY <1>1, <1>2, <1>4, <1>5, Zenon DEF UpdateNodeHandlePosition
  <2> QED BY <1>9, <2>1, Zenon DEF UpdateNodeHandlePosition
<1>11. active' \in [Members -> Cores \union {"none"}]
  BY <1>10 DEF ZoneInv, TypeOK
<1>12. Upright(node)
  <2>1. n = [on |-> n.on, feat |-> n.feat, handles |-> n.handles, rotation |-> n.rotation]
    BY NodeParts
  <2>2. node.handles = h
    BY <1>9, <2>1
  <2> QED BY <1>8, <2>2 DEF Upright
<1> QED BY <1>10, <1>11, <1>12, SendSaveKeeps

\* No node and no entry are good ones.
LEMMA GoneGood ==
    ASSUME ZoneInv
    PROVE  Gone \in GoodNodes /\ NoMemory \in GoodEntries /\ ~NoMemory.there
<1>1. PICK l \in GoodLayouts, r \in 0..3, f \in GoodFeatures :
        l = NoHandles /\ r = 0 /\ f = NoFeatures /\ f = MemoryFeatures(f)
  BY NoHandlesGood, StartFeatures DEF ZoneInv, TypeOK
<1>2. PICK off \in BOOLEAN : off = FALSE
  OBVIOUS
<1>3. [on |-> off, feat |-> f, handles |-> l, rotation |-> r] \in GoodNodes
  BY <1>1, MakeNode
<1>4. Gone \in GoodNodes
  BY <1>1, <1>2, <1>3, Zenon DEF Gone
<1>5. PICK e : e = [there |-> off, feat |-> f, handles |-> l, rotation |-> r]
  OBVIOUS
<1>6. e \in GoodEntries /\ ~e.there
  BY <1>1, <1>2, <1>5 DEF GoodEntries
<1>7. NoMemory = e
  BY <1>1, <1>2, <1>5, Zenon DEF NoMemory
<1> QED BY <1>4, <1>6, <1>7

\* Deleting the entry.
LEMMA DeleteHistoryKeeps ==
    ASSUME ZoneInv, NEW m \in Members, DeleteHistory(m)
    PROVE  ZoneInv'
<1>1. /\ UNCHANGED <<apart, untold, shape, now, row, view, active, editor, fixed, up, after, down,
                     backs>>
      /\ memory' = NoMemory /\ edits' = edits + 1
      /\ resets' \in {resets, resets \union {m}}
  BY DEF DeleteHistory
<1>2. /\ GoodNodes' = GoodNodes /\ GoodEntries' = GoodEntries
      /\ GoodMessages' = GoodMessages /\ GoodEditors' = GoodEditors
      /\ \A n : RotationError(n)' = RotationError(n)
  BY <1>1, GoodSame
<1>3. NoMemory \in GoodEntries
  BY GoneGood
<1>4. TypeOK'
  BY <1>1, <1>2, <1>3 DEF ZoneInv, TypeOK
<1>5. HistoryInv'
  <2>1. ~NoMemory.there
    BY DEF NoMemory
  <2> QED BY <1>1, <2>1 DEF ZoneInv, HistoryInv
<1>6. HealInv'
  BY <1>1, <1>2 DEF ZoneInv, HealInv
<1>7. StaleInv'
  BY <1>1, StaleSame
<1> QED BY <1>4, <1>5, <1>6, <1>7 DEF ZoneInv

\* Resetting the portals.
LEMMA ResetZonePortalsKeeps ==
    ASSUME ZoneInv, NEW m \in Members, ResetZonePortals(m)
    PROVE  ZoneInv'
<1>1. /\ UNCHANGED <<apart, untold, shape, now, row, memory, fixed, after, down, backs>>
      /\ UNCHANGED <<active, editor, edits>>
      /\ resets' = resets \ {m}
  BY DEF ResetZonePortals
<1>2. /\ view' = view /\ up' = up
      \/ /\ view' = [view EXCEPT ![m].handles = NoHandles, ![m].rotation = 0]
         /\ up' = up \union {SendRotate(m, "turn", edits, NoHandles, 0)}
  BY DEF ResetZonePortals
<1>3. /\ view' \in [Members -> GoodNodes]
      /\ \/ view' = view /\ up' = up
         \/ /\ \E k : view' = [view EXCEPT ![m] = k] /\ k.rotation = 0
            /\ up' = up \union {SendRotate(m, "turn", edits, NoHandles, 0)}
  <2>1. view \in [Members -> GoodNodes]
    BY DEF ZoneInv, TypeOK
  <2>2. PICK n \in GoodNodes : n = view[m]
    BY <2>1
  <2>9. n = [on |-> n.on, feat |-> n.feat, handles |-> n.handles, rotation |-> n.rotation]
    BY NodeParts
  <2>3. PICK k \in GoodNodes : k = [n EXCEPT !.handles = NoHandles, !.rotation = 0]
    <3>1. PICK l \in GoodLayouts, r \in 0..3 : l = NoHandles /\ r = 0
      BY NoHandlesGood
    <3>2. [n EXCEPT !.handles = l, !.rotation = r] \in GoodNodes
      BY <3>1, NodeWith
    <3> QED BY <3>1, <3>2, Zenon
  <2>4. PICK once : once = [view EXCEPT ![m] = [n EXCEPT !.handles = NoHandles]]
    OBVIOUS
  <2>5. once[m] = [n EXCEPT !.handles = NoHandles]
    BY <2>1, <2>4
  <2>6. CASE /\ view' = [view EXCEPT ![m].handles = NoHandles, ![m].rotation = 0]
             /\ up' = up \union {SendRotate(m, "turn", edits, NoHandles, 0)}
    <3>1. view' = [once EXCEPT ![m] = [once[m] EXCEPT !.rotation = 0]]
      BY <2>2, <2>4, <2>6, Zenon
    <3>2. k = [once[m] EXCEPT !.rotation = 0]
      BY <2>3, <2>5, Zenon
    <3>3. view' = [once EXCEPT ![m] = k]
      BY <3>1, <3>2, Zenon
    <3>4. view' = [view EXCEPT ![m] = k]
      BY <2>1, <2>4, <3>3
    <3>5. k.rotation = 0
      BY <2>3, <2>9
    <3>6. view' \in [Members -> GoodNodes]
      BY <2>1, <3>4
    <3> QED BY <2>6, <3>4, <3>5, <3>6
  <2> QED BY <1>2, <2>1, <2>6
<1>4. up' \subseteq GoodMessages
  <2>1. edits \in Nat /\ now \in Nat /\ up \subseteq GoodMessages
    BY DEF ZoneInv, TypeOK
  <2>2. SendRotate(m, "turn", edits, NoHandles, 0) \in GoodMessages
    BY <2>1, SendRotateGood, NoHandlesGood
  <2> QED BY <1>2, <2>1, <2>2
<1>5. StaleInv'
  <2>1. CASE view' = view /\ up' = up
    BY <1>1, <2>1, StaleSame
  <2>2. CASE ~(view' = view /\ up' = up)
    <3>1. PICK k : view' = [view EXCEPT ![m] = k] /\ k.rotation = 0
      BY <1>3, <2>2
    <3>2. up' = up \union {SendRotate(m, "turn", edits, NoHandles, 0)}
      BY <1>3, <2>2
    <3>3. Upright(k)
      BY <3>1 DEF Upright
    <3>4. PICK kind \in {"rotate", "turn"}, l \in {NoHandles}, r \in {0} : kind = "turn"
      OBVIOUS
    <3>5. up' = up \union {SendRotate(m, kind, edits, l, r)}
      BY <3>2, <3>4, Zenon
    <3> QED BY <1>1, <3>1, <3>3, <3>5, TurnedPageKeeps
  <2> QED BY <2>1, <2>2
<1> QED BY <1>1, <1>3, <1>4, <1>5, PagesKeep DEF ZoneInv, TypeOK

-----------------------------------------------------------------------------
(* What the server writes.                                                  *)

\* A message is its parts.
LEMMA MessageParts ==
    ASSUME NEW s \in GoodMessages
    PROVE  /\ s.kind \in {"save", "rotate", "turn"} /\ s.by \in Members /\ s.nr \in Nat
           /\ s.feat \in GoodFeatures /\ s.handles \in GoodLayouts /\ s.rotation \in 0..3
           /\ s = [kind |-> s.kind, by |-> s.by, nr |-> s.nr, feat |-> s.feat,
                   handles |-> s.handles, rotation |-> s.rotation]
BY DEF GoodMessages

\* An entry of the history is its parts.
LEMMA EntryParts ==
    ASSUME NEW e \in GoodEntries
    PROVE  /\ e.there \in BOOLEAN /\ e.feat \in GoodFeatures
           /\ e.handles \in GoodLayouts /\ e.rotation \in 0..3
           /\ e.feat = MemoryFeatures(e.feat) /\ (~e.there => e.feat = NoFeatures)
           /\ e = [there |-> e.there, feat |-> e.feat, handles |-> e.handles,
                   rotation |-> e.rotation]
BY DEF GoodEntries

\* What an entry is made of.
LEMMA MakeEntry ==
    ASSUME NEW f \in GoodFeatures, NEW l \in GoodLayouts, NEW r \in 0..3,
           f = MemoryFeatures(f)
    PROVE  [there |-> TRUE, feat |-> f, handles |-> l, rotation |-> r] \in GoodEntries
<1>1. PICK e : e = [there |-> TRUE, feat |-> f, handles |-> l, rotation |-> r]
  OBVIOUS
<1>2. /\ e.there /\ e.feat = f /\ e.handles = l /\ e.rotation = r
      /\ e \in [there : BOOLEAN, feat : GoodFeatures, handles : GoodLayouts, rotation : 0..3]
  BY <1>1
<1>3. e \in GoodEntries
  BY <1>2 DEF GoodEntries
<1> QED BY <1>1, <1>3

\* The layout is the zone's shape, turned as far as the node says.
Faithful(n) ==
  Shaped => IF n.handles = NoHandles THEN n.rotation = 0
            ELSE TurnedBy(shape, n.handles, n.rotation)

\* A node that is faithful has no contradiction and its shape is turned.
LEMMA FaithfulNodes ==
    ASSUME NEW n, n.rotation \in 0..3, Faithful(n)
    PROVE  ~RotationError(n) /\ (Shaped => IsTurnedShape(n))
<1>1. CASE ~Shaped
  BY <1>1 DEF RotationError
<1>2. CASE Shaped /\ n.handles = NoHandles
  BY <1>2 DEF RotationError, IsTurnedShape, Faithful
<1>3. CASE Shaped /\ n.handles # NoHandles
  <2>7. PICK l : l = n.handles
    OBVIOUS
  <2>1. PICK s \in DOMAIN ShapePositions, k \in 0..3 :
          s = shape /\ k = n.rotation /\ TurnedBy(s, l, k)
    BY <1>3, <2>7, ShapedIs DEF Faithful
  <2>2. InferRotationForZone(s, l) = k
    BY <2>1, InferTurned
  <2>3. PICK default : default = GetShapeHandlePositions(s)
    OBVIOUS
  <2>4. ASSUME NEW id \in DOMAIN default
        PROVE  id \in DOMAIN l /\ l[id].at = Turned(k, default[id].at)
    <3>1. id \in DOMAIN l /\ l[id].at = TurnedAlong(default[id].at, k)
      BY <2>1, <2>3 DEF TurnedBy
    <3>2. Drawn(default[id].at)
      BY <2>3, ShapeFacts
    <3> QED BY <3>1, <3>2, TurnAlong
  <2>5. IsTurnedShape(n)
    BY <1>3, <2>1, <2>3, <2>4, <2>7, Zenon DEF IsTurnedShape
  <2>6. ~RotationError(n)
    BY <1>3, <2>1, <2>2, <2>7 DEF RotationError
  <2> QED BY <2>5, <2>6
<1> QED BY <1>1, <1>2, <1>3

\* Zones whose shape has no handles tell no rotation.
LEMMA InferShapeless ==
    ASSUME NEW s, s \notin DOMAIN ShapePositions, NEW l
    PROVE  InferRotationForZone(s, l) = NoRotation
<1>1. DOMAIN GetShapeHandlePositions(s) = {}
  BY NoShape DEF NoHandles
<1>2. ASSUME NEW actual, NEW default, DOMAIN default = {}
      PROVE  InferRotationFromHandles(actual, default) = NoRotation
  BY <1>2 DEF InferRotationFromHandles
<1> QED BY <1>1, <1>2 DEF InferRotationForZone

\* A save leaves layout and rotation in agreement, unless it has a rotation and
\* no layout.
LEMMA HealedGood ==
    ASSUME NEW l \in GoodLayouts, NEW r \in 0..3, NEW h, h = Healed(l, r)
    PROVE  /\ h.handles \in GoodLayouts /\ h.rotation \in 0..3
           /\ \/ Faithful(h)
              \/ /\ Shaped /\ l = NoHandles /\ r # 0
                 /\ h.handles = NoHandles /\ h.rotation = r
<1>1. l \in Layout /\ Exact(shape, l)
  BY DEF GoodLayouts
<1>2. CASE shape = "hideout" \/ l = NoHandles
  <2>1. h.handles = l /\ h.rotation = r
    BY <1>2 DEF Healed
  <2>2. shape = "hideout" => ~Shaped
    BY ShapedIs, NamedShapes
  <2> QED BY <1>2, <2>1, <2>2 DEF Faithful
<1>3. CASE /\ shape # "hideout" /\ l # NoHandles
           /\ InferRotationForZone(shape, l) = NoRotation
  <2>1. PICK c : c = CanonicalizeHandlesForRotation(shape, l, r)
    OBVIOUS
  <2>2. h.handles = c /\ h.rotation = r
    BY <1>3, <2>1 DEF Healed
  <2>3. c \in GoodLayouts
    BY <1>1, <2>1, Canonical, CanonicalExact DEF GoodLayouts
  <2>4. Shaped => TurnedBy(shape, c, r) /\ c # NoHandles
    BY <1>1, <1>3, <2>1, Canonical, ShapedIs
  <2> QED BY <2>2, <2>3, <2>4 DEF Faithful
<1>4. CASE /\ shape # "hideout" /\ l # NoHandles
           /\ InferRotationForZone(shape, l) # NoRotation
  <2>1. PICK k : k = InferRotationForZone(shape, l)
    OBVIOUS
  <2>2. h.handles = l /\ h.rotation = k
    BY <1>4, <2>1 DEF Healed
  <2>3. shape \in DOMAIN ShapePositions
    BY <1>4, InferShapeless
  <2>4. k \in 0..3 /\ TurnedBy(shape, l, k)
    BY <1>1, <1>4, <2>1, <2>3, InferExact
  <2> QED BY <1>4, <2>2, <2>4 DEF Faithful
<1> QED BY <1>2, <1>3, <1>4

\* A broadcast reaches all it is for, last.
LEMMA BroadcastSends ==
    ASSUME ZoneInv, NEW to, NEW node \in GoodNodes, Broadcast(to, node)
    PROVE  /\ down' \in [Members -> Seq(GoodNodes)]
           /\ \A m \in Members \intersect to :
                down'[m] # << >> /\ down'[m][Len(down'[m])] = node
<1>1. \A m \in Members : down[m] \in Seq(GoodNodes)
  BY DEF ZoneInv, TypeOK
<1>2. \A m \in Members : down'[m] = IF m \in to THEN Append(down[m], node) ELSE down[m]
  BY DEF Broadcast
<1>3. ASSUME NEW q \in Seq(GoodNodes)
      PROVE  /\ Append(q, node) \in Seq(GoodNodes) /\ Append(q, node) # << >>
             /\ Append(q, node)[Len(Append(q, node))] = node
  BY AppendProperties
<1>4. down' = [m \in Members |-> IF m \in to THEN Append(down[m], node) ELSE down[m]]
  BY DEF Broadcast
<1> QED BY <1>1, <1>2, <1>3, <1>4

\* A save is written as it was healed, and told.
LEMMA CommitSaveWrites ==
    ASSUME ZoneInv, CommitSave
    PROVE  /\ row' \in GoodNodes
           /\ \/ Faithful(row')
              \/ \E s \in up :
                   /\ s.kind = "save" /\ s.by \in fixed /\ s.handles = NoHandles
                   /\ row'.handles = NoHandles /\ row'.rotation = s.rotation
                   /\ \A m \in Members \ {s.by} :
                        down'[m] # << >> /\ down'[m][Len(down'[m])] = row'
           /\ up' \subseteq up
           /\ \E saved \in GoodMessages :
                /\ saved.kind = "save" /\ after' = after \union {saved}
                /\ row'.feat = saved.feat /\ row'.handles = saved.handles
           /\ apart' = (after # {}) /\ untold' = FALSE
           /\ down' \in [Members -> Seq(GoodNodes)]
<1>1. PICK s \in up :
        /\ s.kind = "save"
        /\ row' = [on |-> TRUE, feat |-> s.feat,
                   handles |-> [s EXCEPT !.handles = Healed(s.handles, s.rotation).handles,
                                         !.rotation = Healed(s.handles, s.rotation).rotation].handles,
                   rotation |-> [s EXCEPT !.handles = Healed(s.handles, s.rotation).handles,
                                          !.rotation = Healed(s.handles, s.rotation).rotation].rotation]
        /\ up' = up \ {s}
        /\ after' = after \union
             {[s EXCEPT !.handles = Healed(s.handles, s.rotation).handles,
                        !.rotation = Healed(s.handles, s.rotation).rotation]}
        /\ Broadcast(Members \ {s.by}, row')
        /\ apart' = (after # {}) /\ untold' = FALSE
  BY Zenon DEF CommitSave
<1>2. s \in GoodMessages
  BY DEF ZoneInv, TypeOK
<1>3. /\ s.feat \in GoodFeatures /\ s.handles \in GoodLayouts /\ s.rotation \in 0..3
      /\ s.by \in Members /\ s.nr \in Nat
      /\ s = [kind |-> s.kind, by |-> s.by, nr |-> s.nr, feat |-> s.feat,
              handles |-> s.handles, rotation |-> s.rotation]
  BY <1>1, <1>2, MessageParts
<1>4. PICK h : h = Healed(s.handles, s.rotation)
  OBVIOUS
<1>5. PICK l \in GoodLayouts, r \in 0..3 :
        /\ l = h.handles /\ r = h.rotation
        /\ \/ Faithful(h)
           \/ /\ Shaped /\ s.handles = NoHandles /\ s.rotation # 0
              /\ l = NoHandles /\ r = s.rotation
  BY <1>3, <1>4, HealedGood
<1>6. PICK saved : saved = [s EXCEPT !.handles = l, !.rotation = r]
  OBVIOUS
<1>7. saved = [kind |-> s.kind, by |-> s.by, nr |-> s.nr, feat |-> s.feat,
               handles |-> l, rotation |-> r]
  <2>1. PICK half : half = [s EXCEPT !.handles = l]
    OBVIOUS
  <2>2. half = [kind |-> s.kind, by |-> s.by, nr |-> s.nr, feat |-> s.feat,
                handles |-> l, rotation |-> s.rotation]
    BY <1>3, <2>1
  <2>3. saved = [half EXCEPT !.rotation = r]
    BY <1>6, <2>1
  <2> QED BY <2>2, <2>3
<1>8. saved \in GoodMessages
  <2>1. s.kind \in {"save", "rotate", "turn"}
    BY <1>1
  <2> QED BY <1>3, <1>5, <1>7, <2>1, MakeMessage
<1>9. saved.kind = "save" /\ saved.feat = s.feat /\ saved.handles = l /\ saved.rotation = r
  BY <1>1, <1>7
<1>10. after' = after \union {saved}
  BY <1>1, <1>4, <1>5, <1>6, Zenon
<1>11. row' = [on |-> TRUE, feat |-> s.feat, handles |-> saved.handles,
               rotation |-> saved.rotation]
  BY <1>1, <1>4, <1>5, <1>6, Zenon
<1>12. PICK node : node = row'
  OBVIOUS
<1>13. /\ node.feat = s.feat /\ node.handles = l /\ node.rotation = r
       /\ node = [on |-> TRUE, feat |-> s.feat, handles |-> l, rotation |-> r]
  BY <1>9, <1>11, <1>12
<1>14. node \in GoodNodes
  BY <1>3, <1>5, <1>13, MakeNode
<1>16. /\ down' \in [Members -> Seq(GoodNodes)]
       /\ \A m \in Members \ {s.by} :
            down'[m] # << >> /\ down'[m][Len(down'[m])] = node
  <2>1. Broadcast(Members \ {s.by}, node)
    BY <1>1, <1>12, Zenon
  <2> QED BY <1>14, <2>1, BroadcastSends
<1>15. \/ Faithful(node)
       \/ /\ s.by \in fixed /\ s.handles = NoHandles
          /\ node.handles = NoHandles /\ node.rotation = s.rotation
  <2>1. CASE Faithful(h)
    BY <1>5, <1>13, <2>1 DEF Faithful
  <2>2. CASE ~Faithful(h)
    <3>1. /\ Shaped /\ s.handles = NoHandles /\ s.rotation # 0
          /\ l = NoHandles /\ r = s.rotation
      BY <1>5, <2>2
    <3>2. ~Upright(s)
      BY <3>1 DEF Upright
    <3>3. s.by \in fixed
      BY <1>1, <3>2 DEF ZoneInv, StaleInv
    <3> QED BY <1>13, <3>1, <3>3
  <2> QED BY <2>1, <2>2
<1> QED BY <1>1, <1>8, <1>9, <1>10, <1>12, <1>13, <1>14, <1>15, <1>16

\* A save keeps the invariant: it is the one whose write to the history is due.
LEMMA CommitSaveKeeps ==
    ASSUME ZoneInv, CommitSave
    PROVE  ZoneInv'
<1>1. UNCHANGED <<shape, now, memory, view, active, editor, fixed, resets, edits, backs>>
  BY DEF CommitSave
<1>2. /\ GoodNodes' = GoodNodes /\ GoodEntries' = GoodEntries
      /\ GoodMessages' = GoodMessages /\ GoodEditors' = GoodEditors
      /\ \A n : RotationError(n)' = RotationError(n)
  BY <1>1, GoodSame
<1>3. PICK saved \in GoodMessages :
        /\ saved.kind = "save" /\ after' = after \union {saved}
        /\ row'.feat = saved.feat /\ row'.handles = saved.handles
  BY CommitSaveWrites
<1>4. TypeOK'
  <2>1. apart' \in BOOLEAN /\ untold' \in BOOLEAN
    BY CommitSaveWrites
  <2> QED BY <1>1, <1>2, <1>3, <2>1, CommitSaveWrites DEF ZoneInv, TypeOK
<1>5. HistoryInv'
  BY <1>3, CommitSaveWrites DEF ZoneInv, HistoryInv
<1>6. HealInv'
  <2>1. PICK node \in GoodNodes : node = row'
    BY CommitSaveWrites
  <2>2. CASE Faithful(node)
    <3>1. ~RotationError(node)
      BY <2>2, FaithfulNodes, NodeParts
    <3>2. ~RotationError(row)'
      BY <1>2, <2>1, <3>1 DEF RotationError
    <3> QED BY <3>2 DEF HealInv
  <2>3. CASE ~Faithful(node)
    <3>1. PICK s \in up :
            /\ s.by \in fixed
            /\ \A m \in Members \ {s.by} :
                 down'[m] # << >> /\ down'[m][Len(down'[m])] = row'
      BY <2>1, <2>3, CommitSaveWrites
    <3> QED BY <1>1, <3>1 DEF HealInv
  <2> QED BY <2>2, <2>3
<1>7. StaleInv'
  BY <1>1, CommitSaveWrites, StaleSame
<1> QED BY <1>4, <1>5, <1>6, <1>7 DEF ZoneInv

\* So does that write.
LEMMA RememberSaveKeeps ==
    ASSUME ZoneInv, RememberSave
    PROVE  ZoneInv'
<1>1. /\ UNCHANGED <<apart, untold, shape, now, row, view, active, editor, fixed, resets, up,
                     down, edits, backs>>
      /\ \E s \in after :
           /\ after' = after \ {s}
           /\ memory' = [there |-> TRUE, feat |-> MemoryFeatures(s.feat), rotation |-> s.rotation,
                         handles |-> IF s.handles = NoHandles THEN memory.handles ELSE s.handles]
  BY DEF RememberSave
<1>2. /\ GoodNodes' = GoodNodes /\ GoodEntries' = GoodEntries
      /\ GoodMessages' = GoodMessages /\ GoodEditors' = GoodEditors
      /\ \A n : RotationError(n)' = RotationError(n)
  BY <1>1, GoodSame
<1>3. PICK s \in after :
           /\ after' = after \ {s}
           /\ memory' = [there |-> TRUE, feat |-> MemoryFeatures(s.feat), rotation |-> s.rotation,
                         handles |-> IF s.handles = NoHandles THEN memory.handles ELSE s.handles]
  BY <1>1
<1>4. /\ s \in GoodMessages /\ s.kind = "save"
      /\ memory \in GoodEntries /\ now \in Nat
  BY DEF ZoneInv, TypeOK
<1>5. PICK l : l = IF s.handles = NoHandles THEN memory.handles ELSE s.handles
  OBVIOUS
<1>6. l \in GoodLayouts /\ s.rotation \in 0..3 /\ s.feat \in GoodFeatures
  BY <1>4, <1>5, MessageParts, EntryParts
<1>7. PICK f \in GoodFeatures : f = MemoryFeatures(s.feat) /\ f = MemoryFeatures(f)
  BY <1>4, <1>6, StartFeatures
<1>8. PICK e : e = [there |-> TRUE, feat |-> f, handles |-> l, rotation |-> s.rotation]
  OBVIOUS
<1>9. memory' = e /\ e.feat = f /\ e.handles = l
  BY <1>3, <1>5, <1>7, <1>8
<1>10. e \in GoodEntries
  BY <1>6, <1>7, <1>8, MakeEntry
<1>11. TypeOK'
  BY <1>1, <1>2, <1>3, <1>9, <1>10 DEF ZoneInv, TypeOK
<1>12. HistoryInv'
  <2>1. CASE ~apart /\ row.on
    <3>1. PICK t : after = {t} /\ t.feat = row.feat /\ t.handles = row.handles
      BY <1>3, <2>1 DEF ZoneInv, HistoryInv
    <3>2. t = s /\ after' = {}
      BY <1>3, <3>1
    <3>3. f = MemoryFeatures(row.feat) /\ (row.handles # NoHandles => l = row.handles)
      BY <1>5, <1>7, <3>1, <3>2
    <3> QED BY <1>1, <1>9, <3>2, <3>3 DEF HistoryInv
  <2>2. CASE ~(~apart /\ row.on)
    BY <1>1, <2>2 DEF HistoryInv
  <2> QED BY <2>1, <2>2
<1>13. HealInv'
  BY <1>1, <1>2 DEF ZoneInv, HealInv
<1>14. StaleInv'
  BY <1>1, StaleSame
<1> QED BY <1>11, <1>12, <1>13, <1>14 DEF ZoneInv

\* An entry given another layout and rotation.
EntryTurned(e, l, r) == [e EXCEPT !.there = TRUE, !.handles = l, !.rotation = r]

\* It stays good, and its features are the same.
LEMMA EntryWith ==
    ASSUME NEW e \in GoodEntries, NEW l \in GoodLayouts, NEW r \in 0..3
    PROVE  /\ EntryTurned(e, l, r) \in GoodEntries
           /\ EntryTurned(e, l, r).handles = l
           /\ EntryTurned(e, l, r).feat = e.feat
<1>1. /\ e.feat \in GoodFeatures /\ e.feat = MemoryFeatures(e.feat)
      /\ e = [there |-> e.there, feat |-> e.feat, handles |-> e.handles,
              rotation |-> e.rotation]
  BY EntryParts
<1>2. PICK f, h, t, there : f = e.feat /\ h = e.handles /\ t = e.rotation /\ there = e.there
  OBVIOUS
<1>3. PICK a : a = [e EXCEPT !.there = TRUE]
  OBVIOUS
<1>4. a = [there |-> TRUE, feat |-> f, handles |-> h, rotation |-> t]
  BY <1>1, <1>2, <1>3
<1>5. PICK b : b = [a EXCEPT !.handles = l]
  OBVIOUS
<1>6. b = [there |-> TRUE, feat |-> f, handles |-> l, rotation |-> t]
  BY <1>4, <1>5
<1>7. PICK c : c = [b EXCEPT !.rotation = r]
  OBVIOUS
<1>8. c = [there |-> TRUE, feat |-> f, handles |-> l, rotation |-> r]
  BY <1>6, <1>7
<1>9. EntryTurned(e, l, r) = c
  BY <1>3, <1>5, <1>7 DEF EntryTurned
<1>10. c \in GoodEntries
  BY <1>1, <1>2, <1>8, MakeEntry
<1>11. c.handles = l /\ c.feat = f
  BY <1>8
<1> QED BY <1>2, <1>9, <1>10, <1>11, Zenon

\* A turn is written with the layout built for it, and told to all.
LEMMA RotateZoneWrites ==
    ASSUME ZoneInv, RotateZone, row.on
    PROVE  /\ row' \in GoodNodes /\ Faithful(row')
           /\ memory' \in GoodEntries /\ memory'.feat = memory.feat
           /\ memory'.handles = row'.handles /\ row'.feat = row.feat
           /\ Broadcast(Members, row') /\ untold' = FALSE
<1>1. PICK s \in up :
        /\ row' = [row EXCEPT !.handles = CanonicalizeHandlesForRotation(shape,
                                IF s.kind = "rotate" THEN s.handles ELSE row.handles, s.rotation),
                              !.rotation = s.rotation]
        /\ memory' = [memory EXCEPT !.there = TRUE,
                        !.handles = CanonicalizeHandlesForRotation(shape,
                                IF s.kind = "rotate" THEN s.handles ELSE row.handles, s.rotation),
                        !.rotation = s.rotation]
        /\ Broadcast(Members, row') /\ untold' = FALSE
  BY Zenon DEF RotateZone
<1>2. s \in GoodMessages /\ row \in GoodNodes /\ memory \in GoodEntries
  BY DEF ZoneInv, TypeOK
<1>3. PICK incoming : incoming = IF s.kind = "rotate" THEN s.handles ELSE row.handles
  OBVIOUS
<1>4. PICK r \in 0..3 : r = s.rotation
  BY <1>2, MessageParts
<1>5. incoming \in Layout /\ Exact(shape, incoming)
  BY <1>2, <1>3, MessageParts, NodeParts DEF GoodLayouts
<1>6. PICK l : l = CanonicalizeHandlesForRotation(shape, incoming, r)
  OBVIOUS
<1>7. l \in GoodLayouts
  BY <1>5, <1>6, Canonical, CanonicalExact DEF GoodLayouts
<1>8. Shaped => IF l = NoHandles THEN r = 0 ELSE TurnedBy(shape, l, r)
  BY <1>5, <1>6, Canonical, ShapedIs
<1>9. PICK node : node = [row EXCEPT !.handles = l, !.rotation = r]
  OBVIOUS
<1>10. row' = node
  BY <1>1, <1>3, <1>4, <1>6, <1>9, Zenon
<1>11. node \in GoodNodes
  BY <1>2, <1>7, <1>8, <1>9, NodeWith
<1>12. node.handles = l /\ node.rotation = r /\ node.feat = row.feat
  <2>1. row = [on |-> row.on, feat |-> row.feat, handles |-> row.handles,
               rotation |-> row.rotation]
    BY <1>2, NodeParts
  <2> QED BY <1>9, <2>1
<1>13. Faithful(node)
  BY <1>8, <1>12 DEF Faithful
<1>14. PICK e : e = [memory EXCEPT !.there = TRUE, !.handles = l, !.rotation = r]
  OBVIOUS
<1>15. memory' = e
  BY <1>1, <1>3, <1>4, <1>6, <1>14, Zenon
<1>16. e \in GoodEntries /\ e.handles = l /\ e.feat = memory.feat
  <2>2. PICK before \in GoodEntries : before = memory
    BY <1>2
  <2>3. e = EntryTurned(before, l, r)
    BY <1>14, <2>2, Zenon DEF EntryTurned
  <2>4. before \in GoodEntries /\ r \in 0..3
    BY <1>4, <2>2
  <2>5. /\ EntryTurned(before, l, r) \in GoodEntries
        /\ EntryTurned(before, l, r).handles = l
        /\ EntryTurned(before, l, r).feat = before.feat
    BY <1>7, <2>4, EntryWith
  <2> QED BY <2>2, <2>3, <2>5
<1> QED BY <1>1, <1>10, <1>11, <1>12, <1>13, <1>15, <1>16

\* A turn keeps the invariant, of a zone that was removed too.
LEMMA RotateZoneKeeps ==
    ASSUME ZoneInv, RotateZone
    PROVE  ZoneInv'
<1>1. /\ UNCHANGED <<shape, now, view, active, editor, fixed, resets, after, edits, backs>>
      /\ apart' = (apart \/ after # {})
      /\ up' \subseteq up
      /\ ~row.on => UNCHANGED <<row, memory, down, untold>>
  BY DEF RotateZone
<1>2. /\ GoodNodes' = GoodNodes /\ GoodEntries' = GoodEntries
      /\ GoodMessages' = GoodMessages /\ GoodEditors' = GoodEditors
      /\ \A n : RotationError(n)' = RotationError(n)
  BY <1>1, GoodSame
<1>3. apart' \in BOOLEAN
  BY <1>1 DEF ZoneInv, TypeOK
<1>6. StaleInv'
  BY <1>1, StaleSame
<1>4. CASE ~row.on
  <2>1. TypeOK'
    BY <1>1, <1>2, <1>3, <1>4 DEF ZoneInv, TypeOK
  <2>2. HistoryInv'
    BY <1>1, <1>4 DEF HistoryInv
  <2>3. HealInv'
    BY <1>1, <1>2, <1>4 DEF ZoneInv, HealInv
  <2> QED BY <1>6, <2>1, <2>2, <2>3 DEF ZoneInv
<1>5. CASE row.on
  <2>1. PICK node \in GoodNodes : node = row' /\ Faithful(node) /\ Broadcast(Members, node)
    BY <1>5, RotateZoneWrites
  <2>2. down' \in [Members -> Seq(GoodNodes)]
    BY <2>1, BroadcastSends
  <2>3. TypeOK'
    BY <1>1, <1>2, <1>3, <1>5, <2>2, RotateZoneWrites DEF ZoneInv, TypeOK
  <2>4. HistoryInv'
    <3>1. CASE apart'
      BY <3>1 DEF HistoryInv
    <3>2. CASE ~apart'
      <4>1. after = {} /\ after' = {} /\ ~apart
        BY <1>1, <3>2
      <4>2. memory.there => (memory.feat # NoFeatures => memory.feat = MemoryFeatures(row.feat))
        BY <1>5, <4>1 DEF ZoneInv, HistoryInv
      <4>3. ~memory.there => memory.feat = NoFeatures
        BY EntryParts DEF ZoneInv, TypeOK
      <4> QED BY <1>5, <4>1, <4>2, <4>3, RotateZoneWrites DEF HistoryInv
    <3> QED BY <3>1, <3>2
  <2>5. HealInv'
    <3>1. ~RotationError(node)
      BY <2>1, FaithfulNodes, NodeParts
    <3>2. ~RotationError(row)'
      BY <1>2, <2>1, <3>1 DEF RotationError
    <3> QED BY <3>2 DEF HealInv
  <2> QED BY <1>6, <2>3, <2>4, <2>5 DEF ZoneInv
<1> QED BY <1>4, <1>5

\* What a zone comes back with tells its rotation, but may contradict it.
LEMMA RestoredGood ==
    ASSUME ZoneInv
    PROVE  RestoredLayout.handles \in GoodLayouts /\ RestoredLayout.rotation \in 0..3
<1>1. memory \in GoodEntries
  BY DEF ZoneInv, TypeOK
<1>2. PICK default : default = GetDefaultHandles(shape)
  OBVIOUS
<1>3. /\ default \in Layout /\ Exact(shape, default)
      /\ default \in [DOMAIN default -> Handle] /\ DOMAIN default \subseteq Ids
  BY <1>2, Defaults, LayoutFacts
<1>4. PICK h : h = [id \in DOMAIN default |->
        [default[id] EXCEPT !.off = id \in DOMAIN memory.handles /\ memory.handles[id].off]]
  OBVIOUS
<1>5. ASSUME NEW id \in DOMAIN default
      PROVE  h[id] \in Handle /\ h[id].at = default[id].at
  <2>1. PICK g, b : g = default[id] /\ b = (id \in DOMAIN memory.handles /\ memory.handles[id].off)
    OBVIOUS
  <2>2. g \in Handle /\ b \in BOOLEAN
    BY <1>3, <2>1
  <2>3. [g EXCEPT !.off = b] \in Handle /\ [g EXCEPT !.off = b].at = g.at
    BY <2>2 DEF Handle
  <2>4. h[id] = [g EXCEPT !.off = b]
    BY <1>4, <2>1
  <2> QED BY <2>1, <2>3, <2>4, Zenon
<1>6. h \in GoodLayouts
  <2>1. DOMAIN h = DOMAIN default /\ h = [id \in DOMAIN h |-> h[id]]
    BY <1>4
  <2>2. h \in [DOMAIN h -> Handle]
    BY <1>5, <2>1
  <2>3. h \in Layout
    BY <1>3, <2>1, <2>2, LayoutFacts
  <2>4. Exact(shape, h)
    BY <1>3, <1>5, <2>1, SameShapeHandles
  <2> QED BY <2>3, <2>4 DEF GoodLayouts
<1>7. PICK l : l = RestoredLayout
  OBVIOUS
<1>8. \/ l = [handles |-> memory.handles, rotation |-> memory.rotation]
      \/ l = [handles |-> h, rotation |-> 0]
  BY <1>2, <1>4, <1>7, Zenon DEF RestoredLayout
<1>9. \/ l.handles = memory.handles /\ l.rotation = memory.rotation
      \/ l.handles = h /\ l.rotation = 0
  BY <1>8
<1> QED BY <1>1, <1>6, <1>7, <1>9, EntryParts

\* A zone that comes back keeps the invariant: the broadcast tells all of any
\* contradiction.
LEMMA ReportConnectionKeeps ==
    ASSUME ZoneInv, ReportConnection
    PROVE  ZoneInv'
<1>1. /\ UNCHANGED <<shape, now, view, active, editor, fixed, resets, up, after, edits>>
      /\ backs' = backs + 1
      /\ apart' = (after # {}) /\ untold' = FALSE
  BY DEF ReportConnection
<1>2. /\ GoodNodes' = GoodNodes /\ GoodEntries' = GoodEntries
      /\ GoodMessages' = GoodMessages /\ GoodEditors' = GoodEditors
      /\ \A n : RotationError(n)' = RotationError(n)
  BY <1>1, GoodSame
<1>3. memory \in GoodEntries /\ now \in Nat
  BY DEF ZoneInv, TypeOK
<1>4. PICK f \in GoodFeatures :
        /\ memory.feat # NoFeatures => f = memory.feat
        /\ f = MemoryFeatures(f)
        /\ row' = [on |-> TRUE, feat |-> f, handles |-> RestoredLayout.handles,
                   rotation |-> RestoredLayout.rotation]
        /\ Broadcast(Members, [on |-> TRUE, feat |-> f, handles |-> RestoredLayout.handles,
                               rotation |-> RestoredLayout.rotation])
        /\ memory' \in IF ~memory.there \/
                          [on |-> TRUE, feat |-> f, handles |-> RestoredLayout.handles,
                           rotation |-> RestoredLayout.rotation].handles # memory.handles
                       THEN {[memory EXCEPT !.there = TRUE, !.feat = f, !.handles =
                          [on |-> TRUE, feat |-> f, handles |-> RestoredLayout.handles,
                           rotation |-> RestoredLayout.rotation].handles]}
                       ELSE {memory, [memory EXCEPT !.there = TRUE, !.feat = f, !.handles =
                          [on |-> TRUE, feat |-> f, handles |-> RestoredLayout.handles,
                           rotation |-> RestoredLayout.rotation].handles]}
  <2>1. ASSUME NEW f \in RestoredFeatures
        PROVE  /\ f \in GoodFeatures /\ f = MemoryFeatures(f)
               /\ memory.feat # NoFeatures => f = memory.feat
    BY <1>3, EntryParts, StartFeatures DEF RestoredFeatures
  <2> QED BY <2>1, Zenon DEF ReportConnection
<1>5. PICK l \in GoodLayouts, r \in 0..3 :
        l = RestoredLayout.handles /\ r = RestoredLayout.rotation
  BY RestoredGood
<1>6. PICK node : node = [on |-> TRUE, feat |-> f, handles |-> l, rotation |-> r]
  OBVIOUS
<1>7. node \in GoodNodes /\ node.feat = f /\ node.handles = l
  BY <1>5, <1>6, MakeNode
<1>8. PICK entry : entry = [memory EXCEPT !.there = TRUE, !.feat = f, !.handles = l]
  OBVIOUS
<1>9. /\ row' = node
      /\ Broadcast(Members, node)
      /\ memory' \in IF ~memory.there \/ node.handles # memory.handles
                     THEN {entry} ELSE {memory, entry}
  <2>1. row' = node /\ Broadcast(Members, node)
    BY <1>4, <1>5, <1>6, Zenon
  <2>2. [on |-> TRUE, feat |-> f, handles |-> RestoredLayout.handles,
         rotation |-> RestoredLayout.rotation] = node
    BY <1>5, <1>6, Zenon
  <2>3. [memory EXCEPT !.there = TRUE, !.feat = f, !.handles = node.handles] = entry
    BY <1>7, <1>8, Zenon
  <2> QED BY <1>4, <2>1, <2>2, <2>3, Zenon
<1>10. /\ entry.feat = f /\ entry.handles = l /\ entry.there = TRUE
       /\ entry = [there |-> TRUE, feat |-> f, handles |-> l, rotation |-> memory.rotation]
  <2>1. memory = [there |-> memory.there, feat |-> memory.feat, handles |-> memory.handles,
                  rotation |-> memory.rotation]
    BY <1>3, EntryParts
  <2>2. PICK there, feat, h, t : /\ there = memory.there /\ feat = memory.feat
                                 /\ h = memory.handles /\ t = memory.rotation
    OBVIOUS
  <2>3. PICK a : a = [memory EXCEPT !.there = TRUE]
    OBVIOUS
  <2>4. a = [there |-> TRUE, feat |-> feat, handles |-> h, rotation |-> t]
    BY <2>1, <2>2, <2>3
  <2>5. PICK b : b = [a EXCEPT !.feat = f]
    OBVIOUS
  <2>6. b = [there |-> TRUE, feat |-> f, handles |-> h, rotation |-> t]
    BY <2>4, <2>5
  <2>7. entry = [b EXCEPT !.handles = l]
    BY <1>8, <2>3, <2>5
  <2>8. entry = [there |-> TRUE, feat |-> f, handles |-> l, rotation |-> t]
    BY <2>6, <2>7
  <2> QED BY <2>2, <2>8
<1>11. entry \in GoodEntries
  <2>1. PICK t \in 0..3 : t = memory.rotation
    BY <1>3, EntryParts
  <2>2. [there |-> TRUE, feat |-> f, handles |-> l, rotation |-> t] \in GoodEntries
    BY <1>4, MakeEntry
  <2> QED BY <1>10, <2>1, <2>2, Zenon
<1>12. down' \in [Members -> Seq(GoodNodes)]
  BY <1>7, <1>9, BroadcastSends
<1>13. memory' \in GoodEntries /\ memory' \in {memory, entry}
  BY <1>3, <1>9, <1>11
<1>14. TypeOK'
  <2>1. apart' \in BOOLEAN /\ untold' \in BOOLEAN
    BY <1>1
  <2>2. backs' \in Nat /\ row' \in GoodNodes
    BY <1>1, <1>7, <1>9 DEF ZoneInv, TypeOK
  <2> QED BY <1>1, <1>2, <1>12, <1>13, <2>1, <2>2 DEF ZoneInv, TypeOK
<1>15. HistoryInv'
  <2>1. CASE apart'
    BY <2>1 DEF HistoryInv
  <2>2. CASE ~apart'
    <3>1. after' = {}
      BY <1>1, <2>2
    <3>2. CASE memory' = entry
      BY <1>4, <1>7, <1>9, <1>10, <3>1, <3>2 DEF HistoryInv
    <3>3. CASE memory' = memory /\ memory' # entry
      <4>1. memory.handles = l
        BY <1>7, <1>9, <3>3
      <4>2. memory.feat # NoFeatures => memory.feat = MemoryFeatures(f)
        BY <1>4
      <4> QED BY <1>7, <1>9, <3>1, <3>3, <4>1, <4>2 DEF HistoryInv
    <3> QED BY <1>13, <3>2, <3>3
  <2> QED BY <2>1, <2>2
<1>16. HealInv'
  <2>1. \A m \in Members : down'[m] # << >> /\ down'[m][Len(down'[m])] = row'
    BY <1>7, <1>9, BroadcastSends
  <2> QED BY <2>1 DEF HealInv
<1>17. StaleInv'
  BY <1>1, StaleSame
<1> QED BY <1>14, <1>15, <1>16, <1>17 DEF ZoneInv

\* A chain that begins at the zone keeps the invariant.
LEMMA AddSourceKeeps ==
    ASSUME ZoneInv, AddSource
    PROVE  ZoneInv'
<1>1. /\ UNCHANGED <<shape, now, view, active, editor, fixed, resets, up, after, edits>>
      /\ backs' = backs + 1
      /\ apart' = (memory.there \/ after # {}) /\ untold' = FALSE
  BY DEF AddSource
<1>2. /\ GoodNodes' = GoodNodes /\ GoodEntries' = GoodEntries
      /\ GoodMessages' = GoodMessages /\ GoodEditors' = GoodEditors
  BY <1>1, GoodSame
<1>3. PICK f \in GoodFeatures, l \in GoodLayouts, r \in 0..3 :
        /\ f = GetInitialFeatures /\ l = NoHandles /\ r = 0 /\ f = MemoryFeatures(f)
  BY StartFeatures, NoHandlesGood DEF ZoneInv, TypeOK
<1>4. PICK off : off = NoFeatures
  OBVIOUS
<1>5. PICK node : node = [on |-> TRUE, feat |-> f, handles |-> l, rotation |-> r]
  OBVIOUS
<1>6. node = [Gone EXCEPT !.on = TRUE, !.feat = GetInitialFeatures]
  <2>1. PICK g : g = [Gone EXCEPT !.on = TRUE]
    OBVIOUS
  <2>2. g = [on |-> TRUE, feat |-> off, handles |-> l, rotation |-> r]
    BY <1>3, <1>4, <2>1 DEF Gone
  <2>3. node = [g EXCEPT !.feat = f]
    <3>1. PICK k : k = [g EXCEPT !.feat = f]
      OBVIOUS
    <3>2. k = [on |-> TRUE, feat |-> f, handles |-> l, rotation |-> r]
      BY <2>2, <3>1
    <3> QED BY <1>5, <3>1, <3>2, Zenon
  <2>4. [Gone EXCEPT !.on = TRUE, !.feat = f] = [g EXCEPT !.feat = f]
    BY <2>1
  <2> QED BY <1>3, <2>3, <2>4, Zenon
<1>7. PICK entry : entry = [there |-> TRUE, feat |-> f, handles |-> l, rotation |-> r]
  OBVIOUS
<1>8. entry = [NoMemory EXCEPT !.there = TRUE, !.feat = GetInitialFeatures]
  <2>1. PICK g : g = [NoMemory EXCEPT !.there = TRUE]
    OBVIOUS
  <2>2. g = [there |-> TRUE, feat |-> off, handles |-> l, rotation |-> r]
    BY <1>3, <1>4, <2>1 DEF NoMemory
  <2>3. entry = [g EXCEPT !.feat = f]
    <3>1. PICK k : k = [g EXCEPT !.feat = f]
      OBVIOUS
    <3>2. k = [there |-> TRUE, feat |-> f, handles |-> l, rotation |-> r]
      BY <2>2, <3>1
    <3> QED BY <1>7, <3>1, <3>2, Zenon
  <2>4. [NoMemory EXCEPT !.there = TRUE, !.feat = f] = [g EXCEPT !.feat = f]
    BY <2>1
  <2> QED BY <1>3, <2>3, <2>4, Zenon
<1>9. /\ row' = node /\ Broadcast(Members, node)
      /\ memory' = IF memory.there THEN memory ELSE entry
  BY <1>6, <1>8, Zenon DEF AddSource
<1>10. node \in GoodNodes /\ entry \in GoodEntries
  BY <1>3, <1>5, <1>7, MakeNode, MakeEntry
<1>11. down' \in [Members -> Seq(GoodNodes)]
  BY <1>9, <1>10, BroadcastSends
<1>12. TypeOK'
  <2>1. memory.there \in BOOLEAN /\ memory \in GoodEntries
    BY EntryParts DEF ZoneInv, TypeOK
  <2>2. apart' \in BOOLEAN /\ untold' \in BOOLEAN
    BY <1>1, <2>1
  <2>3. row' \in GoodNodes /\ memory' \in GoodEntries
    BY <1>9, <1>10, <2>1
  <2> QED BY <1>1, <1>2, <1>11, <2>2, <2>3 DEF ZoneInv, TypeOK
<1>13. HistoryInv'
  <2>1. /\ node.feat = f /\ node.handles = NoHandles
        /\ entry.feat = f /\ entry.handles = NoHandles
    BY <1>3, <1>5, <1>7
  <2>2. ~apart' => after' = {} /\ memory' = entry
    BY <1>1, <1>9
  <2> QED BY <1>3, <1>9, <2>1, <2>2 DEF HistoryInv
<1>14. HealInv'
  <2>1. \A m \in Members : down'[m] # << >> /\ down'[m][Len(down'[m])] = row'
    BY <1>9, <1>10, BroadcastSends
  <2> QED BY <2>1 DEF HealInv
<1>15. StaleInv'
  BY <1>1, StaleSame
<1> QED BY <1>12, <1>13, <1>14, <1>15 DEF ZoneInv

\* What tells of a reset leaves the row to be told, whatever it is.
LEMMA TellResetKeeps ==
    ASSUME ZoneInv, TellReset, row' \in GoodNodes, memory' \in GoodEntries,
           UNCHANGED <<shape, now, view, active, editor, fixed, resets, up, after, edits>>
    PROVE  ZoneInv'
<1>1. /\ backs' = backs + 1 /\ apart' = TRUE /\ untold' = row'.on
      /\ \E homes \in SUBSET Noters : Broadcast(Members \ homes, Gone)
  BY DEF TellReset
<1>2. /\ GoodNodes' = GoodNodes /\ GoodEntries' = GoodEntries
      /\ GoodMessages' = GoodMessages /\ GoodEditors' = GoodEditors
  BY GoodSame
<1>3. down' \in [Members -> Seq(GoodNodes)]
  BY <1>1, GoneGood, BroadcastSends
<1>4. row'.on \in BOOLEAN
  BY NodeParts
<1>5. TypeOK'
  BY <1>1, <1>2, <1>3, <1>4 DEF ZoneInv, TypeOK
<1>6. HistoryInv'
  BY <1>1 DEF HistoryInv
<1>7. HealInv'
  <2>1. RotationError(row)' => row'.on
    BY DEF RotationError
  <2>2. RotationError(row)' => untold'
    BY <1>1, <2>1
  <2> QED BY <2>2 DEF HealInv
<1>8. StaleInv'
  BY StaleSame
<1> QED BY <1>5, <1>6, <1>7, <1>8 DEF ZoneInv

\* A reset keeps the invariant.
LEMMA ResetRoomKeeps ==
    ASSUME ZoneInv, ResetRoom
    PROVE  ZoneInv'
<1>1. row \in GoodNodes /\ memory \in GoodEntries /\ memory' = memory
  BY DEF ZoneInv, TypeOK, ResetRoom
<1>2. PICK f \in GoodFeatures, l \in GoodLayouts : f = NoFeatures /\ l = NoHandles
  BY StartFeatures, NoHandlesGood DEF ZoneInv, TypeOK
<1>3. PICK n \in GoodNodes : n = row
  BY <1>1
<1>4. /\ n = [on |-> n.on, feat |-> n.feat, handles |-> n.handles, rotation |-> n.rotation]
      /\ n.rotation \in 0..3
  BY NodeParts
<1>5. PICK node : node = [on |-> TRUE, feat |-> f, handles |-> l, rotation |-> n.rotation]
  OBVIOUS
<1>6. [row EXCEPT !.on = TRUE, !.feat = NoFeatures, !.handles = NoHandles] = node
  <2>1. PICK a, b, c, d : a = n.on /\ b = n.feat /\ c = n.handles /\ d = n.rotation
    OBVIOUS
  <2>2. PICK g : g = [n EXCEPT !.on = TRUE]
    OBVIOUS
  <2>3. g = [on |-> TRUE, feat |-> b, handles |-> c, rotation |-> d]
    BY <1>4, <2>1, <2>2
  <2>4. PICK h : h = [g EXCEPT !.feat = f]
    OBVIOUS
  <2>5. h = [on |-> TRUE, feat |-> f, handles |-> c, rotation |-> d]
    BY <2>3, <2>4
  <2>6. [h EXCEPT !.handles = l] = [on |-> TRUE, feat |-> f, handles |-> l, rotation |-> d]
    <3>1. PICK k : k = [h EXCEPT !.handles = l]
      OBVIOUS
    <3>2. k = [on |-> TRUE, feat |-> f, handles |-> l, rotation |-> d]
      BY <2>5, <3>1
    <3> QED BY <3>1, <3>2, Zenon
  <2>7. [n EXCEPT !.on = TRUE, !.feat = f, !.handles = l] = [h EXCEPT !.handles = l]
    BY <2>2, <2>4
  <2>8. [n EXCEPT !.on = TRUE, !.feat = f, !.handles = l] = node
    BY <1>5, <2>1, <2>6, <2>7
  <2> QED BY <1>2, <1>3, <2>8, Zenon
<1>7. node \in GoodNodes
  BY <1>4, <1>5, MakeNode
<1>8. row' \in {Gone, node}
  BY <1>6, Zenon DEF ResetRoom
<1>9. /\ TellReset
      /\ UNCHANGED <<shape, now, view, active, editor, fixed, resets, up, after, edits>>
  BY DEF ResetRoom
<1> QED BY <1>1, <1>7, <1>8, <1>9, GoneGood, TellResetKeeps

\* So does an import.
LEMMA ImportRoomKeeps ==
    ASSUME ZoneInv, ImportRoom
    PROVE  ZoneInv'
<1>1. \A m \in Arrangers : view[m] \in GoodNodes
  BY ZoneDetailsAssumption DEF ZoneInv, TypeOK
<1>2. row' \in GoodNodes
  BY <1>1, GoneGood DEF ImportRoom
<1>3. memory' \in GoodEntries
  BY GoneGood DEF ImportRoom, ZoneInv, TypeOK
<1>4. /\ TellReset
      /\ UNCHANGED <<shape, now, view, active, editor, fixed, resets, up, after, edits>>
  BY DEF ImportRoom
<1> QED BY <1>2, <1>3, <1>4, TellResetKeeps

\* Once the rows are sent again, all are about to be told.
LEMMA TellNodesKeeps ==
    ASSUME ZoneInv, TellNodes
    PROVE  ZoneInv'
<1>1. /\ UNCHANGED <<apart, shape, now, row, memory, view, active, editor, fixed, resets,
                     up, after, edits, backs>>
      /\ untold' = FALSE /\ Broadcast(Members, row)
  BY DEF TellNodes
<1>2. /\ GoodNodes' = GoodNodes /\ GoodEntries' = GoodEntries
      /\ GoodMessages' = GoodMessages /\ GoodEditors' = GoodEditors
  BY <1>1, GoodSame
<1>3. row \in GoodNodes
  BY DEF ZoneInv, TypeOK
<1>4. /\ down' \in [Members -> Seq(GoodNodes)]
      /\ \A m \in Members : down'[m] # << >> /\ down'[m][Len(down'[m])] = row
  BY <1>1, <1>3, BroadcastSends
<1>5. TypeOK'
  BY <1>1, <1>2, <1>4 DEF ZoneInv, TypeOK
<1>6. HistoryInv'
  BY <1>1 DEF ZoneInv, HistoryInv
<1>7. HealInv'
  BY <1>1, <1>4 DEF HealInv
<1>8. StaleInv'
  BY <1>1, StaleSame
<1> QED BY <1>5, <1>6, <1>7, <1>8 DEF ZoneInv

\* Removal keeps the invariant.
LEMMA RemoveZoneKeeps ==
    ASSUME ZoneInv, RemoveZone
    PROVE  ZoneInv'
<1>1. /\ UNCHANGED <<shape, now, memory, view, active, editor, fixed, resets, up, after,
                     edits, backs>>
      /\ row' = Gone /\ Broadcast(Members, Gone)
      /\ apart' = (apart \/ after # {}) /\ untold' = FALSE
  BY DEF RemoveZone
<1>2. /\ GoodNodes' = GoodNodes /\ GoodEntries' = GoodEntries
      /\ GoodMessages' = GoodMessages /\ GoodEditors' = GoodEditors
  BY <1>1, GoodSame
<1>3. down' \in [Members -> Seq(GoodNodes)]
  BY <1>1, GoneGood, BroadcastSends
<1>4. ~row'.on
  BY <1>1 DEF Gone
<1>5. apart' \in BOOLEAN /\ untold' \in BOOLEAN
  BY <1>1
<1>6. TypeOK'
  BY <1>1, <1>2, <1>3, <1>5, GoneGood DEF ZoneInv, TypeOK
<1>7. HistoryInv'
  BY <1>4 DEF HistoryInv
<1>8. HealInv'
  BY <1>4 DEF HealInv, RotationError
<1>9. StaleInv'
  BY <1>1, StaleSame
<1> QED BY <1>6, <1>7, <1>8, <1>9 DEF ZoneInv

-----------------------------------------------------------------------------
(* What a store makes of a broadcast, and the clock.                        *)

\* A store that applies a broadcast repairs the contradiction it is told of, so
\* only those it spent its repair on are left.
LEMMA ApplyMessageKeeps ==
    ASSUME ZoneInv, NEW m \in Members, ApplyMessage(m)
    PROVE  ZoneInv'
<1>1. /\ UNCHANGED <<apart, untold, shape, now, row, memory, resets, after, edits, backs>>
      /\ down[m] # << >>
      /\ down' = [down EXCEPT ![m] = Tail(down[m])]
      /\ view' = [view EXCEPT ![m] = Head(down[m])]
      /\ active' = active \/ active' = [active EXCEPT ![m] = "none"]
      /\ editor' = editor \/ editor' = [editor EXCEPT ![m] = Closed]
      /\ ValidateNodeRotations(m, Head(down[m]))
  BY DEF ApplyMessage
<1>2. /\ GoodNodes' = GoodNodes /\ GoodEntries' = GoodEntries
      /\ GoodMessages' = GoodMessages /\ GoodEditors' = GoodEditors
      /\ \A n : RotationError(n)' = RotationError(n)
  BY <1>1, GoodSame
<1>3. PICK q \in Seq(GoodNodes) : q = down[m] /\ q # << >>
  BY <1>1 DEF ZoneInv, TypeOK
<1>4. PICK node \in GoodNodes : node = Head(q)
  BY <1>3
<1>5. Tail(q) \in Seq(GoodNodes) /\ (Len(q) > 1 => Tail(q) # << >> /\ Tail(q)[Len(Tail(q))] = q[Len(q)])
  <2>1. Len(q) \in Nat /\ Len(q) > 0
    BY <1>3, EmptySeq
  <2>2. /\ Tail(q) \in Seq(GoodNodes)
        /\ Len(Tail(q)) = Len(q) - 1
        /\ \A i \in 1..Len(Tail(q)) : Tail(q)[i] = q[i + 1]
    BY <1>3, HeadTailProperties
  <2>3. Len(q) > 1 => Tail(q) # << >>
    <3>1. Len(<< >>) = 0
      BY EmptySeq
    <3>2. PICK n \in Nat : n = Len(q) /\ Len(Tail(q)) = n - 1
      BY <2>1, <2>2
    <3>3. n > 1 => n - 1 # 0
      OBVIOUS
    <3> QED BY <3>1, <3>2, <3>3
  <2>4. ASSUME Len(q) > 1
        PROVE  Tail(q)[Len(Tail(q))] = q[Len(q)]
    <3>1. PICK i \in 1..(Len(q) - 1) : i = Len(q) - 1
      BY <2>1, <2>4
    <3>2. Tail(q)[i] = q[i + 1] /\ i + 1 = Len(q) /\ i = Len(Tail(q))
      BY <2>1, <2>2, <3>1
    <3> QED BY <3>2
  <2> QED BY <2>2, <2>3, <2>4
<1>6. \/ /\ RotationError(node) /\ m \notin fixed
         /\ fixed' = fixed \union {m}
         /\ up' = up \union {SendRotate(m, "turn", MaxEdits, NoHandles, node.rotation)}
      \/ /\ ~(RotationError(node) /\ m \notin fixed)
         /\ fixed' = fixed /\ up' = up
  BY <1>1, <1>3, <1>4 DEF ValidateNodeRotations
<1>7. up' \subseteq GoodMessages
  <2>1. now \in Nat /\ up \subseteq GoodMessages /\ MaxEdits \in Nat
    BY ZoneDetailsAssumption DEF ZoneInv, TypeOK
  <2>2. node.rotation \in 0..3
    BY NodeParts
  <2>3. SendRotate(m, "turn", MaxEdits, NoHandles, node.rotation) \in GoodMessages
    BY <2>1, <2>2, SendRotateGood, NoHandlesGood
  <2> QED BY <1>6, <2>1, <2>3
<1>8. TypeOK'
  <2>1. view' \in [Members -> GoodNodes]
    BY <1>1, <1>3, <1>4 DEF ZoneInv, TypeOK
  <2>2. down' \in [Members -> Seq(GoodNodes)]
    BY <1>1, <1>3, <1>5 DEF ZoneInv, TypeOK
  <2>3. editor' \in [Members -> GoodEditors]
    BY <1>1, ClosedGood DEF ZoneInv, TypeOK
  <2>4. active' \in [Members -> Cores \union {"none"}]
    BY <1>1 DEF ZoneInv, TypeOK
  <2>5. fixed' \subseteq Members
    BY <1>6 DEF ZoneInv, TypeOK
  <2> QED BY <1>1, <1>2, <1>7, <2>1, <2>2, <2>3, <2>4, <2>5 DEF ZoneInv, TypeOK
<1>9. HistoryInv'
  BY <1>1 DEF ZoneInv, HistoryInv
<1>10. HealInv'
  <2>1. ASSUME NEW k \in Members, k \notin fixed', RotationError(row), ~untold
        PROVE  down'[k] # << >> /\ down'[k][Len(down'[k])] = row
    <3>1. k \notin fixed
      BY <1>6, <2>1
    <3>2. down[k] # << >> /\ down[k][Len(down[k])] = row
      BY <2>1, <3>1 DEF ZoneInv, HealInv
    <3>3. CASE k # m
      <4>1. down'[k] = down[k]
        BY <1>1, <3>3 DEF ZoneInv, TypeOK
      <4> QED BY <3>2, <4>1
    <3>4. CASE k = m
      <4>1. Len(q) > 1
        <5>1. Len(q) = 1 => q[Len(q)] = node
          BY <1>3, <1>4
        <5>2. ~RotationError(node)
          BY <1>6, <2>1, <3>1, <3>4
        <5>3. q[Len(q)] = row
          BY <1>3, <3>2, <3>4
        <5>4. Len(q) # 1
          BY <2>1, <5>1, <5>2, <5>3
        <5>5. PICK n \in Nat : n = Len(q) /\ n # 0
          BY <1>3, EmptySeq
        <5>6. n > 1
          BY <5>4, <5>5
        <5> QED BY <5>5, <5>6
      <4>2. down'[k] = Tail(q)
        BY <1>1, <1>3, <3>4 DEF ZoneInv, TypeOK
      <4> QED BY <1>3, <1>5, <3>2, <3>4, <4>1, <4>2
    <3> QED BY <3>3, <3>4
  <2>2. RotationError(row)' = RotationError(row)
    BY <1>1 DEF RotationError, Shaped
  <2> QED BY <1>1, <2>1, <2>2 DEF HealInv
<1>11. StaleInv'
  <2>1. Shaped' = Shaped
    BY <1>1 DEF Shaped
  <2>2. \A k \in Members : view'[k] = IF k = m THEN node ELSE view[k]
    BY <1>1, <1>3, <1>4 DEF ZoneInv, TypeOK
  <2>3. ASSUME m \notin fixed'
        PROVE  Upright(node)
    <3>1. ~RotationError(node)
      BY <1>6, <2>3
    <3>2. node.on \/ node.rotation = 0
      BY NodeParts
    <3> QED BY <3>1, <3>2 DEF RotationError, Upright
  <2>4. ASSUME NEW k \in Members, k \notin fixed'
        PROVE  Upright(view[k])'
    BY <1>6, <2>1, <2>2, <2>3, <2>4 DEF ZoneInv, StaleInv, Upright
  <2>5. SendRotate(m, "turn", MaxEdits, NoHandles, node.rotation).kind # "save"
    BY DEF SendRotate
  <2>6. ASSUME NEW t \in up', t.kind = "save", t.by \notin fixed'
        PROVE  Upright(t)'
    <3>1. t \in up /\ t.by \notin fixed
      BY <1>6, <2>5, <2>6
    <3> QED BY <2>1, <2>6, <3>1 DEF ZoneInv, StaleInv, Upright
  <2> QED BY <2>4, <2>6 DEF StaleInv
<1> QED BY <1>8, <1>9, <1>10, <1>11 DEF ZoneInv

\* As time passes, what made sense still does.
LEMMA TickKeeps ==
    ASSUME ZoneInv, Tick
    PROVE  ZoneInv'
<1>1. /\ UNCHANGED <<apart, untold, shape, row, memory, view, active, editor, fixed, resets, up,
                     after, down, edits, backs>>
      /\ now' = now + 1
  BY DEF Tick
<1>2. now \in Nat
  BY DEF ZoneInv, TypeOK
<1>3. ASSUME NEW f \in GoodFeatures
      PROVE  f \in GoodFeatures'
  <2>1. f \in Feature /\ Sensible(f)
    BY FeatureParts
  <2>2. /\ \A c \in Cores : f.timer[c] \in Int /\ MaxTimes[c] \in Nat
        /\ f.redsTimer \in Int /\ RedsTime \in Nat
    BY <2>1, ZoneDetailsAssumption DEF Feature
  <2>3. Sensible(f)'
    BY <1>1, <1>2, <2>1, <2>2 DEF Sensible
  <2> QED BY <2>1, <2>3 DEF GoodFeatures
<1>4. GoodLayouts' = GoodLayouts /\ Shaped' = Shaped /\ GoodEditors' = GoodEditors
  BY <1>1 DEF GoodLayouts, Shaped, GoodEditors
<1>5. \A n \in GoodNodes : n \in GoodNodes'
  BY <1>3, <1>4 DEF GoodNodes
<1>6. \A e \in GoodEntries : e \in GoodEntries'
  BY <1>3, <1>4 DEF GoodEntries
<1>7. \A s \in GoodMessages : s \in GoodMessages'
  BY <1>3, <1>4 DEF GoodMessages
<1>8. TypeOK'
  <2>1. \A q \in Seq(GoodNodes) : q \in Seq(GoodNodes')
    BY <1>5
  <2>2. down' \in [Members -> Seq(GoodNodes')]
    BY <1>1, <2>1 DEF ZoneInv, TypeOK
  <2>3. view' \in [Members -> GoodNodes']
    BY <1>1, <1>5 DEF ZoneInv, TypeOK
  <2> QED BY <1>1, <1>2, <1>4, <1>5, <1>6, <1>7, <2>2, <2>3 DEF ZoneInv, TypeOK
<1>9. HistoryInv'
  BY <1>1 DEF ZoneInv, HistoryInv
<1>10. HealInv'
  BY <1>1, <1>4 DEF ZoneInv, HealInv, RotationError
<1>11. StaleInv'
  BY <1>1, StaleSame
<1> QED BY <1>8, <1>9, <1>10, <1>11 DEF ZoneInv

-----------------------------------------------------------------------------
(* The theorems.                                                            *)

\* The zone starts as the game's data has it, and nothing is under way.
LEMMA InitInv == Init => ZoneInv
<1> SUFFICES ASSUME Init
             PROVE  ZoneInv
  OBVIOUS
<1>1. now = 1
  BY DEF Init
<1>2. PICK f \in GoodFeatures, l \in GoodLayouts, r \in 0..3 :
        /\ f = GetInitialFeatures /\ l = NoHandles /\ r = 0 /\ f = MemoryFeatures(f)
  BY <1>1, StartFeatures, NoHandlesGood
<1>3. row = [on |-> TRUE, feat |-> f, handles |-> l, rotation |-> r]
  <2>1. PICK g : g = [Gone EXCEPT !.on = TRUE]
    OBVIOUS
  <2>2. PICK off : off = NoFeatures
    OBVIOUS
  <2>3. g = [on |-> TRUE, feat |-> off, handles |-> l, rotation |-> r]
    BY <1>2, <2>1, <2>2 DEF Gone
  <2>4. row = [g EXCEPT !.feat = f]
    BY <1>2, <2>1 DEF Init
  <2> QED BY <2>3, <2>4
<1>4. memory = [there |-> TRUE, feat |-> f, handles |-> l, rotation |-> r]
  <2>1. PICK g : g = [NoMemory EXCEPT !.there = TRUE]
    OBVIOUS
  <2>2. PICK off : off = NoFeatures
    OBVIOUS
  <2>3. g = [there |-> TRUE, feat |-> off, handles |-> l, rotation |-> r]
    BY <1>2, <2>1, <2>2 DEF NoMemory
  <2>4. memory = [g EXCEPT !.feat = f]
    BY <1>2, <2>1 DEF Init
  <2> QED BY <2>3, <2>4
<1>5. row \in GoodNodes /\ memory \in GoodEntries
  BY <1>2, <1>3, <1>4, MakeNode, MakeEntry
<1>6. << >> \in Seq(GoodNodes) /\ Closed \in GoodEditors
  BY ClosedGood
<1>7. TypeOK
  <2>1. /\ view \in [Members -> GoodNodes]
        /\ editor \in [Members -> GoodEditors]
        /\ down \in [Members -> Seq(GoodNodes)]
    BY <1>5, <1>6 DEF Init
  <2>2. active \in [Members -> Cores \union {"none"}]
    BY DEF Init
  <2>3. /\ now \in Nat /\ now >= 1 /\ edits \in Nat /\ backs \in Nat
        /\ apart \in BOOLEAN /\ untold \in BOOLEAN
    <3>1. edits = 0 /\ backs = 0 /\ apart = FALSE /\ untold = FALSE
      BY Zenon DEF Init
    <3>2. apart \in BOOLEAN /\ untold \in BOOLEAN
      BY <3>1, Zenon
    <3> QED BY <1>1, <3>1, <3>2
  <2>4. /\ shape \in Shapes /\ fixed \subseteq Members /\ resets \subseteq Members
        /\ up \subseteq GoodMessages /\ after \subseteq GoodMessages
        /\ after = {}
    BY DEF Init
  <2> QED BY <1>5, <2>1, <2>2, <2>3, <2>4 DEF TypeOK
<1>8. HistoryInv
  <2>1. /\ memory.feat = f /\ row.feat = f /\ memory.handles = l /\ row.handles = l
    BY <1>3, <1>4
  <2> QED BY <1>2, <2>1 DEF Init, HistoryInv
<1>9. HealInv
  <2>1. row.handles = NoHandles /\ row.rotation = 0
    BY <1>2, <1>3
  <2> QED BY <2>1 DEF HealInv, RotationError
<1>10. StaleInv
  BY <1>2, <1>3 DEF Init, StaleInv, Upright
<1> QED BY <1>7, <1>8, <1>9, <1>10 DEF ZoneInv

\* Every step keeps the invariant.
LEMMA NextInv == ZoneInv /\ [Next]_vars => ZoneInv'
<1> SUFFICES ASSUME ZoneInv, [Next]_vars
             PROVE  ZoneInv'
  OBVIOUS
<1>1. Noters \subseteq Members /\ Arrangers \subseteq Members
  BY ZoneDetailsAssumption
<1>2. ASSUME NEW m \in Noters, Note(m)
      PROVE  ZoneInv'
  <2>1. CASE ClickOutside(m)
    <3>1. active' \in [Members -> Cores \union {"none"}]
      BY <2>1 DEF ClickOutside, ZoneInv, TypeOK
    <3>2. UNCHANGED <<apart, untold, shape, now, row, memory, view, editor, fixed, resets, up,
                      after, down, edits, backs>>
      BY <2>1 DEF ClickOutside
    <3>3. StaleInv'
      BY <3>2, StaleSame
    <3> QED BY <3>1, <3>2, <3>3, PagesKeep DEF ZoneInv, TypeOK
  <2> QED BY <1>1, <1>2, <2>1, CoreNotesKeep, OtherNotesKeep DEF Note
<1>3. ASSUME NEW m \in Arrangers, Arrange(m)
      PROVE  ZoneInv'
  BY <1>1, <1>3, OpenHandleEditorKeeps, SaveZoneHandlesKeeps, UpdateNodeHandlePositionKeeps,
     DeleteHistoryKeeps, ResetZonePortalsKeeps DEF Arrange
<1>4. ASSUME NEW m \in Members, ApplyMessage(m)
      PROVE  ZoneInv'
  BY <1>4, ApplyMessageKeeps
<1>5. CASE Serve
  BY <1>5, CommitSaveKeeps, RememberSaveKeeps, RotateZoneKeeps DEF Serve
<1>6. CASE ReportConnection
  BY <1>6, ReportConnectionKeeps
<1>7. CASE RemoveZone
  BY <1>7, RemoveZoneKeeps
<1>8. CASE Tick
  BY <1>8, TickKeeps
<1>9. CASE UNCHANGED vars
  <2>1. UNCHANGED <<apart, untold, shape, now, row, memory, view, active, editor, fixed, resets, up,
                    after, down, edits, backs>>
    BY <1>9 DEF vars
  <2>2. StaleInv'
    BY <2>1, StaleSame
  <2> QED BY <2>1, <2>2, PagesKeep DEF ZoneInv, TypeOK
<1>10. CASE AddSource
  BY <1>10, AddSourceKeeps
<1>11. CASE ResetRoom
  BY <1>11, ResetRoomKeeps
<1>12. CASE ImportRoom
  BY <1>12, ImportRoomKeeps
<1>13. CASE TellNodes
  BY <1>13, TellNodesKeeps
<1> QED BY <1>2, <1>3, <1>4, <1>5, <1>6, <1>7, <1>8, <1>9, <1>10, <1>11, <1>12, <1>13 DEF Next

\* The inductive invariant holds always: layouts tell their rotation exactly,
\* features make sense, the history has what the map shows or is owed one write
\* unless the two were last written apart, whoever may still repair a
\* contradiction the stores were told of is about to see it, and a copy that is
\* turned without a layout is one of a member who cannot.
THEOREM AlwaysZoneInv == Spec => []ZoneInv
BY InitInv, NextInv, PTL DEF Spec

\* What members note makes sense wherever it is and whoever changed it from
\* however old a copy, for any timers, members and shapes (ZoneNode.vue's edits,
\* update_node_positions.ts, connections.ts).
THEOREM NotesAlwaysMakeSense == Spec => []NotesMakeSense
<1>1. ZoneInv => NotesMakeSense
  <2> SUFFICES ASSUME ZoneInv
               PROVE  NotesMakeSense
    OBVIOUS
  <2>1. \A n \in GoodNodes : Sensible(n.feat)
    BY NodeParts, FeatureParts
  <2>2. \A s \in GoodMessages : Sensible(s.feat)
    BY MessageParts, FeatureParts
  <2>3. /\ row \in GoodNodes /\ \A m \in Members : view[m] \in GoodNodes
        /\ \A s \in up : s \in GoodMessages
    BY DEF ZoneInv, TypeOK
  <2> QED BY <2>1, <2>2, <2>3, Zenon DEF NotesMakeSense
<1> QED BY <1>1, AlwaysZoneInv, PTL

\* The history has what the map shows, unless the two were last written apart: by
\* a write between a save and its write to the history
\* (update_node_positions.ts:118), by a reset, an import or a chain that begins
\* at a zone with an entry (rooms.ts:874, 1138, 440, 645).
THEOREM HistoryAlwaysKeepsUp == Spec => []HistoryKeepsUp
<1>1. ZoneInv => HistoryKeepsUp
  BY DEF ZoneInv, HistoryInv, HistoryKeepsUp
<1> QED BY <1>1, AlwaysZoneInv, PTL

\* A contradiction of layout and rotation that outlasts all messages is one
\* every member's page has spent its repair on (useRoomStore.ts:315), or one a
\* reset or an import left that no store was told of (useRoomStore.ts:461).
THEOREM ContradictionsAlwaysHeal == Spec => []ContradictionsHeal
<1>1. ZoneInv => ContradictionsHeal
  BY DEF ZoneInv, TypeOK, HealInv, ContradictionsHeal
<1> QED BY <1>1, AlwaysZoneInv, PTL

\* Every save and every turn leaves the row with the zone's shape turned as far
\* as the row says, by the geometry and not along the edge, or with the rotation
\* a save brought that has no layout
\* (update_node_positions.ts, rotate_zone.ts, handlePositions.ts).
THEOREM WritesStayTurnedShapes == Spec => WritesAreTurnedShapes
<1>1. ZoneInv /\ [Next]_vars =>
        [row' # row /\ row'.on /\ backs' = backs /\ Shaped =>
           \/ IsTurnedShape(row')
           \/ \E s \in up : /\ s.kind = "save" /\ s.handles = NoHandles
                            /\ row'.handles = NoHandles /\ row'.rotation = s.rotation]_vars
  <2> SUFFICES ASSUME ZoneInv, [Next]_vars, row' # row, row'.on, backs' = backs, Shaped
               PROVE  \/ IsTurnedShape(row')
                      \/ \E s \in up : /\ s.kind = "save" /\ s.handles = NoHandles
                                       /\ row'.handles = NoHandles /\ row'.rotation = s.rotation
    OBVIOUS
  <2>1. ASSUME NEW n \in GoodNodes, Faithful(n)
        PROVE  IsTurnedShape(n)
    BY <2>1, FaithfulNodes, NodeParts
  <2>2. CASE CommitSave
    BY <2>1, <2>2, CommitSaveWrites
  <2>3. CASE RotateZone
    <3>1. row.on
      BY <2>3 DEF RotateZone
    <3> QED BY <2>1, <2>3, <3>1, RotateZoneWrites
  <2>4. ~ReportConnection /\ ~AddSource /\ ~TellReset
    <3>1. backs' # backs + 1
      BY DEF ZoneInv, TypeOK
    <3>2. ~ReportConnection
      BY <3>1 DEF ReportConnection
    <3> QED BY <3>1, <3>2 DEF AddSource, TellReset
  <2>10. ~ResetRoom /\ ~ImportRoom /\ ~TellNodes
    BY <2>4 DEF ResetRoom, ImportRoom, TellNodes
  <2>5. ~RemoveZone
    BY DEF RemoveZone, Gone
  <2>6. ~RememberSave /\ ~Tick /\ ~UNCHANGED vars
    BY DEF RememberSave, Tick, vars
  <2>7. \A m : ~ApplyMessage(m)
    BY DEF ApplyMessage
  <2>8. \A m : ~Arrange(m)
    BY DEF Arrange, OpenHandleEditor, SaveZoneHandles, UpdateNodeHandlePosition, SendSave,
           DeleteHistory, ResetZonePortals
  <2>9. \A m : ~Note(m)
    <3>1. \A m, features : UpdateNodeFeatures(m, features) => row' = row
      BY DEF UpdateNodeFeatures, SendSave
    <3>2. \A m, seen : UpdateReds(m, seen) => row' = row
      BY <3>1 DEF UpdateReds
    <3>3. \A m, timer : UpdateChest(m, timer) => row' = row
      BY <3>1 DEF UpdateChest
    <3>4. \A m : ~ClickOutside(m)
      BY DEF ClickOutside
    <3>5. \A m : ~ToggleReds(m) /\ ~EnterReds(m)
      BY <3>2 DEF ToggleReds, EnterReds
    <3>6. \A m : ~SaveChest(m) /\ ~ClearChest(m)
      BY <3>3 DEF SaveChest, ClearChest
    <3>7. \A m, c : ~ToggleFeature(m, c)
      BY <3>1 DEF ToggleFeature
    <3>8. \A m : ~SaveTimer(m)
      BY <3>1 DEF SaveTimer
    <3>9. \A m : ~ClearTimer(m)
      BY <3>1 DEF ClearTimer
    <3>10. \A m : ~UnlockCore(m)
      BY <3>1 DEF UnlockCore
    <3>11. \A m : ~LockCore(m)
      BY <3>1 DEF LockCore
    <3>12. \A m : ~SetFeatureCount(m)
      BY <3>1 DEF SetFeatureCount
    <3>13. \A m : ~SetResourceCount(m)
      BY <3>1 DEF SetResourceCount
    <3>14. \A m : ~ClearResource(m)
      BY <3>1 DEF ClearResource
    <3>15. \A m : ~HandleMarkAsCorrect(m)
      BY <3>1 DEF HandleMarkAsCorrect
    <3> QED BY <3>4, <3>5, <3>6, <3>7, <3>8, <3>9, <3>10, <3>11, <3>12, <3>13, <3>14, <3>15 DEF Note
  <2> QED BY <2>2, <2>3, <2>4, <2>5, <2>6, <2>7, <2>8, <2>9, <2>10 DEF Next, Serve
<1>2. [][Next]_vars /\ []ZoneInv => WritesAreTurnedShapes
  BY <1>1, PTL DEF WritesAreTurnedShapes
<1> QED BY <1>2, AlwaysZoneInv, PTL DEF Spec
=============================================================================
