----------------------------- MODULE PortalsProofs -----------------------------
(***************************************************************************)
(* What module Portals' members may rely on, for any members, zones and    *)
(* portals and however many connections.  PortalsAgree is not inductive: a *)
(* connection agrees with the others because its member had looked, maybe  *)
(* several requests ago.  So PortalsInv says of everything that is open or *)
(* under way what it rests on (Held), as long as no other write came in    *)
(* between (fresh); of a queue, that whoever uses a portal to be disabled  *)
(* is to leave it first; and of the connections that moved to the centre   *)
(* already, which request explains it (Agree).  LoopInv adds what keeps    *)
(* the members warned of loops: the connections nobody was warned of have  *)
(* none, and who adds one more saw that nothing joins its two zones.       *)
(***************************************************************************)
EXTENDS Portals, FiniteSetTheorems, WellFoundedInduction, TLAPS

Hows == {"plain", "warned", "misled", "picked", "repicked", "replaced"}

\* The target of a form that names it by hand is its centre.
HowFits(x, between) ==
  /\ between => x.how # "picked" /\ (x.how = "repicked" => x.th = Center)
  /\ ~between => x.how \in {"plain", "picked"} /\ x.th = Center

Forms ==
  {f \in [from : Zones, fh : Handles, to : Zones, th : Handles,
          between : BOOLEAN, how : Hows \ {"replaced"}] : HowFits(f, f.between)}

Asks ==
  {d \in [from : Zones, fh : Handles, to : Zones, th : Handles, id : Nat] : d.from # d.to}

Adds ==
  {r \in [op : {"add", "insert"}, from : Zones, fh : Handles, to : Zones, th : Handles,
          how : Hows, place : BOOLEAN, close : BOOLEAN] :
     r.from # r.to /\ HowFits(r, ~r.place)}
Patches == [op : {"patch"}, id : Nat, fh : Handles, th : Handles, checked : BOOLEAN]
Moves == [op : {"delete", "center"}, id : Nat]
Times == [op : {"time"}, id : Nat]
Disables == [op : {"disable"}, zone : Zones, portals : SUBSET Portals]
Requests == Adds \cup Patches \cup Moves \cup Times \cup Disables

Replaces(r) == r.op = "add" /\ r.how = "replaced"

\* The requests of one gesture: connections leave portals before these are
\* disabled, a connection is deleted before its replacement, or one request.
Queues ==
  {q \in Seq(Requests) :
     /\ \A i \in 1..Len(q) - 1 : q[i] \in Moves
     /\ \A i \in 1..Len(q) : q[i].op = "center" => q[Len(q)] \in Disables
     /\ Len(q) > 1 => q[Len(q)] \in Disables \/ Replaces(q[Len(q)])}

-----------------------------------------------------------------------------
(* Requests and queues *)

\* The kind of a request is what its op says.
LEMMA Ops ==
    ASSUME NEW r \in Requests
    PROVE  /\ r \in Adds <=> r.op \in {"add", "insert"}
           /\ r \in Patches <=> r.op = "patch"
           /\ r \in Moves <=> r.op \in {"delete", "center"}
           /\ r \in Times <=> r.op = "time"
           /\ r \in Disables <=> r.op = "disable"
BY DEF Requests, Adds, Patches, Moves, Times, Disables

\* What is in a queue.
LEMMA RangeIs ==
    ASSUME NEW q \in Seq(Requests)
    PROVE  /\ Range(q) = {q[i] : i \in 1..Len(q)}
           /\ Range(q) \subseteq Requests
BY DEF Range

\* The empty queue, and a queue of one request that moves no connection.
LEMMA NoneOrOne ==
    ASSUME NEW r \in Requests \ Moves
    PROVE  /\ <<>> \in Queues /\ Range(<<>>) = {}
           /\ <<r>> \in Queues /\ Range(<<r>>) = {r}
<1>1. <<>> \in Seq(Requests) /\ <<r>> \in Seq(Requests) /\ Len(<<>>) = 0 /\ Len(<<r>>) = 1 /\ <<r>>[1] = r
  OBVIOUS
<1>2. r.op # "center"
  BY Ops
<1>3. <<>> \in Queues /\ <<r>> \in Queues
  BY <1>1, <1>2 DEF Queues
<1>4. Range(<<>>) = {} /\ Range(<<r>>) = {r}
  BY <1>1 DEF Range
<1> QED BY <1>3, <1>4

\* A delete request alone is a queue, too.
LEMMA OneDelete ==
    ASSUME NEW r \in Moves, r.op = "delete"
    PROVE  <<r>> \in Queues /\ Range(<<r>>) = {r}
<1>1. <<r>> \in Seq(Requests) /\ Len(<<r>>) = 1 /\ <<r>>[1] = r
  BY DEF Requests
<1>2. <<r>> \in Queues
  BY <1>1 DEF Queues
<1>3. Range(<<r>>) = {r}
  BY <1>1 DEF Range
<1> QED BY <1>2, <1>3

\* The rest of a sequence.
LEMMA TailOf ==
    ASSUME NEW S, NEW q \in Seq(S), q # <<>>
    PROVE  /\ Tail(q) \in Seq(S) /\ Len(Tail(q)) = Len(q) - 1
           /\ \A i \in 1..(Len(q) - 1) : Tail(q)[i] = q[i + 1]
           /\ Len(q) = 1 => q = <<Head(q)>> /\ Tail(q) = <<>>
<1>1. Tail(q) \in Seq(S) /\ Len(Tail(q)) = Len(q) - 1
  OBVIOUS
<1>2. \A i \in 1..(Len(q) - 1) : Tail(q)[i] = q[i + 1]
  OBVIOUS
<1>3. ASSUME Len(q) = 1 PROVE q = <<Head(q)>> /\ Tail(q) = <<>>
  <2>1. q = [i \in 1..1 |-> q[i]]
    BY <1>3
  <2>2. PICK h \in S : h = q[1]
    BY <1>3
  <2>3. <<h>> = [i \in 1..1 |-> h]
    OBVIOUS
  <2>4. q = <<h>>
    BY <2>1, <2>2, <2>3
  <2>5. PICK t \in Seq(S) : t = Tail(q) /\ Len(t) = 0
    <3>1. Tail(q) \in Seq(S) /\ Len(Tail(q)) = 0
      BY <1>1, <1>3
    <3> QED BY <3>1, Zenon
  <2>6. t = <<>>
    BY <2>5
  <2> QED BY <2>2, <2>4, <2>5, <2>6
<1> QED BY <1>1, <1>2, <1>3

\* What is under way, and what is left after it.
LEMMA QueueHead ==
    ASSUME NEW q \in Queues, q # <<>>
    PROVE  /\ Head(q) \in Requests /\ Head(q) \in Range(q)
           /\ Tail(q) \in Queues
           /\ Range(q) = {Head(q)} \cup Range(Tail(q))
           /\ Head(q) \notin Moves => q = <<Head(q)>>
           /\ Head(q).op = "center" => \E r \in Range(Tail(q)) : r \in Disables
           /\ Last(q) \in Range(q) /\ Last(q) \in Requests
           /\ Head(q) \in Moves => \A r \in Range(Tail(q)) : r \in Moves \cup Disables \/ Replaces(r)
<1>1. q \in Seq(Requests) /\ Len(q) \in Nat /\ Len(q) > 0
  BY DEF Queues
<1>2. PICK n \in Nat : n = Len(q)
  BY <1>1
<1>3. Head(q) = q[1] /\ q[1] \in Requests /\ q[n] \in Requests
  BY <1>1, <1>2
<1>4. PICK t \in Seq(Requests) : t = Tail(q)
  BY <1>1, TailOf, Zenon
<1>5. Len(t) = n - 1 /\ \A i \in 1..(n - 1) : t[i] = q[i + 1]
  BY <1>1, <1>2, <1>4, TailOf
<1>6. Range(q) = {q[i] : i \in 1..n} /\ Range(t) = {t[i] : i \in 1..(n - 1)}
  BY <1>1, <1>2, <1>5, RangeIs
<1>7. Range(q) = {Head(q)} \cup Range(t)
  <2>1. ASSUME NEW i \in 1..n PROVE i = 1 \/ (i - 1 \in 1..(n - 1) /\ q[i] = t[i - 1])
    BY <1>5
  <2>2. ASSUME NEW i \in 1..(n - 1) PROVE i + 1 \in 1..n /\ t[i] = q[i + 1]
    BY <1>5
  <2>3. 1 \in 1..n
    BY <1>1, <1>2
  <2>4. Range(q) \subseteq {Head(q)} \cup Range(t)
    <3>1. ASSUME NEW i \in 1..n PROVE q[i] \in {Head(q)} \cup {t[j] : j \in 1..(n - 1)}
      BY <1>3, <2>1
    <3> QED BY <1>6, <3>1
  <2>5. {Head(q)} \cup Range(t) \subseteq Range(q)
    <3>1. ASSUME NEW i \in 1..(n - 1) PROVE t[i] \in {q[j] : j \in 1..n}
      BY <2>2
    <3>2. Head(q) \in {q[j] : j \in 1..n}
      BY <1>3, <2>3
    <3> QED BY <1>6, <3>1, <3>2
  <2> QED BY <2>4, <2>5
<1>8. /\ \A i \in 1..(n - 1) : q[i] \in Moves
      /\ \A i \in 1..n : q[i].op = "center" => q[n] \in Disables
      /\ n > 1 => q[n] \in Disables \/ Replaces(q[n])
  BY <1>2 DEF Queues
<1>9. t \in Queues
  <2>1. CASE n = 1
    <3>1. t = <<>> /\ Len(t) = 0
      BY <1>5, <2>1
    <3> QED BY <3>1 DEF Queues
  <2>2. CASE n > 1
    <3>1. t[n - 1] = q[n] /\ n - 1 \in 1..(n - 1)
      BY <1>5, <2>2
    <3>2. \A i \in 1..(n - 2) : t[i] \in Moves
      BY <1>5, <1>8
    <3>3. \A i \in 1..(n - 1) : t[i].op = "center" => t[n - 1] \in Disables
      BY <1>5, <1>8, <3>1
    <3>4. n - 1 > 1 => t[n - 1] \in Disables \/ Replaces(t[n - 1])
      BY <1>8, <3>1
    <3>5. PICK j \in Nat : j = Len(t) /\ j = n - 1 /\ j - 1 = n - 2
      BY <1>5, <2>2
    <3>6. /\ \A i \in 1..(j - 1) : t[i] \in Moves
          /\ \A i \in 1..j : t[i].op = "center" => t[j] \in Disables
          /\ j > 1 => t[j] \in Disables \/ Replaces(t[j])
      BY <3>2, <3>3, <3>4, <3>5
    <3> QED BY <3>5, <3>6 DEF Queues
  <2> QED BY <1>1, <1>2, <2>1, <2>2
<1>10. Head(q) \notin Moves => q = <<Head(q)>>
  <2>1. SUFFICES ASSUME Head(q) \notin Moves PROVE q = <<Head(q)>>
    OBVIOUS
  <2>2. n = 1
    <3>1. n > 1 => 1 \in 1..(n - 1)
      OBVIOUS
    <3> QED BY <1>1, <1>2, <1>3, <1>8, <2>1, <3>1
  <2> QED BY <1>1, <1>2, <2>2, TailOf
<1>11. Head(q).op = "center" => \E r \in Range(t) : r \in Disables
  <2>1. SUFFICES ASSUME Head(q).op = "center" PROVE \E r \in Range(t) : r \in Disables
    OBVIOUS
  <2>2. q[n] \in Disables
    BY <1>1, <1>2, <1>3, <1>8, <2>1
  <2>3. n # 1
    BY <1>3, <2>1, <2>2 DEF Disables
  <2>4. n - 1 \in 1..(n - 1) /\ t[n - 1] = q[n]
    BY <1>1, <1>2, <1>5, <2>3
  <2> QED BY <1>6, <2>2, <2>4
<1>12. Last(q) \in Range(q) /\ Last(q) \in Requests /\ Head(q) \in Range(q)
  <2>1. n \in 1..n /\ 1 \in 1..n
    BY <1>1, <1>2
  <2> QED BY <1>2, <1>3, <1>6, <2>1 DEF Last
<1>13. \A r \in Range(t) : r \in Moves \cup Disables \/ Replaces(r)
  <2>1. ASSUME NEW i \in 1..(n - 1) PROVE t[i] \in Moves \cup Disables \/ Replaces(t[i])
    <3>1. t[i] = q[i + 1] /\ (i + 1 \in 1..(n - 1) \/ (i + 1 = n /\ n > 1))
      BY <1>5
    <3> QED BY <1>8, <3>1
  <2> QED BY <1>6, <2>1
<1> QED BY <1>3, <1>4, <1>7, <1>9, <1>10, <1>11, <1>12, <1>13

\* Only the last request of a queue adds or disables.
LEMMA QueueLast ==
    ASSUME NEW q \in Queues, q # <<>>, NEW r \in Range(q)
    PROVE  r \in Moves \/ r = Last(q)
<1>1. PICK n \in Nat : n = Len(q)
  BY DEF Queues
<1>2. PICK i \in 1..n : r = q[i]
  BY <1>1, RangeIs DEF Queues
<1>3. i \in 1..(n - 1) \/ i = n
  BY <1>1, <1>2
<1> QED BY <1>1, <1>2, <1>3 DEF Queues, Last

(* The state *)

ShapeOf(F, D, q) ==
  /\ F \subseteq Forms
  /\ D \subseteq Asks
  /\ q \in Queues
  /\ F # {} => D = {} /\ \A r \in Range(q) : r \in Adds /\ r.how # "replaced"
  /\ D # {} => q = <<>>

Shapes ==
  /\ form \in [Members -> SUBSET Forms]
  /\ dialog \in [Members -> SUBSET Asks]
  /\ todo \in [Members -> Queues]
  /\ fresh \in [Members -> BOOLEAN]
  /\ \A m \in Members : ShapeOf(form[m], dialog[m], todo[m])

Blinds == [portals : SUBSET (Zones \X Handles), pairs : SUBSET SUBSET Zones, zones : SUBSET Zones]

Rows ==
  /\ TypeOK
  /\ IsFiniteSet(conns)
  /\ \A k \in conns : k.from # k.to /\ k.id <= last
  /\ grey \in [Members -> SUBSET over]
  /\ blind \in Blinds

\* Whoever is alive at a portal joins these two zones.
PortalFits(p, P) ==
  p[2] # Center /\ p \notin blind.portals =>
    \A l \in Alive : p \in PortalsOf(l) => Pair(l) = P

EndAt(x, z) == IF x.from = z THEN x.fh ELSE x.th

\* Entrances differ while portals of the zone are on their way to be disabled.
Explained(z, h, i) ==
  \E m \in Members : \E r \in Range(todo[m]) :
    r \in Disables /\ r.zone = z /\ {h, i} \subseteq r.portals \cup {Center}

SameEntrances(x, l) ==
  OneIsRoads(x) => \A z \in Pair(x) \ Roads :
    EndAt(x, z) = EndAt(l, z) \/ Explained(z, EndAt(x, z), EndAt(l, z))

PairFits(x) ==
  Pair(x) \notin blind.pairs =>
    \A l \in Alive : Pair(l) = Pair(x) => x.from = l.from /\ SameEntrances(x, l)

Agree ==
  \A k \in Alive : PairFits(k) /\ \A p \in PortalsOf(k) : PortalFits(p, Pair(k))

Stand ==
  \A k \in conns : /\ PortalsOf(k) \cap disabled \subseteq blind.portals
                   /\ Pair(k) \subseteq nodes \cup blind.zones

\* What the member of an entry looked at.
EntryHeld(x) ==
  x.from # x.to /\ x.how \notin {"misled", "replaced"} =>
    /\ PairFits(x)
    /\ PortalFits(<<x.to, x.th>>, Pair(x))

EndsHeld(x, between) ==
  x.from # x.to /\ between /\ x.how \in {"plain", "warned"} => Pair(x) \subseteq nodes \cup blind.zones

FormHeld(f) == EntryHeld(f) /\ EndsHeld(f, f.between)

AddHeld(r) ==
  /\ EntryHeld(r) /\ EndsHeld(r, ~r.place)
  /\ r.op = "insert" => Accepts(r) /\ (r.place => r.to \in nodes)

PatchHeld(r) ==
  r.checked => \A k \in conns : k.id = r.id =>
    /\ PortalFits(<<k.from, r.fh>>, Pair(k)) /\ PortalFits(<<k.to, r.th>>, Pair(k))
    /\ {<<k.from, r.fh>>, <<k.to, r.th>>} \cap disabled = {}
    /\ OneIsRoads(k) => SameEntrance(k, r.fh, r.th)

\* Every connection that uses a portal to be disabled is to leave it first.
DisableHeld(m, r) ==
  /\ \A k \in conns : (\E h \in r.portals : <<r.zone, h>> \in PortalsOf(k)) =>
       \E s \in Range(todo[m]) : s \in Moves /\ s.id = k.id
  /\ \A s \in Range(todo[m]) : s.op = "center" => \A k \in conns : k.id = s.id =>
       k.to = r.zone /\ k.th \in r.portals \cup {Center}

RequestHeld(m, r) ==
  /\ r \in Adds => AddHeld(r)
  /\ r \in Patches => PatchHeld(r)
  /\ r \in Disables => DisableHeld(m, r)

HeldBy(m) ==
  fresh[m] => /\ \A f \in form[m] : FormHeld(f)
              /\ \A r \in Range(todo[m]) : RequestHeld(m, r)

Held == \A m \in Members : HeldBy(m)

PortalsInv == Rows /\ Shapes /\ Agree /\ Stand /\ Held

(* What a step leaves as it was *)

\* Nobody stops disabling portals.
StillDisabling ==
  \A m \in Members : \A r \in Range(todo[m]) : r \in Disables => r \in Range(todo'[m])

BlindGrows ==
  /\ blind.portals \subseteq blind'.portals
  /\ blind.pairs \subseteq blind'.pairs
  /\ blind.zones \subseteq blind'.zones

\* Whoever is alive was so before, or is at blind portals only, or is k.
AliveBut(k) ==
  \A l \in Alive' : l \in Alive \/ l = k \/ (Pair(l) \in blind'.pairs /\ PortalsOf(l) \subseteq blind'.portals)

\* Entrances that differ for a reason do so while nobody stops disabling.
LEMMA StillExplained ==
    ASSUME StillDisabling, NEW z, NEW h, NEW i, Explained(z, h, i)
    PROVE  Explained(z, h, i)'
BY DEF StillDisabling, Explained

\* A portal still leads to the pair P after a step that brings k alone to life,
\* if k joins P.
LEMMA PortalStillFits ==
    ASSUME BlindGrows, NEW k, AliveBut(k), NEW p, NEW P, PortalFits(p, P),
           k \in Alive' /\ p \in PortalsOf(k) => Pair(k) = P
    PROVE  PortalFits(p, P)'
BY DEF BlindGrows, AliveBut, PortalFits

\* A pair is still in agreement after a step that brings k alone to life, if k
\* agrees with it.
LEMMA PairStillFits ==
    ASSUME StillDisabling, BlindGrows, NEW k, AliveBut(k), NEW x, PairFits(x),
           k \in Alive' /\ Pair(k) = Pair(x) => x.from = k.from /\ SameEntrances(x, k)'
    PROVE  PairFits(x)'
<1>1. SUFFICES ASSUME Pair(x) \notin blind'.pairs, NEW l \in Alive', Pair(l) = Pair(x)
               PROVE  x.from = l.from /\ SameEntrances(x, l)'
  BY DEF PairFits
<1>2. CASE l = k
  BY <1>1, <1>2
<1>3. CASE l \in Alive
  <2>1. x.from = l.from /\ SameEntrances(x, l)
    BY <1>1, <1>3 DEF PairFits, BlindGrows
  <2>2. \A z : Explained(z, EndAt(x, z), EndAt(l, z)) => Explained(z, EndAt(x, z), EndAt(l, z))'
    BY StillExplained
  <2> QED BY <2>1, <2>2 DEF SameEntrances
<1> QED BY <1>1, <1>2, <1>3 DEF AliveBut

\* The entrances of a connection are its own, and of two each other's.
LEMMA EntrancesOfTwoNext ==
    ASSUME NEW k, NEW l
    PROVE  /\ SameEntrances(k, k)'
           /\ Pair(k) = Pair(l) /\ SameEntrances(k, l)' => SameEntrances(l, k)'
<1>1. \A z, h, i : Explained(z, h, i)' => Explained(z, i, h)'
  BY DEF Explained
<1>2. SameEntrances(k, k)'
  BY DEF SameEntrances
<1>3. Pair(k) = Pair(l) => (OneIsRoads(k) <=> OneIsRoads(l))
  BY DEF OneIsRoads
<1> QED BY <1>1, <1>2, <1>3 DEF SameEntrances

\* Connections agree after a step whose one new connection fits.
LEMMA StillAgree ==
    ASSUME Agree, StillDisabling, BlindGrows, NEW k, AliveBut(k),
           k \in Alive' => PairFits(k) /\ \A p \in PortalsOf(k) : PortalFits(p, Pair(k))
    PROVE  Agree'
<1>1. SUFFICES ASSUME NEW l \in Alive'
               PROVE  PairFits(l)' /\ \A p \in PortalsOf(l) : PortalFits(p, Pair(l))'
  BY DEF Agree
<1>2. CASE l # k /\ l \notin Alive
  BY <1>2 DEF AliveBut, PairFits, PortalFits
<1>3. ASSUME k \in Alive'
      PROVE  PairFits(k)' /\ \A p \in PortalsOf(k) : PortalFits(p, Pair(k))'
  <2>1. PairFits(k)'
    BY <1>3, PairStillFits, EntrancesOfTwoNext
  <2>2. ASSUME NEW p \in PortalsOf(k) PROVE PortalFits(p, Pair(k))'
    <3>1. PICK P : P = Pair(k)
      OBVIOUS
    <3>2. PortalFits(p, P)
      BY <1>3, <2>2, <3>1
    <3>3. PortalFits(p, P)'
      BY <3>1, <3>2, PortalStillFits
    <3> QED BY <3>1, <3>3
  <2> QED BY <2>1, <2>2
<1>4. CASE l = k
  BY <1>3, <1>4
<1>5. CASE l # k /\ l \in Alive
  <2>1. ASSUME NEW p \in PortalsOf(l) PROVE PortalFits(p, Pair(l))'
    <3>1. PICK P : P = Pair(l)
      OBVIOUS
    <3>2. PortalFits(p, P)
      BY <1>5, <2>1, <3>1 DEF Agree
    <3>3. k \in Alive' /\ p \in PortalsOf(k) /\ p[2] # Center /\ p \notin blind'.portals => Pair(k) = P
      BY <1>3, <2>1, <3>1 DEF PortalFits
    <3>4. PortalFits(p, P)'
      BY <3>2, <3>3 DEF PortalFits, BlindGrows, AliveBut
    <3> QED BY <3>1, <3>4
  <2>2. PairFits(l)'
    <3>1. PairFits(l)
      BY <1>5 DEF Agree
    <3>2. k \in Alive' /\ Pair(k) = Pair(l) /\ Pair(l) \notin blind'.pairs
            => l.from = k.from /\ SameEntrances(l, k)'
      BY <1>3, EntrancesOfTwoNext DEF PairFits
    <3>3. CASE Pair(l) \in blind'.pairs
      BY <3>3 DEF PairFits
    <3>4. CASE Pair(l) \notin blind'.pairs
      BY <3>1, <3>2, <3>4, PairStillFits
    <3> QED BY <3>3, <3>4
  <2> QED BY <2>1, <2>2
<1> QED BY <1>2, <1>4, <1>5

\* A step that reaches no row, but for places and times that are over.
Quiet ==
  /\ UNCHANGED <<conns, disabled, last, blind>>
  /\ nodes \subseteq nodes' /\ nodes' \subseteq Zones
  /\ over \subseteq over' /\ over' \subseteq Ids'
  /\ grey' \in [Members -> SUBSET over']
  /\ StillDisabling

\* A quiet step brings nobody to life.
LEMMA QuietRows ==
    ASSUME Quiet
    PROVE  BlindGrows /\ Alive' \subseteq Alive
BY DEF Quiet, BlindGrows, Alive

\* What a member looked at stays as it was when nobody comes to life.
LEMMA EntryStillHeld ==
    ASSUME StillDisabling, BlindGrows, Alive' \subseteq Alive, NEW x
    PROVE  EntryHeld(x) => EntryHeld(x)'
<1>1. PICK k : k \notin Alive'
  <2>1. PICK S : S = Alive'
    OBVIOUS
  <2> QED BY <2>1, NoSetContainsEverything
<1>2. AliveBut(k)
  BY DEF AliveBut
<1>3. PairFits(x) => PairFits(x)'
  BY <1>1, <1>2, PairStillFits
<1>4. ASSUME NEW p, NEW P, PortalFits(p, P) PROVE PortalFits(p, P)'
  BY <1>1, <1>2, <1>4, PortalStillFits
<1>5. PortalFits(<<x.to, x.th>>, Pair(x)) => PortalFits(<<x.to, x.th>>, Pair(x))'
  <2>1. PICK p, P : p = <<x.to, x.th>> /\ P = Pair(x)
    OBVIOUS
  <2> QED BY <1>4, <2>1
<1> QED BY <1>3, <1>5 DEF EntryHeld

\* Forms and additions under way keep what they rest on in a quiet step.
LEMMA EntriesStillHeld ==
    ASSUME Quiet, NEW x
    PROVE  /\ FormHeld(x) => FormHeld(x)'
           /\ AddHeld(x) => AddHeld(x)'
<1>1. BlindGrows /\ Alive' \subseteq Alive /\ StillDisabling
  BY QuietRows DEF Quiet
<1>2. EntryHeld(x) => EntryHeld(x)'
  BY <1>1, EntryStillHeld
<1>3. ASSUME NEW b PROVE EndsHeld(x, b) => EndsHeld(x, b)'
  BY DEF EndsHeld, Quiet
<1>4. FormHeld(x) => FormHeld(x)'
  BY <1>2, <1>3 DEF FormHeld
<1>5. AddHeld(x) => AddHeld(x)'
  BY <1>2, <1>3 DEF AddHeld, Accepts, Occupants, Quiet
<1> QED BY <1>4, <1>5

\* So does a change of handles.
LEMMA PatchStillHeld ==
    ASSUME Quiet, NEW r, PatchHeld(r)
    PROVE  PatchHeld(r)'
<1>1. BlindGrows /\ Alive' \subseteq Alive
  BY QuietRows
<1>2. ASSUME NEW p, NEW P, PortalFits(p, P) PROVE PortalFits(p, P)'
  BY <1>1, <1>2 DEF PortalFits, BlindGrows
<1>3. SUFFICES ASSUME r.checked, NEW k \in conns', k.id = r.id
               PROVE  /\ PortalFits(<<k.from, r.fh>>, Pair(k))'
                      /\ PortalFits(<<k.to, r.th>>, Pair(k))'
                      /\ {<<k.from, r.fh>>, <<k.to, r.th>>} \cap disabled' = {}
                      /\ OneIsRoads(k) => SameEntrance(k, r.fh, r.th)
  BY DEF PatchHeld
<1>4. PICK p, q, P : p = <<k.from, r.fh>> /\ q = <<k.to, r.th>> /\ P = Pair(k)
  OBVIOUS
<1>5. /\ PortalFits(p, P) /\ PortalFits(q, P) /\ {p, q} \cap disabled = {}
      /\ OneIsRoads(k) => SameEntrance(k, r.fh, r.th)
  BY <1>3, <1>4 DEF PatchHeld, Quiet
<1>6. PortalFits(p, P)' /\ PortalFits(q, P)'
  BY <1>2, <1>5
<1> QED BY <1>4, <1>5, <1>6 DEF Quiet

\* So does all that a member who does not move has open or under way.
LEMMA StillHeldBy ==
    ASSUME Quiet, NEW n \in Members, HeldBy(n),
           form'[n] \subseteq form[n], todo'[n] = todo[n], fresh'[n] => fresh[n]
    PROVE  HeldBy(n)'
<1>1. ASSUME NEW r, RequestHeld(n, r) PROVE RequestHeld(n, r)'
  <2>1. DisableHeld(n, r) => DisableHeld(n, r)'
    BY DEF DisableHeld, Quiet
  <2> QED BY <1>1, <2>1, EntriesStillHeld, PatchStillHeld DEF RequestHeld
<1>2. SUFFICES ASSUME fresh'[n]
               PROVE  /\ \A f \in form'[n] : FormHeld(f)'
                      /\ \A r \in Range(todo[n]) : RequestHeld(n, r)'
  BY DEF HeldBy
<1>3. (\A f \in form[n] : FormHeld(f)) /\ (\A r \in Range(todo[n]) : RequestHeld(n, r))
  BY <1>2 DEF HeldBy
<1> QED BY <1>1, <1>3, EntriesStillHeld

OthersWait(m) ==
  \A n \in Members \ {m} :
    form'[n] = form[n] /\ todo'[n] = todo[n] /\ (fresh'[n] => fresh[n])

\* A quiet step of a member leaves the invariant to what is his.
LEMMA QuietKeeps ==
    ASSUME PortalsInv, Quiet, NEW m, OthersWait(m), Shapes', m \in Members => HeldBy(m)'
    PROVE  PortalsInv'
<1>1. BlindGrows /\ Alive' \subseteq Alive /\ StillDisabling
  BY QuietRows DEF Quiet
<1>2. Rows'
  <2>1. \A n \in Members : \A f \in form'[n] : {f.fh, f.th} \subseteq Handles
    BY DEF Shapes, Forms
  <2>2. \A n \in Members : grey'[n] \subseteq over'
    BY DEF Quiet
  <2>3. TypeOK'
    BY <2>1, <2>2 DEF PortalsInv, Rows, TypeOK, Quiet, Ids
  <2> QED BY <2>3 DEF PortalsInv, Rows, Quiet
<1>3. Agree'
  <2>1. AliveBut(0) /\ (0 \in Alive' => PairFits(0) /\ \A p \in PortalsOf(0) : PortalFits(p, Pair(0)))
    BY <1>1 DEF AliveBut, PortalsInv, Agree
  <2> QED BY <1>1, <2>1, StillAgree DEF PortalsInv
<1>4. Stand'
  BY DEF PortalsInv, Stand, Quiet
<1>5. ASSUME NEW n \in Members PROVE HeldBy(n)'
  <2>1. CASE n = m
    BY <2>1
  <2>2. CASE n # m
    <3>1. form'[n] \subseteq form[n] /\ todo'[n] = todo[n] /\ (fresh'[n] => fresh[n])
      BY <2>2 DEF OthersWait
    <3>2. HeldBy(n)
      BY DEF PortalsInv, Held
    <3> QED BY <3>1, <3>2, StillHeldBy
  <2> QED BY <2>1, <2>2
<1> QED BY <1>2, <1>3, <1>4, <1>5 DEF PortalsInv, Held

-----------------------------------------------------------------------------
(* A step of one member *)

\* What a step of one member changes of what is open and under way.
LEMMA OneMoves ==
    ASSUME Shapes, NEW m \in Members, NEW F, NEW D, NEW q, ShapeOf(F, D, q),
           form' = [form EXCEPT ![m] = F], dialog' = [dialog EXCEPT ![m] = D],
           todo' = [todo EXCEPT ![m] = q], fresh' \in [Members -> BOOLEAN]
    PROVE  /\ Shapes'
           /\ form'[m] = F /\ dialog'[m] = D /\ todo'[m] = q
           /\ \A n \in Members \ {m} : form'[n] = form[n] /\ todo'[n] = todo[n] /\ dialog'[n] = dialog[n]
<1>1. form'[m] = F /\ dialog'[m] = D /\ todo'[m] = q
  BY DEF Shapes
<1>2. \A n \in Members \ {m} : form'[n] = form[n] /\ todo'[n] = todo[n] /\ dialog'[n] = dialog[n]
  BY DEF Shapes
<1>3. /\ form' \in [Members -> SUBSET Forms]
      /\ dialog' \in [Members -> SUBSET Asks]
      /\ todo' \in [Members -> Queues]
  BY DEF Shapes, ShapeOf
<1>4. \A n \in Members : ShapeOf(form'[n], dialog'[n], todo'[n])
  BY <1>1, <1>2, Zenon DEF Shapes
<1>5. Shapes'
  BY <1>3, <1>4 DEF Shapes
<1> QED BY <1>1, <1>2, <1>5

\* A step that writes nothing, by what is open and under way after it.
LEMMA MemberMoves ==
    ASSUME PortalsInv, NEW m \in Members, NEW F, NEW D, NEW q, ShapeOf(F, D, q),
           form' = [form EXCEPT ![m] = F], dialog' = [dialog EXCEPT ![m] = D],
           todo' = [todo EXCEPT ![m] = q],
           fresh' = fresh \/ fresh' = [fresh EXCEPT ![m] = TRUE],
           UNCHANGED <<conns, disabled, over, grey, last, blind>>,
           nodes \subseteq nodes', nodes' \subseteq Zones,
           \A r \in Range(todo[m]) : r \in Disables => r \in Range(q),
           Quiet /\ fresh'[m] /\ todo'[m] = q =>
             (\A f \in F : FormHeld(f)') /\ (\A r \in Range(q) : RequestHeld(m, r)')
    PROVE  PortalsInv'
<1>1. Shapes /\ fresh' \in [Members -> BOOLEAN] /\ \A n \in Members \ {m} : fresh'[n] = fresh[n]
  BY DEF PortalsInv, Shapes
<1>2. /\ Shapes'
      /\ form'[m] = F /\ dialog'[m] = D /\ todo'[m] = q
      /\ \A n \in Members \ {m} : form'[n] = form[n] /\ todo'[n] = todo[n] /\ dialog'[n] = dialog[n]
  BY <1>1, OneMoves
<1>3. Quiet
  <2>1. StillDisabling
    BY <1>2 DEF StillDisabling
  <2> QED BY <2>1 DEF PortalsInv, Rows, TypeOK, Quiet, Ids
<1>4. OthersWait(m)
  BY <1>1, <1>2 DEF OthersWait
<1>5. HeldBy(m)'
  BY <1>2, <1>3 DEF HeldBy
<1> QED BY <1>2, <1>3, <1>4, <1>5, QuietKeeps

\* A gesture of a member who has nothing open, by what it opens or sends.
LEMMA GestureMoves ==
    ASSUME PortalsInv, NEW m \in Members, Ready(m), Gesture(m),
           NEW F, NEW D, NEW q, ShapeOf(F, D, q),
           form' = [form EXCEPT ![m] = F], dialog' = [dialog EXCEPT ![m] = D],
           todo' = [todo EXCEPT ![m] = q],
           \A f \in F : FormHeld(f),
           Quiet /\ todo'[m] = q => \A r \in Range(q) : RequestHeld(m, r)'
    PROVE  PortalsInv'
<1>1. todo[m] = <<>> /\ Range(todo[m]) = {}
  BY DEF Ready, Range
<1>2. /\ fresh' = [fresh EXCEPT ![m] = TRUE]
      /\ UNCHANGED <<conns, disabled, over, grey, last, blind>>
      /\ nodes \subseteq nodes' /\ nodes' \subseteq Zones
  BY DEF Gesture, PortalsInv, Rows, TypeOK
<1>3. Quiet => \A f \in F : FormHeld(f)'
  BY EntriesStillHeld
<1> QED BY <1>1, <1>2, <1>3, MemberMoves

\* A gesture that opens a form (RoomView).
LEMMA GestureOpens ==
    ASSUME PortalsInv, NEW m \in Members, Ready(m), Gesture(m),
           NEW f \in Forms, FormHeld(f), Open(m, f)
    PROVE  PortalsInv'
<1>1. form[m] = {} /\ dialog[m] = {} /\ todo[m] = <<>>
  BY DEF Ready
<1>2. PICK F, D, q : F = {f} /\ D = {} /\ q = <<>>
  OBVIOUS
<1>3. /\ form' = [form EXCEPT ![m] = F] /\ dialog' = [dialog EXCEPT ![m] = D]
      /\ todo' = [todo EXCEPT ![m] = q]
  BY <1>1, <1>2 DEF Open, PortalsInv, Shapes
<1>4. Range(q) = {} /\ q \in Queues
  BY <1>1, <1>2 DEF PortalsInv, Shapes, Range
<1>5. ShapeOf(F, D, q)
  BY <1>2, <1>4 DEF ShapeOf
<1>6. (\A g \in F : FormHeld(g)) /\ (\A r \in Range(q) : RequestHeld(m, r)')
  BY <1>2, <1>4
<1> QED BY <1>3, <1>5, <1>6, GestureMoves

\* A gesture that asks about an occupied portal.
LEMMA GestureAsks ==
    ASSUME PortalsInv, NEW m \in Members, Ready(m), Gesture(m),
           NEW d \in Asks, Ask(m, d)
    PROVE  PortalsInv'
<1>1. form[m] = {} /\ dialog[m] = {} /\ todo[m] = <<>>
  BY DEF Ready
<1>2. PICK F, D, q : F = {} /\ D = {d} /\ q = <<>>
  OBVIOUS
<1>3. /\ form' = [form EXCEPT ![m] = F] /\ dialog' = [dialog EXCEPT ![m] = D]
      /\ todo' = [todo EXCEPT ![m] = q]
  BY <1>1, <1>2 DEF Ask, PortalsInv, Shapes
<1>4. Range(q) = {} /\ q \in Queues
  BY <1>1, <1>2 DEF PortalsInv, Shapes, Range
<1>5. ShapeOf(F, D, q)
  BY <1>2, <1>4 DEF ShapeOf
<1>6. (\A g \in F : FormHeld(g)) /\ (\A r \in Range(q) : RequestHeld(m, r)')
  BY <1>2, <1>4
<1> QED BY <1>3, <1>5, <1>6, GestureMoves

\* A gesture that sends requests.
LEMMA GestureSends ==
    ASSUME PortalsInv, NEW m \in Members, Ready(m), Gesture(m),
           NEW q \in Queues, Send(m, q),
           Quiet /\ todo'[m] = q => \A r \in Range(q) : RequestHeld(m, r)'
    PROVE  PortalsInv'
<1>1. form[m] = {} /\ dialog[m] = {}
  BY DEF Ready
<1>2. PICK F, D : F = {} /\ D = {}
  OBVIOUS
<1>3. /\ form' = [form EXCEPT ![m] = F] /\ dialog' = [dialog EXCEPT ![m] = D]
      /\ todo' = [todo EXCEPT ![m] = q]
  BY <1>1, <1>2 DEF Send, PortalsInv, Shapes
<1>4. ShapeOf(F, D, q)
  BY <1>2 DEF ShapeOf
<1>5. \A g \in F : FormHeld(g)
  BY <1>2
<1> QED BY <1>3, <1>4, <1>5, GestureMoves

\* A gesture that sends one request about a connection.
LEMMA GestureSendsOne ==
    ASSUME PortalsInv, NEW m \in Members, Ready(m), Gesture(m),
           NEW r \in Patches \cup Times \cup Moves, r.op # "center",
           r \in Patches => PatchHeld(r), Send(m, <<r>>)
    PROVE  PortalsInv'
<1>1. <<r>> \in Queues /\ Range(<<r>>) = {r}
  <2>1. CASE r \in Moves
    <3>1. r.op = "delete"
      BY <2>1 DEF Moves
    <3> QED BY <2>1, <3>1, OneDelete
  <2>2. CASE r \notin Moves
    <3>1. r \in Requests \ Moves
      BY <2>2 DEF Requests
    <3> QED BY <3>1, NoneOrOne
  <2> QED BY <2>1, <2>2
<1>2. r \notin Adds /\ r \notin Disables
  BY DEF Adds, Disables, Patches, Times, Moves
<1>3. Quiet => RequestHeld(m, r)'
  BY <1>2, PatchStillHeld DEF RequestHeld
<1> QED BY <1>1, <1>3, GestureSends

-----------------------------------------------------------------------------
(* Gestures *)

\* What there is to drag from and to, and who is alive.
LEMMA Places ==
    ASSUME PortalsInv
    PROVE  /\ Drawn \subseteq Zones
           /\ Drawn \subseteq nodes \cup blind.zones
           /\ \A k \in conns : k \in Connection /\ k.from # k.to /\ k.id \in Nat
           /\ \A m \in Members : Alive \subseteq Live(m)
<1>1. \A k \in conns : k \in Connection /\ k.from # k.to /\ k.id \in Nat
  <2>1. \A k \in conns : k \in Connection /\ k.from # k.to
    BY DEF PortalsInv, Rows, TypeOK
  <2>2. \A k \in Connection : k.id \in Nat
    <3>1. \A i \in 1..MaxConns : i \in Nat
      BY SMT
    <3>2. \A k \in Connection : k.id \in 1..MaxConns
      BY DEF Connection
    <3> QED BY <3>1, <3>2
  <2> QED BY <2>1, <2>2
<1>2. \A k \in conns : Pair(k) \subseteq Zones /\ Pair(k) \subseteq nodes \cup blind.zones
  BY <1>1 DEF Connection, Pair, PortalsInv, Stand
<1>3. nodes \subseteq Zones
  BY DEF PortalsInv, Rows, TypeOK
<1>4. \A m \in Members : Alive \subseteq Live(m)
  BY DEF Alive, Live, PortalsInv, Rows
<1> QED BY <1>1, <1>2, <1>3, <1>4 DEF Drawn

\* Where no connection is alive any new one agrees.
LEMMA NoneBetween ==
    ASSUME PortalsInv, NEW m \in Members, NEW a, NEW b, NEW x, Pair(x) = {a, b},
           Between(Live(m), a, b) = {}
    PROVE  PairFits(x)
BY Places DEF Between, PairFits

\* Nothing is at stake at a centre.
LEMMA CenterFits ==
    ASSUME NEW z, NEW P
    PROVE  PortalFits(<<z, Center>>, P)
BY DEF PortalFits

\* handleConnectEnd keeps the invariant: the form opened on the canvas rests on nothing.
LEMMA DropOnPaneKeeps ==
    ASSUME PortalsInv, NEW m \in Members, Ready(m), NEW a \in Drawn, NEW ah \in Handles,
           DropOnPane(m, a, ah)
    PROVE  PortalsInv'
<1>1. PICK f : f = [from |-> a, fh |-> ah, to |-> a, th |-> Center, between |-> FALSE, how |-> "plain"]
  OBVIOUS
<1>2. a \in Zones
  BY Places
<1>3. f \in Forms
  BY <1>1, <1>2 DEF Forms, HowFits, Hows, Handles
<1>4. FormHeld(f)
  BY <1>1 DEF FormHeld, EntryHeld, EndsHeld
<1> QED BY <1>1, <1>3, <1>4, GestureOpens DEF DropOnPane

\* A new time and a deletion keep the invariant.
LEMMA ChangeKeeps ==
    ASSUME PortalsInv, NEW m \in Members, Ready(m), NEW k \in conns,
           SetTime(m, k) \/ DeleteEdge(m, k)
    PROVE  PortalsInv'
<1>1. k.id \in Nat
  BY Places
<1>2. PICK r : r \in {[op |-> "time", id |-> k.id], [op |-> "delete", id |-> k.id]} /\ Send(m, <<r>>) /\ Gesture(m)
  BY DEF SetTime, DeleteEdge, DeleteIt
<1>3. r \in Times \cup Moves /\ r.op # "center" /\ r \notin Patches
  BY <1>1, <1>2 DEF Times, Moves, Patches
<1> QED BY <1>2, <1>3, GestureSendsOne

\* onEdgeUpdate keeps the invariant: what nobody looked at is unchecked.
LEMMA DragEdgeEndKeeps ==
    ASSUME PortalsInv, NEW m \in Members, Ready(m), NEW k \in conns,
           NEW fh \in Handles, NEW th \in Handles, DragEdgeEnd(m, k, fh, th)
    PROVE  PortalsInv'
<1>1. k.id \in Nat
  BY Places
<1>2. PICK r : r = Patch(k.id, fh, th, FALSE)
  OBVIOUS
<1>3. r \in Patches /\ ~r.checked /\ r.op # "center"
  BY <1>1, <1>2 DEF Patch, Patches
<1>4. PatchHeld(r)
  BY <1>3 DEF PatchHeld
<1> QED BY <1>2, <1>3, <1>4, GestureSendsOne DEF DragEdgeEnd

\* Found() returns none only where there is none.
LEMMA FoundNone ==
    ASSUME NEW K, NEW S \in Found(K)
    PROVE  S \subseteq K /\ (S = {} <=> K = {}) /\ \A k, l \in S : k = l
BY DEF Found

\* What SameEntrance keeps is the end that is no road.
LEMMA EntranceOfOther ==
    ASSUME NEW e, NEW f, e.from # e.to, OneIsRoads(e), f.from = e.from, f.to = e.to,
           SameEntrance(e, f.fh, f.th)
    PROVE  \A z \in Pair(e) \ Roads : EndAt(f, z) = EndAt(e, z)
<1>1. e.from \in Roads \/ e.to \in Roads
  <2>1. SUFFICES ASSUME e.from \notin Roads, e.to \notin Roads PROVE FALSE
    OBVIOUS
  <2>2. Pair(e) \cap Roads = {}
    BY <2>1 DEF Pair
  <2>3. Cardinality({}) = 0
    BY FS_EmptySet
  <2> QED BY <2>2, <2>3 DEF OneIsRoads
<1>2. e.from \in Roads => e.th = f.th
  BY DEF SameEntrance
<1>3. e.from \notin Roads => e.fh = f.fh
  BY DEF SameEntrance
<1> QED BY <1>1, <1>2, <1>3 DEF Pair, EndAt

\* A portal where the drag found only this pair, alive, has nothing else.
LEMMA LookedAt ==
    ASSUME PortalsInv, NEW m \in Members, NEW z, NEW h, NEW P,
           NEW S \in Found(Occupants(Live(m), z, h)),
           \A k \in S : Pair(k) = P /\ k.id \notin over
    PROVE  PortalFits(<<z, h>>, P)
<1>1. SUFFICES ASSUME h # Center, <<z, h>> \notin blind.portals, NEW l \in Alive, <<z, h>> \in PortalsOf(l)
               PROVE  Pair(l) = P
  BY DEF PortalFits
<1>2. l \in Occupants(Live(m), z, h)
  BY <1>1, Places DEF Occupants
<1>3. PICK k \in S : TRUE
  BY <1>2, FoundNone
<1>4. k \in Alive /\ <<z, h>> \in PortalsOf(k) /\ Pair(k) = P
  BY <1>3, FoundNone DEF Occupants, Live, Alive
<1>5. PICK p : p = <<z, h>>
  OBVIOUS
<1>6. PortalFits(p, P)
  BY <1>4, <1>5 DEF PortalsInv, Agree
<1> QED BY <1>1, <1>5, <1>6 DEF PortalFits

\* A warned form and a change of handles: the connection it goes by is alive.
LEMMA ReconnectKeeps ==
    ASSUME PortalsInv, NEW m \in Members, Ready(m), Gesture(m),
           NEW a \in Drawn, NEW b \in Drawn, NEW ah \in Handles, NEW bh \in Handles, a # b,
           {<<a, ah>>, <<b, bh>>} \cap disabled = {},
           NEW S \in Found(Occupants(Live(m), a, ah)), NEW T \in Found(Occupants(Live(m), b, bh)),
           \A k \in S \cup T : Pair(k) = {a, b},
           NEW e \in Between(Live(m), a, b),
           NEW c \in BOOLEAN, c => \A k \in S \cup T \cup {e} : k.id \notin over,
           Reconnect(m, e, a, ah, b, bh, c)
    PROVE  PortalsInv'
<1>1. PICK sh, th : /\ sh = (IF e.from = a THEN ah ELSE bh)
                    /\ th = (IF e.from = a THEN bh ELSE ah)
  OBVIOUS
<1>3. e \in conns /\ Pair(e) = {a, b} /\ e.from # e.to
  BY Places DEF Between, Live
<1>4. (e.from = a /\ e.to = b) \/ (e.from = b /\ e.to = a)
  BY <1>3 DEF Pair
<1>5. e \in Connection /\ e.id \in Nat /\ e.from \in Zones /\ e.to \in Zones /\ sh \in Handles /\ th \in Handles
  BY <1>1, <1>3, Places DEF Connection
<1>6. {<<e.from, sh>>, <<e.to, th>>} = {<<a, ah>>, <<b, bh>>}
  BY <1>1, <1>3, <1>4
<1>7. c => PortalFits(<<e.from, sh>>, Pair(e)) /\ PortalFits(<<e.to, th>>, Pair(e)) /\ e \in Alive
  <2>1. SUFFICES ASSUME c = TRUE
                 PROVE  PortalFits(<<e.from, sh>>, Pair(e)) /\ PortalFits(<<e.to, th>>, Pair(e)) /\ e \in Alive
    OBVIOUS
  <2>2. \A k \in S \cup T \cup {e} : k.id \notin over
    BY <2>1
  <2>3. e \in Alive
    BY <1>3, <2>2 DEF Alive
  <2>4. PICK P : P = Pair(e)
    OBVIOUS
  <2>5. PortalFits(<<a, ah>>, P) /\ PortalFits(<<b, bh>>, P)
    BY <1>3, <2>2, <2>4, LookedAt
  <2>6. PICK p, q : p = <<e.from, sh>> /\ q = <<e.to, th>>
    OBVIOUS
  <2>7. PICK u, v : u = <<a, ah>> /\ v = <<b, bh>>
    OBVIOUS
  <2>8. PortalFits(u, P) /\ PortalFits(v, P) /\ p \in {u, v} /\ q \in {u, v}
    BY <1>6, <2>5, <2>6, <2>7
  <2>9. PortalFits(p, P) /\ PortalFits(q, P)
    BY <2>8
  <2> QED BY <2>3, <2>4, <2>6, <2>9
<1>8. OneIsRoads(e) => SameEntrance(e, sh, th)
  BY <1>1 DEF Reconnect
<1>9. CASE MovesPortal(e, sh, th)
  <2>1. PICK r : r = Patch(e.id, sh, th, c)
    OBVIOUS
  <2>2. Send(m, <<r>>)
    BY <1>1, <1>9, <2>1 DEF Reconnect
  <2>3. r \in Patches /\ r.op # "center" /\ r.id = e.id /\ r.fh = sh /\ r.th = th /\ r.checked = c
    BY <1>5, <2>1 DEF Patch, Patches
  <2>4. PatchHeld(r)
    <3>1. SUFFICES ASSUME c = TRUE, NEW k \in conns, k.id = e.id
                   PROVE  /\ PortalFits(<<k.from, sh>>, Pair(k)) /\ PortalFits(<<k.to, th>>, Pair(k))
                          /\ {<<k.from, sh>>, <<k.to, th>>} \cap disabled = {}
                          /\ OneIsRoads(k) => SameEntrance(k, sh, th)
      BY <2>3 DEF PatchHeld
    <3>2. k = e
      BY <1>3, <3>1 DEF PortalsInv, Rows, TypeOK
    <3> QED BY <1>6, <1>7, <1>8, <3>1, <3>2
  <2> QED BY <2>2, <2>3, <2>4, GestureSendsOne
<1>10. CASE ~MovesPortal(e, sh, th)
  <2>1. PICK how : how = IF c THEN "warned" ELSE "misled"
    OBVIOUS
  <2>2. PICK f : f = ConnectForm(e.from, sh, e.to, th, how)
    OBVIOUS
  <2>3. Open(m, f)
    BY <1>1, <1>10, <2>1, <2>2 DEF Reconnect
  <2>4. f \in Forms
    BY <1>5, <2>1, <2>2 DEF Forms, ConnectForm, HowFits, Hows
  <2>5. f.from = e.from /\ f.to = e.to /\ f.fh = sh /\ f.th = th /\ f.how = how /\ Pair(f) = Pair(e)
    BY <2>2 DEF ConnectForm, Pair
  <2>6. EndsHeld(f, f.between)
    BY <1>3, <2>5, Places DEF EndsHeld, Drawn
  <2>7. EntryHeld(f)
    <3>1. SUFFICES ASSUME c = TRUE PROVE PairFits(f) /\ PortalFits(<<f.to, f.th>>, Pair(f))
      BY <2>1, <2>5 DEF EntryHeld
    <3>2. PortalFits(<<f.to, f.th>>, Pair(f))
      BY <1>7, <2>5, <3>1
    <3>3. PairFits(f)
      <4>1. SUFFICES ASSUME Pair(e) \notin blind.pairs, NEW l \in Alive, Pair(l) = Pair(e)
                     PROVE  e.from = l.from /\ SameEntrances(f, l)
        BY <2>5 DEF PairFits
      <4>2. e.from = l.from /\ SameEntrances(e, l)
        BY <1>7, <3>1, <4>1 DEF PortalsInv, Agree, PairFits
      <4>3. OneIsRoads(e) => \A z \in Pair(e) \ Roads : EndAt(f, z) = EndAt(e, z)
        BY <1>3, <1>8, <2>5, EntranceOfOther
      <4>4. OneIsRoads(f) <=> OneIsRoads(e)
        BY <2>5 DEF OneIsRoads
      <4> QED BY <2>5, <4>2, <4>3, <4>4 DEF SameEntrances
    <3> QED BY <3>2, <3>3
  <2>8. FormHeld(f)
    BY <2>6, <2>7 DEF FormHeld
  <2> QED BY <2>3, <2>4, <2>8, GestureOpens
<1> QED BY <1>9, <1>10

\* handleConnect keeps the invariant: what it looked up is what its form or its
\* request rests on.
LEMMA HandleConnectKeeps ==
    ASSUME PortalsInv, NEW m \in Members, Ready(m),
           NEW a \in Drawn, NEW b \in Drawn, NEW ah \in Handles, NEW bh \in Handles,
           HandleConnect(m, a, ah, b, bh)
    PROVE  PortalsInv'
<1>1. Gesture(m) /\ a # b /\ {<<a, ah>>, <<b, bh>>} \cap disabled = {}
  BY DEF HandleConnect
<1>2. PICK S \in Found(Occupants(Live(m), a, ah)), T \in Found(Occupants(Live(m), b, bh)) :
        /\ \A k \in S : Pair(k) = {a, b}
        /\ IF \E k \in T : Pair(k) # {a, b}
           THEN \E k \in T : Ask(m, [from |-> a, fh |-> ah, to |-> b, th |-> bh, id |-> k.id])
           ELSE IF Between(Live(m), a, b) = {}
                THEN Open(m, ConnectForm(a, ah, b, bh, Warning(a, b)))
                ELSE \E e \in Between(Live(m), a, b) :
                       Reconnect(m, e, a, ah, b, bh, \A k \in S \cup T \cup {e} : k.id \notin over)
  BY DEF HandleConnect
<1>3. a \in Zones /\ b \in Zones
  BY Places
<1>4. CASE \E k \in T : Pair(k) # {a, b}
  <2>1. PICK k \in T : Ask(m, [from |-> a, fh |-> ah, to |-> b, th |-> bh, id |-> k.id])
    BY <1>2, <1>4
  <2>2. k.id \in Nat
    BY <2>1, FoundNone, Places DEF Occupants, Live
  <2>3. PICK d : d = [from |-> a, fh |-> ah, to |-> b, th |-> bh, id |-> k.id]
    OBVIOUS
  <2>4. d \in Asks
    BY <1>1, <1>3, <2>2, <2>3 DEF Asks
  <2> QED BY <1>1, <2>1, <2>3, <2>4, GestureAsks
<1>5. CASE (\A k \in T : Pair(k) = {a, b}) /\ Between(Live(m), a, b) = {}
  <2>1. PICK how : how = Warning(a, b)
    OBVIOUS
  <2>2. PICK f : f = ConnectForm(a, ah, b, bh, how)
    OBVIOUS
  <2>3. Open(m, f)
    BY <1>2, <1>5, <2>1, <2>2
  <2>4. how \in {"warned", "plain"}
    BY <2>1 DEF Warning
  <2>5. f \in Forms
    BY <1>3, <2>2, <2>4 DEF Forms, ConnectForm, HowFits, Hows
  <2>6. f.from = a /\ f.to = b /\ f.th = bh /\ Pair(f) = {a, b}
    BY <2>2 DEF ConnectForm, Pair
  <2>7. EndsHeld(f, f.between)
    BY <2>6, Places DEF EndsHeld
  <2>8. PairFits(f)
    BY <1>5, <2>6, NoneBetween
  <2>9. T = {}
    <3>1. SUFFICES ASSUME NEW k \in T PROVE FALSE
      OBVIOUS
    <3>2. k \in Between(Live(m), a, b)
      BY <1>5, FoundNone DEF Occupants, Between
    <3> QED BY <1>5, <3>2
  <2>10. PortalFits(<<b, bh>>, {a, b})
    BY <2>9, FoundNone, Places DEF PortalFits, Occupants
  <2>11. FormHeld(f)
    BY <2>6, <2>7, <2>8, <2>10 DEF FormHeld, EntryHeld
  <2> QED BY <1>1, <2>3, <2>5, <2>11, GestureOpens
<1>6. CASE (\A k \in T : Pair(k) = {a, b}) /\ Between(Live(m), a, b) # {}
  <2>1. PICK e \in Between(Live(m), a, b) :
          Reconnect(m, e, a, ah, b, bh, \A k \in S \cup T \cup {e} : k.id \notin over)
    BY <1>2, <1>6
  <2>2. \A k \in S \cup T : Pair(k) = {a, b}
    BY <1>2, <1>6
  <2>3. PICK c \in BOOLEAN : c <=> \A k \in S \cup T \cup {e} : k.id \notin over
    OBVIOUS
  <2>4. Reconnect(m, e, a, ah, b, bh, c)
    BY <2>1, <2>3 DEF Reconnect, Patch
  <2> QED BY <1>1, <2>2, <2>3, <2>4, ReconnectKeeps
<1> QED BY <1>4, <1>5, <1>6

\* SetToSeq lists every element of a finite set.
LEMMA Listed ==
    ASSUME NEW S, IsFiniteSet(S)
    PROVE  /\ SetToSeq(S) \in Seq(S)
           /\ \A x \in S : \E i \in 1..Len(SetToSeq(S)) : SetToSeq(S)[i] = x
<1>1. PICK n \in Nat : n = Cardinality(S)
  BY FS_CardinalityType
<1>2. PICK g : g \in Bijection(1..n, S)
  BY <1>1, FS_CardinalityType DEF ExistsBijection
<1>3. g \in [1..n -> S] /\ IsInjective(g)
  BY <1>2 DEF Bijection, Injection, IsInjective
<1>4. PICK f : f = SetToSeq(S)
  OBVIOUS
<1>5. f \in [1..n -> S] /\ IsInjective(f)
  BY <1>1, <1>3, <1>4, Zenon DEF SetToSeq
<1>6. f \in Injection(1..n, S)
  BY <1>5 DEF Injection, IsInjective
<1>7. Cardinality(1..n) = n
  BY FS_Interval
<1>8. f \in Surjection(1..n, S)
  BY <1>1, <1>6, <1>7, FS_Injection
<1>9. \A x \in S : \E i \in 1..n : f[i] = x
  BY <1>8 DEF Surjection
<1>10. f \in Seq(S) /\ Len(f) = n
  BY <1>5
<1> QED BY <1>4, <1>9, <1>10

\* What is sent for a connection at a portal to be disabled.
LEMMA LeavesMoves ==
    ASSUME NEW k, k.id \in Nat, NEW z, NEW D
    PROVE  /\ Leaves(k, z, D) \in Moves /\ Leaves(k, z, D).id = k.id
           /\ Leaves(k, z, D).op = "center" => k.to = z /\ k.th \in D
BY DEF Leaves, DeleteIt, Moves

\* A queue whose last request moves no connection.
LEMMA LongQueue ==
    ASSUME NEW n \in Nat, NEW L \in [1..n -> Moves], NEW d \in Requests,
           d \in Disables \/ (Replaces(d) /\ \A i \in 1..n : L[i].op # "center")
    PROVE  /\ L \o <<d>> \in Queues
           /\ Range(L \o <<d>>) = {L[i] : i \in 1..n} \cup {d}
<1>1. L \in Seq(Requests) /\ Len(L) = n /\ <<d>> \in Seq(Requests)
  <2>1. L \in Seq(Moves) /\ Len(L) = n
    OBVIOUS
  <2>2. Moves \subseteq Requests
    BY DEF Requests
  <2>3. \A i \in 1..n : L[i] \in Requests
    BY <2>2
  <2>4. L = [i \in 1..n |-> L[i]]
    OBVIOUS
  <2>5. L \in [1..n -> Requests]
    BY <2>3, <2>4
  <2> QED BY <2>1, <2>5
<1>2. PICK q : q = L \o <<d>>
  OBVIOUS
<1>3. q \in Seq(Requests) /\ Len(q) = n + 1 /\ (\A i \in 1..n : q[i] = L[i]) /\ q[n + 1] = d
  BY <1>1, <1>2
<1>4. PICK j \in Nat : j = Len(q) /\ j = n + 1 /\ j - 1 = n
  BY <1>3
<1>5. \A i \in 1..(j - 1) : q[i] \in Moves
  BY <1>3, <1>4
<1>6. q[j] = d /\ d.op # "center"
  BY <1>3, <1>4 DEF Disables, Replaces
<1>7. \A i \in 1..j : i \in 1..n \/ i = j
  BY <1>4
<1>8. \A i \in 1..j : q[i].op = "center" => q[j] \in Disables
  <2>1. SUFFICES ASSUME NEW i \in 1..j, q[i].op = "center" PROVE q[j] \in Disables
    OBVIOUS
  <2>2. i \in 1..n /\ q[i] = L[i]
    BY <1>3, <1>6, <1>7, <2>1
  <2> QED BY <1>6, <2>1, <2>2
<1>9. q \in Queues
  BY <1>3, <1>4, <1>5, <1>6, <1>8 DEF Queues
<1>10. Range(q) = {q[i] : i \in 1..j}
  BY <1>3, <1>4, RangeIs
<1>11. 1..n \subseteq 1..j /\ j \in 1..j
  BY <1>4
<1>12. Range(q) = {L[i] : i \in 1..n} \cup {d}
  <2>1. \A r \in Range(q) : r \in {L[i] : i \in 1..n} \cup {d}
    BY <1>3, <1>6, <1>7, <1>10
  <2>2. \A r \in {L[i] : i \in 1..n} \cup {d} : r \in Range(q)
    BY <1>3, <1>6, <1>10, <1>11
  <2> QED BY <2>1, <2>2
<1> QED BY <1>2, <1>9, <1>12

\* saveCustomHandles keeps the invariant: every connection at the portals leaves
\* before these are disabled.
LEMMA EditHandlesKeeps ==
    ASSUME PortalsInv, NEW m \in Members, Ready(m), NEW z \in nodes, NEW D \in SUBSET Portals,
           EditHandles(m, z, D)
    PROVE  PortalsInv'
<1>1. PICK U : U = {k \in conns : \E h \in D : <<z, h>> \in PortalsOf(k)}
  OBVIOUS
<1>2. PICK used : used = SetToSeq(U)
  OBVIOUS
<1>3. IsFiniteSet(U)
  BY <1>1, FS_Subset DEF PortalsInv, Rows
<1>4. used \in Seq(U) /\ \A k \in U : \E i \in 1..Len(used) : used[i] = k
  BY <1>2, <1>3, Listed
<1>5. PICK n \in Nat : n = Len(used) /\ DOMAIN used = 1..n
  BY <1>4
<1>6. \A i \in 1..n : used[i] \in U /\ used[i] \in conns /\ used[i].id \in Nat
  BY <1>1, <1>4, <1>5, Places
<1>7. PICK L : L = [i \in 1..n |-> Leaves(used[i], z, D)]
  OBVIOUS
<1>8. L \in [1..n -> Moves]
  BY <1>6, <1>7, LeavesMoves
<1>9. PICK d : d = [op |-> "disable", zone |-> z, portals |-> D]
  OBVIOUS
<1>10. d \in Disables /\ d.zone = z /\ d.portals = D
  BY <1>9 DEF Disables, PortalsInv, Rows, TypeOK
<1>11. PICK q \in Queues : q = L \o <<d>> /\ Range(q) = {L[i] : i \in 1..n} \cup {d}
  <2>1. L \o <<d>> \in Queues /\ Range(L \o <<d>>) = {L[i] : i \in 1..n} \cup {d}
    BY <1>8, <1>10, LongQueue DEF Requests
  <2> QED BY <2>1, Zenon
<1>12. Gesture(m) /\ Send(m, q)
  BY <1>1, <1>2, <1>5, <1>7, <1>9, <1>11, Zenon DEF EditHandles
<1>13. ASSUME Quiet, todo'[m] = q, NEW r \in Range(q) PROVE RequestHeld(m, r)'
  <2>1. CASE r # d
    <3>1. r \in Moves
      BY <1>8, <1>11, <1>13, <2>1
    <3>2. r \notin Adds /\ r \notin Patches /\ r \notin Disables
      BY <3>1 DEF Moves, Adds, Patches, Disables
    <3> QED BY <3>2 DEF RequestHeld
  <2>2. CASE r = d
    <3>1. d \notin Adds /\ d \notin Patches
      BY <1>10 DEF Adds, Patches, Disables
    <3>2. ASSUME NEW k \in conns, NEW h \in D, <<z, h>> \in PortalsOf(k)
          PROVE  \E s \in Range(q) : s \in Moves /\ s.id = k.id
      <4>1. PICK i \in 1..n : used[i] = k
        BY <1>1, <1>4, <1>5, <3>2
      <4>2. L[i] \in Moves /\ L[i].id = k.id
        BY <1>6, <1>7, <4>1, LeavesMoves
      <4> QED BY <1>11, <4>2
    <3>3. ASSUME NEW s \in Range(q), s.op = "center", NEW k \in conns, k.id = s.id
          PROVE  k.to = z /\ k.th \in D \cup {Center}
      <4>1. s # d
        BY <1>10, <3>3 DEF Disables
      <4>2. PICK i \in 1..n : s = L[i]
        BY <1>11, <3>3, <4>1
      <4>3. s.id = used[i].id /\ used[i].to = z /\ used[i].th \in D
        BY <1>6, <1>7, <3>3, <4>2, LeavesMoves
      <4>4. k = used[i]
        BY <1>6, <3>3, <4>3 DEF PortalsInv, Rows, TypeOK
      <4> QED BY <4>3, <4>4
    <3>4. DisableHeld(m, d)'
      BY <1>10, <1>13, <3>2, <3>3 DEF DisableHeld, Quiet
    <3> QED BY <2>2, <3>1, <3>4 DEF RequestHeld
  <2> QED BY <2>1, <2>2
<1> QED BY <1>12, <1>13, GestureSends

-----------------------------------------------------------------------------
(* The form and the dialog *)

\* An answer to a form or a dialog, by what is open and under way after it.
LEMMA AnswerMoves ==
    ASSUME PortalsInv, NEW m \in Members, Idle, NEW F, NEW D, NEW q, ShapeOf(F, D, q),
           form' = [form EXCEPT ![m] = F], dialog' = [dialog EXCEPT ![m] = D],
           todo' = [todo EXCEPT ![m] = q],
           \A r \in Range(todo[m]) : r \notin Disables,
           fresh[m] => \A f \in F : FormHeld(f),
           fresh[m] => \A r \in Range(q) : r \in Moves \/ (r \in Adds /\ AddHeld(r))
    PROVE  PortalsInv'
<1>1. /\ UNCHANGED <<conns, disabled, over, grey, last, blind>> /\ fresh' = fresh
      /\ nodes \subseteq nodes' /\ nodes' \subseteq Zones
  BY DEF Idle, PortalsInv, Rows, TypeOK
<1>2. Quiet /\ fresh'[m] => \A f \in F : FormHeld(f)'
  BY <1>1, EntriesStillHeld
<1>3. Quiet /\ fresh'[m] => \A r \in Range(q) : RequestHeld(m, r)'
  <2>1. SUFFICES ASSUME Quiet, fresh[m], NEW r \in Range(q) PROVE RequestHeld(m, r)'
    BY <1>1
  <2>2. CASE r \in Moves
    <3>1. r \notin Adds /\ r \notin Patches /\ r \notin Disables
      BY <2>2 DEF Moves, Adds, Patches, Disables
    <3> QED BY <3>1 DEF RequestHeld
  <2>3. CASE r \in Adds /\ AddHeld(r)
    <3>1. r \notin Patches /\ r \notin Disables
      BY <2>3 DEF Adds, Patches, Disables
    <3>2. AddHeld(r)'
      BY <2>1, <2>3, EntriesStillHeld
    <3> QED BY <3>1, <3>2 DEF RequestHeld
  <2> QED BY <2>1, <2>2, <2>3
<1> QED BY <1>1, <1>2, <1>3, MemberMoves

\* A pick in the form keeps the invariant: the zone picked has no live connection
\* to From.
LEMMA PickKeeps ==
    ASSUME PortalsInv, NEW m \in Members, NEW z \in Zones, Pick(m, z)
    PROVE  PortalsInv'
<1>1. PICK f \in form[m] :
        /\ z # f.from /\ Between(Live(m), f.from, z) = {}
        /\ form' = [form EXCEPT ![m] = {[f EXCEPT !.to = z, !.th = Center,
                      !.how = CASE f.between -> "repicked"
                                [] ~f.between /\ z \in Drawn -> "picked"
                                [] OTHER -> "plain"]}]
  BY DEF Pick
<1>2. PICK how : how = CASE f.between -> "repicked"
                         [] ~f.between /\ z \in Drawn -> "picked"
                         [] OTHER -> "plain"
  OBVIOUS
<1>3. f \in Forms /\ f.between \in BOOLEAN /\ dialog[m] = {}
  BY <1>1 DEF PortalsInv, Shapes, ShapeOf, Forms
<1>4. (f.between => how = "repicked") /\ (~f.between => how \in {"picked", "plain"})
  BY <1>2
<1>5. PICK g : g = [f EXCEPT !.to = z, !.th = Center, !.how = how]
  OBVIOUS
<1>6. /\ g.from = f.from /\ g.to = z /\ g.th = Center /\ g.how = how /\ g.between = f.between
      /\ Pair(g) = {f.from, z}
  BY <1>3, <1>5 DEF Forms, Pair
<1>7. g \in Forms
  BY <1>3, <1>4, <1>5 DEF Forms, HowFits, Hows, Handles
<1>8. FormHeld(g)
  <2>1. PairFits(g)
    BY <1>1, <1>6, NoneBetween
  <2>2. PortalFits(<<g.to, g.th>>, Pair(g))
    BY <1>6, CenterFits
  <2>3. EndsHeld(g, g.between)
    BY <1>4, <1>6 DEF EndsHeld
  <2> QED BY <2>1, <2>2, <2>3 DEF FormHeld, EntryHeld
<1>9. PICK F, D, q : F = {g} /\ D = {} /\ q = <<>>
  OBVIOUS
<1>10. todo[m] = <<>> /\ Range(q) = {} /\ q \in Queues
  BY <1>9 DEF Pick, PortalsInv, Shapes, Range
<1>11. /\ form' = [form EXCEPT ![m] = F] /\ dialog' = [dialog EXCEPT ![m] = D]
       /\ todo' = [todo EXCEPT ![m] = q]
  <2>1. form' = [form EXCEPT ![m] = F]
    BY <1>1, <1>2, <1>5, <1>9
  <2>2. dialog' = dialog /\ todo' = todo
    BY DEF Pick
  <2> QED BY <1>3, <1>9, <1>10, <2>1, <2>2 DEF PortalsInv, Shapes
<1>12. ShapeOf(F, D, q)
  BY <1>7, <1>9, <1>10 DEF ShapeOf
<1>13. Idle /\ \A h \in F : FormHeld(h)
  BY <1>8, <1>9 DEF Pick
<1> QED BY <1>9, <1>10, <1>11, <1>12, <1>13, AnswerMoves

\* Saving keeps the invariant: the form looks once more, unless it was opened
\* between two zones, whose portals were looked at then.
LEMMA SubmitKeeps ==
    ASSUME PortalsInv, NEW m \in Members, NEW close \in BOOLEAN, Submit(m, close)
    PROVE  PortalsInv'
<1>1. PICK f \in form[m] : f.to # f.from /\ todo' = [todo EXCEPT ![m] =
        <<[op |-> "add", from |-> f.from, fh |-> f.fh, to |-> f.to, th |-> f.th, how |-> f.how,
           place |-> ~f.between, close |-> close]>>]
  BY DEF Submit
<1>2. PICK r : r = [op |-> "add", from |-> f.from, fh |-> f.fh, to |-> f.to, th |-> f.th,
                    how |-> f.how, place |-> ~f.between, close |-> close]
  OBVIOUS
<1>3. f \in Forms /\ dialog[m] = {} /\ form[m] \subseteq Forms
  BY <1>1 DEF PortalsInv, Shapes, ShapeOf
<1>4. f.between \in BOOLEAN /\ f.how \in Hows \ {"replaced"} /\ HowFits(f, f.between)
  BY <1>3 DEF Forms
<1>5. r.from = f.from /\ r.to = f.to /\ r.th = f.th /\ r.how = f.how /\ r.place = (~f.between) /\ Pair(r) = Pair(f)
  BY <1>2 DEF Pair
<1>6. r \in Adds
  <2>1. HowFits(r, ~r.place)
    BY <1>4, <1>5 DEF HowFits
  <2>2. r \in [op : {"add", "insert"}, from : Zones, fh : Handles, to : Zones, th : Handles,
                how : Hows, place : BOOLEAN, close : BOOLEAN]
    BY <1>2, <1>3, <1>4 DEF Forms
  <2> QED BY <1>1, <1>5, <2>1, <2>2 DEF Adds
<1>7. r \in Requests \ Moves /\ r.op = "add"
  BY <1>2, <1>6 DEF Requests, Moves
<1>8. PICK F, D, q : F = form[m] /\ D = {} /\ q = <<r>>
  OBVIOUS
<1>9. q \in Queues /\ Range(q) = {r}
  BY <1>7, <1>8, NoneOrOne
<1>10. /\ form' = [form EXCEPT ![m] = F] /\ dialog' = [dialog EXCEPT ![m] = D]
       /\ todo' = [todo EXCEPT ![m] = q]
  <2>1. form' = form /\ dialog' = dialog
    BY DEF Submit
  <2>2. todo' = [todo EXCEPT ![m] = q]
    BY <1>1, <1>2, <1>8
  <2> QED BY <1>3, <1>8, <2>1, <2>2 DEF PortalsInv, Shapes
<1>11. ShapeOf(F, D, q)
  BY <1>3, <1>4, <1>5, <1>6, <1>8, <1>9 DEF ShapeOf
<1>12. \A s \in Range(todo[m]) : s \notin Disables
  <2>1. todo[m] = <<>>
    BY DEF Submit
  <2> QED BY <2>1 DEF Range
<1>13. fresh[m] => \A g \in F : FormHeld(g)
  BY <1>8 DEF PortalsInv, Held, HeldBy
<1>14. fresh[m] => AddHeld(r)
  <2>1. SUFFICES ASSUME FormHeld(f) PROVE AddHeld(r)
    BY <1>1, <1>8, <1>13
  <2>2. EntryHeld(f) => EntryHeld(r)
    <3>1. PairFits(f) => PairFits(r)
      <4>1. \A l : SameEntrances(f, l) => SameEntrances(r, l)
        <5>1. OneIsRoads(r) <=> OneIsRoads(f)
          BY <1>5 DEF OneIsRoads
        <5>2. \A z : EndAt(r, z) = EndAt(f, z)
          BY <1>2 DEF EndAt
        <5> QED BY <1>5, <5>1, <5>2 DEF SameEntrances
      <4> QED BY <1>5, <4>1 DEF PairFits
    <3> QED BY <1>5, <3>1 DEF EntryHeld
  <2>3. EndsHeld(f, f.between) => EndsHeld(r, ~r.place)
    BY <1>4, <1>5 DEF EndsHeld
  <2> QED BY <1>7, <2>1, <2>2, <2>3 DEF FormHeld, AddHeld
<1>15. Idle
  BY DEF Submit
<1>16. fresh[m] => \A s \in Range(q) : s \in Moves \/ (s \in Adds /\ AddHeld(s))
  BY <1>6, <1>9, <1>14
<1> QED BY <1>10, <1>11, <1>12, <1>13, <1>15, <1>16, AnswerMoves

\* A form or a dialog is closed.
LEMMA CloseKeeps ==
    ASSUME PortalsInv, NEW m \in Members, CloseForm(m) \/ CancelDialog(m)
    PROVE  PortalsInv'
<1>1. todo[m] = <<>> /\ ShapeOf(form[m], dialog[m], todo[m])
  BY DEF CloseForm, CancelDialog, PortalsInv, Shapes, ShapeOf
<1>2. PICK F, D, q : /\ F = {} /\ D = {} /\ q = <<>>
  OBVIOUS
<1>3. form[m] = {} \/ CloseForm(m)
  BY <1>1 DEF CancelDialog, ShapeOf
<1>4. /\ form' = [form EXCEPT ![m] = F] /\ dialog' = [dialog EXCEPT ![m] = D]
      /\ todo' = [todo EXCEPT ![m] = q] /\ Idle
  BY <1>1, <1>2, <1>3 DEF CloseForm, CancelDialog, PortalsInv, Shapes, ShapeOf
<1>5. Range(q) = {} /\ q \in Queues
  BY <1>1, <1>2 DEF ShapeOf, Range
<1>6. ShapeOf(F, D, q)
  BY <1>2, <1>5 DEF ShapeOf
<1>7. \A s \in Range(todo[m]) : s \notin Disables
  BY <1>1, <1>2, <1>5
<1> QED BY <1>2, <1>4, <1>5, <1>6, <1>7, AnswerMoves

\* Two sequences over a set are one.
LEMMA Joined ==
    ASSUME NEW S, NEW s \in Seq(S), NEW t \in Seq(S)
    PROVE  s \o t \in Seq(S)
OBVIOUS

\* handleConfirmOccupied keeps the invariant: deletions, and then a replacement
\* that is unchecked.
LEMMA ConfirmDialogKeeps ==
    ASSUME PortalsInv, NEW m \in Members, ConfirmDialog(m)
    PROVE  PortalsInv'
<1>0. PICK d \in dialog[m] : \E S \in Found(Occupants(Live(m), d.from, d.fh)) :
       todo' = [todo EXCEPT ![m] =
         <<DeleteIt(d.id)>> \o SetToSeq({DeleteIt(k.id) : k \in {l \in S : l.id # d.id}})
         \o <<[op |-> "add", from |-> d.from, fh |-> d.fh, to |-> d.to, th |-> d.th,
               how |-> "replaced", place |-> FALSE, close |-> TRUE]>>]
  BY DEF ConfirmDialog
<1>1. PICK S \in Found(Occupants(Live(m), d.from, d.fh)) :
       todo' = [todo EXCEPT ![m] =
         <<DeleteIt(d.id)>> \o SetToSeq({DeleteIt(k.id) : k \in {l \in S : l.id # d.id}})
         \o <<[op |-> "add", from |-> d.from, fh |-> d.fh, to |-> d.to, th |-> d.th,
               how |-> "replaced", place |-> FALSE, close |-> TRUE]>>]
  BY <1>0
<1>2. d \in Asks /\ form[m] = {} /\ todo[m] = <<>>
  BY <1>1 DEF PortalsInv, Shapes, ShapeOf
<1>3. PICK X : X = {DeleteIt(k.id) : k \in {l \in S : l.id # d.id}}
  OBVIOUS
<1>4. IsFiniteSet(X)
  <2>1. X = {} \/ \E x : X = {x}
    BY <1>3, FoundNone
  <2> QED BY <2>1, FS_EmptySet, FS_Singleton
<1>5. \A x \in X : x \in Moves /\ x.op = "delete"
  <2>1. \A k \in S : k.id \in Nat
    BY FoundNone, Places DEF Occupants, Live
  <2> QED BY <1>3, <2>1 DEF DeleteIt, Moves
<1>6. PICK one : one = DeleteIt(d.id)
  OBVIOUS
<1>7. one \in Moves /\ one.op = "delete"
  BY <1>2, <1>6 DEF DeleteIt, Moves, Asks
<1>8. PICK t : t = SetToSeq(X)
  OBVIOUS
<1>9. t \in Seq(X)
  BY <1>4, <1>8, Listed
<1>10. PICK Y : Y = {x \in Moves : x.op = "delete"}
  OBVIOUS
<1>11. <<one>> \in Seq(Y) /\ t \in Seq(Y)
  BY <1>5, <1>7, <1>9, <1>10
<1>12. PICK L \in Seq(Y) : L = <<one>> \o t
  BY <1>11, Joined, Zenon
<1>13. PICK n \in Nat : n = Len(L)
  BY <1>12
<1>14. \A i \in 1..n : L[i] \in Y
  BY <1>12, <1>13
<1>15. L \in [1..n -> Moves] /\ \A i \in 1..n : L[i] \in Moves /\ L[i].op # "center"
  <2>1. L = [i \in 1..n |-> L[i]]
    BY <1>12, <1>13
  <2>2. \A i \in 1..n : L[i] \in Moves /\ L[i].op # "center"
    BY <1>10, <1>14
  <2>3. L \in [1..n -> Moves]
    BY <2>1, <2>2
  <2> QED BY <2>2, <2>3
<1>16. PICK r : r = [op |-> "add", from |-> d.from, fh |-> d.fh, to |-> d.to, th |-> d.th,
                     how |-> "replaced", place |-> FALSE, close |-> TRUE]
  OBVIOUS
<1>17. r \in Adds /\ Replaces(r)
  <2>1. d.from \in Zones /\ d.fh \in Handles /\ d.to \in Zones /\ d.th \in Handles /\ d.from # d.to
    BY <1>2 DEF Asks
  <2>2. HowFits(r, TRUE) /\ r.place = FALSE /\ r.from # r.to
    BY <1>16, <2>1 DEF HowFits
  <2>3. r \in [op : {"add", "insert"}, from : Zones, fh : Handles, to : Zones, th : Handles,
               how : Hows, place : BOOLEAN, close : BOOLEAN]
    BY <1>16, <2>1 DEF Hows
  <2>4. r.op = "add" /\ r.how = "replaced"
    BY <1>16
  <2> QED BY <2>2, <2>3, <2>4 DEF Adds, Replaces
<1>18. PICK q \in Queues : q = L \o <<r>> /\ Range(q) = {L[i] : i \in 1..n} \cup {r}
  <2>1. L \o <<r>> \in Queues /\ Range(L \o <<r>>) = {L[i] : i \in 1..n} \cup {r}
    BY <1>15, <1>17, LongQueue DEF Requests
  <2> QED BY <2>1, Zenon
<1>19. PICK F, D : F = {} /\ D = {}
  OBVIOUS
<1>20. /\ form' = [form EXCEPT ![m] = F] /\ dialog' = [dialog EXCEPT ![m] = D]
       /\ todo' = [todo EXCEPT ![m] = q] /\ Idle
  <2>1. todo' = [todo EXCEPT ![m] = q]
    BY <1>1, <1>3, <1>6, <1>8, <1>12, <1>16, <1>18, Zenon
  <2>2. form' = form /\ dialog' = [dialog EXCEPT ![m] = {}] /\ Idle
    BY DEF ConfirmDialog
  <2> QED BY <1>2, <1>19, <2>1, <2>2 DEF PortalsInv, Shapes
<1>21. ShapeOf(F, D, q)
  BY <1>19 DEF ShapeOf
<1>22. AddHeld(r)
  BY <1>16 DEF AddHeld, EntryHeld, EndsHeld
<1>23. /\ \A s \in Range(todo[m]) : s \notin Disables
       /\ \A f \in F : FormHeld(f)
       /\ \A s \in Range(q) : s \in Moves \/ (s \in Adds /\ AddHeld(s))
  <2>1. \A s \in Range(todo[m]) : s \notin Disables
    BY <1>2 DEF Range
  <2> QED BY <1>15, <1>17, <1>18, <1>19, <1>22, <2>1
<1> QED BY <1>20, <1>21, <1>23, AnswerMoves

-----------------------------------------------------------------------------
(* The server *)

\* A request that fails reached nothing, so nothing is lost with it.
LEMMA FailsKeeps ==
    ASSUME PortalsInv, NEW m \in Members, todo[m] # <<>>, Fails(m),
           Head(todo[m]) \notin Disables,
           Head(todo[m]) \in Moves => Head(todo[m]).id \notin Ids
    PROVE  PortalsInv'
<1>1. PICK p : p = todo[m]
  OBVIOUS
<1>2. p \in Queues /\ p # <<>> /\ ShapeOf(form[m], dialog[m], p) /\ dialog[m] = {}
  BY <1>1 DEF PortalsInv, Shapes, ShapeOf
<1>3. PICK q : q = IF Last(p).op \in {"add", "insert"} THEN <<>> ELSE Tail(p)
  OBVIOUS
<1>4. PICK F : F = IF Last(p).op = "add" /\ Last(p).close THEN {} ELSE form[m]
  OBVIOUS
<1>5. PICK D : D = {}
  OBVIOUS
<1>6. /\ form' = [form EXCEPT ![m] = F] /\ dialog' = [dialog EXCEPT ![m] = D]
      /\ todo' = [todo EXCEPT ![m] = q] /\ fresh' = fresh
      /\ UNCHANGED <<conns, disabled, over, grey, last, blind, nodes>>
  BY <1>1, <1>2, <1>3, <1>4, <1>5 DEF Fails, PortalsInv, Shapes
<1>7. q \in Queues /\ Range(q) \subseteq Range(p)
  <2>1. <<>> \in Queues /\ Range(<<>>) = {}
    BY <1>1, <1>2, QueueHead DEF Queues, Range
  <2> QED BY <1>2, <1>3, <2>1, QueueHead
<1>8. F \subseteq form[m] /\ ShapeOf(F, D, q)
  BY <1>2, <1>4, <1>5, <1>7 DEF ShapeOf
<1>9. \A r \in Range(p) : r \in Disables => r \in Range(q)
  <2>1. SUFFICES ASSUME NEW r \in Range(p), r \in Disables PROVE r \in Range(q)
    OBVIOUS
  <2>2. r = Last(p)
    BY <1>2, <2>1, QueueLast DEF Moves, Disables
  <2>3. q = Tail(p) /\ r # Head(p)
    BY <1>1, <1>3, <2>1, <2>2 DEF Disables
  <2> QED BY <1>2, <2>1, <2>3, QueueHead
<1>10. ASSUME Quiet, fresh'[m], todo'[m] = q PROVE \A f \in F : FormHeld(f)'
  <2>1. \A f \in form[m] : FormHeld(f)
    BY <1>6, <1>10 DEF PortalsInv, Held, HeldBy
  <2> QED BY <1>8, <1>10, <2>1, EntriesStillHeld
<1>11. ASSUME Quiet, fresh'[m], todo'[m] = q, NEW r \in Range(q) PROVE RequestHeld(m, r)'
  <2>1. RequestHeld(m, r)
    BY <1>1, <1>6, <1>7, <1>11 DEF PortalsInv, Held, HeldBy
  <2>2. r \in Disables => DisableHeld(m, r)'
    <3>1. SUFFICES ASSUME r \in Disables
                   PROVE  /\ \A k \in conns : (\E h \in r.portals : <<r.zone, h>> \in PortalsOf(k)) =>
                               \E s \in Range(q) : s \in Moves /\ s.id = k.id
                          /\ \A s \in Range(q) : s.op = "center" => \A k \in conns : k.id = s.id =>
                               k.to = r.zone /\ k.th \in r.portals \cup {Center}
      BY <1>6, <1>11 DEF DisableHeld
    <3>2. r = Last(p) /\ q = Tail(p)
      <4>1. r = Last(p)
        BY <1>2, <1>7, <1>11, <3>1, QueueLast DEF Moves, Disables
      <4> QED BY <1>3, <3>1, <4>1 DEF Disables
    <3>3. ASSUME NEW k \in conns, NEW s \in Range(p), s \in Moves, s.id = k.id PROVE s \in Range(q)
      <4>1. s # Head(p)
        BY <1>1, <3>3 DEF Ids
      <4> QED BY <1>2, <3>2, <3>3, <4>1, QueueHead
    <3>4. DisableHeld(m, r)
      BY <2>1, <3>1 DEF RequestHeld
    <3> QED BY <1>1, <1>7, <3>3, <3>4 DEF DisableHeld
  <2>3. (AddHeld(r) => AddHeld(r)') /\ (PatchHeld(r) => PatchHeld(r)')
    BY <1>11, EntriesStillHeld, PatchStillHeld
  <2> QED BY <2>1, <2>2, <2>3 DEF RequestHeld
<1>12. nodes \subseteq nodes' /\ nodes' \subseteq Zones
  BY <1>6 DEF PortalsInv, Rows, TypeOK
<1> QED BY <1>1, <1>6, <1>8, <1>9, <1>10, <1>11, <1>12, MemberMoves

\* The checks of the POST keep the invariant: what is accepted has a free source
\* portal and a source on the map.
LEMMA AddChecksKeeps ==
    ASSUME PortalsInv, NEW m \in Members, todo[m] # <<>>, AddChecks(m, Head(todo[m]))
    PROVE  PortalsInv'
<1>1. PICK r : r = Head(todo[m])
  OBVIOUS
<1>2. todo[m] \in Queues /\ ShapeOf(form[m], dialog[m], todo[m]) /\ dialog[m] = {}
  BY DEF PortalsInv, Shapes, ShapeOf
<1>3. r \in Requests /\ r.op = "add" /\ r \in Range(todo[m])
  BY <1>1, <1>2, QueueHead DEF AddChecks
<1>4. r \in Adds /\ r \notin Moves /\ r \notin Disables
  BY <1>3, Ops
<1>5. CASE ~Accepts(r)
  BY <1>1, <1>4, <1>5, FailsKeeps DEF AddChecks
<1>6. CASE Accepts(r)
  <2>1. PICK i : i = [r EXCEPT !.op = "insert"]
    OBVIOUS
  <2>2. /\ i.from = r.from /\ i.fh = r.fh /\ i.to = r.to /\ i.th = r.th /\ i.how = r.how
        /\ i.place = r.place /\ i.op = "insert" /\ Pair(i) = Pair(r)
    BY <1>4, <2>1 DEF Adds, Pair
  <2>3. i \in Adds
    BY <1>4, <2>1, <2>2 DEF Adds, HowFits
  <2>4. i \in Requests \ Moves
    BY <2>2, <2>3 DEF Requests, Moves
  <2>5. PICK F, D, q : F = form[m] /\ D = {} /\ q = <<i>>
    OBVIOUS
  <2>6. q \in Queues /\ Range(q) = {i}
    BY <2>4, <2>5, NoneOrOne
  <2>7. ShapeOf(F, D, q)
    BY <1>2, <1>3, <2>2, <2>3, <2>5, <2>6 DEF ShapeOf
  <2>8. /\ form' = [form EXCEPT ![m] = F] /\ dialog' = [dialog EXCEPT ![m] = D]
        /\ todo' = [todo EXCEPT ![m] = q] /\ fresh' = fresh
        /\ UNCHANGED <<conns, disabled, over, grey, last, blind>>
        /\ nodes' = IF r.place THEN nodes \cup {r.to} ELSE nodes
    <3>1. /\ form' = form /\ dialog' = dialog /\ fresh' = fresh
          /\ UNCHANGED <<conns, disabled, over, grey, last, blind>>
          /\ nodes' = IF r.place THEN nodes \cup {r.to} ELSE nodes
          /\ todo' = [todo EXCEPT ![m] = <<i>>]
      BY <1>1, <1>6, <2>1 DEF AddChecks
    <3> QED BY <1>2, <2>5, <3>1 DEF PortalsInv, Shapes
  <2>9. nodes \subseteq nodes' /\ nodes' \subseteq Zones
    BY <1>4, <2>8 DEF Adds, PortalsInv, Rows, TypeOK
  <2>10. \A s \in Range(todo[m]) : s \in Disables => s \in Range(q)
    <3>1. todo[m] = <<r>>
      BY <1>1, <1>2, <1>4, QueueHead
    <3> QED BY <1>3, <1>4, <3>1, NoneOrOne
  <2>11. ASSUME Quiet, fresh'[m], todo'[m] = q PROVE \A f \in F : FormHeld(f)'
    <3>1. \A f \in form[m] : FormHeld(f)
      BY <2>8, <2>11 DEF PortalsInv, Held, HeldBy
    <3> QED BY <2>5, <2>11, <3>1, EntriesStillHeld
  <2>12. ASSUME Quiet, fresh'[m], todo'[m] = q PROVE RequestHeld(m, i)'
    <3>1. AddHeld(r)
      BY <1>3, <1>4, <2>8, <2>12 DEF PortalsInv, Held, HeldBy, RequestHeld
    <3>2. AddHeld(r)'
      BY <2>12, <3>1, EntriesStillHeld
    <3>3. Accepts(i)' /\ (i.place => i.to \in nodes')
      <4>1. Accepts(i)
        BY <1>6, <2>2 DEF Accepts
      <4> QED BY <2>2, <2>8, <2>9, <4>1 DEF Accepts, Occupants
    <3>4. EndsHeld(i, ~i.place)'
      BY <2>2, <3>2 DEF AddHeld, EndsHeld
    <3>5. EntryHeld(i)'
      <4>1. \A l : SameEntrances(r, l)' => SameEntrances(i, l)'
        <5>1. OneIsRoads(i) <=> OneIsRoads(r)
          BY <2>2 DEF OneIsRoads
        <5>2. \A z : EndAt(i, z) = EndAt(r, z)
          BY <2>2 DEF EndAt
        <5> QED BY <2>2, <5>1, <5>2 DEF SameEntrances
      <4>2. PairFits(r)' => PairFits(i)'
        BY <2>2, <4>1 DEF PairFits
      <4> QED BY <2>2, <3>2, <4>2 DEF AddHeld, EntryHeld
    <3>6. AddHeld(i)'
      BY <3>3, <3>4, <3>5 DEF AddHeld
    <3> QED BY <2>3, <2>4, <3>6, Ops DEF RequestHeld
  <2> QED BY <2>6, <2>7, <2>8, <2>9, <2>10, <2>11, <2>12, MemberMoves
<1> QED BY <1>5, <1>6

\* An expiry keeps the invariant, whoever is told of it.
LEMMA ExpireKeeps ==
    ASSUME PortalsInv, NEW k \in conns, NEW N \in SUBSET Members, Expire(k, N)
    PROVE  PortalsInv'
<1>1. PICK m : m \notin Members
  BY NoSetContainsEverything
<1>2. /\ UNCHANGED <<conns, nodes, disabled, form, dialog, todo, last, fresh, blind>>
      /\ over' = over \cup {k.id}
      /\ grey' = [n \in Members |-> IF n \in N THEN grey[n] \cup {k.id} ELSE grey[n]]
  BY DEF Expire
<1>3. Shapes'
  BY <1>2 DEF PortalsInv, Shapes
<1>4. Quiet
  <2>1. StillDisabling
    BY <1>2 DEF StillDisabling
  <2>2. grey' \in [Members -> SUBSET over']
    BY <1>2 DEF PortalsInv, Rows
  <2> QED BY <1>2, <2>1, <2>2 DEF PortalsInv, Rows, TypeOK, Quiet, Ids
<1>5. OthersWait(m)
  BY <1>2 DEF OthersWait
<1> QED BY <1>1, <1>3, <1>4, <1>5, QuietKeeps

(* Writes *)

\* A write leaves fresh only its member and those who have nothing in progress.
LEMMA Overtaken ==
    ASSUME NEW m, Overtakes(m)
    PROVE  /\ fresh \in [Members -> BOOLEAN] => fresh' \in [Members -> BOOLEAN]
           /\ \A n \in Members : fresh'[n] => fresh[n] /\ (n = m \/ (form[n] = {} /\ todo[n] = <<>>))
BY DEF Overtakes

\* So what others rest on need not be looked at after a write.
LEMMA OvertakenHeld ==
    ASSUME NEW m, Overtakes(m),
           \A n \in Members \ {m} : form'[n] = form[n] /\ todo'[n] = todo[n],
           m \in Members => HeldBy(m)'
    PROVE  Held'
<1>1. SUFFICES ASSUME NEW n \in Members, n # m PROVE HeldBy(n)'
  BY DEF Held
<1>2. SUFFICES ASSUME fresh'[n]
               PROVE  /\ \A f \in form'[n] : FormHeld(f)'
                      /\ \A r \in Range(todo'[n]) : RequestHeld(n, r)'
  BY DEF HeldBy
<1>3. form'[n] = {} /\ todo'[n] = <<>>
  BY <1>1, <1>2, Overtaken
<1>4. Range(todo'[n]) = {}
  BY <1>3 DEF Range
<1> QED BY <1>3, <1>4

\* What a write marks as unchecked.
LEMMA Landed ==
    ASSUME NEW m, NEW K, NEW unseen \in BOOLEAN, Lands(m, K, unseen), blind \in Blinds,
           \A k \in K : k \in Connection
    PROVE  /\ Overtakes(m) /\ BlindGrows /\ blind' \in Blinds
           /\ unseen \/ ~fresh[m] => \A k \in K :
                PortalsOf(k) \subseteq blind'.portals /\ Pair(k) \in blind'.pairs /\ Pair(k) \subseteq blind'.zones
           /\ \A k \in K : k.how = "repicked" => Pair(k) \subseteq blind'.zones
<1>1. PICK U : U = IF unseen \/ ~fresh[m] THEN K ELSE {}
  OBVIOUS
<1>2. PICK R : R = {k \in K : k.how = "repicked"}
  OBVIOUS
<1>3. /\ Overtakes(m)
      /\ blind' = [portals |-> blind.portals \cup UNION {PortalsOf(k) : k \in U},
                   pairs |-> blind.pairs \cup {Pair(k) : k \in U},
                   zones |-> blind.zones \cup UNION {Pair(k) : k \in U \cup R}]
  BY <1>1, <1>2 DEF Lands
<1>4. /\ blind'.portals = blind.portals \cup UNION {PortalsOf(k) : k \in U}
      /\ blind'.pairs = blind.pairs \cup {Pair(k) : k \in U}
      /\ blind'.zones = blind.zones \cup UNION {Pair(k) : k \in U \cup R}
  BY <1>3
<1>5. BlindGrows
  BY <1>4 DEF BlindGrows
<1>6. U \subseteq K /\ R \subseteq K
  BY <1>1, <1>2
<1>7. \A k \in K : PortalsOf(k) \subseteq Zones \X Handles /\ Pair(k) \subseteq Zones
  BY DEF PortalsOf, Pair, Connection
<1>8. blind' \in Blinds
  <2>1. blind.portals \subseteq Zones \X Handles /\ blind.pairs \subseteq SUBSET Zones /\ blind.zones \subseteq Zones
    BY DEF Blinds
  <2>2. blind'.portals \subseteq Zones \X Handles
    BY <1>4, <1>6, <1>7, <2>1
  <2>3. blind'.pairs \subseteq SUBSET Zones
    BY <1>4, <1>6, <1>7, <2>1
  <2>4. blind'.zones \subseteq Zones
    BY <1>4, <1>6, <1>7, <2>1
  <2>5. blind' = [portals |-> blind'.portals, pairs |-> blind'.pairs, zones |-> blind'.zones]
    BY <1>3, <1>4
  <2> QED BY <2>2, <2>3, <2>4, <2>5 DEF Blinds
<1>9. unseen \/ ~fresh[m] => \A k \in K :
        PortalsOf(k) \subseteq blind'.portals /\ Pair(k) \in blind'.pairs /\ Pair(k) \subseteq blind'.zones
  BY <1>1, <1>4
<1>10. \A k \in K : k.how = "repicked" => Pair(k) \subseteq blind'.zones
  BY <1>2, <1>4
<1> QED BY <1>3, <1>5, <1>8, <1>9, <1>10

NoDialog == UNCHANGED dialog

\* What is open and under way once a request is done.
LEMMA Served ==
    ASSUME PortalsInv, NEW m \in Members, todo[m] # <<>>, Done(m), NoDialog,
           fresh' \in [Members -> BOOLEAN],
           NEW F, form' = [form EXCEPT ![m] = F], F \subseteq Forms, F # {} => form[m] # {}
    PROVE  /\ Shapes'
           /\ form'[m] = F /\ todo'[m] = Tail(todo[m])
           /\ \A n \in Members \ {m} : form'[n] = form[n] /\ todo'[n] = todo[n]
<1>1. PICK q, D : q = Tail(todo[m]) /\ D = {}
  OBVIOUS
<1>2. Shapes /\ ShapeOf(form[m], dialog[m], todo[m]) /\ dialog[m] = {} /\ todo[m] \in Queues
  BY DEF PortalsInv, Shapes, ShapeOf
<1>3. q \in Queues /\ Range(q) \subseteq Range(todo[m])
  BY <1>1, <1>2, QueueHead
<1>4. ShapeOf(F, D, q)
  BY <1>1, <1>2, <1>3 DEF ShapeOf
<1>5. dialog' = [dialog EXCEPT ![m] = D] /\ todo' = [todo EXCEPT ![m] = q]
  BY <1>1, <1>2 DEF Done, NoDialog, Shapes
<1>6. /\ Shapes'
      /\ form'[m] = F /\ todo'[m] = q
      /\ \A n \in Members \ {m} : form'[n] = form[n] /\ todo'[n] = todo[n]
  <2>1. Shapes'
    BY <1>2, <1>4, <1>5, OneMoves
  <2>2. form'[m] = F /\ todo'[m] = q
    BY <1>2, <1>5 DEF Shapes
  <2>3. \A n \in Members \ {m} : form'[n] = form[n] /\ todo'[n] = todo[n]
    BY <1>2, <1>5 DEF Shapes
  <2> QED BY <2>1, <2>2, <2>3
<1> QED BY <1>1, <1>6

\* The same when no form is open, as for all requests but additions.
LEMMA ServedNoForm ==
    ASSUME PortalsInv, NEW m \in Members, todo[m] # <<>>, Done(m), NoDialog, UNCHANGED form,
           fresh' \in [Members -> BOOLEAN], Head(todo[m]) \notin Adds
    PROVE  /\ Shapes'
           /\ form'[m] = {} /\ todo'[m] = Tail(todo[m])
           /\ \A n \in Members \ {m} : form'[n] = form[n] /\ todo'[n] = todo[n]
           /\ StillDisabling <=> \A r \in Range(todo[m]) : r \in Disables => r \in Range(Tail(todo[m]))
<1>1. form[m] = {}
  <2>1. ShapeOf(form[m], dialog[m], todo[m]) /\ todo[m] \in Queues
    BY DEF PortalsInv, Shapes
  <2> QED BY <2>1, QueueHead DEF ShapeOf
<1>2. PICK F : F = {}
  OBVIOUS
<1>3. form' = [form EXCEPT ![m] = F]
  BY <1>1, <1>2 DEF PortalsInv, Shapes
<1>4. /\ Shapes' /\ form'[m] = {} /\ todo'[m] = Tail(todo[m])
      /\ \A n \in Members \ {m} : form'[n] = form[n] /\ todo'[n] = todo[n]
  BY <1>2, <1>3, Served
<1>5. StillDisabling <=> \A r \in Range(todo[m]) : r \in Disables => r \in Range(Tail(todo[m]))
  BY <1>4 DEF StillDisabling
<1> QED BY <1>4, <1>5

\* The rows after a step, part by part.
LEMMA RowsNext ==
    ASSUME Shapes', conns' \subseteq Connection, \A k, l \in conns' : k.id = l.id => k = l,
           IsFiniteSet(conns'), \A k \in conns' : k.from # k.to /\ k.id <= last',
           nodes' \subseteq Zones, Home \in nodes', disabled' \subseteq Zones \X Portals,
           over' \subseteq Ids', grey' \in [Members -> SUBSET over'],
           last' \in 0..MaxConns, blind' \in Blinds
    PROVE  Rows'
<1>1. \A n \in Members : \A f \in form'[n] : {f.fh, f.th} \subseteq Handles
  BY DEF Shapes, Forms
<1>2. \A n \in Members : grey'[n] \subseteq over'
  OBVIOUS
<1> QED BY <1>1, <1>2 DEF Rows, TypeOK

\* Connections still agree when whoever came to life is at blind portals.
LEMMA StillAgreeBlind ==
    ASSUME PortalsInv, StillDisabling, BlindGrows,
           \A l \in Alive' : l \in Alive \/ (Pair(l) \in blind'.pairs /\ PortalsOf(l) \subseteq blind'.portals)
    PROVE  Agree'
<1>1. PICK k : k \notin Alive'
  <2>1. PICK S : S = Alive'
    OBVIOUS
  <2> QED BY <2>1, NoSetContainsEverything
<1>2. AliveBut(k)
  BY DEF AliveBut
<1> QED BY <1>1, <1>2, StillAgree DEF PortalsInv

\* What the server's request is about.
LEMMA UnderWay ==
    ASSUME PortalsInv, NEW m \in Members, todo[m] # <<>>
    PROVE  /\ Head(todo[m]) \in Requests /\ Head(todo[m]) \in Range(todo[m])
           /\ todo[m] \in Queues /\ dialog[m] = {} /\ form[m] \subseteq Forms
           /\ Head(todo[m]) \notin Moves => /\ Range(todo[m]) = {Head(todo[m])}
                                            /\ Range(Tail(todo[m])) = {}
           /\ fresh[m] => RequestHeld(m, Head(todo[m]))
<1>1. todo[m] \in Queues /\ dialog[m] = {} /\ form[m] \subseteq Forms
  BY DEF PortalsInv, Shapes, ShapeOf
<1>2. Head(todo[m]) \in Requests /\ Head(todo[m]) \in Range(todo[m])
  BY <1>1, QueueHead
<1>3. ASSUME Head(todo[m]) \notin Moves
      PROVE  Range(todo[m]) = {Head(todo[m])} /\ Range(Tail(todo[m])) = {}
  <2>1. PICK r : r = Head(todo[m])
    OBVIOUS
  <2>2. todo[m] = <<r>>
    BY <1>1, <1>3, <2>1, QueueHead
  <2>3. r \in Requests \ Moves
    BY <1>2, <1>3, <2>1
  <2>4. Range(<<r>>) = {r} /\ Range(<<>>) = {}
    BY <2>3, NoneOrOne
  <2>5. Tail(<<r>>) = <<>>
    OBVIOUS
  <2> QED BY <2>1, <2>2, <2>4, <2>5
<1>4. fresh[m] => RequestHeld(m, Head(todo[m]))
  BY <1>2 DEF PortalsInv, Held, HeldBy
<1> QED BY <1>1, <1>2, <1>3, <1>4

\* A member whose one request is done has nothing at stake.
LEMMA NothingLeft ==
    ASSUME NEW m, form'[m] = {}, Range(todo'[m]) = {}
    PROVE  HeldBy(m)'
BY DEF HeldBy

\* A new time keeps the invariant: a connection that comes back is unchecked.
LEMMA TimeLandsKeeps ==
    ASSUME PortalsInv, NEW m \in Members, todo[m] # <<>>, TimeLands(m, Head(todo[m]))
    PROVE  PortalsInv'
<1>1. PICK r : r = Head(todo[m])
  OBVIOUS
<1>2. r \in Requests /\ r.op = "time"
  BY <1>1, UnderWay DEF TimeLands
<1>3. r \notin Moves /\ r \notin Adds /\ r \notin Disables
  BY <1>2, Ops
<1>4. CASE r.id \notin Ids
  BY <1>1, <1>2, <1>3, <1>4, FailsKeeps DEF TimeLands
<1>5. CASE r.id \in Ids
  <2>1. PICK k \in conns :
          /\ over' = over \ {k.id}
          /\ Done(m) /\ Told(k.id) /\ Lands(m, {k}, k.id \in over)
          /\ UNCHANGED <<conns, nodes, disabled, form, dialog, last, gestures>>
    BY <1>1, <1>5 DEF TimeLands
  <2>2. PICK u \in BOOLEAN : u <=> k.id \in over
    OBVIOUS
  <2>3. Lands(m, {k}, u)
    BY <2>1, <2>2 DEF Lands
  <2>4. Rows /\ blind \in Blinds /\ \A l \in {k} : l \in Connection
    BY <2>1, Places DEF PortalsInv, Rows
  <2>5. /\ Overtakes(m) /\ BlindGrows /\ blind' \in Blinds
        /\ u => PortalsOf(k) \subseteq blind'.portals /\ Pair(k) \in blind'.pairs
    BY <2>3, <2>4, Landed
  <2>6. fresh' \in [Members -> BOOLEAN] /\ NoDialog /\ form' = form
    BY <2>1, <2>5, Overtaken DEF NoDialog, PortalsInv, Shapes
  <2>7. /\ Shapes'
        /\ form'[m] = {} /\ todo'[m] = Tail(todo[m])
        /\ \A n \in Members \ {m} : form'[n] = form[n] /\ todo'[n] = todo[n]
        /\ StillDisabling <=> \A s \in Range(todo[m]) : s \in Disables => s \in Range(Tail(todo[m]))
    BY <1>1, <1>3, <2>1, <2>6, ServedNoForm
  <2>8. StillDisabling /\ Range(todo'[m]) = {}
    BY <1>1, <1>3, <2>7, UnderWay
  <2>9. Agree'
    <3>1. ASSUME NEW l \in Alive' PROVE l \in Alive \/ (l = k /\ u)
      <4>1. l \in conns /\ l.id \notin over \ {k.id}
        BY <2>1 DEF Alive
      <4>2. l.id = k.id => l = k
        BY <2>1, <4>1 DEF PortalsInv, Rows, TypeOK
      <4> QED BY <2>2, <4>1, <4>2 DEF Alive
    <3> QED BY <2>5, <2>8, <3>1, StillAgreeBlind
  <2>10. Rows'
    <3>1. grey' = [n \in Members |-> grey[n] \ {k.id}]
      BY <2>1 DEF Told
    <3>2. grey' \in [Members -> SUBSET over']
      BY <2>1, <2>4, <3>1 DEF Rows
    <3> QED BY <2>1, <2>4, <2>5, <2>7, <3>2, RowsNext DEF Rows, TypeOK, Ids
  <2>11. Stand'
    BY <2>1, <2>5 DEF PortalsInv, Stand, BlindGrows
  <2>12. Held'
    BY <2>5, <2>7, <2>8, NothingLeft, OvertakenHeld
  <2> QED BY <2>7, <2>9, <2>10, <2>11, <2>12 DEF PortalsInv
<1> QED BY <1>4, <1>5

\* The clean-up keeps the invariant.
LEMMA CleanupKeeps ==
    ASSUME PortalsInv, NEW k \in conns, Cleanup(k)
    PROVE  PortalsInv'
<1>1. /\ conns' = conns \ {k} /\ over' = over \ {k.id} /\ Told(k.id) /\ Overtakes("the job")
      /\ UNCHANGED <<nodes, disabled, form, dialog, todo, last, gestures, blind>>
  BY DEF Cleanup
<1>2. Shapes'
  BY <1>1, Overtaken DEF PortalsInv, Shapes
<1>3. StillDisabling /\ BlindGrows
  BY <1>1 DEF StillDisabling, BlindGrows
<1>4. Rows
  BY DEF PortalsInv
<1>5. \A l \in Alive' : l \in Alive
  BY <1>1, <1>4 DEF Alive, Rows, TypeOK
<1>6. Agree'
  BY <1>3, <1>5, StillAgreeBlind
<1>7. Rows'
  <2>1. grey' = [n \in Members |-> grey[n] \ {k.id}]
    BY <1>1 DEF Told
  <2>2. grey' \in [Members -> SUBSET over']
    BY <1>1, <1>4, <2>1 DEF Rows
  <2>3. IsFiniteSet(conns')
    BY <1>1, <1>4, FS_RemoveElement DEF Rows
  <2>4. over' \subseteq Ids'
    BY <1>1, <1>4 DEF Rows, TypeOK, Ids
  <2> QED BY <1>1, <1>2, <1>4, <2>2, <2>3, <2>4, RowsNext DEF Rows, TypeOK
<1>8. Stand'
  BY <1>1 DEF PortalsInv, Stand
<1>9. Held'
  <2>1. \A n \in Members : form'[n] = form[n] /\ todo'[n] = todo[n]
    BY <1>1
  <2>2. "the job" \notin Members
    BY PortalsAssumption
  <2> QED BY <1>1, <2>1, <2>2, OvertakenHeld
<1> QED BY <1>2, <1>6, <1>7, <1>8, <1>9 DEF PortalsInv

\* Whoever moves connections away before portals are disabled has not looked in
\* vain once the first of them is out of the way.
LEMMA StillLeaving ==
    ASSUME PortalsInv, NEW m \in Members, todo[m] # <<>>, Head(todo[m]) \in Moves, fresh[m],
           todo'[m] = Tail(todo[m]), form'[m] = {},
           \A k \in conns' : k.id # Head(todo[m]).id => k \in conns,
           \A k \in conns' : k.id = Head(todo[m]).id =>
             Head(todo[m]).op = "center" /\ k.th = Center /\
             \E l \in conns : l.id = k.id /\ l.from = k.from /\ l.fh = k.fh /\ l.to = k.to
    PROVE  HeldBy(m)'
<1>1. PICK p : p = todo[m]
  OBVIOUS
<1>2. p \in Queues /\ p # <<>>
  BY <1>1, UnderWay
<1>3. PICK q : q = Tail(p)
  OBVIOUS
<1>4. todo'[m] = q /\ Range(p) = {Head(p)} \cup Range(q)
  BY <1>1, <1>2, <1>3, QueueHead
<1>5. SUFFICES ASSUME NEW r \in Range(q) PROVE RequestHeld(m, r)'
  BY <1>4 DEF HeldBy
<1>6. /\ r \in Moves \cup Disables \/ Replaces(r)
      /\ r \in Range(p) /\ r \in Requests
  <2>1. Range(p) \subseteq Requests
    BY <1>2, RangeIs DEF Queues
  <2> QED BY <1>1, <1>2, <1>3, <1>4, <1>5, <2>1, QueueHead
<1>7. r \in Adds => AddHeld(r)'
  <2>1. r \in Adds => Replaces(r)
    BY <1>6, Ops
  <2> QED BY <2>1 DEF Replaces, AddHeld, EntryHeld, EndsHeld
<1>8. r \notin Patches
  BY <1>6, Ops DEF Replaces
<1>9. ASSUME r \in Disables PROVE DisableHeld(m, r)'
  <2>1. DisableHeld(m, r)
    BY <1>1, <1>6, <1>9 DEF PortalsInv, Held, HeldBy, RequestHeld
  <2>2. /\ \A k \in conns : (\E h \in r.portals : <<r.zone, h>> \in PortalsOf(k)) =>
             \E s \in Range(p) : s \in Moves /\ s.id = k.id
        /\ \A s \in Range(p) : s.op = "center" => \A k \in conns : k.id = s.id =>
             k.to = r.zone /\ k.th \in r.portals \cup {Center}
    BY <1>1, <2>1 DEF DisableHeld
  <2>3. Center \notin r.portals
    BY <1>9, PortalsAssumption DEF Disables, Center
  <2>4. ASSUME NEW k \in conns', \E h \in r.portals : <<r.zone, h>> \in PortalsOf(k)
        PROVE  \E s \in Range(q) : s \in Moves /\ s.id = k.id
    <3>1. CASE k.id # Head(p).id
      BY <1>1, <1>2, <1>4, <2>2, <2>4, <3>1
    <3>2. CASE k.id = Head(p).id
      <4>1. PICK l \in conns : k.th = Center /\ l.id = k.id /\ l.from = k.from /\ l.to = k.to
        BY <1>1, <3>2
      <4>2. Head(p).op = "center" /\ Head(p) \in Range(p)
        BY <1>1, <1>2, <3>2, QueueHead
      <4>3. l.to = r.zone /\ l.from # l.to
        BY <2>2, <3>2, <4>1, <4>2, Places
      <4> QED BY <2>3, <2>4, <4>1, <4>3 DEF PortalsOf
    <3> QED BY <3>1, <3>2
  <2>5. ASSUME NEW s \in Range(q), s.op = "center", NEW k \in conns', k.id = s.id
        PROVE  k.to = r.zone /\ k.th \in r.portals \cup {Center}
    <3>1. CASE k.id # Head(p).id
      BY <1>1, <1>4, <2>2, <2>5, <3>1
    <3>2. CASE k.id = Head(p).id
      <4>1. PICK l \in conns : k.th = Center /\ l.id = k.id /\ l.from = k.from /\ l.to = k.to
        BY <1>1, <3>2
      <4>2. Head(p).op = "center" /\ Head(p) \in Range(p)
        BY <1>1, <1>2, <3>2, QueueHead
      <4> QED BY <2>2, <3>2, <4>1, <4>2
    <3> QED BY <3>1, <3>2
  <2> QED BY <1>4, <2>4, <2>5 DEF DisableHeld
<1> QED BY <1>7, <1>8, <1>9 DEF RequestHeld

\* A deletion keeps the invariant: only zones without a connection go with it.
LEMMA DeleteLandsKeeps ==
    ASSUME PortalsInv, NEW m \in Members, todo[m] # <<>>, DeleteLands(m, Head(todo[m]))
    PROVE  PortalsInv'
<1>1. PICK r : r = Head(todo[m])
  OBVIOUS
<1>2. r \in Requests /\ r.op = "delete" /\ todo[m] \in Queues
  BY <1>1, UnderWay DEF DeleteLands
<1>3. r \in Moves /\ r \notin Adds /\ r \notin Disables
  BY <1>2, Ops
<1>4. CASE r.id \notin Ids
  BY <1>1, <1>2, <1>3, <1>4, FailsKeeps DEF DeleteLands
<1>5. CASE r.id \in Ids
  <2>1. PICK rest : rest = {k \in conns : k.id # r.id}
    OBVIOUS
  <2>2. /\ conns' = rest /\ nodes' = nodes \ Orphans(rest) /\ over' = over \ {r.id}
        /\ Done(m) /\ Told(r.id) /\ Lands(m, {}, FALSE)
        /\ UNCHANGED <<disabled, form, dialog, last, gestures>>
    BY <1>1, <1>5, <2>1 DEF DeleteLands
  <2>3. Rows /\ blind \in Blinds
    BY DEF PortalsInv, Rows
  <2>4. Overtakes(m) /\ BlindGrows /\ blind' \in Blinds
    <3>0. PICK K : K = {}
      OBVIOUS
    <3>1. PICK u \in BOOLEAN : u = FALSE /\ K = {}
      BY <3>0
    <3>2. Lands(m, K, u) /\ \A k \in K : k \in Connection
      BY <2>2, <3>1
    <3> QED BY <2>3, <3>1, <3>2, Landed
  <2>5. fresh' \in [Members -> BOOLEAN] /\ NoDialog /\ form' = form
    BY <2>2, <2>4, Overtaken DEF NoDialog, PortalsInv, Shapes
  <2>6. /\ Shapes'
        /\ form'[m] = {} /\ todo'[m] = Tail(todo[m])
        /\ \A n \in Members \ {m} : form'[n] = form[n] /\ todo'[n] = todo[n]
        /\ StillDisabling <=> \A s \in Range(todo[m]) : s \in Disables => s \in Range(Tail(todo[m]))
    BY <1>1, <1>3, <2>2, <2>5, ServedNoForm
  <2>7. StillDisabling
    BY <1>1, <1>2, <1>3, <2>6, QueueHead
  <2>8. Agree'
    <3>1. \A l \in Alive' : l \in Alive
      BY <2>1, <2>2 DEF Alive
    <3> QED BY <2>4, <2>7, <3>1, StillAgreeBlind
  <2>9. Rows'
    <3>1. grey' = [n \in Members |-> grey[n] \ {r.id}]
      BY <2>2 DEF Told
    <3>2. grey' \in [Members -> SUBSET over']
      BY <2>2, <2>3, <3>1 DEF Rows
    <3>3. IsFiniteSet(rest)
      <4>1. rest \subseteq conns
        BY <2>1
      <4> QED BY <2>3, <4>1, FS_Subset DEF Rows
    <3>4. over' \subseteq Ids'
      BY <2>1, <2>2, <2>3 DEF Rows, TypeOK, Ids
    <3>5. nodes' \subseteq Zones /\ Home \in nodes'
      BY <2>2, <2>3 DEF Rows, TypeOK, Orphans
    <3> QED BY <2>1, <2>2, <2>3, <2>4, <2>6, <3>2, <3>3, <3>4, <3>5, RowsNext DEF Rows, TypeOK
  <2>10. Stand'
    <3>1. \A k \in rest : k \in conns /\ Pair(k) \cap Orphans(rest) = {}
      BY <2>1 DEF Orphans
    <3> QED BY <2>2, <2>4, <3>1 DEF PortalsInv, Stand, BlindGrows
  <2>11. Held'
    <3>1. CASE ~fresh'[m]
      <4>1. HeldBy(m)'
        BY <3>1 DEF HeldBy
      <4> QED BY <2>4, <2>6, <4>1, OvertakenHeld
    <3>2. CASE fresh'[m]
      <4>1. fresh[m]
        BY <2>4, <3>2, Overtaken
      <4>2. \A k \in conns' : k \in conns /\ k.id # r.id
        BY <2>1, <2>2
      <4>3. HeldBy(m)'
        BY <1>1, <1>3, <2>6, <4>1, <4>2, StillLeaving
      <4> QED BY <2>4, <2>6, <4>3, OvertakenHeld
    <3> QED BY <3>1, <3>2
  <2> QED BY <2>6, <2>8, <2>9, <2>10, <2>11 DEF PortalsInv
<1> QED BY <1>4, <1>5

\* An entry and the connection made from it are looked at alike.
LEMMA MadeFrom ==
    ASSUME NEW x, NEW k, k.from = x.from, k.fh = x.fh, k.to = x.to, k.th = x.th
    PROVE  Pair(k) = Pair(x) /\ (PairFits(x) => PairFits(k))
<1>1. Pair(k) = Pair(x)
  BY DEF Pair
<1>2. OneIsRoads(k) <=> OneIsRoads(x)
  BY <1>1 DEF OneIsRoads
<1>3. \A z : EndAt(k, z) = EndAt(x, z)
  BY DEF EndAt
<1>4. \A l : SameEntrances(x, l) => SameEntrances(k, l)
  BY <1>1, <1>2, <1>3 DEF SameEntrances
<1> QED BY <1>1, <1>4 DEF PairFits

\* The entry for one more connection from the same zone.
LEMMA NextEntries ==
    ASSUME PortalsInv, NEW m \in Members, NEW f \in form[m]
    PROVE  NextEntry(f) \in Forms /\ FormHeld(NextEntry(f))'
<1>1. f \in Forms
  BY DEF PortalsInv, Shapes
<1>2. PICK g : g = NextEntry(f)
  OBVIOUS
<1>3. /\ g.from = f.from /\ g.fh = Center /\ g.to = f.from /\ g.th = Center
      /\ g.between = f.between /\ g.how = f.how
      /\ g \in [from : Zones, fh : Handles, to : Zones, th : Handles,
                between : BOOLEAN, how : Hows \ {"replaced"}]
  BY <1>1, <1>2 DEF Forms, NextEntry, Handles
<1>4. HowFits(g, g.between)
  BY <1>1, <1>3 DEF Forms, HowFits
<1>5. FormHeld(g)'
  BY <1>3 DEF FormHeld, EntryHeld, EndsHeld
<1> QED BY <1>2, <1>3, <1>4, <1>5 DEF Forms

\* The insertion keeps the invariant: the source portal was free at the checks,
\* the target portal and the pair when the member looked, and nothing was written
\* since, or the connection is unchecked.
LEMMA AddInsertsKeeps ==
    ASSUME PortalsInv, NEW m \in Members, todo[m] # <<>>, AddInserts(m, Head(todo[m]))
    PROVE  PortalsInv'
<1>1. PICK r : r = Head(todo[m])
  OBVIOUS
<1>2. r \in Requests /\ r.op = "insert" /\ (fresh[m] => RequestHeld(m, r))
  BY <1>1, UnderWay DEF AddInserts
<1>3. r \notin Moves /\ r \in Adds /\ r \notin Disables
  BY <1>2, Ops
<1>4. Range(todo[m]) = {r} /\ Range(Tail(todo[m])) = {}
  BY <1>1, <1>3, UnderWay
<1>5. PICK k : k = [id |-> last + 1, from |-> r.from, fh |-> r.fh, to |-> r.to, th |-> r.th,
                    how |-> r.how]
  OBVIOUS
<1>6. PICK u \in BOOLEAN : u <=> r.how \in {"replaced", "misled"}
  OBVIOUS
<1>7. PICK F : F = IF r.close THEN {} ELSE {NextEntry(f) : f \in form[m]}
  OBVIOUS
<1>8. /\ last < MaxConns /\ last' = last + 1 /\ conns' = conns \cup {k}
      /\ form' = [form EXCEPT ![m] = F]
      /\ Done(m) /\ Lands(m, {k}, u) /\ NoDialog
      /\ UNCHANGED <<nodes, disabled, over, grey>>
  <2>1. /\ last < MaxConns /\ last' = k.id /\ conns' = conns \cup {k}
        /\ form' = [form EXCEPT ![m] = IF r.close THEN {} ELSE {NextEntry(f) : f \in @}]
        /\ Done(m) /\ Lands(m, {k}, r.how \in {"replaced", "misled"})
        /\ UNCHANGED <<nodes, disabled, over, grey, dialog, gestures>>
    BY <1>1, <1>5 DEF AddInserts
  <2>2. Lands(m, {k}, u)
    BY <1>6, <2>1 DEF Lands
  <2>3. form' = [form EXCEPT ![m] = F]
    BY <1>7, <2>1
  <2> QED BY <1>5, <2>1, <2>2, <2>3 DEF NoDialog
<1>9. Rows /\ blind \in Blinds /\ last \in Nat /\ MaxConns \in Nat
  <2>1. last \in 0..MaxConns /\ MaxConns \in Nat
    BY PortalsAssumption DEF PortalsInv, Rows, TypeOK
  <2> QED BY <2>1 DEF PortalsInv, Rows
<1>10. /\ k.from = r.from /\ k.fh = r.fh /\ k.to = r.to /\ k.th = r.th /\ k.how = r.how
       /\ k.id = last + 1
  BY <1>5
<1>11. k \in Connection /\ k.from # k.to
  <2>1. last + 1 \in 1..MaxConns
    BY <1>8, <1>9
  <2>2. r.from \in Zones /\ r.fh \in Handles /\ r.to \in Zones /\ r.th \in Handles /\ r.how \in Hows /\ r.from # r.to
    BY <1>3 DEF Adds
  <2> QED BY <1>5, <2>1, <2>2 DEF Connection, Hows
<1>12. /\ Overtakes(m) /\ BlindGrows /\ blind' \in Blinds
       /\ u \/ ~fresh[m] =>
            PortalsOf(k) \subseteq blind'.portals /\ Pair(k) \in blind'.pairs /\ Pair(k) \subseteq blind'.zones
       /\ k.how = "repicked" => Pair(k) \subseteq blind'.zones
  <2>1. \A l \in {k} : l \in Connection
    BY <1>11
  <2> QED BY <1>8, <1>9, <2>1, Landed
<1>13. F \subseteq Forms /\ (F # {} => form[m] # {}) /\ (\A f \in F : FormHeld(f)')
  BY <1>7, NextEntries
<1>14. /\ Shapes'
       /\ form'[m] = F /\ todo'[m] = Tail(todo[m])
       /\ \A n \in Members \ {m} : form'[n] = form[n] /\ todo'[n] = todo[n]
  <2>1. fresh' \in [Members -> BOOLEAN]
    BY <1>12, Overtaken DEF PortalsInv, Shapes
  <2> QED BY <1>8, <1>13, <2>1, Served
<1>15. StillDisabling
  BY <1>3, <1>4, <1>14 DEF StillDisabling
<1>16. \A l \in Alive' : l \in Alive \/ l = k
  BY <1>8 DEF Alive
<1>17. fresh[m] => AddHeld(r)
  BY <1>2, <1>3 DEF RequestHeld
<1>18. Agree'
  <2>1. CASE u \/ ~fresh[m]
    BY <1>12, <1>15, <1>16, <2>1, StillAgreeBlind
  <2>2. CASE ~u /\ fresh[m]
    <3>1. PairFits(r) /\ PortalFits(<<r.to, r.th>>, Pair(r))
      BY <1>3, <1>6, <1>17, <2>2 DEF AddHeld, EntryHeld, Adds
    <3>2. PairFits(k) /\ Pair(k) = Pair(r)
      BY <1>10, <3>1, MadeFrom
    <3>3. PICK p, q, P : p = <<r.from, r.fh>> /\ q = <<r.to, r.th>> /\ P = Pair(k)
      OBVIOUS
    <3>4. PortalFits(q, P)
      BY <3>1, <3>2, <3>3
    <3>5. PortalFits(p, P)
      <4>1. Occupants(conns, r.from, r.fh) = {}
        BY <1>2, <1>17, <2>2 DEF AddHeld, Accepts
      <4> QED BY <3>3, <4>1 DEF PortalFits, Occupants, Alive
    <3>6. PortalsOf(k) = {p, q}
      BY <1>10, <3>3 DEF PortalsOf
    <3>7. \A s \in PortalsOf(k) : PortalFits(s, Pair(k))
      BY <3>3, <3>4, <3>5, <3>6
    <3>8. AliveBut(k)
      BY <1>16 DEF AliveBut
    <3> QED BY <1>12, <1>15, <3>2, <3>7, <3>8, StillAgree DEF PortalsInv
  <2> QED BY <2>1, <2>2
<1>19. Rows'
  <2>1. \A l \in conns : l.id <= last /\ l.id \in Nat
    BY <1>9, Places DEF Rows
  <2>2. \A l, j \in conns' : l.id = j.id => l = j
    <3>1. \A l \in conns : l.id # k.id
      BY <1>9, <1>10, <2>1
    <3> QED BY <1>8, <1>9, <3>1 DEF Rows, TypeOK
  <2>3. \A l \in conns' : l.from # l.to /\ l.id <= last'
    <3>1. \A l \in conns : l.id <= last'
      BY <1>8, <1>9, <2>1
    <3>2. k.id <= last'
      BY <1>8, <1>9, <1>10
    <3> QED BY <1>8, <1>9, <1>11, <3>1, <3>2 DEF Rows
  <2>4. IsFiniteSet(conns')
    BY <1>8, <1>9, FS_AddElement DEF Rows
  <2>5. last' \in 0..MaxConns
    BY <1>8, <1>9
  <2>6. over' \subseteq Ids' /\ conns' \subseteq Connection
    BY <1>8, <1>9, <1>11 DEF Rows, TypeOK, Ids
  <2>7. nodes' \subseteq Zones /\ Home \in nodes' /\ disabled' \subseteq Zones \X Portals /\ grey' \in [Members -> SUBSET over']
    BY <1>8, <1>9 DEF Rows, TypeOK
  <2> QED BY <1>12, <1>14, <2>2, <2>3, <2>4, <2>5, <2>6, <2>7, RowsNext
<1>20. Stand'
  <2>1. PortalsOf(k) \cap disabled \subseteq blind'.portals
    <3>1. fresh[m] => PortalsOf(k) \cap disabled = {}
      <4>1. fresh[m] => {<<r.from, r.fh>>, <<r.to, r.th>>} \cap disabled = {}
        BY <1>2, <1>17 DEF AddHeld, Accepts
      <4> QED BY <1>10, <4>1 DEF PortalsOf
    <3> QED BY <1>12, <3>1
  <2>2. Pair(k) \subseteq nodes \cup blind'.zones
    <3>1. CASE u \/ ~fresh[m] \/ r.how = "repicked"
      BY <1>10, <1>12, <3>1
    <3>2. CASE ~u /\ fresh[m] /\ r.how # "repicked"
      <4>1. r.how \in {"plain", "warned", "picked"}
        BY <1>3, <1>6, <3>2 DEF Adds, Hows
      <4>2. Pair(r) = {r.from, r.to} /\ Pair(k) = Pair(r) /\ r.from # r.to
        BY <1>3, <1>10 DEF Pair, Adds
      <4>3. AddHeld(r)
        BY <1>17, <3>2
      <4>4. CASE r.place
        <5>1. r.from \in nodes /\ r.to \in nodes
          BY <1>2, <4>3, <4>4 DEF AddHeld, Accepts
        <5> QED BY <4>2, <5>1
      <4>5. CASE ~r.place
        <5>1. r.how # "picked"
          BY <1>3, <4>5 DEF Adds, HowFits
        <5>2. Pair(r) \subseteq nodes \cup blind.zones
          BY <4>1, <4>2, <4>3, <4>5, <5>1 DEF AddHeld, EndsHeld
        <5> QED BY <1>12, <4>2, <5>2 DEF BlindGrows
      <4> QED BY <4>4, <4>5
    <3> QED BY <3>1, <3>2
  <2>3. Stand
    BY DEF PortalsInv
  <2> QED BY <1>8, <1>12, <2>1, <2>2, <2>3 DEF Stand, BlindGrows
<1>21. Held'
  <2>1. HeldBy(m)'
    BY <1>4, <1>13, <1>14 DEF HeldBy
  <2> QED BY <1>12, <1>14, <2>1, OvertakenHeld
<1> QED BY <1>14, <1>18, <1>19, <1>20, <1>21 DEF PortalsInv

\* A change of handles that was looked at leaves the pairs in agreement.
LEMMA CheckedFits ==
    ASSUME PortalsInv, NEW k \in Alive, NEW new, new.from = k.from, new.to = k.to,
           OneIsRoads(k) => SameEntrance(k, new.fh, new.th)
    PROVE  PairFits(new)
<1>1. k \in conns /\ PairFits(k) /\ k.from # k.to
  BY Places DEF Alive, PortalsInv, Agree
<1>2. Pair(new) = Pair(k)
  BY DEF Pair
<1>3. OneIsRoads(new) <=> OneIsRoads(k)
  BY <1>2 DEF OneIsRoads
<1>4. OneIsRoads(k) => \A z \in Pair(k) \ Roads : EndAt(new, z) = EndAt(k, z)
  BY <1>1, EntranceOfOther
<1>5. \A l : SameEntrances(k, l) => SameEntrances(new, l)
  BY <1>2, <1>3, <1>4 DEF SameEntrances
<1> QED BY <1>1, <1>2, <1>5 DEF PairFits

\* A connection whose end moves to the centre because the portals of that zone
\* are to be disabled differs from the others on that account alone.
LEMMA CentredFits ==
    ASSUME PortalsInv, NEW k \in Alive, NEW new, new.from = k.from, new.to = k.to,
           new.fh = k.fh, new.th = Center,
           NEW m \in Members, NEW d \in Range(todo[m]), d \in Disables,
           k.to = d.zone, k.th \in d.portals \cup {Center}
    PROVE  PairFits(new)
<1>1. k \in conns /\ PairFits(k) /\ k.from # k.to
  BY Places DEF Alive, PortalsInv, Agree
<1>2. Pair(new) = Pair(k)
  BY DEF Pair
<1>3. OneIsRoads(new) <=> OneIsRoads(k)
  BY <1>2 DEF OneIsRoads
<1>4. EndAt(new, k.from) = EndAt(k, k.from) /\ EndAt(new, k.to) = Center /\ EndAt(k, k.to) = k.th
  BY <1>1 DEF EndAt
<1>5. ASSUME NEW l, SameEntrances(k, l), OneIsRoads(k), NEW z \in Pair(k) \ Roads
      PROVE  EndAt(new, z) = EndAt(l, z) \/ Explained(z, EndAt(new, z), EndAt(l, z))
  <2>1. EndAt(k, z) = EndAt(l, z) \/ Explained(z, EndAt(k, z), EndAt(l, z))
    BY <1>5 DEF SameEntrances
  <2>2. CASE z = k.from
    BY <1>4, <2>1, <2>2
  <2>3. CASE z = k.to
    <3>1. PICK h : h = EndAt(l, z)
      OBVIOUS
    <3>2. k.th = h => Explained(z, Center, h)
      BY <2>3 DEF Explained
    <3>3. Explained(z, k.th, h) => Explained(z, Center, h)
      BY DEF Explained
    <3> QED BY <1>4, <2>1, <2>3, <3>1, <3>2, <3>3
  <2> QED BY <2>2, <2>3 DEF Pair
<1>6. \A l : SameEntrances(k, l) => SameEntrances(new, l)
  BY <1>2, <1>3, <1>5 DEF SameEntrances
<1> QED BY <1>1, <1>2, <1>6 DEF PairFits

\* A change of handles keeps the invariant: that of a drag as it was looked up, a
\* move to the centre on account of the portals that are to be disabled.
LEMMA PatchLandsKeeps ==
    ASSUME PortalsInv, NEW m \in Members, todo[m] # <<>>, PatchLands(m, Head(todo[m]))
    PROVE  PortalsInv'
<1>1. PICK r : r = Head(todo[m])
  OBVIOUS
<1>2. /\ r \in Requests /\ r.op \in {"patch", "center"} /\ todo[m] \in Queues /\ r \in Range(todo[m])
      /\ fresh[m] => RequestHeld(m, r)
  BY <1>1, UnderWay DEF PatchLands
<1>3. /\ r \notin Adds /\ r \notin Disables
      /\ r.op = "patch" => r \in Patches /\ r \notin Moves
      /\ r.op = "center" => r \in Moves
  BY <1>2, Ops
<1>4. CASE r.id \notin Ids
  BY <1>1, <1>2, <1>3, <1>4, FailsKeeps DEF PatchLands
<1>5. CASE r.id \in Ids
  <2>1. PICK k \in conns :
            LET new == IF r.op = "center" THEN [k EXCEPT !.th = Center]
                       ELSE [k EXCEPT !.fh = r.fh, !.th = r.th]
            IN /\ k.id = r.id
               /\ conns' = (conns \ {k}) \cup {new}
               /\ Done(m) /\ Told(k.id)
               /\ Lands(m, {new}, r.op = "patch" /\ ~r.checked)
               /\ UNCHANGED <<nodes, disabled, over, form, dialog, last, gestures>>
    BY <1>1, <1>5 DEF PatchLands
  <2>2. PICK new : new = IF r.op = "center" THEN [k EXCEPT !.th = Center]
                         ELSE [k EXCEPT !.fh = r.fh, !.th = r.th]
    OBVIOUS
  <2>3. PICK u \in BOOLEAN : u <=> r.op = "patch" /\ ~r.checked
    OBVIOUS
  <2>4. /\ k.id = r.id /\ conns' = (conns \ {k}) \cup {new}
        /\ Done(m) /\ Told(k.id) /\ Lands(m, {new}, u) /\ NoDialog
        /\ UNCHANGED <<nodes, disabled, over, form, last>>
    BY <2>1, <2>2, <2>3 DEF Lands, NoDialog
  <2>5. /\ k \in Connection /\ k.from # k.to
        /\ Rows /\ blind \in Blinds
    BY Places DEF PortalsInv, Rows
  <2>6. /\ new.id = k.id /\ new.from = k.from /\ new.to = k.to /\ new.how = k.how
        /\ r.op = "center" => new.fh = k.fh /\ new.th = Center
        /\ r.op = "patch" => new.fh = r.fh /\ new.th = r.th
        /\ new \in Connection /\ Pair(new) = Pair(k)
    <3>1. CASE r.op = "center"
      BY <2>2, <2>5, <3>1 DEF Connection, Pair, Handles
    <3>2. CASE r.op = "patch"
      <4>1. r.fh \in Handles /\ r.th \in Handles
        BY <1>3, <3>2 DEF Patches
      <4> QED BY <2>2, <2>5, <3>2, <4>1 DEF Connection, Pair
    <3> QED BY <1>2, <3>1, <3>2
  <2>7. /\ Overtakes(m) /\ BlindGrows /\ blind' \in Blinds
        /\ u \/ ~fresh[m] =>
             PortalsOf(new) \subseteq blind'.portals /\ Pair(new) \in blind'.pairs /\ Pair(new) \subseteq blind'.zones
    <3>1. \A l \in {new} : l \in Connection
      BY <2>6
    <3> QED BY <2>4, <2>5, <3>1, Landed
  <2>8. fresh' \in [Members -> BOOLEAN]
    BY <2>7, Overtaken DEF PortalsInv, Shapes
  <2>9. /\ Shapes'
        /\ form'[m] = {} /\ todo'[m] = Tail(todo[m])
        /\ \A n \in Members \ {m} : form'[n] = form[n] /\ todo'[n] = todo[n]
        /\ StillDisabling <=> \A s \in Range(todo[m]) : s \in Disables => s \in Range(Tail(todo[m]))
    BY <1>1, <1>3, <2>4, <2>8, ServedNoForm
  <2>10. StillDisabling
    BY <1>1, <1>2, <1>3, <2>9, QueueHead
  <2>11. (\A l \in Alive' : l \in Alive \/ l = new) /\ (new \in Alive' => k \in Alive)
    BY <2>4, <2>6 DEF Alive
  <2>12. r.op = "patch" /\ r.checked /\ fresh[m] =>
           /\ PortalFits(<<k.from, r.fh>>, Pair(k)) /\ PortalFits(<<k.to, r.th>>, Pair(k))
           /\ {<<k.from, r.fh>>, <<k.to, r.th>>} \cap disabled = {}
           /\ OneIsRoads(k) => SameEntrance(k, r.fh, r.th)
    BY <1>2, <1>3, <2>4 DEF RequestHeld, PatchHeld
  <2>13. Agree'
    <3>1. CASE u \/ ~fresh[m]
      BY <2>7, <2>10, <2>11, <3>1, StillAgreeBlind
    <3>2. CASE ~u /\ fresh[m]
      <4>1. PICK p, q, P : p = <<new.from, new.fh>> /\ q = <<new.to, new.th>> /\ P = Pair(new)
        OBVIOUS
      <4>2. ASSUME new \in Alive' PROVE PairFits(new) /\ PortalFits(p, P) /\ PortalFits(q, P)
        <5>1. k \in Alive
          BY <2>11, <4>2
        <5>2. CASE r.op = "patch"
          <6>1. r.checked
            BY <2>3, <3>2, <5>2
          <6>2. PairFits(new)
            BY <2>6, <2>12, <3>2, <5>1, <5>2, <6>1, CheckedFits
          <6>3. p = <<k.from, r.fh>> /\ q = <<k.to, r.th>> /\ P = Pair(k)
            BY <2>6, <4>1, <5>2
          <6>4. PortalFits(p, P) /\ PortalFits(q, P)
            BY <2>12, <3>2, <5>2, <6>1, <6>3
          <6> QED BY <6>2, <6>4
        <5>3. CASE r.op = "center"
          <6>1. PICK d \in Range(todo[m]) : d \in Disables
            BY <1>1, <1>2, <5>3, QueueHead
          <6>2. k.to = d.zone /\ k.th \in d.portals \cup {Center}
            BY <1>2, <2>4, <3>2, <5>3, <6>1 DEF PortalsInv, Held, HeldBy, RequestHeld, DisableHeld
          <6>3. PairFits(new)
            BY <2>6, <5>1, <5>3, <6>1, <6>2, CentredFits
          <6>4. PortalFits(p, P)
            <7>1. p \in PortalsOf(k) /\ P = Pair(k)
              BY <2>6, <4>1, <5>3 DEF PortalsOf
            <7> QED BY <5>1, <7>1 DEF PortalsInv, Agree
          <6>5. PortalFits(q, P)
            BY <2>6, <4>1, <5>3 DEF PortalFits
          <6> QED BY <6>3, <6>4, <6>5
        <5> QED BY <1>2, <5>2, <5>3
      <4>3. PortalsOf(new) = {p, q}
        BY <4>1 DEF PortalsOf
      <4>4. new \in Alive' => PairFits(new) /\ \A s \in PortalsOf(new) : PortalFits(s, Pair(new))
        BY <4>1, <4>2, <4>3
      <4>5. AliveBut(new)
        BY <2>11 DEF AliveBut
      <4> QED BY <2>7, <2>10, <4>4, <4>5, StillAgree DEF PortalsInv
    <3> QED BY <3>1, <3>2
  <2>14. Rows'
    <3>1. grey' = [n \in Members |-> grey[n] \ {k.id}]
      BY <2>4 DEF Told
    <3>2. grey' \in [Members -> SUBSET over']
      BY <2>4, <2>5, <3>1 DEF Rows
    <3>3. IsFiniteSet(conns')
      BY <2>4, <2>5, FS_RemoveElement, FS_AddElement DEF Rows
    <3>4. over' \subseteq Ids'
      <4>1. Ids' = Ids
        BY <2>4, <2>6 DEF Ids
      <4> QED BY <2>4, <2>5, <4>1 DEF Rows, TypeOK
    <3>5. \A l, j \in conns' : l.id = j.id => l = j
      BY <2>4, <2>5, <2>6 DEF Rows, TypeOK
    <3>6. conns' \subseteq Connection /\ \A l \in conns' : l.from # l.to /\ l.id <= last'
      BY <2>4, <2>5, <2>6 DEF Rows, TypeOK
    <3> QED BY <2>4, <2>5, <2>7, <2>9, <3>2, <3>3, <3>4, <3>5, <3>6, RowsNext DEF Rows, TypeOK
  <2>15. Stand'
    <3>1. PortalsOf(new) \cap disabled \subseteq blind'.portals
      <4>1. CASE u \/ ~fresh[m]
        BY <2>7, <4>1
      <4>2. CASE ~u /\ fresh[m] /\ r.op = "patch"
        BY <2>3, <2>6, <2>12, <4>2 DEF PortalsOf
      <4>3. CASE r.op = "center"
        <5>1. <<new.to, new.th>> \notin disabled
          BY <2>5, <2>6, <4>3, PortalsAssumption DEF Rows, TypeOK, Center
        <5>2. <<new.from, new.fh>> \in PortalsOf(k)
          BY <2>6, <4>3 DEF PortalsOf
        <5>3. PortalsOf(k) \cap disabled \subseteq blind.portals
          BY DEF PortalsInv, Stand
        <5> QED BY <2>7, <5>1, <5>2, <5>3 DEF PortalsOf, BlindGrows
      <4> QED BY <1>2, <4>1, <4>2, <4>3
    <3>2. Stand
      BY DEF PortalsInv
    <3>3. Pair(new) \subseteq nodes \cup blind.zones
      BY <2>6, <3>2 DEF Stand
    <3> QED BY <2>4, <2>7, <3>1, <3>2, <3>3 DEF Stand, BlindGrows
  <2>16. Held'
    <3>1. HeldBy(m)'
      <4>1. CASE ~fresh'[m]
        BY <4>1 DEF HeldBy
      <4>2. CASE r.op = "patch"
        <5>1. Range(todo'[m]) = {}
          BY <1>1, <1>3, <2>9, <4>2, UnderWay
        <5> QED BY <2>9, <5>1, NothingLeft
      <4>3. CASE fresh'[m] /\ r.op = "center"
        <5>1. fresh[m]
          BY <2>7, <4>3, Overtaken
        <5>2. \A l \in conns' : l.id # r.id => l \in conns
          BY <2>4, <2>6
        <5>3. \A l \in conns' : l.id = r.id => l = new
          BY <2>4, <2>5 DEF Rows, TypeOK
        <5>4. \A l \in conns' : l.id = r.id =>
                r.op = "center" /\ l.th = Center /\
                \E j \in conns : j.id = l.id /\ j.from = l.from /\ j.fh = l.fh /\ j.to = l.to
          BY <2>6, <4>3, <5>3
        <5> QED BY <1>1, <1>3, <2>9, <4>3, <5>1, <5>2, <5>4, StillLeaving
      <4> QED BY <1>2, <4>1, <4>2, <4>3
    <3> QED BY <2>7, <2>9, <3>1, OvertakenHeld
  <2> QED BY <2>9, <2>13, <2>14, <2>15, <2>16 DEF PortalsInv
<1> QED BY <1>4, <1>5

\* Disabling keeps the invariant: it takes the reason from entrances that differ,
\* which by then are at the centre, both of them.
LEMMA DisableLandsKeeps ==
    ASSUME PortalsInv, NEW m \in Members, todo[m] # <<>>, DisableLands(m, Head(todo[m]))
    PROVE  PortalsInv'
<1>1. PICK r : r = Head(todo[m])
  OBVIOUS
<1>2. r \in Requests /\ r.op = "disable" /\ (fresh[m] => RequestHeld(m, r))
  BY <1>1, UnderWay DEF DisableLands
<1>3. r \notin Moves /\ r \notin Adds /\ r \in Disables
  BY <1>2, Ops
<1>4. Range(todo[m]) = {r} /\ Range(Tail(todo[m])) = {}
  BY <1>1, <1>3, UnderWay
<1>5. PICK Z : Z = {r.zone} \X r.portals
  OBVIOUS
<1>6. PICK Left : Left = {k \in conns : \E h \in r.portals : <<r.zone, h>> \in PortalsOf(k)}
  OBVIOUS
<1>7. /\ disabled' = {p \in disabled : p[1] # r.zone} \cup Z
      /\ blind' = IF fresh[m] THEN blind
                  ELSE [blind EXCEPT !.portals = @ \cup Z, !.pairs = @ \cup {Pair(k) : k \in Left}]
      /\ Overtakes(m) /\ Done(m) /\ NoDialog
      /\ UNCHANGED <<conns, nodes, over, grey, form, last>>
  BY <1>1, <1>5, <1>6 DEF DisableLands, NoDialog
<1>8. Rows /\ blind \in Blinds /\ r.zone \in Zones /\ r.portals \subseteq Portals
  BY <1>3 DEF PortalsInv, Rows, Disables
<1>9. /\ BlindGrows /\ blind' \in Blinds
      /\ ~fresh[m] => Z \subseteq blind'.portals /\ \A k \in Left : Pair(k) \in blind'.pairs
  <2>1. CASE fresh[m]
    BY <1>7, <1>8, <2>1 DEF BlindGrows
  <2>2. CASE ~fresh[m]
    <3>1. PICK Q : Q = {Pair(k) : k \in Left}
      OBVIOUS
    <3>2. blind' = [blind EXCEPT !.portals = @ \cup Z, !.pairs = @ \cup Q]
      BY <1>7, <2>2, <3>1
    <3>3. /\ blind'.portals = blind.portals \cup Z /\ blind'.pairs = blind.pairs \cup Q
          /\ blind'.zones = blind.zones
      BY <1>8, <3>2 DEF Blinds
    <3>4. Q \subseteq SUBSET Zones
      <4>1. \A k \in conns : Pair(k) \subseteq Zones
        BY Places DEF Connection, Pair
      <4> QED BY <1>6, <3>1, <4>1
    <3>5. Z \subseteq Zones \X Handles
      BY <1>5, <1>8 DEF Handles
    <3>6. blind' \in Blinds
      BY <1>8, <3>2, <3>4, <3>5 DEF Blinds
    <3> QED BY <3>1, <3>3, <3>6 DEF BlindGrows
  <2> QED BY <2>1, <2>2
<1>10. fresh' \in [Members -> BOOLEAN]
  BY <1>7, Overtaken DEF PortalsInv, Shapes
<1>11. /\ Shapes'
       /\ form'[m] = {} /\ todo'[m] = Tail(todo[m])
       /\ \A n \in Members \ {m} : form'[n] = form[n] /\ todo'[n] = todo[n]
  BY <1>1, <1>3, <1>7, <1>10, ServedNoForm
\* Nobody is left at the portals unless the member did not see him.
<1>12. fresh[m] => Left = {}
  <2>1. SUFFICES ASSUME fresh[m], NEW k \in Left PROVE FALSE
    OBVIOUS
  <2>2. DisableHeld(m, r)
    BY <1>2, <1>3, <2>1 DEF RequestHeld
  <2>3. \E s \in Range(todo[m]) : s \in Moves /\ s.id = k.id
    BY <1>6, <2>1, <2>2 DEF DisableHeld
  <2> QED BY <1>3, <1>4, <2>3
<1>13. \A k \in Left : Pair(k) \in blind'.pairs
  BY <1>9, <1>12
<1>14. Alive' = Alive
  BY <1>7 DEF Alive
<1>15. Agree'
  <2>1. SUFFICES ASSUME NEW k \in Alive
                 PROVE  PairFits(k)' /\ \A p \in PortalsOf(k) : PortalFits(p, Pair(k))'
    BY <1>14 DEF Agree
  <2>2. PairFits(k) /\ \A p \in PortalsOf(k) : PortalFits(p, Pair(k))
    BY <2>1 DEF PortalsInv, Agree
  <2>3. \A p \in PortalsOf(k) : PortalFits(p, Pair(k))'
    BY <1>9, <1>14, <2>2 DEF PortalFits, BlindGrows
  <2>4. SUFFICES ASSUME Pair(k) \notin blind'.pairs, NEW l \in Alive, Pair(l) = Pair(k)
                 PROVE  k.from = l.from /\ SameEntrances(k, l)'
    BY <1>14, <2>3 DEF PairFits
  <2>5. k.from = l.from /\ SameEntrances(k, l)
    BY <1>9, <2>2, <2>4 DEF PairFits, BlindGrows
  <2>6. SUFFICES ASSUME OneIsRoads(k), NEW z \in Pair(k) \ Roads
                 PROVE  EndAt(k, z) = EndAt(l, z) \/ Explained(z, EndAt(k, z), EndAt(l, z))'
    BY <2>5 DEF SameEntrances
  <2>7. PICK h, i : h = EndAt(k, z) /\ i = EndAt(l, z)
    OBVIOUS
  <2>8. <<z, h>> \in PortalsOf(k) /\ <<z, i>> \in PortalsOf(l)
    BY <2>4, <2>6, <2>7 DEF PortalsOf, Pair, EndAt
  <2>9. ASSUME Explained(z, h, i) PROVE h = i \/ Explained(z, h, i)'
    <3>1. PICK n \in Members : \E s \in Range(todo[n]) :
            s \in Disables /\ s.zone = z /\ {h, i} \subseteq s.portals \cup {Center}
      BY <2>9 DEF Explained
    <3>2. CASE n # m
      BY <1>11, <3>1, <3>2 DEF Explained
    <3>3. CASE n = m
      <4>1. r.zone = z /\ {h, i} \subseteq r.portals \cup {Center}
        BY <1>4, <3>1, <3>3
      <4>2. k \notin Left /\ l \notin Left
        BY <1>13, <2>4
      <4>3. h \notin r.portals /\ i \notin r.portals
        BY <1>6, <2>1, <2>4, <2>8, <4>1, <4>2 DEF Alive
      <4> QED BY <4>1, <4>3
    <3> QED BY <3>2, <3>3
  <2> QED BY <2>5, <2>6, <2>7, <2>9 DEF SameEntrances
<1>16. Rows'
  <2>1. disabled' \subseteq Zones \X Portals
    BY <1>5, <1>7, <1>8 DEF Rows, TypeOK
  <2> QED BY <1>7, <1>8, <1>9, <1>11, <2>1, RowsNext DEF Rows, TypeOK, Ids
<1>17. Stand'
  <2>1. SUFFICES ASSUME NEW k \in conns
                 PROVE  /\ PortalsOf(k) \cap disabled' \subseteq blind'.portals
                        /\ Pair(k) \subseteq nodes \cup blind'.zones
    BY <1>7 DEF Stand
  <2>2. PortalsOf(k) \cap disabled \subseteq blind.portals /\ Pair(k) \subseteq nodes \cup blind.zones
    BY DEF PortalsInv, Stand
  <2>3. PortalsOf(k) \cap Z \subseteq blind'.portals
    <3>1. CASE fresh[m]
      BY <1>5, <1>6, <1>12, <3>1
    <3>2. CASE ~fresh[m]
      BY <1>9, <3>2
    <3> QED BY <3>1, <3>2
  <2> QED BY <1>7, <1>9, <2>2, <2>3 DEF BlindGrows
<1>18. Held'
  <2>1. HeldBy(m)'
    BY <1>4, <1>11, NothingLeft
  <2> QED BY <1>7, <1>11, <2>1, OvertakenHeld
<1> QED BY <1>11, <1>15, <1>16, <1>17, <1>18 DEF PortalsInv

-----------------------------------------------------------------------------
(* The theorems *)

\* The invariant holds of an empty room.
LEMMA PortalsInit == Init => PortalsInv
<1>1. SUFFICES ASSUME Init PROVE PortalsInv
  OBVIOUS
<1>2. PICK q : q = <<>>
  OBVIOUS
<1>3. q \in Queues /\ Range(q) = {}
  BY <1>2 DEF Queues, Range
<1>4. \A m \in Members : form[m] = {} /\ dialog[m] = {} /\ todo[m] = q
  BY <1>1, <1>2 DEF Init
<1>5. Shapes
  <2>1. todo \in [Members -> Queues]
    BY <1>1, <1>2, <1>3 DEF Init
  <2> QED BY <1>1, <1>2, <1>3, <1>4, <2>1 DEF Init, Shapes, ShapeOf
<1>6. Rows
  <2>1. TypeOK
    <3>1. conns = {} /\ nodes = {Home} /\ disabled = {} /\ over = {} /\ last = 0
      BY <1>1 DEF Init
    <3>2. (\A m \in Members : grey[m] \subseteq over) /\ (\A m \in Members : form[m] = {})
      BY <1>1 DEF Init
    <3>3. 0 \in 0..MaxConns
      <4>1. MaxConns \in Nat
        BY PortalsAssumption, Zenon
      <4> QED BY <4>1
    <3>4. Home \in Zones
      BY PortalsAssumption
    <3> QED BY <3>1, <3>2, <3>3, <3>4 DEF TypeOK
  <2>2. IsFiniteSet(conns)
    BY <1>1, FS_EmptySet DEF Init
  <2>3. blind \in Blinds
    BY <1>1 DEF Init, Blinds
  <2> QED BY <1>1, <2>1, <2>2, <2>3 DEF Init, Rows
<1>7. Agree /\ Stand
  BY <1>1 DEF Init, Agree, Stand, Alive
<1>8. Held
  BY <1>3, <1>4 DEF Held, HeldBy
<1> QED BY <1>5, <1>6, <1>7, <1>8 DEF PortalsInv

\* A step of others keeps it.
LEMMA StutterKeeps ==
    ASSUME PortalsInv, UNCHANGED vars
    PROVE  PortalsInv'
<1>1. PICK m : m \notin Members
  BY NoSetContainsEverything
<1>2. UNCHANGED <<conns, nodes, disabled, over, grey, form, dialog, todo, last, fresh, blind>>
  BY DEF vars
<1>3. Shapes'
  BY <1>2 DEF PortalsInv, Shapes
<1>4. Quiet
  <2>1. StillDisabling
    BY <1>2 DEF StillDisabling
  <2> QED BY <1>2, <2>1 DEF PortalsInv, Rows, TypeOK, Quiet, Ids
<1>5. OthersWait(m)
  BY <1>2 DEF OthersWait
<1> QED BY <1>1, <1>3, <1>4, <1>5, QuietKeeps

\* Every step keeps it: one lemma per action.
LEMMA PortalsStep == PortalsInv /\ [Next]_vars => PortalsInv'
<1>1. SUFFICES ASSUME PortalsInv, [Next]_vars PROVE PortalsInv'
  OBVIOUS
<1>2. CASE UNCHANGED vars
  BY <1>1, <1>2, StutterKeeps
<1>3. CASE Pass
  BY <1>1, <1>3, CleanupKeeps, ExpireKeeps DEF Pass
<1>4. ASSUME NEW m \in Members, Drag(m) PROVE PortalsInv'
  BY <1>1, <1>4, DropOnPaneKeeps, HandleConnectKeeps, DragEdgeEndKeeps DEF Drag
<1>5. ASSUME NEW m \in Members, Change(m) PROVE PortalsInv'
  BY <1>1, <1>5, ChangeKeeps, EditHandlesKeeps DEF Change
<1>6. ASSUME NEW m \in Members, Answer(m) PROVE PortalsInv'
  BY <1>1, <1>6, PickKeeps, SubmitKeeps, CloseKeeps, ConfirmDialogKeeps DEF Answer
<1>7. ASSUME NEW m \in Members, Serve(m) PROVE PortalsInv'
  BY <1>1, <1>7, AddChecksKeeps, AddInsertsKeeps, PatchLandsKeeps, TimeLandsKeeps,
     DeleteLandsKeeps, DisableLandsKeeps DEF Serve
<1> QED BY <1>1, <1>2, <1>3, <1>4, <1>5, <1>6, <1>7 DEF Next

\* The inductive invariant holds in every behaviour, for any members, zones, roads
\* and portals, and however many connections and gestures.
THEOREM PortalsInductive == Spec => []PortalsInv
<1>1. Init => PortalsInv
  BY PortalsInit
<1>2. PortalsInv /\ [Next]_vars => PortalsInv'
  BY PortalsStep
<1> QED BY <1>1, <1>2, PTL DEF Spec

\* The invariant says what PortalsAgree says.
LEMMA InvAgrees == PortalsInv => PortalsAgree
<1>1. SUFFICES ASSUME PortalsInv, NEW k \in Alive, NEW l \in Alive
      PROVE
        /\ \A p \in PortalsOf(k) \cap PortalsOf(l) :
             p[2] # Center /\ p \notin blind.portals => Pair(k) = Pair(l)
        /\ Pair(k) = Pair(l) /\ Pair(k) \notin blind.pairs =>
             /\ k.from = l.from
             /\ OneIsRoads(k) => \A z \in Pair(k) \ (Roads \cup HandlesEdited) :
                  {p \in PortalsOf(k) : p[1] = z} = {p \in PortalsOf(l) : p[1] = z}
  BY DEF PortalsAgree
<1>2. PairFits(k) /\ \A p \in PortalsOf(k) : PortalFits(p, Pair(k))
  BY <1>1 DEF PortalsInv, Agree
<1>3. \A p \in PortalsOf(k) \cap PortalsOf(l) :
        p[2] # Center /\ p \notin blind.portals => Pair(k) = Pair(l)
  BY <1>1, <1>2 DEF PortalFits
<1>4. SUFFICES ASSUME Pair(k) = Pair(l), Pair(k) \notin blind.pairs
      PROVE  /\ k.from = l.from
             /\ OneIsRoads(k) => \A z \in Pair(k) \ (Roads \cup HandlesEdited) :
                  {p \in PortalsOf(k) : p[1] = z} = {p \in PortalsOf(l) : p[1] = z}
  BY <1>3
<1>5. k.from = l.from /\ SameEntrances(k, l)
  BY <1>1, <1>2, <1>4 DEF PairFits
<1>6. ASSUME OneIsRoads(k), NEW z \in Pair(k) \ (Roads \cup HandlesEdited)
      PROVE  {p \in PortalsOf(k) : p[1] = z} = {p \in PortalsOf(l) : p[1] = z}
  <2>1. EndAt(k, z) = EndAt(l, z) \/ Explained(z, EndAt(k, z), EndAt(l, z))
    BY <1>5, <1>6 DEF SameEntrances
  <2>2. ~Explained(z, EndAt(k, z), EndAt(l, z))
    <3>1. SUFFICES ASSUME NEW n \in Members, NEW r \in Range(todo[n]), r \in Disables, r.zone = z
                   PROVE  FALSE
      BY DEF Explained
    <3>2. r.op = "disable"
      BY <3>1 DEF Disables
    <3>3. r.zone \in HandlesEdited
      BY <3>1, <3>2 DEF HandlesEdited
    <3> QED BY <1>6, <3>1, <3>3
  <2>3. k.from # k.to /\ l.from # l.to
    BY <1>1, Places DEF Alive
  <2>4. \A x \in {k, l} : {p \in PortalsOf(x) : p[1] = z} = {<<z, EndAt(x, z)>>}
    BY <1>4, <1>6, <2>3 DEF PortalsOf, Pair, EndAt
  <2> QED BY <2>1, <2>2, <2>4
<1> QED BY <1>5, <1>6

\* A portal leads to one zone, and the connections of two zones agree on direction
\* and entrance, but where a write was unchecked or handles are being edited
\* (RoomView.vue's handleConnect and saveCustomHandles, connections.ts' checks).
THEOREM PortalsAlwaysAgree == Spec => []PortalsAgree
BY PortalsInductive, InvAgrees, PTL

\* No connection uses a disabled portal or ends at a zone without a row, but where
\* a write was unchecked or a form was turned to another zone.
THEOREM EndsAlwaysThere == Spec => []EndsAreThere
<1>1. PortalsInv => EndsAreThere
  BY DEF PortalsInv, Rows, Stand, EndsAreThere
<1> QED BY <1>1, PortalsInductive, PTL

-----------------------------------------------------------------------------
(* Loops *)

(* LoopsWarned is not inductive either: two sets of connections with a single end   *)
(* each may be joined at it.  But a set without loops has two ends, so another one  *)
(* than any zone (TwoEnds), and who is not warned of a loop saw that nothing led    *)
(* from one zone to the other (Apart).                                              *)
Plain == {k \in conns : k.how = "plain" /\ Pair(k) \notin blind.pairs}

End(z, K) == \E k \in K : z \in Pair(k) /\ \A l \in K : z \in Pair(l) => l = k
TwoEnds(K) == \A y : \E z : z # y /\ End(z, K)
Forest == \A K \in SUBSET Plain : K # {} => TwoEnds(K)

Closed(K, R) == \A l \in K : Pair(l) \cap R # {} => Pair(l) \subseteq R
Apart(a, b) == \E R \in SUBSET Zones : a \notin R /\ b \in R /\ Closed(conns, R)

\* What a member is about to add.
Entries(m) == form[m] \cup {r \in Range(todo[m]) : r.op \in {"add", "insert"}}
Unwarned(x) == x.how = "plain" /\ x.from # x.to
PlainHeld ==
  \A m \in Members : fresh[m] =>
    \A x \in Entries(m) : Unwarned(x) => Apart(x.from, x.to)

LoopInv == PortalsInv /\ Forest /\ PlainHeld

\* The only set of numbers that holds 0 and with every number the next.
LEMMA NatSet ==
    ASSUME NEW S \in SUBSET Nat, 0 \in S, \A n \in S : n + 1 \in S
    PROVE  S = Nat
<1>1. SUFFICES ASSUME Nat \ S # {} PROVE FALSE
  OBVIOUS
<1>2. PICK T : T = Nat \ S
  OBVIOUS
<1>3. PICK R : R = OpToRel(<, Nat) /\ IsWellFoundedOn(R, Nat)
  BY NatLessThanWellFounded
<1>4. PICK x \in T : \A y \in T : <<y, x>> \notin R
  BY <1>1, <1>2, <1>3, WFMin
<1>5. \A y \in T : ~(y < x)
  BY <1>2, <1>3, <1>4 DEF OpToRel
<1>6. x \in Nat /\ x # 0 /\ x - 1 \in Nat /\ x - 1 < x
  BY <1>2, <1>4
<1>7. x \in S
  BY <1>2, <1>5, <1>6
<1> QED BY <1>2, <1>4, <1>7

\* A function can be applied over and over.
LEMMA Iterated ==
    ASSUME NEW V, NEW base \in V, NEW step \in [V -> V], NEW n \in Nat
    PROVE  \E it \in [0..n -> V] : it[0] = base /\ \A i \in 1..n : it[i] = step[it[i - 1]]
<1> DEFINE Is(it, m) == it \in [0..m -> V] /\ it[0] = base /\ \A i \in 1..m : it[i] = step[it[i - 1]]
           S == {m \in Nat : \E it : Is(it, m)}
<1>1. 0 \in S
  <2>1. Is([i \in 0..0 |-> base], 0)
    OBVIOUS
  <2> QED BY <2>1
<1>2. ASSUME NEW m \in S PROVE m + 1 \in S
  <2>1. PICK it : Is(it, m)
    OBVIOUS
  <2>2. PICK jt : jt = [i \in 0..(m + 1) |-> IF i = m + 1 THEN step[it[m]] ELSE it[i]]
    OBVIOUS
  <2>3. it[m] \in V /\ step[it[m]] \in V
    BY <2>1
  <2>4. \A i \in 0..(m + 1) : i = m + 1 \/ i \in 0..m
    OBVIOUS
  <2>5. jt \in [0..(m + 1) -> V]
    BY <2>1, <2>2, <2>3, <2>4
  <2>6. ASSUME NEW i \in 1..(m + 1) PROVE jt[i] = step[jt[i - 1]]
    <3>1. CASE i = m + 1
      BY <2>2, <3>1
    <3>2. CASE i \in 1..m
      <4>1. i \in 0..(m + 1) /\ i - 1 \in 0..(m + 1) /\ i # m + 1 /\ i - 1 # m + 1
        BY <3>2
      <4> QED BY <2>1, <2>2, <3>2, <4>1
    <3> QED BY <3>1, <3>2
  <2>7. jt[0] = base
    BY <2>1, <2>2
  <2>8. Is(jt, m + 1)
    BY <2>5, <2>6, <2>7
  <2> QED BY <2>8
<1>3. S = Nat
  <2> HIDE DEF S
  <2>1. S \subseteq Nat
    BY DEF S
  <2> QED BY <1>1, <1>2, <2>1, NatSet
<1>4. n \in S
  BY <1>3
<1> QED BY <1>4

\* A set of numbers with a bound has a largest one, which Max finds.
LEMMA MaxIs ==
    ASSUME NEW n \in Nat, NEW s \in SUBSET (1..n), s # {}
    PROVE  Max(s) \in s /\ \A y \in s : Max(s) >= y
<1> DEFINE Has(t) == \E x \in t : \A y \in t : x >= y
           S == {m \in Nat : \A t \in SUBSET (1..m) : t # {} => Has(t)}
<1>1. 0 \in S
  <2>1. \A t \in SUBSET (1..0) : t = {}
    OBVIOUS
  <2> QED BY <2>1
<1>2. ASSUME NEW m \in S PROVE m + 1 \in S
  <2>1. ASSUME NEW t \in SUBSET (1..(m + 1)), t # {} PROVE Has(t)
    <3>1. CASE m + 1 \in t
      BY <2>1, <3>1
    <3>2. CASE m + 1 \notin t
      <4>1. t \in SUBSET (1..m)
        BY <2>1, <3>2
      <4> QED BY <2>1, <4>1
    <3> QED BY <3>1, <3>2
  <2> QED BY <2>1
<1>3. S = Nat
  <2> HIDE DEF S
  <2>1. S \subseteq Nat
    BY DEF S
  <2> QED BY <1>1, <1>2, <2>1, NatSet
<1>4. n \in S
  BY <1>3
<1>5. Has(s)
  BY <1>4
<1> QED BY <1>5 DEF Max

\* The search as one step after the other.
LEMMA SearchSteps ==
    ASSUME NEW K, IsFiniteSet(K), \A k \in K : Pair(k) \subseteq Zones, NEW a, NEW b \in Zones
    PROVE  \E it \in [0..Cardinality(K) -> SUBSET Zones] :
             /\ it[0] = {b}
             /\ \A i \in 1..Cardinality(K) : it[i] = Spread(K, it[i - 1])
             /\ WouldLoop(K, a, b) <=> a \in it[Cardinality(K)]
<1>1. PICK n \in Nat : n = Cardinality(K)
  BY FS_CardinalityType
<1>2. PICK step : step = [Z \in SUBSET Zones |-> Spread(K, Z)]
  OBVIOUS
<1>3. step \in [SUBSET Zones -> SUBSET Zones]
  BY <1>2 DEF Spread
<1>4. PICK it \in [0..n -> SUBSET Zones] : it[0] = {b} /\ \A i \in 1..n : it[i] = step[it[i - 1]]
  <2>1. PICK V, base : V = SUBSET Zones /\ base = {b}
    OBVIOUS
  <2>2. base \in V /\ step \in [V -> V]
    BY <1>3, <2>1
  <2>3. \E jt \in [0..n -> V] : jt[0] = base /\ \A i \in 1..n : jt[i] = step[jt[i - 1]]
    BY <2>2, Iterated
  <2> QED BY <2>1, <2>3
<1>5. \A i \in 1..n : it[i] = Spread(K, it[i - 1])
  <2>1. \A i \in 1..n : i - 1 \in 0..n
    OBVIOUS
  <2> QED BY <1>2, <1>4, <2>1
<1> DEFINE Rec(f) == f = [s \in SUBSET (1..n) |->
                            IF s = {} THEN {b} ELSE Spread(K, f[s \ {Max(s)}])]
<1>6. \E f : Rec(f)
  <2>1. PICK f : f = [s \in SUBSET (1..n) |-> it[Cardinality(s)]]
    OBVIOUS
  <2>2. ASSUME NEW s \in SUBSET (1..n), s # {}
        PROVE  f[s] = Spread(K, f[s \ {Max(s)}])
    <3>1. Max(s) \in s
      BY <2>2, MaxIs
    <3>2. IsFiniteSet(s) /\ IsFiniteSet(1..n) /\ Cardinality(1..n) = n
      <4>1. IsFiniteSet(1..n) /\ Cardinality(1..n) = n
        BY FS_Interval
      <4> QED BY <4>1, FS_Subset
    <3>3. Cardinality(s) \in Nat /\ Cardinality(s) <= n /\ Cardinality(s \ {Max(s)}) = Cardinality(s) - 1
      <4>1. Cardinality(s) \in Nat /\ Cardinality(s) <= n
        BY <3>2, FS_Subset, FS_CardinalityType
      <4>2. PICK x : x = Max(s)
        OBVIOUS
      <4>3. Cardinality(s \ {x}) = Cardinality(s) - 1
        BY <3>1, <3>2, <4>2, FS_RemoveElement
      <4> QED BY <4>1, <4>2, <4>3
    <3>4. Cardinality(s) # 0
      BY <2>2, <3>2, FS_EmptySet
    <3>5. Cardinality(s) \in 1..n
      BY <3>3, <3>4
    <3>6. s \ {Max(s)} \in SUBSET (1..n)
      OBVIOUS
    <3> QED BY <1>5, <2>1, <3>3, <3>5, <3>6
  <2>3. f[{}] = {b}
    BY <1>4, <2>1, FS_EmptySet
  <2>4. Rec(f)
    BY <2>1, <2>2, <2>3
  <2> QED BY <2>4
<1>7. PICK f : Rec(f) /\ f = CHOOSE g : Rec(g)
  BY <1>6
<1>8. WouldLoop(K, a, b) <=> a \in f[1..n]
  <2>1. DOMAIN [i \in 1..n |-> i] = 1..n
    OBVIOUS
  <2>2. WouldLoop(K, a, b) <=>
          (a \in (CHOOSE g : g = [s \in SUBSET (DOMAIN [i \in 1..n |-> i]) |->
             IF s = {} THEN {b} ELSE Spread(K, g[s \ {Max(s)}])])[DOMAIN [i \in 1..n |-> i]])
    BY <1>1 DEF WouldLoop, FoldLeft, MapThenFoldSet
  <2> QED BY <1>7, <2>1, <2>2
<1>9. \A i \in 0..n : f[1..i] = it[i]
  <2> DEFINE S == {i \in Nat : i <= n => f[1..i] = it[i]}
  <2>1. 0 \in S
    <3>1. 1..0 = {} /\ {} \in SUBSET (1..n)
      OBVIOUS
    <3> QED BY <1>4, <1>7, <3>1
  <2>2. ASSUME NEW i \in S PROVE i + 1 \in S
    <3>1. SUFFICES ASSUME i + 1 <= n PROVE f[1..(i + 1)] = it[i + 1]
      OBVIOUS
    <3>2. PICK s : s = 1..(i + 1)
      OBVIOUS
    <3>3. s \in SUBSET (1..n) /\ s # {} /\ s \ {i + 1} = 1..i /\ i + 1 \in s
      <4>1. i \in Nat
        OBVIOUS
      <4>2. \A j : j \in s <=> j \in Int /\ 1 <= j /\ j <= i + 1
        BY <3>2, <4>1
      <4>3. i + 1 \in s /\ s \subseteq 1..n
        BY <3>1, <4>1, <4>2
      <4>4. s \ {i + 1} = 1..i
        BY <4>1, <4>2
      <4> QED BY <4>3, <4>4
    <3>4. Max(s) = i + 1
      <4>1. Max(s) \in s /\ Max(s) >= i + 1
        BY <3>3, MaxIs
      <4> QED BY <3>2, <4>1
    <3>5. f[s] = Spread(K, f[1..i])
      BY <1>7, <3>3, <3>4
    <3>6. f[1..i] = it[i]
      BY <3>1
    <3>7. it[i + 1] = Spread(K, it[i])
      <4>1. it[i + 1] = Spread(K, it[(i + 1) - 1])
        BY <1>5, <3>1
      <4> QED BY <4>1
    <3> QED BY <3>2, <3>5, <3>6, <3>7
  <2>3. S = Nat
    <3> HIDE DEF S
    <3>1. S \subseteq Nat
      BY DEF S
    <3> QED BY <2>1, <2>2, <3>1, NatSet
  <2> QED BY <2>3
<1>10. WouldLoop(K, a, b) <=> a \in it[n]
  BY <1>8, <1>9
<1> QED BY <1>1, <1>4, <1>5, <1>10

\* As many steps as there are connections reach everything that can be reached:
\* each step that finds anything takes in another connection.
LEMMA SearchEnds ==
    ASSUME NEW K, IsFiniteSet(K), \A k \in K : Pair(k) \subseteq Zones,
           NEW a, NEW b \in Zones, ~WouldLoop(K, a, b)
    PROVE  \E R \in SUBSET Zones : a \notin R /\ b \in R /\ Closed(K, R)
<1>1. PICK n \in Nat : n = Cardinality(K)
  BY FS_CardinalityType
<1>2. PICK it \in [0..n -> SUBSET Zones] :
        /\ it[0] = {b}
        /\ \A i \in 1..n : it[i] = Spread(K, it[i - 1])
        /\ a \notin it[n]
  BY <1>1, SearchSteps
<1> DEFINE In(i) == {k \in K : Pair(k) \subseteq it[i]}
           S == {i \in Nat : i <= n => b \in it[i] /\ (Closed(K, it[i]) \/ Cardinality(In(i)) >= i)}
<1>3. \A i \in Nat : IsFiniteSet(In(i)) /\ Cardinality(In(i)) \in Nat
  <2>1. \A T \in SUBSET K : IsFiniteSet(T) /\ Cardinality(T) \in Nat
    BY FS_Subset, FS_CardinalityType
  <2> QED BY <2>1
<1>4. 0 \in S
  <2>1. b \in it[0] /\ Cardinality(In(0)) >= 0
    <3>1. PICK I : I = In(0)
      OBVIOUS
    <3>2. Cardinality(I) \in Nat
      BY <1>3, <3>1
    <3> QED BY <1>2, <3>1, <3>2
  <2> QED BY <2>1
<1>5. ASSUME NEW i \in S PROVE i + 1 \in S
  <2>1. SUFFICES ASSUME i + 1 <= n
                 PROVE  b \in it[i + 1] /\ (Closed(K, it[i + 1]) \/ Cardinality(In(i + 1)) >= i + 1)
    OBVIOUS
  <2>2. it[i + 1] = Spread(K, it[i])
    <3>1. it[i + 1] = Spread(K, it[(i + 1) - 1])
      BY <1>2, <2>1
    <3> QED BY <3>1
  <2>3. b \in it[i] /\ (Closed(K, it[i]) \/ Cardinality(In(i)) >= i)
    BY <2>1
  <2>4. it[i] \subseteq it[i + 1]
    BY <2>2 DEF Spread
  <2>5. CASE Closed(K, it[i])
    <3>1. it[i + 1] = it[i]
      BY <2>2, <2>5 DEF Spread, Closed
    <3> QED BY <2>3, <2>5, <3>1
  <2>6. CASE ~Closed(K, it[i])
    <3>1. PICK k \in K : Pair(k) \cap it[i] # {} /\ ~(Pair(k) \subseteq it[i])
      BY <2>6 DEF Closed
    <3>2. PICK I, J : I = In(i) /\ J = In(i + 1)
      OBVIOUS
    <3>3. k \notin I /\ I \cup {k} \subseteq J
      BY <2>2, <2>4, <3>1, <3>2 DEF Spread
    <3>4. IsFiniteSet(I) /\ IsFiniteSet(J) /\ Cardinality(I) \in Nat /\ Cardinality(J) \in Nat
      <4>1. i \in Nat /\ i + 1 \in Nat
        OBVIOUS
      <4>2. IsFiniteSet(In(i)) /\ Cardinality(In(i)) \in Nat
        BY <1>3, <4>1
      <4>3. IsFiniteSet(In(i + 1)) /\ Cardinality(In(i + 1)) \in Nat
        BY <1>3, <4>1
      <4> QED BY <3>2, <4>2, <4>3
    <3>5. Cardinality(I \cup {k}) = Cardinality(I) + 1
      BY <3>3, <3>4, FS_AddElement
    <3>6. Cardinality(I \cup {k}) <= Cardinality(J)
      BY <3>3, <3>4, FS_Subset
    <3>7. Cardinality(I) >= i
      BY <2>3, <2>6, <3>2
    <3>8. Cardinality(J) >= i + 1
      BY <3>4, <3>5, <3>6, <3>7
    <3> QED BY <2>3, <2>4, <3>2, <3>8
  <2> QED BY <2>5, <2>6
<1>6. S = Nat
  <2> HIDE DEF S
  <2>1. S \subseteq Nat
    BY DEF S
  <2> QED BY <1>4, <1>5, <2>1, NatSet
<1>7. n \in S /\ n <= n
  BY <1>6
<1>8. Closed(K, it[n])
  <2>1. CASE Cardinality(In(n)) >= n
    <3>1. In(n) \subseteq K
      OBVIOUS
    <3>2. In(n) = K
      BY <1>1, <1>3, <2>1, <3>1, FS_Subset
    <3> QED BY <3>2 DEF Closed
  <2> QED BY <1>7, <2>1
<1> QED BY <1>2, <1>7, <1>8

\* A connection between zones that nothing joined leaves two ends, one on either
\* side of it.
LEMMA ForestGrows ==
    ASSUME NEW K, NEW k, k.from # k.to, \A L \in SUBSET K : L # {} => TwoEnds(L),
           NEW R, k.from \notin R, k.to \in R, Closed(K, R)
    PROVE  TwoEnds(K \cup {k})
<1>1. PICK B, A : B = {l \in K : Pair(l) \subseteq R} /\ A = {l \in K : Pair(l) \cap R = {}}
  OBVIOUS
<1>2. K = A \cup B /\ Pair(k) = {k.from, k.to} /\ \A l : Pair(l) # {}
  BY <1>1 DEF Closed, Pair
<1>3. (B # {} => TwoEnds(B)) /\ (A # {} => TwoEnds(A))
  BY <1>1
<1>4. \E z \in R : End(z, K \cup {k})
  <2>1. CASE B = {}
    BY <1>1, <1>2, <2>1 DEF End
  <2>2. CASE B # {}
    <3>1. PICK z : z # k.to /\ End(z, B)
      BY <1>3, <2>2 DEF TwoEnds
    <3>2. z \in R
      BY <1>1, <3>1 DEF End
    <3>3. \A l \in K \cup {k} : z \in Pair(l) => l \in B
      BY <1>1, <1>2, <3>1, <3>2
    <3> QED BY <1>2, <3>1, <3>2, <3>3 DEF End
  <2> QED BY <2>1, <2>2
<1>5. \E z : z \notin R /\ End(z, K \cup {k})
  <2>1. CASE A = {}
    BY <1>1, <1>2, <2>1 DEF End
  <2>2. CASE A # {}
    <3>1. PICK z : z # k.from /\ End(z, A)
      BY <1>3, <2>2 DEF TwoEnds
    <3>2. z \notin R
      BY <1>1, <3>1 DEF End
    <3>3. \A l \in K \cup {k} : z \in Pair(l) => l \in A
      BY <1>1, <1>2, <3>1, <3>2
    <3> QED BY <1>2, <3>1, <3>2, <3>3 DEF End
  <2> QED BY <2>1, <2>2
<1> QED BY <1>4, <1>5 DEF TwoEnds

\* Every connection was there before, maybe at other portals.
Kept ==
  \A l \in conns' : \E k \in conns :
    k.id = l.id /\ k.from = l.from /\ k.to = l.to /\ k.how = l.how

LEMMA ApartKept ==
    ASSUME Kept, NEW a, NEW b, Apart(a, b)
    PROVE  Apart(a, b)'
<1>1. PICK R \in SUBSET Zones : a \notin R /\ b \in R /\ Closed(conns, R)
  BY DEF Apart
<1>2. Closed(conns', R)
  BY <1>1 DEF Closed, Kept, Pair
<1>3. PICK K : K = conns'
  OBVIOUS
<1>4. Closed(K, R)
  BY <1>2, <1>3
<1> QED BY <1>1, <1>3, <1>4 DEF Apart, Closed

\* What was without loops stays so when connections go or change their portals.
LEMMA ForestKept ==
    ASSUME Forest, Kept, blind.pairs \subseteq blind'.pairs,
           \A k, l \in conns : k.id = l.id => k = l,
           \A k, l \in conns' : k.id = l.id => k = l
    PROVE  Forest'
<1>1. PICK Q : Q = Plain'
  OBVIOUS
<1>2. SUFFICES ASSUME NEW K \in SUBSET Q, K # {}, NEW y PROVE \E z : z # y /\ End(z, K)
  BY <1>1 DEF Forest, TwoEnds, End
<1>3. PICK M : M = {k \in conns : \E l \in K : k.id = l.id /\ k.from = l.from /\ k.to = l.to /\ k.how = l.how}
  OBVIOUS
<1>4. \A l \in K : l \in conns' /\ l.how = "plain" /\ {l.from, l.to} \notin blind'.pairs
  BY <1>1 DEF Plain, Pair
<1>5. \A l \in K : \E k \in M : k.id = l.id /\ k.from = l.from /\ k.to = l.to
  BY <1>3, <1>4 DEF Kept
<1>6. M \in SUBSET Plain /\ M # {}
  BY <1>2, <1>3, <1>4, <1>5 DEF Plain, Pair
<1>7. PICK z : z # y /\ End(z, M)
  BY <1>6 DEF Forest, TwoEnds
<1>8. PICK k \in M : z \in Pair(k) /\ \A j \in M : z \in Pair(j) => j = k
  BY <1>7 DEF End
<1>9. PICK l \in K : k.id = l.id /\ k.from = l.from /\ k.to = l.to
  BY <1>3
<1>10. ASSUME NEW j \in K, z \in Pair(j) PROVE j = l
  <2>1. PICK i \in M : i.id = j.id /\ i.from = j.from /\ i.to = j.to
    BY <1>5
  <2>2. i = k
    BY <1>8, <1>10, <2>1 DEF Pair
  <2> QED BY <1>4, <1>9, <2>1, <2>2
<1>11. z \in Pair(l)
  BY <1>8, <1>9 DEF Pair
<1> QED BY <1>7, <1>10, <1>11 DEF End

\* One member takes a step that adds nothing; whatever is new among what he is
\* about to add leads nowhere that was joined.
LEMMA NothingAdded ==
    ASSUME LoopInv, PortalsInv', Kept, blind.pairs \subseteq blind'.pairs, NEW m,
           \A n \in Members : n # m =>
             /\ fresh'[n] => fresh[n]
             /\ form'[n] = form[n] /\ todo'[n] = todo[n],
           m \in Members /\ fresh'[m] => \A x \in Entries(m)' : Unwarned(x) =>
             \/ Apart(x.from, x.to)
             \/ fresh[m] /\ \E e \in Entries(m) : e.how = x.how /\ e.from = x.from /\ e.to = x.to
    PROVE  LoopInv'
<1>1. Forest'
  <2>1. \A k, l \in conns : k.id = l.id => k = l
    BY DEF LoopInv, PortalsInv, Rows, TypeOK
  <2>2. \A k, l \in conns' : k.id = l.id => k = l
    BY DEF PortalsInv, Rows, TypeOK
  <2> QED BY <2>1, <2>2, ForestKept DEF LoopInv
<1>2. ASSUME NEW n \in Members, fresh'[n], NEW x \in Entries(n)', Unwarned(x)
      PROVE  Apart(x.from, x.to)'
  <2>1. \/ Apart(x.from, x.to)
        \/ fresh[n] /\ \E e \in Entries(n) : e.how = x.how /\ e.from = x.from /\ e.to = x.to
    <3>1. CASE n = m
      BY <1>2, <3>1
    <3>2. CASE n # m
      <4>1. fresh[n] /\ Entries(n)' = Entries(n)
        BY <1>2, <3>2 DEF Entries
      <4> QED BY <1>2, <4>1
    <3> QED BY <3>1, <3>2
  <2>2. Apart(x.from, x.to)
    <3>1. ASSUME fresh[n], NEW e \in Entries(n), e.how = x.how, e.from = x.from, e.to = x.to
          PROVE  Apart(x.from, x.to)
      BY <1>2, <3>1 DEF LoopInv, PlainHeld, Unwarned
    <3> QED BY <2>1, <3>1
  <2>3. PICK a, b : a = x.from /\ b = x.to
    OBVIOUS
  <2>4. Apart(a, b)'
    BY <2>2, <2>3, ApartKept
  <2> QED BY <2>3, <2>4
<1>3. PlainHeld'
  <2>1. ASSUME NEW n \in Members, fresh'[n], NEW x \in Entries(n)', Unwarned(x)'
        PROVE  Apart(x.from, x.to)'
    BY <1>2, <2>1 DEF Unwarned
  <2> QED BY <2>1 DEF PlainHeld
<1> QED BY <1>1, <1>3 DEF LoopInv

\* The same for a gesture: everything it leads to is new.
LEMMA GestureAdds ==
    ASSUME LoopInv, PortalsInv', NEW m \in Members, Gesture(m),
           \A n \in Members : n # m => form'[n] = form[n] /\ todo'[n] = todo[n],
           \A x \in form'[m] : Unwarned(x) => Apart(x.from, x.to),
           \A r \in Range(todo'[m]) : r.op \notin {"add", "insert"}
    PROVE  LoopInv'
<1>1. Kept /\ blind' = blind
  BY DEF Gesture, Kept
<1>2. \A n \in Members : n # m => (fresh'[n] => fresh[n])
  BY DEF Gesture, LoopInv, PortalsInv, Shapes
<1>3. \A x \in Entries(m)' : Unwarned(x) => Apart(x.from, x.to)
  BY DEF Entries
<1> QED BY <1>1, <1>2, <1>3, NothingAdded

\* A queue of one request.
LEMMA RangeOfOne ==
    ASSUME NEW r
    PROVE  Range(<<r>>) = {r} /\ Range(<<>>) = {}
BY DEF Range

\* A gesture that sends no addition.
LEMMA SendsNone ==
    ASSUME LoopInv, PortalsInv', NEW m \in Members, Ready(m), Gesture(m),
           NEW q, Send(m, q), \A r \in Range(q) : r.op \notin {"add", "insert"}
    PROVE  LoopInv'
<1>1. todo'[m] = q /\ form'[m] = {}
  BY DEF Send, Ready, LoopInv, PortalsInv, Shapes
<1>2. \A n \in Members : n # m => form'[n] = form[n] /\ todo'[n] = todo[n]
  BY DEF Send, LoopInv, PortalsInv, Shapes
<1> QED BY <1>1, <1>2, GestureAdds

\* A gesture that opens a form.
LEMMA OpensOne ==
    ASSUME LoopInv, PortalsInv', NEW m \in Members, Ready(m), Gesture(m),
           NEW f, Open(m, f), Unwarned(f) => Apart(f.from, f.to)
    PROVE  LoopInv'
<1>1. form'[m] = {f} /\ todo'[m] = <<>>
  BY DEF Open, Ready, LoopInv, PortalsInv, Shapes
<1>2. \A n \in Members : n # m => form'[n] = form[n] /\ todo'[n] = todo[n]
  BY DEF Open, LoopInv, PortalsInv, Shapes
<1>3. Range(todo'[m]) = {}
  BY <1>1, RangeOfOne
<1> QED BY <1>1, <1>2, <1>3, GestureAdds

\* Who is not warned of a loop has zones that nothing joins.
LEMMA WarningTells ==
    ASSUME PortalsInv, NEW a, NEW b \in Zones, Warning(a, b) = "plain"
    PROVE  Apart(a, b)
<1>1. ~WouldLoop(conns, a, b)
  BY DEF Warning
<1>2. IsFiniteSet(conns) /\ \A k \in conns : Pair(k) \subseteq Zones
  BY Places DEF PortalsInv, Rows, Drawn
<1> QED BY <1>1, <1>2, SearchEnds DEF Apart

LEMMA DropOnPaneLoops ==
    ASSUME LoopInv, PortalsInv', NEW m \in Members, Ready(m), NEW a, NEW ah, DropOnPane(m, a, ah)
    PROVE  LoopInv'
<1>1. PICK f : f = [from |-> a, fh |-> ah, to |-> a, th |-> Center, between |-> FALSE, how |-> "plain"]
  OBVIOUS
<1>2. Gesture(m) /\ Open(m, f) /\ ~Unwarned(f)
  BY <1>1 DEF DropOnPane, Unwarned
<1> QED BY <1>2, OpensOne

\* handleConnect keeps the loops known: it asks, or corrects a connection, or opens
\* a form that warns of a loop.
LEMMA HandleConnectLoops ==
    ASSUME LoopInv, PortalsInv', NEW m \in Members, Ready(m), NEW a \in Drawn, NEW b \in Drawn,
           NEW ah, NEW bh, HandleConnect(m, a, ah, b, bh)
    PROVE  LoopInv'
<1>1. Gesture(m) /\ b \in Zones
  BY Places DEF HandleConnect, LoopInv
<1>2. PICK S \in Found(Occupants(Live(m), a, ah)), T \in Found(Occupants(Live(m), b, bh)) :
        \/ \E k \in T : Ask(m, [from |-> a, fh |-> ah, to |-> b, th |-> bh, id |-> k.id])
        \/ Open(m, ConnectForm(a, ah, b, bh, Warning(a, b)))
        \/ \E e \in Between(Live(m), a, b), checked \in BOOLEAN : Reconnect(m, e, a, ah, b, bh, checked)
  BY DEF HandleConnect
<1>3. ASSUME NEW k \in T, Ask(m, [from |-> a, fh |-> ah, to |-> b, th |-> bh, id |-> k.id])
      PROVE  LoopInv'
  <2>1. form'[m] = {} /\ todo'[m] = <<>> /\ UNCHANGED <<form, todo>>
    BY <1>3 DEF Ask, Ready, LoopInv, PortalsInv, Shapes
  <2>2. Range(todo'[m]) = {}
    BY <2>1, RangeOfOne
  <2> QED BY <1>1, <2>1, <2>2, GestureAdds
<1>4. CASE Open(m, ConnectForm(a, ah, b, bh, Warning(a, b)))
  <2>1. PICK f : f = ConnectForm(a, ah, b, bh, Warning(a, b))
    OBVIOUS
  <2>2. f.from = a /\ f.to = b /\ f.how = Warning(a, b)
    BY <2>1 DEF ConnectForm
  <2>3. Unwarned(f) => Apart(f.from, f.to)
    BY <1>1, <2>2, WarningTells DEF Unwarned, LoopInv
  <2> QED BY <1>1, <1>4, <2>1, <2>3, OpensOne
<1>5. ASSUME NEW e \in Between(Live(m), a, b), NEW checked \in BOOLEAN, Reconnect(m, e, a, ah, b, bh, checked)
      PROVE  LoopInv'
  <2>1. PICK sh, th :
          \/ Send(m, <<Patch(e.id, sh, th, checked)>>)
          \/ Open(m, ConnectForm(e.from, sh, e.to, th, IF checked THEN "warned" ELSE "misled"))
    BY <1>5 DEF Reconnect
  <2>2. CASE Send(m, <<Patch(e.id, sh, th, checked)>>)
    <3>1. PICK q : q = <<Patch(e.id, sh, th, checked)>>
      OBVIOUS
    <3>2. \A r \in Range(q) : r.op \notin {"add", "insert"}
      BY <3>1, RangeOfOne DEF Patch
    <3> QED BY <1>1, <2>2, <3>1, <3>2, SendsNone
  <2>3. CASE Open(m, ConnectForm(e.from, sh, e.to, th, IF checked THEN "warned" ELSE "misled"))
    <3>1. PICK f : f = ConnectForm(e.from, sh, e.to, th, IF checked THEN "warned" ELSE "misled")
      OBVIOUS
    <3>2. ~Unwarned(f)
      BY <3>1 DEF ConnectForm, Unwarned
    <3> QED BY <1>1, <2>3, <3>1, <3>2, OpensOne
  <2> QED BY <2>1, <2>2, <2>3
<1> QED BY <1>2, <1>3, <1>4, <1>5

\* A drag of an edge, a new time, a deletion.
LEMMA OneRequestLoops ==
    ASSUME LoopInv, PortalsInv', NEW m \in Members, Ready(m), NEW k, NEW fh, NEW th,
           DragEdgeEnd(m, k, fh, th) \/ SetTime(m, k) \/ DeleteEdge(m, k)
    PROVE  LoopInv'
<1>1. PICK r : /\ r \in {Patch(k.id, fh, th, FALSE), [op |-> "time", id |-> k.id], DeleteIt(k.id)}
               /\ Gesture(m) /\ Send(m, <<r>>)
  BY DEF DragEdgeEnd, SetTime, DeleteEdge
<1>2. PICK q : q = <<r>>
  OBVIOUS
<1>3. \A s \in Range(q) : s.op \notin {"add", "insert"}
  BY <1>1, <1>2, RangeOfOne DEF Patch, DeleteIt
<1> QED BY <1>1, <1>2, <1>3, SendsNone

\* What comes before the last request of a gesture, and the last.
LEMMA RangeOfJoined ==
    ASSUME NEW S, NEW L \in Seq(S), NEW d
    PROVE  \A r \in Range(L \o <<d>>) : r = d \/ \E i \in 1..Len(L) : r = L[i]
<1>1. PICK V : V = S \cup {d}
  OBVIOUS
<1>2. L \in Seq(V) /\ <<d>> \in Seq(V) /\ Len(<<d>>) = 1 /\ <<d>>[1] = d
  BY <1>1
<1>3. PICK q : q = L \o <<d>>
  OBVIOUS
<1>4. /\ DOMAIN q = 1..(Len(L) + 1)
      /\ \A i \in 1..(Len(L) + 1) : i \in 1..Len(L) \/ i = Len(L) + 1
      /\ (\A i \in 1..Len(L) : q[i] = L[i]) /\ q[Len(L) + 1] = d
  BY <1>2, <1>3
<1> QED BY <1>3, <1>4 DEF Range

LEMMA EditHandlesLoops ==
    ASSUME LoopInv, PortalsInv', NEW m \in Members, Ready(m), NEW z \in nodes, NEW D \in SUBSET Portals,
           EditHandles(m, z, D)
    PROVE  LoopInv'
<1>1. PICK U : U = {k \in conns : \E h \in D : <<z, h>> \in PortalsOf(k)}
  OBVIOUS
<1>2. PICK used : used = SetToSeq(U)
  OBVIOUS
<1>3. IsFiniteSet(U)
  BY <1>1, FS_Subset DEF LoopInv, PortalsInv, Rows
<1>4. used \in Seq(U)
  BY <1>2, <1>3, Listed
<1>5. PICK L, d : /\ L = [i \in DOMAIN used |-> Leaves(used[i], z, D)]
                  /\ d = [op |-> "disable", zone |-> z, portals |-> D]
  OBVIOUS
<1>6. PICK X : X = {r : r \in {Leaves(k, z, D) : k \in U}}
  OBVIOUS
<1>7. L \in Seq(X) /\ \A r \in X : r.op \in {"center", "delete"}
  BY <1>4, <1>5, <1>6 DEF Leaves, DeleteIt
<1>8. \A i \in 1..Len(L) : L[i] \in X
  BY <1>7
<1>9. PICK q : q = L \o <<d>>
  OBVIOUS
<1>10. \A r \in Range(q) : r.op \notin {"add", "insert"}
  BY <1>5, <1>7, <1>8, <1>9, RangeOfJoined
<1>11. Gesture(m) /\ Send(m, q)
  BY <1>1, <1>2, <1>5, <1>9, Zenon DEF EditHandles
<1> QED BY <1>10, <1>11, SendsNone

\* What a member types, sends, confirms or gives up.
LEMMA PickLoops ==
    ASSUME LoopInv, PortalsInv', NEW m \in Members, NEW z \in Zones, Pick(m, z)
    PROVE  LoopInv'
<1>1. PICK f, g :
        /\ f \in form[m] /\ z # f.from
        /\ g = [f EXCEPT !.to = z, !.th = Center,
                  !.how = CASE f.between -> "repicked"
                            [] ~f.between /\ z \in Drawn -> "picked"
                            [] OTHER -> "plain"]
        /\ form' = [form EXCEPT ![m] = {g}]
  BY DEF Pick
<1>2. UNCHANGED <<conns, todo, fresh, blind>> /\ todo[m] = <<>>
  BY DEF Pick, Idle
<1>3. /\ f \in [from : Zones, fh : Handles, to : Zones, th : Handles,
                between : BOOLEAN, how : Hows \ {"replaced"}]
      /\ form'[m] = {g} /\ \A n \in Members : n # m => form'[n] = form[n]
  BY <1>1 DEF LoopInv, PortalsInv, Shapes, ShapeOf, Forms
<1>4. g.from = f.from /\ g.to = z /\ (g.how = "plain" => z \notin Drawn)
  BY <1>1, <1>3
<1>5. Unwarned(g) => Apart(g.from, g.to)
  <2>1. SUFFICES ASSUME z \notin Drawn PROVE Apart(f.from, z)
    BY <1>4 DEF Unwarned
  <2>2. Closed(conns, {z})
    BY <2>1 DEF Closed, Drawn
  <2> QED BY <1>1, <2>2 DEF Apart
<1>6. Entries(m)' = {g}
  BY <1>2, <1>3, RangeOfOne DEF Entries
<1>7. Kept
  BY <1>2 DEF Kept
<1> QED BY <1>2, <1>3, <1>5, <1>6, <1>7, NothingAdded

LEMMA SubmitLoops ==
    ASSUME LoopInv, PortalsInv', NEW m \in Members, NEW close \in BOOLEAN, Submit(m, close)
    PROVE  LoopInv'
<1>1. PICK f, r :
        /\ f \in form[m]
        /\ r = [op |-> "add", from |-> f.from, fh |-> f.fh,
                to |-> f.to, th |-> f.th, how |-> f.how,
                place |-> ~f.between, close |-> close]
        /\ todo' = [todo EXCEPT ![m] = <<r>>]
  BY DEF Submit
<1>2. UNCHANGED <<conns, form, fresh, blind>>
  BY DEF Submit, Idle
<1>3. todo'[m] = <<r>> /\ \A n \in Members : n # m => todo'[n] = todo[n]
  BY <1>1 DEF LoopInv, PortalsInv, Shapes
<1>4. Entries(m)' \subseteq form[m] \cup {r}
  BY <1>2, <1>3, RangeOfOne DEF Entries
<1>5. \A x \in Entries(m)' : \E e \in Entries(m) : e.how = x.how /\ e.from = x.from /\ e.to = x.to
  BY <1>1, <1>4 DEF Entries
<1>6. Kept
  BY <1>2 DEF Kept
<1> QED BY <1>2, <1>3, <1>5, <1>6, NothingAdded

LEMMA CloseLoops ==
    ASSUME LoopInv, PortalsInv', NEW m \in Members, CloseForm(m) \/ CancelDialog(m)
    PROVE  LoopInv'
<1>1. /\ UNCHANGED <<conns, todo, fresh, blind>>
      /\ form'[m] \subseteq form[m] /\ \A n \in Members : n # m => form'[n] = form[n]
  BY DEF CloseForm, CancelDialog, Idle, LoopInv, PortalsInv, Shapes
<1>2. Entries(m)' \subseteq Entries(m)
  BY <1>1 DEF Entries
<1>3. Kept
  BY <1>1 DEF Kept
<1> QED BY <1>1, <1>2, <1>3, NothingAdded

\* A replacement is not a plain addition.
LEMMA ConfirmDialogLoops ==
    ASSUME LoopInv, PortalsInv', NEW m \in Members, ConfirmDialog(m)
    PROVE  LoopInv'
<1>0. PICK d \in dialog[m] : \E S \in Found(Occupants(Live(m), d.from, d.fh)) :
       todo' = [todo EXCEPT ![m] =
         <<DeleteIt(d.id)>> \o SetToSeq({DeleteIt(k.id) : k \in {l \in S : l.id # d.id}})
         \o <<[op |-> "add", from |-> d.from, fh |-> d.fh, to |-> d.to, th |-> d.th,
               how |-> "replaced", place |-> FALSE, close |-> TRUE]>>]
  BY DEF ConfirmDialog
<1>1. PICK S \in Found(Occupants(Live(m), d.from, d.fh)) :
       todo' = [todo EXCEPT ![m] =
         <<DeleteIt(d.id)>> \o SetToSeq({DeleteIt(k.id) : k \in {l \in S : l.id # d.id}})
         \o <<[op |-> "add", from |-> d.from, fh |-> d.fh, to |-> d.to, th |-> d.th,
               how |-> "replaced", place |-> FALSE, close |-> TRUE]>>]
  BY <1>0
<1>2. PICK X : X = {DeleteIt(k.id) : k \in {l \in S : l.id # d.id}}
  OBVIOUS
<1>3. IsFiniteSet(X)
  <2>1. X = {} \/ \E x : X = {x}
    BY <1>2, FoundNone
  <2> QED BY <2>1, FS_EmptySet, FS_Singleton
<1>4. PICK one, t, r :
        /\ one = DeleteIt(d.id) /\ t = SetToSeq(X)
        /\ r = [op |-> "add", from |-> d.from, fh |-> d.fh, to |-> d.to, th |-> d.th,
                how |-> "replaced", place |-> FALSE, close |-> TRUE]
  OBVIOUS
<1>5. PICK Y : Y = X \cup {one}
  OBVIOUS
<1>6. \A y \in Y : y.op = "delete"
  BY <1>2, <1>4, <1>5 DEF DeleteIt
<1>7. <<one>> \in Seq(Y) /\ t \in Seq(Y)
  <2>1. t \in Seq(X)
    BY <1>3, <1>4, Listed
  <2> QED BY <1>5, <2>1
<1>8. PICK L \in Seq(Y) : L = <<one>> \o t
  BY <1>7, Joined, Zenon
<1>9. \A i \in 1..Len(L) : L[i] \in Y
  BY <1>8
<1>10. PICK q : q = L \o <<r>>
  OBVIOUS
<1>11. todo' = [todo EXCEPT ![m] = q]
  BY <1>1, <1>2, <1>4, <1>8, <1>10, Zenon
<1>12. /\ UNCHANGED <<conns, form, fresh, blind>> /\ form[m] = {}
       /\ todo'[m] = q /\ \A n \in Members : n # m => todo'[n] = todo[n]
  <2>1. ShapeOf(form[m], dialog[m], todo[m])
    BY DEF LoopInv, PortalsInv, Shapes
  <2> QED BY <1>1, <1>11, <2>1 DEF ConfirmDialog, Idle, LoopInv, PortalsInv, Shapes, ShapeOf
<1>13. \A x \in Entries(m)' : ~Unwarned(x)
  <2>1. \A x \in Range(q) : x = r \/ x \in Y
    <3>1. L \in Seq(Y)
      OBVIOUS
    <3>2. \A x \in Range(L \o <<r>>) : x = r \/ \E i \in 1..Len(L) : x = L[i]
      BY <3>1, RangeOfJoined, Zenon
    <3> QED BY <1>9, <1>10, <3>2
  <2>2. \A x \in Entries(m)' : x \in Range(q) /\ x.op \in {"add", "insert"}
    BY <1>12 DEF Entries
  <2>3. \A x \in Entries(m)' : x = r
    BY <1>6, <2>1, <2>2
  <2> QED BY <1>4, <2>3 DEF Unwarned
<1>14. Kept
  BY <1>12 DEF Kept
<1> QED BY <1>12, <1>13, <1>14, NothingAdded

\* A request that is refused or only checked adds nothing yet.
LEMMA FailsLoops ==
    ASSUME LoopInv, PortalsInv', NEW m \in Members, todo[m] # <<>>, Fails(m)
    PROVE  LoopInv'
<1>1. PICK F, q :
        /\ form' = [form EXCEPT ![m] = F] /\ F \in {{}, form[m]}
        /\ todo' = [todo EXCEPT ![m] = q] /\ q \in {<<>>, Tail(todo[m])}
        /\ UNCHANGED <<conns, fresh, blind>>
  BY DEF Fails
<1>2. Range(q) \subseteq Range(todo[m])
  BY <1>1, QueueHead, RangeOfOne DEF LoopInv, PortalsInv, Shapes
<1>3. /\ form'[m] = F /\ todo'[m] = q
      /\ \A n \in Members : n # m => form'[n] = form[n] /\ todo'[n] = todo[n]
  BY <1>1 DEF LoopInv, PortalsInv, Shapes
<1>4. Entries(m)' \subseteq Entries(m)
  BY <1>1, <1>2, <1>3 DEF Entries
<1>5. Kept
  BY <1>1 DEF Kept
<1> QED BY <1>1, <1>3, <1>4, <1>5, NothingAdded

LEMMA AddChecksLoops ==
    ASSUME LoopInv, PortalsInv', NEW m \in Members, todo[m] # <<>>, AddChecks(m, Head(todo[m]))
    PROVE  LoopInv'
<1>1. CASE Fails(m)
  BY <1>1, FailsLoops
<1>2. CASE ~Fails(m)
  <2>1. PICK r, s : r = Head(todo[m]) /\ s = [r EXCEPT !.op = "insert"]
    OBVIOUS
  <2>2. r.op = "add" /\ todo' = [todo EXCEPT ![m] = <<s>>] /\ UNCHANGED <<conns, form, fresh, blind>>
    BY <1>2, <2>1 DEF AddChecks
  <2>3. r \in Range(todo[m]) /\ r \in Adds
    BY <2>1, <2>2, QueueHead, Ops DEF LoopInv, PortalsInv, Shapes
  <2>4. s.how = r.how /\ s.from = r.from /\ s.to = r.to
    BY <2>1, <2>3 DEF Adds
  <2>5. todo'[m] = <<s>> /\ \A n \in Members : n # m => todo'[n] = todo[n]
    BY <2>2 DEF LoopInv, PortalsInv, Shapes
  <2>6. \A x \in Entries(m)' : \E e \in Entries(m) : e.how = x.how /\ e.from = x.from /\ e.to = x.to
    <3>1. Entries(m)' \subseteq form[m] \cup {s}
      BY <2>2, <2>5, RangeOfOne DEF Entries
    <3>2. r \in Entries(m)
      BY <2>2, <2>3 DEF Entries
    <3> QED BY <2>4, <3>1, <3>2 DEF Entries
  <2>7. Kept
    BY <2>2 DEF Kept
  <2> QED BY <2>2, <2>5, <2>6, <2>7, NothingAdded
<1> QED BY <1>1, <1>2

\* A write that adds no connection.
LEMMA WriteLoops ==
    ASSUME LoopInv, PortalsInv', Kept, blind.pairs \subseteq blind'.pairs, NEW m, Overtakes(m),
           \A n \in Members : n # m => form'[n] = form[n] /\ todo'[n] = todo[n],
           m \in Members => form'[m] = form[m] /\ Range(todo'[m]) \subseteq Range(todo[m])
    PROVE  LoopInv'
<1>1. \A n \in Members : fresh'[n] => fresh[n]
  BY Overtaken
<1>2. m \in Members => Entries(m)' \subseteq Entries(m)
  BY DEF Entries
<1> QED BY <1>1, <1>2, NothingAdded

\* What a served request leaves.
LEMMA DoneLeaves ==
    ASSUME LoopInv, NEW m \in Members, todo[m] # <<>>, Done(m)
    PROVE  /\ Range(todo'[m]) \subseteq Range(todo[m])
           /\ \A n \in Members : n # m => todo'[n] = todo[n]
<1>1. todo'[m] = Tail(todo[m]) /\ \A n \in Members : n # m => todo'[n] = todo[n]
  BY DEF Done, LoopInv, PortalsInv, Shapes
<1>2. todo[m] \in Queues
  BY DEF LoopInv, PortalsInv, Shapes
<1> QED BY <1>1, <1>2, QueueHead

LEMMA PatchLandsLoops ==
    ASSUME LoopInv, PortalsInv', NEW m \in Members, todo[m] # <<>>, PatchLands(m, Head(todo[m]))
    PROVE  LoopInv'
<1>1. PICK r : r = Head(todo[m])
  OBVIOUS
<1>2. CASE r.id \notin Ids
  BY <1>1, <1>2, FailsLoops DEF PatchLands
<1>3. CASE r.id \in Ids
  <2>1. PICK k, new :
          /\ k \in conns
          /\ new = IF r.op = "center" THEN [k EXCEPT !.th = Center]
                   ELSE [k EXCEPT !.fh = r.fh, !.th = r.th]
          /\ conns' = (conns \ {k}) \cup {new}
          /\ Done(m) /\ Lands(m, {new}, r.op = "patch" /\ ~r.checked) /\ UNCHANGED form
    BY <1>1, <1>3 DEF PatchLands
  <2>2. k \in Connection
    BY <2>1, Places DEF LoopInv
  <2>3. new.id = k.id /\ new.from = k.from /\ new.to = k.to /\ new.how = k.how
    BY <2>1, <2>2 DEF Connection
  <2>4. Kept
    BY <2>1, <2>3 DEF Kept
  <2>5. Overtakes(m) /\ blind.pairs \subseteq blind'.pairs
    BY <2>1 DEF Lands
  <2> QED BY <2>1, <2>4, <2>5, DoneLeaves, WriteLoops
<1> QED BY <1>2, <1>3

LEMMA TimeLandsLoops ==
    ASSUME LoopInv, PortalsInv', NEW m \in Members, todo[m] # <<>>, TimeLands(m, Head(todo[m]))
    PROVE  LoopInv'
<1>1. PICK r : r = Head(todo[m])
  OBVIOUS
<1>2. CASE r.id \notin Ids
  BY <1>1, <1>2, FailsLoops DEF TimeLands
<1>3. CASE r.id \in Ids
  <2>1. PICK k \in conns : Done(m) /\ Lands(m, {k}, k.id \in over) /\ UNCHANGED <<conns, form>>
    BY <1>1, <1>3 DEF TimeLands
  <2>2. Kept
    BY <2>1 DEF Kept
  <2>3. Overtakes(m) /\ blind.pairs \subseteq blind'.pairs
    BY <2>1 DEF Lands
  <2> QED BY <2>1, <2>2, <2>3, DoneLeaves, WriteLoops
<1> QED BY <1>2, <1>3

LEMMA DeleteLandsLoops ==
    ASSUME LoopInv, PortalsInv', NEW m \in Members, todo[m] # <<>>, DeleteLands(m, Head(todo[m]))
    PROVE  LoopInv'
<1>1. PICK r : r = Head(todo[m])
  OBVIOUS
<1>2. CASE r.id \notin Ids
  BY <1>1, <1>2, FailsLoops DEF DeleteLands
<1>3. CASE r.id \in Ids
  <2>1. /\ conns' = {k \in conns : k.id # r.id} /\ UNCHANGED form
        /\ Done(m) /\ Lands(m, {}, FALSE)
    BY <1>1, <1>3 DEF DeleteLands
  <2>2. Kept
    BY <2>1 DEF Kept
  <2>3. Overtakes(m) /\ blind.pairs \subseteq blind'.pairs
    BY <2>1 DEF Lands
  <2> QED BY <2>1, <2>2, <2>3, DoneLeaves, WriteLoops
<1> QED BY <1>2, <1>3

LEMMA DisableLandsLoops ==
    ASSUME LoopInv, PortalsInv', NEW m \in Members, todo[m] # <<>>, DisableLands(m, Head(todo[m]))
    PROVE  LoopInv'
<1>1. Done(m) /\ Overtakes(m) /\ UNCHANGED <<conns, form>>
  BY DEF DisableLands
<1>2. blind.pairs \subseteq blind'.pairs
  <2>1. blind \in Blinds
    BY DEF LoopInv, PortalsInv, Rows
  <2> QED BY <2>1 DEF DisableLands, Blinds
<1>3. Kept
  BY <1>1 DEF Kept
<1> QED BY <1>1, <1>2, <1>3, DoneLeaves, WriteLoops

\* An insertion closes no loop: who had not been warned saw that nothing joined the
\* two zones and nothing was written since, or the connection is unchecked.
LEMMA AddInsertsLoops ==
    ASSUME LoopInv, PortalsInv', NEW m \in Members, todo[m] # <<>>, AddInserts(m, Head(todo[m]))
    PROVE  LoopInv'
<1>1. PICK r, k, F :
        /\ r = Head(todo[m])
        /\ k = [id |-> last + 1, from |-> r.from, fh |-> r.fh, to |-> r.to, th |-> r.th,
                how |-> r.how]
        /\ F = IF r.close THEN {} ELSE {NextEntry(f) : f \in form[m]}
  OBVIOUS
<1>2. /\ r.op = "insert" /\ conns' = conns \cup {k}
      /\ form' = [form EXCEPT ![m] = F] /\ Done(m)
      /\ Lands(m, {k}, r.how \in {"replaced", "misled"})
  BY <1>1 DEF AddInserts
<1>3. r \in Adds /\ r \in Range(todo[m]) /\ Range(Tail(todo[m])) = {}
  <2>1. todo[m] \in Queues
    BY DEF LoopInv, PortalsInv, Shapes
  <2>2. r \in Requests /\ r \in Range(todo[m])
    BY <1>1, <2>1, QueueHead
  <2>3. r \in Adds /\ r \notin Moves
    BY <1>2, <2>2, Ops
  <2>4. Range(Tail(todo[m])) = {}
    BY <1>1, <2>3, UnderWay DEF LoopInv
  <2> QED BY <2>2, <2>3, <2>4
<1>4. k.from = r.from /\ k.to = r.to /\ k.how = r.how /\ k.from # k.to /\ k.id = last + 1
  BY <1>1, <1>3 DEF Adds
<1>5. /\ Overtakes(m) /\ blind.pairs \subseteq blind'.pairs
      /\ ~fresh[m] => Pair(k) \in blind'.pairs
  BY <1>2 DEF Lands
<1>6. k \notin conns
  <2>1. k \in conns => k.id <= last
    BY DEF LoopInv, PortalsInv, Rows
  <2>2. last \in Nat
    <3>1. last \in 0..MaxConns
      BY DEF LoopInv, PortalsInv, Rows, TypeOK
    <3>2. MaxConns \in Nat
      BY PortalsAssumption
    <3> QED BY <3>1, <3>2
  <2> QED BY <1>4, <2>1, <2>2
<1>7. Forest'
  <2>1. PICK Q : Q = Plain'
    OBVIOUS
  <2>2. Q \subseteq Plain \cup {k}
    BY <1>2, <1>5, <2>1 DEF Plain, Pair
  <2>3. SUFFICES ASSUME NEW K \in SUBSET Q, K # {} PROVE TwoEnds(K)
    BY <2>1 DEF Forest, TwoEnds, End
  <2>4. CASE k \notin K
    BY <2>2, <2>3, <2>4 DEF LoopInv, Forest
  <2>5. CASE k \in K
    <3>1. k.how = "plain" /\ Pair(k) \notin blind'.pairs
      BY <2>1, <2>5 DEF Plain, Pair
    <3>2. Apart(k.from, k.to)
      <4>1. fresh[m] /\ r \in Entries(m) /\ Unwarned(r)
        BY <1>2, <1>3, <1>4, <1>5, <3>1 DEF Entries, Unwarned
      <4> QED BY <1>4, <4>1 DEF LoopInv, PlainHeld
    <3>3. PICK R \in SUBSET Zones : k.from \notin R /\ k.to \in R /\ Closed(conns, R)
      BY <3>2 DEF Apart
    <3>4. PICK M : M = K \ {k}
      OBVIOUS
    <3>5. M \subseteq Plain /\ Closed(M, R)
      BY <2>2, <3>3, <3>4 DEF Plain, Closed
    <3>6. \A L \in SUBSET M : L # {} => TwoEnds(L)
      BY <3>5 DEF LoopInv, Forest
    <3>7. TwoEnds(M \cup {k})
      BY <1>4, <3>3, <3>5, <3>6, ForestGrows
    <3>8. M \cup {k} = K
      BY <2>5, <3>4
    <3> QED BY <3>7, <3>8
  <2> QED BY <2>4, <2>5
<1>8. PlainHeld'
  <2>1. ASSUME NEW n \in Members, fresh'[n], NEW x \in Entries(n)' PROVE ~Unwarned(x)
    <3>1. CASE n = m
      <4>1. form'[m] = F /\ todo'[m] = Tail(todo[m])
        BY <1>2 DEF Done, LoopInv, PortalsInv, Shapes
      <4>2. x \in F
        BY <1>3, <2>1, <3>1, <4>1 DEF Entries
      <4>3. PICK f \in form[m] : x = NextEntry(f)
        BY <1>1, <4>2
      <4>4. f \in [from : Zones, fh : Handles, to : Zones, th : Handles,
                   between : BOOLEAN, how : Hows \ {"replaced"}]
        BY DEF LoopInv, PortalsInv, Shapes, Forms
      <4> QED BY <4>3, <4>4 DEF NextEntry, Unwarned
    <3>2. CASE n # m
      <4>1. form[n] = {} /\ todo[n] = <<>>
        BY <1>5, <2>1, <3>2, Overtaken
      <4>2. form'[n] = {} /\ todo'[n] = <<>>
        BY <1>2, <3>2, <4>1 DEF Done, LoopInv, PortalsInv, Shapes
      <4> QED BY <2>1, <4>2, RangeOfOne DEF Entries
    <3> QED BY <3>1, <3>2
  <2>2. ASSUME NEW n \in Members, fresh'[n], NEW x \in Entries(n)', Unwarned(x)'
        PROVE  Apart(x.from, x.to)'
    BY <2>1, <2>2 DEF Unwarned
  <2> QED BY <2>2 DEF PlainHeld
<1> QED BY <1>7, <1>8 DEF LoopInv

\* Time passes, and what is long over goes.
LEMMA PassLoops ==
    ASSUME LoopInv, PortalsInv', Pass
    PROVE  LoopInv'
<1>1. ASSUME NEW k \in conns, Cleanup(k) PROVE LoopInv'
  <2>1. "the job" \notin Members
    BY PortalsAssumption
  <2>2. /\ conns' = conns \ {k} /\ UNCHANGED <<form, todo, blind>>
        /\ Overtakes("the job")
    BY <1>1 DEF Cleanup
  <2>3. Kept
    BY <2>2 DEF Kept
  <2> QED BY <2>1, <2>2, <2>3, WriteLoops
<1>2. ASSUME NEW k \in conns, NEW N \in SUBSET Members, Expire(k, N) PROVE LoopInv'
  <2>1. UNCHANGED <<conns, form, todo, fresh, blind>>
    BY <1>2 DEF Expire
  <2>2. Kept
    BY <2>1 DEF Kept
  <2>3. PICK m : m \notin Members
    BY NoSetContainsEverything
  <2> QED BY <2>1, <2>2, <2>3, NothingAdded
<1> QED BY <1>1, <1>2 DEF Pass

LEMMA StutterLoops ==
    ASSUME LoopInv, PortalsInv', UNCHANGED vars
    PROVE  LoopInv'
<1>1. UNCHANGED <<conns, form, todo, fresh, blind>>
  BY DEF vars
<1>2. Kept
  BY <1>1 DEF Kept
<1>3. PICK m : m \notin Members
  BY NoSetContainsEverything
<1> QED BY <1>1, <1>2, <1>3, NothingAdded

LEMMA LoopsStep == LoopInv /\ [Next]_vars => LoopInv'
<1>1. SUFFICES ASSUME LoopInv, [Next]_vars PROVE LoopInv'
  OBVIOUS
<1>2. PortalsInv'
  BY <1>1, PortalsStep DEF LoopInv
<1>3. CASE UNCHANGED vars
  BY <1>1, <1>2, <1>3, StutterLoops
<1>4. CASE Pass
  BY <1>1, <1>2, <1>4, PassLoops
<1>5. ASSUME NEW m \in Members, Drag(m) PROVE LoopInv'
  BY <1>1, <1>2, <1>5, DropOnPaneLoops, HandleConnectLoops, OneRequestLoops DEF Drag
<1>6. ASSUME NEW m \in Members, Change(m) PROVE LoopInv'
  BY <1>1, <1>2, <1>6, OneRequestLoops, EditHandlesLoops DEF Change
<1>7. ASSUME NEW m \in Members, Answer(m) PROVE LoopInv'
  BY <1>1, <1>2, <1>7, PickLoops, SubmitLoops, CloseLoops, ConfirmDialogLoops DEF Answer
<1>8. ASSUME NEW m \in Members, Serve(m) PROVE LoopInv'
  BY <1>1, <1>2, <1>8, AddChecksLoops, AddInsertsLoops, PatchLandsLoops, TimeLandsLoops,
     DeleteLandsLoops, DisableLandsLoops DEF Serve
<1> QED BY <1>1, <1>3, <1>4, <1>5, <1>6, <1>7, <1>8 DEF Next

LEMMA LoopsInit == Init => LoopInv
<1>1. SUFFICES ASSUME Init PROVE Forest /\ PlainHeld
  BY PortalsInit DEF LoopInv
<1>2. Forest
  BY <1>1 DEF Init, Forest, Plain
<1>3. \A m \in Members : Entries(m) = {}
  BY <1>1, RangeOfOne DEF Init, Entries
<1> QED BY <1>2, <1>3 DEF PlainHeld

\* Every loop holds a connection its member was warned of, or that was made unseen
\* (RoomView.vue's warning about cycles), however many members draw at once.
THEOREM LoopsAlwaysWarned == Spec => []LoopsWarned
<1>1. LoopInv => LoopsWarned
  <2>1. SUFFICES ASSUME LoopInv, NEW K \in SUBSET Plain, K # {}
                 PROVE  \E z \in Zones : Cardinality({k \in K : z \in Pair(k)}) = 1
    BY DEF LoopsWarned, Plain
  <2>2. PICK z : End(z, K)
    BY <2>1 DEF LoopInv, Forest, TwoEnds
  <2>3. PICK k \in K : {l \in K : z \in Pair(l)} = {k} /\ z \in Pair(k)
    BY <2>2 DEF End
  <2>4. z \in Zones
    <3>1. k \in conns
      BY <2>1 DEF Plain
    <3> QED BY <2>1, <2>3, <3>1, Places DEF LoopInv, Drawn
  <2> QED BY <2>3, <2>4, FS_Singleton
<1>2. LoopInv /\ [Next]_vars => LoopInv'
  BY LoopsStep
<1>3. Init => LoopInv
  BY LoopsInit
<1> QED BY <1>1, <1>2, <1>3, PTL DEF Spec
===============================================================================
