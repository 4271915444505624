---------------------------- MODULE ClientSyncProofs ----------------------------
(***************************************************************************)
(* ClientSync for any number of browsers, zones, connections and messages. *)
(* A message at the end of a client's queue comes after everything the     *)
(* client has yet to apply, so an edit and its message do the same to the  *)
(* rows and to the store that has caught up.  That is an induction over    *)
(* the queue, by sets of numbers: the lemmas on After.  IInv adds what a   *)
(* handshake has read, that the chains who asked for them wait for are     *)
(* there, and that relocations find the chain they relocate, which keeps a *)
(* chain that is merged early from making a difference.                    *)
(***************************************************************************)
EXTENDS ClientSync, FiniteSetTheorems, WellFoundedInduction, TLAPS

-----------------------------------------------------------------------------
(* Messages and what applying one changes *)

Conn == [id : ConnIds, from : Zones, to : Zones]

Message ==
  [kind : {"sync"}, map : Map] \cup
  [kind : {"nodes"}, nodes : SUBSET Zones] \cup
  [kind : {"connection_added", "connection_updated"}, conn : Conn] \cup
  [kind : {"connection_removed"}, ids : SUBSET ConnIds, zones : SUBSET Zones] \cup
  [kind : {"chain_added"}, chain : Zones] \cup
  [kind : {"chain_removed"}, chain : Zones, zones : SUBSET Zones, ids : SUBSET ConnIds] \cup
  [kind : {"chain_relocated"}, chain : Zones, to : Zones, home : Zones,
   zones : SUBSET Zones, ids : SUBSET ConnIds] \cup
  [kind : {"room_reset"}]

\* A store stays a map, whatever message it applies.
LEMMA AppliedMap ==
  ASSUME NEW s \in Map, NEW m \in Message
  PROVE  Applied(s, m) \in Map
<1> DEFINE t == Dropped(s, m)
<1>1. CASE m.kind = "sync"
  BY <1>1 DEF Message, Applied
<1>2. CASE m.kind \in {"nodes", "connection_updated", "chain_added", "room_reset"}
  BY <1>2 DEF Map, Message, Applied, Upsert
<1>3. CASE m.kind = "connection_added"
  <2>1. m.conn \in Conn
    BY <1>3 DEF Message
  <2> QED BY <1>3, <2>1 DEF Map, Conn, Applied
<1>4. t \in Map
  BY DEF Dropped, Map
<1> HIDE DEF t
<1>5. CASE m.kind = "connection_removed"
  BY <1>4, <1>5 DEF Applied, t
<1>6. CASE m.kind = "chain_removed"
  <2>1. Applied(s, m) = [t EXCEPT !.sources = @ \ {m.chain}]
    BY <1>6 DEF Applied, ChainGone, t
  <2> QED BY <1>4, <2>1 DEF Map
<1>7. CASE m.kind = "chain_relocated"
  <2>1. Applied(s, m) =
          [t EXCEPT !.sources = IF m.chain \in @ THEN (@ \ {m.chain}) \cup {m.to} ELSE @,
                    !.nodes = @ \cup {m.to}, !.home = m.home]
    BY <1>7 DEF Applied, ChainMoved, t
  <2>2. m.to \in Zones /\ m.home \in Zones
    BY <1>7 DEF Message
  <2> DEFINE chains == IF m.chain \in t.sources THEN (t.sources \ {m.chain}) \cup {m.to}
                       ELSE t.sources
             nodes == t.nodes \cup {m.to}
  <2>3. chains \subseteq Zones /\ nodes \subseteq Zones
    BY <1>4, <2>2 DEF Map
  <2>4. Applied(s, m) = [t EXCEPT !.sources = chains, !.nodes = nodes, !.home = m.home]
    BY <2>1
  <2> HIDE DEF chains, nodes
  <2> QED BY <1>4, <2>2, <2>3, <2>4 DEF Map
<1> QED BY <1>1, <1>2, <1>3, <1>5, <1>6, <1>7 DEF Message

-----------------------------------------------------------------------------
(* Queues *)

\* A set of numbers that has 0 and is closed under successor has them all.
LEMMA NatSet ==
  ASSUME NEW S \in SUBSET Nat, 0 \in S, \A n \in S : n + 1 \in S
  PROVE  S = Nat
<1>1. SUFFICES ASSUME Nat \ S # {} PROVE FALSE
  OBVIOUS
<1>2. PICK T : T = Nat \ S
  OBVIOUS
<1>3. PICK R : R = OpToRel(<, Nat) /\ IsWellFoundedOn(R, Nat)
  BY NatLessThanWellFounded
<1>4. PICK x \in T : \A y \in T : <<y, x>> \notin R
  BY <1>1, <1>2, <1>3, WFMin
<1>5. \A y \in T : ~(y < x)
  BY <1>2, <1>3, <1>4 DEF OpToRel
<1>6. x \in Nat /\ x # 0 /\ x - 1 \in Nat /\ x - 1 < x
  BY <1>2, <1>4
<1>7. x - 1 \in S
  BY <1>2, <1>5, <1>6
<1>8. x \in S
  BY <1>6, <1>7
<1> QED BY <1>2, <1>8

\* The states of a store while it applies a queue: each from the one before.
LEMMA AfterIs ==
  ASSUME NEW s, NEW q \in Seq(Message)
  PROVE  After(s, q) = [n \in 0..Len(q) |->
                          IF n = 0 THEN s ELSE Applied(After(s, q)[n - 1], q[n])]
<1> DEFINE Is(f, n) == f = [k \in 0..n |-> IF k = 0 THEN s ELSE Applied(f[k - 1], q[k])]
           S == {n \in Nat : \E f : Is(f, n)}
<1>1. 0 \in S
  <2>1. PICK f : f = [k \in 0..0 |-> s]
    OBVIOUS
  <2>2. Is(f, 0)
    BY <2>1
  <2> QED BY <2>2
<1>2. ASSUME NEW n \in S PROVE n + 1 \in S
  <2>1. n \in Nat
    OBVIOUS
  <2>2. PICK f : Is(f, n)
    OBVIOUS
  <2>3. PICK g : g = [k \in 0..(n + 1) |-> IF k = n + 1 THEN Applied(f[n], q[n + 1]) ELSE f[k]]
    OBVIOUS
  <2>4. \A k \in 0..n : f[k] = IF k = 0 THEN s ELSE Applied(f[k - 1], q[k])
    BY <2>2
  <2>5. ASSUME NEW k \in 0..(n + 1)
        PROVE  g[k] = IF k = 0 THEN s ELSE Applied(g[k - 1], q[k])
    <3>1. CASE k = n + 1
      <4>1. k # 0 /\ k - 1 = n /\ n \in 0..(n + 1) /\ n # n + 1
        BY <2>1, <3>1
      <4>2. g[n] = f[n] /\ g[k] = Applied(f[n], q[n + 1])
        BY <2>3, <3>1, <4>1
      <4> QED BY <3>1, <4>1, <4>2
    <3>2. CASE k = 0
      BY <2>1, <2>3, <2>4, <3>2
    <3>3. CASE k # n + 1 /\ k # 0
      <4>1. k \in 0..n /\ k - 1 \in 0..(n + 1) /\ k - 1 # n + 1
        BY <2>1, <3>3
      <4>2. g[k] = f[k] /\ g[k - 1] = f[k - 1]
        BY <2>3, <3>3, <4>1
      <4> QED BY <2>4, <3>3, <4>1, <4>2
    <3> QED BY <3>1, <3>2, <3>3
  <2>6. g = [k \in 0..(n + 1) |-> g[k]]
    BY <2>3
  <2>7. Is(g, n + 1)
    BY <2>5, <2>6
  <2> QED BY <2>1, <2>7
<1>3. Len(q) \in S
  <2> HIDE DEF S
  <2>1. S \in SUBSET Nat
    BY DEF S
  <2>2. S = Nat
    BY <1>1, <1>2, <2>1, NatSet
  <2> QED BY <2>2
<1>4. PICK f : Is(f, Len(q))
  BY <1>3
<1>5. Is(After(s, q), Len(q))
  BY <1>4 DEF After
<1> QED BY <1>5

LEMMA AfterSteps ==
  ASSUME NEW s, NEW q \in Seq(Message)
  PROVE  /\ After(s, q)[0] = s
         /\ \A n \in 1..Len(q) : After(s, q)[n] = Applied(After(s, q)[n - 1], q[n])
<1> DEFINE A == After(s, q)
<1>1. A = [n \in 0..Len(q) |-> IF n = 0 THEN s ELSE Applied(A[n - 1], q[n])]
  BY AfterIs
<1> HIDE DEF A
<1>2. Len(q) \in Nat
  OBVIOUS
<1>3. A[0] = s
  BY <1>1, <1>2
<1>4. \A n \in 1..Len(q) : n \in 0..Len(q) /\ n # 0
  BY <1>2
<1>5. \A n \in 1..Len(q) : A[n] = Applied(A[n - 1], q[n])
  BY <1>1, <1>4
<1> QED BY <1>3, <1>5 DEF A

\* The same for the numbers up to one.
LEMMA UpTo ==
  ASSUME NEW L \in Nat, NEW S, 0 \in S,
         \A n \in 0..L : n # L /\ n \in S => n + 1 \in S
  PROVE  \A n \in 0..L : n \in S
<1> DEFINE T == {n \in Nat : n <= L => n \in S}
<1>1. 0 \in T
  OBVIOUS
<1>2. ASSUME NEW n \in T PROVE n + 1 \in T
  <2>1. SUFFICES ASSUME n + 1 <= L PROVE n + 1 \in S
    OBVIOUS
  <2>2. n \in 0..L /\ n # L /\ n <= L
    BY <2>1
  <2> QED BY <2>2
<1>3. T = Nat
  <2> HIDE DEF T
  <2>1. T \in SUBSET Nat
    BY DEF T
  <2> QED BY <1>1, <1>2, <2>1, NatSet
<1> QED BY <1>3

LEMMA AfterMap ==
  ASSUME NEW s \in Map, NEW q \in Seq(Message)
  PROVE  \A n \in 0..Len(q) : After(s, q)[n] \in Map
<1> DEFINE S == {n \in 0..Len(q) : After(s, q)[n] \in Map}
<1>1. 0 \in S
  BY AfterSteps
<1>2. ASSUME NEW n \in 0..Len(q), n # Len(q), n \in S PROVE n + 1 \in S
  <2>1. n + 1 \in 1..Len(q) /\ n + 1 \in 0..Len(q) /\ (n + 1) - 1 = n
    BY <1>2
  <2>2. q[n + 1] \in Message
    BY <2>1
  <2>3. After(s, q)[n + 1] = Applied(After(s, q)[n], q[n + 1])
    BY <2>1, AfterSteps
  <2> QED BY <1>2, <2>1, <2>2, <2>3, AppliedMap
<1>3. \A n \in 0..Len(q) : n \in S
  <2> HIDE DEF S
  <2>1. Len(q) \in Nat
    OBVIOUS
  <2> QED BY <1>1, <1>2, <2>1, UpTo
<1> QED BY <1>3

\* A message at the end of a queue comes after the rest of it.
LEMMA AfterAppend ==
  ASSUME NEW s, NEW q \in Seq(Message), NEW m \in Message
  PROVE  /\ \A n \in 0..Len(q) : After(s, Append(q, m))[n] = After(s, q)[n]
         /\ After(s, Append(q, m))[Len(q) + 1] = Applied(After(s, q)[Len(q)], m)
<1> DEFINE p == Append(q, m)
           S == {n \in 0..Len(q) : After(s, p)[n] = After(s, q)[n]}
<1>1. /\ p \in Seq(Message) /\ Len(p) = Len(q) + 1 /\ Len(q) \in Nat
      /\ p[Len(q) + 1] = m /\ \A n \in 1..Len(q) : p[n] = q[n]
  OBVIOUS
<1> HIDE DEF p
<1>2. 0 \in S
  BY <1>1, AfterSteps
<1>3. ASSUME NEW n \in 0..Len(q), n # Len(q), n \in S PROVE n + 1 \in S
  <2>1. n + 1 \in 1..Len(q) /\ n + 1 \in 1..Len(p) /\ n + 1 \in 0..Len(q) /\ (n + 1) - 1 = n
    BY <1>1, <1>3
  <2>2. /\ After(s, q)[n + 1] = Applied(After(s, q)[n], q[n + 1])
        /\ After(s, p)[n + 1] = Applied(After(s, p)[n], p[n + 1])
    BY <1>1, <2>1, AfterSteps
  <2> QED BY <1>1, <1>3, <2>1, <2>2
<1>4. \A n \in 0..Len(q) : n \in S
  <2> HIDE DEF S
  <2> QED BY <1>1, <1>2, <1>3, UpTo
<1>5. After(s, p)[Len(q) + 1] = Applied(After(s, p)[Len(q)], m)
  <2>1. Len(q) + 1 \in 1..Len(p) /\ (Len(q) + 1) - 1 = Len(q)
    BY <1>1
  <2> QED BY <1>1, <2>1, AfterSteps
<1>6. Len(q) \in 0..Len(q)
  BY <1>1
<1> QED BY <1>4, <1>5, <1>6 DEF p

\* A message at its head comes before the rest of it.
LEMMA AfterHead ==
  ASSUME NEW s, NEW q \in Seq(Message), q # <<>>
  PROVE  \A n \in 0..(Len(q) - 1) :
           After(Applied(s, Head(q)), Tail(q))[n] = After(s, q)[n + 1]
<1> DEFINE p == Tail(q)
           t == Applied(s, Head(q))
           S == {n \in 0..Len(p) : After(t, p)[n] = After(s, q)[n + 1]}
<1>1. /\ p \in Seq(Message) /\ Len(p) = Len(q) - 1 /\ Len(p) \in Nat /\ Len(q) \in Nat
      /\ Head(q) = q[1] /\ \A n \in 1..Len(p) : p[n] = q[n + 1]
  OBVIOUS
<1>2. 0 \in S
  <2>1. 1 \in 1..Len(q) /\ 1 - 1 = 0 /\ 0 + 1 = 1
    BY <1>1
  <2>2. After(s, q)[1] = Applied(After(s, q)[1 - 1], q[1])
    BY <2>1, AfterSteps
  <2>3. After(s, q)[0] = s /\ After(t, p)[0] = t
    BY <1>1, AfterSteps
  <2>4. After(t, p)[0] = After(s, q)[0 + 1]
    BY <1>1, <2>1, <2>2, <2>3
  <2> QED BY <1>1, <2>4
<1> HIDE DEF p, t
<1>3. ASSUME NEW n \in 0..Len(p), n # Len(p), n \in S PROVE n + 1 \in S
  <2>1. /\ n + 1 \in 1..Len(p) /\ n + 1 \in 0..Len(p) /\ (n + 1) - 1 = n
        /\ (n + 1) + 1 \in 1..Len(q) /\ ((n + 1) + 1) - 1 = n + 1
    BY <1>1, <1>3
  <2>2. After(t, p)[n + 1] = Applied(After(t, p)[n], p[n + 1])
    BY <1>1, <2>1, AfterSteps
  <2>5. After(s, q)[(n + 1) + 1] = Applied(After(s, q)[n + 1], q[(n + 1) + 1])
    <3>1. After(s, q)[(n + 1) + 1] = Applied(After(s, q)[((n + 1) + 1) - 1], q[(n + 1) + 1])
      BY <2>1, AfterSteps
    <3> QED BY <2>1, <3>1
  <2>3. p[n + 1] = q[(n + 1) + 1] /\ After(t, p)[n] = After(s, q)[n + 1]
    BY <1>1, <1>3, <2>1
  <2>4. After(t, p)[n + 1] = After(s, q)[(n + 1) + 1]
    BY <2>2, <2>3, <2>5
  <2> QED BY <2>1, <2>4
<1>4. \A n \in 0..Len(p) : n \in S
  <2> HIDE DEF S
  <2> QED BY <1>1, <1>2, <1>3, UpTo
<1> QED BY <1>1, <1>4 DEF p, t

-----------------------------------------------------------------------------
(* What a store does not know now, it does not lose later *)

\* t is s with more nodes.
MoreNodes(s, t) ==
  /\ s.nodes \subseteq t.nodes
  /\ t.conns = s.conns /\ t.sources = s.sources /\ t.home = s.home

LEMMA AppliedMoreNodes ==
  ASSUME NEW s \in Map, NEW t \in Map, MoreNodes(s, t), NEW m \in Message
  PROVE  MoreNodes(Applied(s, m), Applied(t, m))
BY DEF MoreNodes, Map, Message, Conn, Applied, Upsert, Dropped, ChainGone, ChainMoved

LEMMA AfterMoreNodes ==
  ASSUME NEW s \in Map, NEW t \in Map, MoreNodes(s, t), NEW q \in Seq(Message)
  PROVE  \A n \in 0..Len(q) : MoreNodes(After(s, q)[n], After(t, q)[n])
<1> DEFINE S == {n \in 0..Len(q) : MoreNodes(After(s, q)[n], After(t, q)[n])}
<1>1. 0 \in S
  BY AfterSteps
<1>2. ASSUME NEW n \in 0..Len(q), n # Len(q), n \in S PROVE n + 1 \in S
  <2>1. n + 1 \in 1..Len(q) /\ n + 1 \in 0..Len(q) /\ (n + 1) - 1 = n
    BY <1>2
  <2>2. q[n + 1] \in Message
    BY <2>1
  <2>3. /\ After(s, q)[n + 1] = Applied(After(s, q)[n], q[n + 1])
        /\ After(t, q)[n + 1] = Applied(After(t, q)[n], q[n + 1])
    BY <2>1, AfterSteps
  <2>4. After(s, q)[n] \in Map /\ After(t, q)[n] \in Map
    BY AfterMap
  <2> QED BY <1>2, <2>1, <2>2, <2>3, <2>4, AppliedMoreNodes
<1>3. \A n \in 0..Len(q) : n \in S
  <2> HIDE DEF S
  <2>1. Len(q) \in Nat
    OBVIOUS
  <2> QED BY <1>1, <1>2, <2>1, UpTo
<1> QED BY <1>3

-----------------------------------------------------------------------------
(* The store of one who merges a chain before it is told of it *)

\* A sync comes later in the queue than message n.
SyncAfter(q, n) == \E j \in (n + 1)..Len(q) : q[j].kind = "sync"

\* Since the last sync every relocated chain is one the store knows by then.
ChainsKnown(s, q) ==
  \A i \in 1..Len(q) :
    q[i].kind = "chain_relocated" /\ ~SyncAfter(q, i) => q[i].chain \in After(s, q)[i - 1].sources

SameButSources(s, t) == t.nodes = s.nodes /\ t.conns = s.conns /\ t.home = s.home

\* t knows no chain but z that s does not know.
OneMore(s, t, z) == t.sources = s.sources \/ t.sources = s.sources \cup {z}

LEMMA AppliedSameButSources ==
  ASSUME NEW s \in Map, NEW t \in Map, SameButSources(s, t), NEW m \in Message
  PROVE  SameButSources(Applied(s, m), Applied(t, m))
BY DEF SameButSources, Map, Message, Conn, Applied, Upsert, Dropped, ChainGone, ChainMoved

LEMMA AppliedOneMore ==
  ASSUME NEW s \in Map, NEW t \in Map, NEW z \in Zones, OneMore(s, t, z), NEW m \in Message,
         m.kind = "chain_relocated" => m.chain \in s.sources
  PROVE  OneMore(Applied(s, m), Applied(t, m), z)
BY DEF OneMore, Map, Message, Conn, Applied, Upsert, Dropped, ChainGone, ChainMoved

LEMMA AfterSameButSources ==
  ASSUME NEW s \in Map, NEW t \in Map, SameButSources(s, t), NEW q \in Seq(Message)
  PROVE  \A n \in 0..Len(q) : SameButSources(After(s, q)[n], After(t, q)[n])
<1> DEFINE S == {n \in 0..Len(q) : SameButSources(After(s, q)[n], After(t, q)[n])}
<1>1. 0 \in S
  BY AfterSteps
<1>2. ASSUME NEW n \in 0..Len(q), n # Len(q), n \in S PROVE n + 1 \in S
  <2>1. n + 1 \in 1..Len(q) /\ n + 1 \in 0..Len(q) /\ (n + 1) - 1 = n
    BY <1>2
  <2>2. q[n + 1] \in Message
    BY <2>1
  <2>3. /\ After(s, q)[n + 1] = Applied(After(s, q)[n], q[n + 1])
        /\ After(t, q)[n + 1] = Applied(After(t, q)[n], q[n + 1])
    BY <2>1, AfterSteps
  <2>4. After(s, q)[n] \in Map /\ After(t, q)[n] \in Map
    BY AfterMap
  <2> QED BY <1>2, <2>1, <2>2, <2>3, <2>4, AppliedSameButSources
<1>3. \A n \in 0..Len(q) : n \in S
  <2> HIDE DEF S
  <2>1. Len(q) \in Nat
    OBVIOUS
  <2> QED BY <1>1, <1>2, <2>1, UpTo
<1> QED BY <1>3

LEMMA AfterOneMore ==
  ASSUME NEW s \in Map, NEW t \in Map, NEW z \in Zones, OneMore(s, t, z),
         NEW q \in Seq(Message), ChainsKnown(s, q)
  PROVE  \A n \in 0..Len(q) : ~SyncAfter(q, n) => OneMore(After(s, q)[n], After(t, q)[n], z)
<1> DEFINE S == {n \in 0..Len(q) :
                  ~SyncAfter(q, n) => OneMore(After(s, q)[n], After(t, q)[n], z)}
<1>1. 0 \in S
  BY AfterSteps
<1>2. ASSUME NEW n \in 0..Len(q), n # Len(q), n \in S PROVE n + 1 \in S
  <2>1. n + 1 \in 1..Len(q) /\ n + 1 \in 0..Len(q) /\ (n + 1) - 1 = n
    BY <1>2
  <2>2. q[n + 1] \in Message
    BY <2>1
  <2>3. /\ After(s, q)[n + 1] = Applied(After(s, q)[n], q[n + 1])
        /\ After(t, q)[n + 1] = Applied(After(t, q)[n], q[n + 1])
    BY <2>1, AfterSteps
  <2>4. After(s, q)[n] \in Map /\ After(t, q)[n] \in Map
    BY AfterMap
  <2>6. ASSUME ~SyncAfter(q, n + 1)
        PROVE  OneMore(After(s, q)[n + 1], After(t, q)[n + 1], z)
    <3>1. CASE q[n + 1].kind = "sync"
      BY <2>3, <3>1 DEF Applied, OneMore
    <3>2. CASE q[n + 1].kind # "sync"
      <4>1. ~SyncAfter(q, n)
        BY <2>1, <2>6, <3>2 DEF SyncAfter
      <4>2. q[n + 1].kind = "chain_relocated" => q[n + 1].chain \in After(s, q)[n].sources
        BY <2>1, <2>6 DEF ChainsKnown
      <4> QED BY <1>2, <2>2, <2>3, <2>4, <4>1, <4>2, AppliedOneMore
    <3> QED BY <3>1, <3>2
  <2> QED BY <2>1, <2>6
<1>3. \A n \in 0..Len(q) : n \in S
  <2> HIDE DEF S
  <2>1. Len(q) \in Nat
    OBVIOUS
  <2> QED BY <1>1, <1>2, <2>1, UpTo
<1> QED BY <1>3

-----------------------------------------------------------------------------
(* The end of a queue *)

Caught(s, q) == After(s, q)[Len(q)]

LEMMA CaughtMap ==
  ASSUME NEW s \in Map, NEW q \in Seq(Message)
  PROVE  Caught(s, q) \in Map
<1>1. Len(q) \in 0..Len(q)
  OBVIOUS
<1> QED BY <1>1, AfterMap DEF Caught

LEMMA CaughtEmpty ==
  ASSUME NEW s
  PROVE  Caught(s, <<>>) = s /\ ChainsKnown(s, <<>>)
<1>1. <<>> \in Seq(Message) /\ Len(<<>>) = 0
  OBVIOUS
<1>2. After(s, <<>>)[0] = s
  BY <1>1, AfterSteps
<1> QED BY <1>1, <1>2 DEF Caught, ChainsKnown

\* What one more message changes.
LEMMA CaughtAppend ==
  ASSUME NEW s \in Map, NEW q \in Seq(Message), NEW m \in Message
  PROVE  /\ Append(q, m) \in Seq(Message)
         /\ Caught(s, Append(q, m)) = Applied(Caught(s, q), m)
         /\ \/ ChainsKnown(s, q)
               /\ (m.kind = "chain_relocated" => m.chain \in Caught(s, q).sources)
            \/ m.kind = "sync"
            => ChainsKnown(s, Append(q, m))
<1> DEFINE p == Append(q, m)
<1>1. /\ p \in Seq(Message) /\ Len(p) = Len(q) + 1 /\ Len(q) \in Nat
      /\ p[Len(q) + 1] = m /\ \A n \in 1..Len(q) : p[n] = q[n]
  OBVIOUS
<1>2. /\ \A n \in 0..Len(q) : After(s, p)[n] = After(s, q)[n]
      /\ After(s, p)[Len(q) + 1] = Applied(After(s, q)[Len(q)], m)
  BY AfterAppend
<1> HIDE DEF p
<1>3. Caught(s, p) = Applied(Caught(s, q), m)
  BY <1>1, <1>2 DEF Caught
<1>4. CASE m.kind = "sync"
  <2>1. ASSUME NEW i \in 1..Len(p), p[i].kind = "chain_relocated" PROVE SyncAfter(p, i)
    <3>1. i # Len(q) + 1
      BY <1>1, <1>4, <2>1
    <3>2. Len(q) + 1 \in (i + 1)..Len(p)
      BY <1>1, <3>1
    <3> QED BY <1>1, <1>4, <3>2 DEF SyncAfter
  <2> QED BY <1>1, <1>3, <2>1 DEF ChainsKnown, p
<1>5. CASE ChainsKnown(s, q) /\ (m.kind = "chain_relocated" => m.chain \in Caught(s, q).sources)
  <2>1. ASSUME NEW i \in 1..Len(p), p[i].kind = "chain_relocated", ~SyncAfter(p, i)
        PROVE  p[i].chain \in After(s, p)[i - 1].sources
    <3>1. CASE i = Len(q) + 1
      <4>1. i - 1 = Len(q) /\ Len(q) \in 0..Len(q)
        BY <1>1, <3>1
      <4> QED BY <1>1, <1>2, <1>5, <2>1, <3>1, <4>1 DEF Caught
    <3>2. CASE i # Len(q) + 1
      <4>1. i \in 1..Len(q) /\ i - 1 \in 0..Len(q)
        BY <1>1, <3>2
      <4>2. ~SyncAfter(q, i)
        <5>1. ASSUME NEW j \in (i + 1)..Len(q), q[j].kind = "sync" PROVE FALSE
          <6>1. j \in (i + 1)..Len(p) /\ p[j] = q[j]
            BY <1>1, <4>1
          <6> QED BY <2>1, <5>1, <6>1 DEF SyncAfter
        <5> QED BY <5>1 DEF SyncAfter
      <4> QED BY <1>1, <1>2, <1>5, <2>1, <4>1, <4>2 DEF ChainsKnown
    <3> QED BY <3>1, <3>2
  <2> QED BY <1>1, <1>3, <2>1 DEF ChainsKnown, p
<1> QED BY <1>1, <1>3, <1>4, <1>5 DEF p

\* Applying the first message changes nothing for a store that has applied all.
LEMMA CaughtHead ==
  ASSUME NEW s \in Map, NEW q \in Seq(Message), q # <<>>
  PROVE  /\ Head(q) \in Message /\ Tail(q) \in Seq(Message)
         /\ Caught(Applied(s, Head(q)), Tail(q)) = Caught(s, q)
         /\ ChainsKnown(s, q) => ChainsKnown(Applied(s, Head(q)), Tail(q))
<1> DEFINE p == Tail(q)
           t == Applied(s, Head(q))
<1>1. /\ p \in Seq(Message) /\ Len(p) = Len(q) - 1 /\ Len(p) \in Nat /\ Len(q) \in Nat
      /\ Head(q) \in Message /\ \A n \in 1..Len(p) : p[n] = q[n + 1]
  OBVIOUS
<1>2. \A n \in 0..(Len(q) - 1) : After(t, p)[n] = After(s, q)[n + 1]
  BY AfterHead
<1> HIDE DEF p, t
<1>3. Caught(t, p) = Caught(s, q)
  <2>1. Len(p) \in 0..(Len(q) - 1) /\ Len(p) + 1 = Len(q)
    BY <1>1
  <2> QED BY <1>2, <2>1 DEF Caught
<1>4. ASSUME ChainsKnown(s, q), NEW i \in 1..Len(p), p[i].kind = "chain_relocated",
             ~SyncAfter(p, i)
      PROVE  p[i].chain \in After(t, p)[i - 1].sources
  <2>1. /\ i + 1 \in 1..Len(q) /\ p[i] = q[i + 1] /\ i - 1 \in 0..(Len(q) - 1)
        /\ (i - 1) + 1 = (i + 1) - 1
    BY <1>1
  <2>2. ~SyncAfter(q, i + 1)
    <3>1. ASSUME NEW j \in (i + 1 + 1)..Len(q), q[j].kind = "sync" PROVE FALSE
      <4>1. j - 1 \in (i + 1)..Len(p) /\ j - 1 \in 1..Len(p) /\ (j - 1) + 1 = j
        BY <1>1
      <4>2. p[j - 1] = q[j]
        BY <1>1, <4>1
      <4> QED BY <1>4, <3>1, <4>1, <4>2 DEF SyncAfter
    <3> QED BY <3>1 DEF SyncAfter
  <2> QED BY <1>2, <1>4, <2>1, <2>2 DEF ChainsKnown
<1> QED BY <1>1, <1>3, <1>4 DEF ChainsKnown, p, t

\* A store that is drawn with more nodes has no fewer in the end.
LEMMA CaughtMoreNodes ==
  ASSUME NEW s \in Map, NEW t \in Map, MoreNodes(s, t), NEW q \in Seq(Message)
  PROVE  /\ MoreNodes(Caught(s, q), Caught(t, q))
         /\ ChainsKnown(s, q) => ChainsKnown(t, q)
<1>1. \A n \in 0..Len(q) : MoreNodes(After(s, q)[n], After(t, q)[n])
  BY AfterMoreNodes
<1>2. Len(q) \in 0..Len(q) /\ \A i \in 1..Len(q) : i - 1 \in 0..Len(q)
  OBVIOUS
<1> QED BY <1>1, <1>2 DEF Caught, ChainsKnown, MoreNodes

\* A chain that is merged early and known in the end changes nothing in the end.
LEMMA CaughtMerged ==
  ASSUME NEW s \in Map, NEW z \in Zones, NEW q \in Seq(Message)
  PROVE  LET t == [s EXCEPT !.sources = @ \cup {z}]
         IN  /\ t \in Map
             /\ SameButSources(Caught(s, q), Caught(t, q))
             /\ ChainsKnown(s, q) /\ z \in Caught(s, q).sources =>
                  Caught(t, q).sources = Caught(s, q).sources /\ ChainsKnown(t, q)
<1> DEFINE t == [s EXCEPT !.sources = @ \cup {z}]
<1>1. t \in Map /\ SameButSources(s, t) /\ OneMore(s, t, z)
  BY DEF Map, SameButSources, OneMore
<1> HIDE DEF t
<1>2. \A n \in 0..Len(q) : SameButSources(After(s, q)[n], After(t, q)[n])
  BY <1>1, AfterSameButSources
<1>3. Len(q) \in 0..Len(q) /\ ~SyncAfter(q, Len(q))
  BY DEF SyncAfter
<1>4. SameButSources(Caught(s, q), Caught(t, q))
  BY <1>2, <1>3 DEF Caught
<1>5. ASSUME ChainsKnown(s, q), z \in Caught(s, q).sources
      PROVE  Caught(t, q).sources = Caught(s, q).sources /\ ChainsKnown(t, q)
  <2>1. \A n \in 0..Len(q) : ~SyncAfter(q, n) => OneMore(After(s, q)[n], After(t, q)[n], z)
    BY <1>1, <1>5, AfterOneMore
  <2>2. Caught(t, q).sources = Caught(s, q).sources
    BY <1>3, <1>5, <2>1 DEF Caught, OneMore
  <2>3. ASSUME NEW i \in 1..Len(q), q[i].kind = "chain_relocated", ~SyncAfter(q, i)
        PROVE  q[i].chain \in After(t, q)[i - 1].sources
    <3>1. i - 1 \in 0..Len(q)
      OBVIOUS
    <3>2. ~SyncAfter(q, i - 1)
      BY <2>3 DEF SyncAfter
    <3>3. q[i].chain \in After(s, q)[i - 1].sources
      BY <1>5, <2>3 DEF ChainsKnown
    <3> QED BY <2>1, <3>1, <3>2, <3>3 DEF OneMore
  <2> QED BY <2>2, <2>3 DEF ChainsKnown
<1> QED BY <1>1, <1>4, <1>5 DEF t

-----------------------------------------------------------------------------
(* The inductive invariant *)

Snapshots == Seq(SUBSET Zones)

Tell ==
  [kind : {"chain"}, zone : Zones, by : Clients \cup {"nobody"}, gone : BOOLEAN] \cup
  [kind : {"answer"}, zone : Zones, by : Clients, gone : BOOLEAN] \cup
  [kind : {"target", "insert", "update"}, conn : Conn] \cup
  [kind : {"save"}, by : Clients \cup {"gone"}]

Types ==
  /\ db \in Map
  /\ copy \in [Clients -> Map]
  /\ seen \in [Clients -> Map]
  /\ link \in [Clients -> {"away", "room", "conns", "nodes", "live"}]
  /\ behind \in [Clients -> SUBSET {"chains", "conns", "nodes"}]
  /\ down \in [Clients -> Seq(Message)]
  /\ up \in [Clients -> Snapshots] /\ \A c \in Clients : Len(up[c]) <= MaxUp
  /\ tells \subseteq Tell
  /\ used \subseteq ConnIds
  /\ edits \in 0..MaxEdits

\* The connections that are there or on their way, which ids tell apart.
Made == db.conns \cup {t.conn : t \in {u \in tells : u.kind \in {"target", "insert"}}}

IdsTellApart ==
  /\ \A k \in Made : k.id \in used
  /\ \A k, l \in Made : k.id = l.id => k = l

\* What a handshake has read is still so, but for what it is behind in.
ReadSo(c) ==
  /\ link[c] \in {"room", "conns", "nodes"} /\ "chains" \notin behind[c] =>
       seen[c].sources = db.sources /\ seen[c].home = db.home
  /\ link[c] \in {"conns", "nodes"} /\ "conns" \notin behind[c] => seen[c].conns = db.conns
  /\ link[c] = "nodes" /\ "nodes" \notin behind[c] => db.nodes \subseteq seen[c].nodes

\* What a client that joined will know, but for what it is behind in.
WillKnow(c) ==
  link[c] = "live" =>
    /\ "conns" \notin behind[c] => CaughtUp(c).conns = db.conns
    /\ "chains" \notin behind[c] => /\ CaughtUp(c).sources = db.sources
                                    /\ CaughtUp(c).home = db.home
                                    /\ ChainsKnown(copy[c], down[c])
    /\ "nodes" \notin behind[c] => db.nodes \ Untold(c) \subseteq CaughtUp(c).nodes

\* A chain that is not marked gone is there when its answer comes.
ChainsThere ==
  \A t \in tells :
    t.kind \in {"chain", "answer"} /\ ~t.gone /\ t.by \in Clients => t.zone \in db.sources

IInv ==
  /\ Types
  /\ IdsTellApart
  /\ ChainsThere
  /\ \A c \in Clients : ReadSo(c) /\ WillKnow(c)

-----------------------------------------------------------------------------
(* What every step that tells has to show *)

\* A change that is noted for the handshakes that it races.
LEMMA ReadSoKept ==
  ASSUME IInv, NEW new \in Map, db' = new, UNCHANGED <<link, seen>>,
         \A c \in Clients : Races(new)[c] \subseteq behind'[c]
  PROVE  \A c \in Clients : ReadSo(c)'
<1> SUFFICES ASSUME NEW c \in Clients PROVE ReadSo(c)'
  OBVIOUS
<1>1. ReadSo(c) /\ Races(new)[c] \subseteq behind'[c]
  BY DEF IInv
<1>2. behind[c] \subseteq behind'[c]
  BY <1>1 DEF Races
<1>3. ASSUME link[c] \in {"room", "conns", "nodes"}, "chains" \notin behind'[c]
      PROVE  new.sources = db.sources /\ new.home = db.home
  BY <1>1, <1>3 DEF Races
<1>4. ASSUME link[c] \in {"conns", "nodes"}, "conns" \notin behind'[c]
      PROVE  new.conns = db.conns
  BY <1>1, <1>4 DEF Races
<1>5. ASSUME link[c] = "nodes", "nodes" \notin behind'[c]
      PROVE  new.nodes \subseteq db.nodes
  BY <1>1, <1>5 DEF Races
<1> QED BY <1>1, <1>2, <1>3, <1>4, <1>5 DEF ReadSo

\* A change and the message that tells a client of it.
LEMMA ToldKept ==
  ASSUME IInv, NEW new \in Map, NEW m \in Message, m.kind # "sync", db' = new,
         NEW c \in Clients, link'[c] = link[c], copy'[c] = copy[c],
         link[c] = "live" => down'[c] = Append(down[c], m),
         behind[c] \subseteq behind'[c],
         "conns" \notin behind'[c] =>
           \A s \in Map : s.conns = db.conns => Applied(s, m).conns = new.conns,
         "chains" \notin behind'[c] =>
           \A s \in Map : s.sources = db.sources /\ s.home = db.home =>
             Applied(s, m).sources = new.sources /\ Applied(s, m).home = new.home,
         m.kind = "chain_relocated" => m.chain \in db.sources,
         link[c] = "live" /\ "nodes" \notin behind'[c]
           /\ db.nodes \ Untold(c) \subseteq CaughtUp(c).nodes
         => new.nodes \ Untold(c)' \subseteq Applied(CaughtUp(c), m).nodes
  PROVE  WillKnow(c)'
<1> SUFFICES ASSUME link[c] = "live" PROVE WillKnow(c)'
  BY DEF WillKnow
<1>1. WillKnow(c) /\ behind[c] \subseteq behind'[c]
  BY DEF IInv
<1>2. copy[c] \in Map /\ down[c] \in Seq(Message)
  BY DEF IInv, Types
<1>3. down'[c] = Append(down[c], m) /\ copy'[c] = copy[c]
  OBVIOUS
<1> DEFINE s == CaughtUp(c)
<1>4. s \in Map /\ s = Caught(copy[c], down[c])
  BY <1>2, CaughtMap DEF Caught, CaughtUp
<1>5. CaughtUp(c)' = Applied(s, m)
  <2>1. CaughtUp(c)' = Caught(copy[c], Append(down[c], m))
    BY <1>3 DEF CaughtUp, Caught
  <2> QED BY <1>2, <1>4, <2>1, CaughtAppend
<1> HIDE DEF s
<1>9. ASSUME ChainsKnown(copy[c], down[c]), m.kind = "chain_relocated" => m.chain \in s.sources
      PROVE  ChainsKnown(copy[c], down[c])'
  <2>1. ChainsKnown(copy[c], Append(down[c], m))
    BY <1>2, <1>4, <1>9, CaughtAppend
  <2> QED BY <1>3, <2>1
<1>6. ASSUME "conns" \notin behind'[c] PROVE Applied(s, m).conns = new.conns
  BY <1>1, <1>4, <1>6 DEF WillKnow, s
<1>7. ASSUME "chains" \notin behind'[c]
      PROVE  /\ Applied(s, m).sources = new.sources /\ Applied(s, m).home = new.home
             /\ ChainsKnown(copy[c], down[c])'
  <2>1. s.sources = db.sources /\ s.home = db.home /\ ChainsKnown(copy[c], down[c])
    BY <1>1, <1>7 DEF WillKnow, s
  <2> QED BY <1>4, <1>7, <1>9, <2>1
<1>8. ASSUME "nodes" \notin behind'[c] PROVE new.nodes \ Untold(c)' \subseteq Applied(s, m).nodes
  BY <1>1, <1>8 DEF WillKnow, s
<1> QED BY <1>5, <1>6, <1>7, <1>8 DEF WillKnow

\* A client whose queue and copy stay, while no more than nodes change.
LEMMA StillKnows ==
  ASSUME NEW c, WillKnow(c), link'[c] = link[c], copy'[c] = copy[c], down'[c] = down[c],
         behind[c] \subseteq behind'[c],
         db'.conns = db.conns, db'.sources = db.sources, db'.home = db.home,
         link[c] = "live" /\ "nodes" \notin behind'[c]
           /\ db.nodes \ Untold(c) \subseteq CaughtUp(c).nodes
         => db'.nodes \ Untold(c)' \subseteq CaughtUp(c).nodes
  PROVE  WillKnow(c)'
<1>1. CaughtUp(c)' = CaughtUp(c)
  BY DEF CaughtUp
<1>2. ChainsKnown(copy[c], down[c])' <=> ChainsKnown(copy[c], down[c])
  OBVIOUS
<1> QED BY <1>1, <1>2 DEF WillKnow

\* Everyone who is registered is told.
LEMMA DownTyped ==
  ASSUME down \in [Clients -> Seq(Message)], NEW X, NEW m \in Message
  PROVE  ToAllBut(X, m) \in [Clients -> Seq(Message)]
BY DEF ToAllBut

LEMMA RacesTyped ==
  ASSUME behind \in [Clients -> SUBSET {"chains", "conns", "nodes"}], NEW new
  PROVE  /\ Races(new) \in [Clients -> SUBSET {"chains", "conns", "nodes"}]
         /\ \A c \in Clients : behind[c] \subseteq Races(new)[c]
BY DEF Races

\* An edit, told by a message that does to every map what it did to the rows.
LEMMA EditKeeps ==
  ASSUME IInv, NEW new \in Map, NEW m \in Message, m.kind # "sync",
         Edit(new, m),
         used' = used,
         tells' \subseteq Tell,
         IdsTellApart', ChainsThere',
         \A s \in Map : s.conns = db.conns => Applied(s, m).conns = new.conns,
         \A s \in Map : s.sources = db.sources /\ s.home = db.home =>
           Applied(s, m).sources = new.sources /\ Applied(s, m).home = new.home,
         m.kind = "chain_relocated" => m.chain \in db.sources,
         \A c \in Clients, s \in Map :
           db.nodes \ Untold(c) \subseteq s.nodes
             => new.nodes \ Untold(c)' \subseteq Applied(s, m).nodes
  PROVE  IInv'
<1>1. Types
  BY DEF IInv
<1>2. down' \in [Clients -> Seq(Message)]
  BY <1>1, DownTyped DEF Edit, Types
<1>3. /\ behind' \in [Clients -> SUBSET {"chains", "conns", "nodes"}]
      /\ \A c \in Clients : behind[c] \subseteq behind'[c]
  BY <1>1, RacesTyped DEF Edit, Types
<1>4. edits' \in 0..MaxEdits
  BY <1>1, ClientSyncAssumption DEF Edit, Types
<1>5. Types'
  BY <1>1, <1>2, <1>3, <1>4 DEF Edit, Types
<1>6. \A c \in Clients : ReadSo(c)'
  BY ReadSoKept DEF Edit
<1>7. \A c \in Clients : CaughtUp(c) \in Map
  BY <1>1, CaughtMap DEF Types, CaughtUp, Caught
<1>8. \A c \in Clients :
        link[c] = "live" /\ "nodes" \notin behind'[c]
          /\ db.nodes \ Untold(c) \subseteq CaughtUp(c).nodes
        => new.nodes \ Untold(c)' \subseteq Applied(CaughtUp(c), m).nodes
  BY <1>7
<1>9. db' = new /\ UNCHANGED <<link, copy>> /\ down' = ToAllBut({}, m)
  BY DEF Edit
<1>10. ASSUME NEW c \in Clients PROVE WillKnow(c)'
  <2>1. link[c] = "live" => down'[c] = Append(down[c], m)
    BY <1>9 DEF ToAllBut, Registered
  <2> QED BY <1>3, <1>8, <1>9, <2>1, ToldKept
<1> QED BY <1>5, <1>6, <1>10 DEF IInv

-----------------------------------------------------------------------------
(* Requests *)

LEMMA IdsFewer ==
  ASSUME IdsTellApart, Made' \subseteq Made, used \subseteq used'
  PROVE  IdsTellApart'
BY DEF IdsTellApart

\* Unless a chain's source goes.
LEMMA ChainsStillThere ==
  ASSUME ChainsThere, db.sources \subseteq db'.sources,
         \A t \in tells' : t.kind \in {"chain", "answer"} => t \in tells
  PROVE  ChainsThere'
BY DEF ChainsThere

\* The connections that are not named.
Without(K, ids) == {k \in K : k.id \notin ids}

\* What a message that drops connections and zones leaves of a store.
LEMMA AppliedRemoved ==
  ASSUME NEW s \in Map, NEW m,
         m.kind \in {"connection_removed", "chain_removed", "chain_relocated"}
  PROVE  /\ Applied(s, m).conns = Without(s.conns, m.ids)
         /\ m.kind # "chain_relocated" =>
              Applied(s, m).nodes = s.nodes \ m.zones /\ Applied(s, m).home = s.home
         /\ m.kind = "connection_removed" => Applied(s, m).sources = s.sources
         /\ m.kind = "chain_removed" => Applied(s, m).sources = s.sources \ {m.chain}
         /\ m.kind = "chain_relocated" =>
              /\ Applied(s, m).nodes = (s.nodes \ m.zones) \cup {m.to}
              /\ Applied(s, m).home = m.home
              /\ m.chain \in s.sources =>
                   Applied(s, m).sources = (s.sources \ {m.chain}) \cup {m.to}
<1> DEFINE t == Dropped(s, m)
<1>1. /\ t \in [nodes : SUBSET Zones, conns : {t.conns}, sources : SUBSET Zones, home : Zones]
      /\ t.conns = Without(s.conns, m.ids) /\ t.nodes = s.nodes \ m.zones
      /\ t.sources = s.sources /\ t.home = s.home
  BY DEF Dropped, Map, Without
<1>2. CASE m.kind = "connection_removed"
  <2>1. Applied(s, m) = t
    BY <1>2 DEF Applied
  <2> QED BY <1>1, <1>2, <2>1
<1>3. CASE m.kind = "chain_removed"
  <2>1. Applied(s, m) = [t EXCEPT !.sources = t.sources \ {m.chain}]
    BY <1>3 DEF Applied, ChainGone
  <2> HIDE DEF t
  <2> QED BY <1>1, <1>3, <2>1
<1>4. CASE m.kind = "chain_relocated"
  <2>1. Applied(s, m) =
          [t EXCEPT !.sources = IF m.chain \in t.sources THEN (t.sources \ {m.chain}) \cup {m.to}
                                ELSE t.sources,
                    !.nodes = t.nodes \cup {m.to}, !.home = m.home]
    BY <1>4 DEF Applied, ChainMoved
  <2> HIDE DEF t
  <2> QED BY <1>1, <1>4, <2>1
<1> QED BY <1>2, <1>3, <1>4

LEMMA RemoveConnectionsKeeps ==
  ASSUME IInv, NEW K, RemoveConnections(K)
  PROVE  IInv'
<1> DEFINE rest == db.conns \ K
           gone == Unattached(rest, EndsOf(K)) \cap db.nodes
           new == [db EXCEPT !.conns = rest, !.nodes = @ \ gone]
           ids == {k.id : k \in K}
           m == [kind |-> "connection_removed", ids |-> ids, zones |-> gone]
<1>1. db \in Map /\ IdsTellApart /\ ChainsThere /\ K \subseteq db.conns /\ tells \subseteq Tell
  BY DEF IInv, Types, RemoveConnections
<1>2. gone \subseteq db.nodes /\ ids \subseteq ConnIds /\ gone \subseteq Zones
      /\ rest \subseteq db.conns
  BY <1>1 DEF Map
<1>7. UNCHANGED <<used, tells>> /\ Edit(new, m)
  BY DEF RemoveConnections, Removed
<1>4. Without(db.conns, ids) = rest
  BY <1>1 DEF IdsTellApart, Made, Without
<1> HIDE DEF ids, gone, rest
<1>3. new \in Map /\ m \in Message /\ m.kind = "connection_removed"
  BY <1>1, <1>2 DEF Map, Message, Conn
<1>6. /\ \A s \in Map : s.conns = db.conns => Applied(s, m).conns = new.conns
      /\ \A s \in Map : s.sources = db.sources /\ s.home = db.home =>
           Applied(s, m).sources = new.sources /\ Applied(s, m).home = new.home
      /\ \A s \in Map : Applied(s, m).nodes = s.nodes \ gone
      /\ new.nodes = db.nodes \ gone
  <2>1. new.conns = rest /\ new.nodes = db.nodes \ gone /\ new.sources = db.sources
        /\ new.home = db.home
    BY <1>1 DEF Map
  <2>2. m.ids = ids /\ m.zones = gone
    OBVIOUS
  <2> HIDE DEF m, new
  <2>3. ASSUME NEW s \in Map
        PROVE  /\ Applied(s, m).conns = Without(s.conns, ids)
               /\ Applied(s, m).nodes = s.nodes \ gone
               /\ Applied(s, m).sources = s.sources /\ Applied(s, m).home = s.home
    BY <1>3, <2>2, AppliedRemoved
  <2> QED BY <1>4, <2>1, <2>3
<1>8. \A c \in Clients : Untold(c)' = Untold(c)
  BY <1>7 DEF Untold
<1>9. IdsTellApart' /\ ChainsThere'
  <2>1. db'.conns \subseteq db.conns /\ db'.sources = db.sources
    BY <1>1, <1>7 DEF Edit, Map, rest
  <2> QED BY <1>1, <1>7, <2>1, IdsFewer, ChainsStillThere DEF Made
<1> HIDE DEF new, m
<1>10. \A c \in Clients, s \in Map :
         db.nodes \ Untold(c) \subseteq s.nodes
           => new.nodes \ Untold(c)' \subseteq Applied(s, m).nodes
  BY <1>6, <1>8
<1> QED BY <1>1, <1>3, <1>6, <1>7, <1>9, <1>10, EditKeeps

LEMMA ExpireKeeps ==
  ASSUME IInv, NEW K, Expire(K)
  PROVE  IInv'
<1> DEFINE new == [db EXCEPT !.conns = @ \ K]
           ids == {k.id : k \in K}
           m == [kind |-> "connection_removed", ids |-> ids, zones |-> {}]
<1>1. db \in Map /\ IdsTellApart /\ ChainsThere /\ K \subseteq db.conns /\ tells \subseteq Tell
  BY DEF IInv, Types, Expire
<1>2. ids \subseteq ConnIds
  BY <1>1 DEF Map
<1>3. UNCHANGED <<used, tells>> /\ Edit(new, m)
  BY DEF Expire, Removed
<1>4. Without(db.conns, ids) = db.conns \ K
  BY <1>1 DEF IdsTellApart, Made, Without
<1> HIDE DEF ids
<1>5. new \in Map /\ m \in Message /\ m.kind = "connection_removed" /\ m.ids = ids /\ m.zones = {}
  BY <1>1, <1>2 DEF Map, Message
<1>6. /\ new.conns = db.conns \ K /\ new.nodes = db.nodes
      /\ new.sources = db.sources /\ new.home = db.home
  BY <1>1 DEF Map
<1> HIDE DEF m, new
<1>7. ASSUME NEW s \in Map
      PROVE  /\ Applied(s, m).conns = Without(s.conns, ids)
             /\ Applied(s, m).nodes = s.nodes
             /\ Applied(s, m).sources = s.sources /\ Applied(s, m).home = s.home
  <2>1. /\ Applied(s, m).conns = Without(s.conns, m.ids)
        /\ Applied(s, m).nodes = s.nodes \ m.zones
        /\ Applied(s, m).sources = s.sources /\ Applied(s, m).home = s.home
    <3>1. m.kind = "connection_removed"
      BY <1>5
    <3> QED BY <3>1, AppliedRemoved
  <2>2. s.nodes \ {} = s.nodes
    OBVIOUS
  <2> QED BY <1>5, <2>1, <2>2
<1>8. \A c \in Clients : Untold(c)' = Untold(c)
  BY <1>3 DEF Untold
<1>9. IdsTellApart' /\ ChainsThere'
  <2>1. db'.conns \subseteq db.conns /\ db'.sources = db.sources
    BY <1>3, <1>6 DEF Edit
  <2> QED BY <1>1, <1>3, <2>1, IdsFewer, ChainsStillThere DEF Made
<1>10. /\ \A s \in Map : s.conns = db.conns => Applied(s, m).conns = new.conns
       /\ \A s \in Map : s.sources = db.sources /\ s.home = db.home =>
            Applied(s, m).sources = new.sources /\ Applied(s, m).home = new.home
       /\ \A c \in Clients, s \in Map :
            db.nodes \ Untold(c) \subseteq s.nodes
              => new.nodes \ Untold(c)' \subseteq Applied(s, m).nodes
  BY <1>4, <1>6, <1>7, <1>8
<1> QED BY <1>1, <1>3, <1>5, <1>9, <1>10, EditKeeps

LEMMA RemoveNodeKeeps ==
  ASSUME IInv, NEW z \in Zones, RemoveNode(z)
  PROVE  IInv'
<1> DEFINE new == [db EXCEPT !.nodes = @ \ {z}]
           m == [kind |-> "connection_removed", ids |-> {k.id : k \in {}}, zones |-> {z}]
<1>1. db \in Map /\ IdsTellApart /\ ChainsThere /\ tells \subseteq Tell
  BY DEF IInv, Types
<1>3. UNCHANGED <<used, tells>> /\ Edit(new, m)
  BY DEF RemoveNode, Removed
<1>5. new \in Map /\ m \in Message /\ m.kind = "connection_removed" /\ m.ids = {} /\ m.zones = {z}
  BY <1>1 DEF Map, Message
<1>6. /\ new.conns = db.conns /\ new.nodes = db.nodes \ {z}
      /\ new.sources = db.sources /\ new.home = db.home
  BY <1>1 DEF Map
<1> HIDE DEF m, new
<1>7. ASSUME NEW s \in Map
      PROVE  /\ Applied(s, m).conns = s.conns
             /\ Applied(s, m).nodes = s.nodes \ {z}
             /\ Applied(s, m).sources = s.sources /\ Applied(s, m).home = s.home
  <2>1. /\ Applied(s, m).conns = Without(s.conns, m.ids)
        /\ Applied(s, m).nodes = s.nodes \ m.zones
        /\ Applied(s, m).sources = s.sources /\ Applied(s, m).home = s.home
    <3>1. m.kind = "connection_removed"
      BY <1>5
    <3> QED BY <3>1, AppliedRemoved
  <2>2. Without(s.conns, {}) = s.conns
    BY DEF Without
  <2> QED BY <1>5, <2>1, <2>2
<1>8. \A c \in Clients : Untold(c)' = Untold(c)
  BY <1>3 DEF Untold
<1>9. IdsTellApart' /\ ChainsThere'
  <2>1. db'.conns = db.conns /\ db'.sources = db.sources
    BY <1>3, <1>6 DEF Edit
  <2> QED BY <1>1, <1>3, <2>1, IdsFewer, ChainsStillThere DEF Made
<1>10. /\ \A s \in Map : s.conns = db.conns => Applied(s, m).conns = new.conns
       /\ \A s \in Map : s.sources = db.sources /\ s.home = db.home =>
            Applied(s, m).sources = new.sources /\ Applied(s, m).home = new.home
       /\ \A c \in Clients, s \in Map :
            db.nodes \ Untold(c) \subseteq s.nodes
              => new.nodes \ Untold(c)' \subseteq Applied(s, m).nodes
  BY <1>6, <1>7, <1>8
<1> QED BY <1>1, <1>3, <1>5, <1>9, <1>10, EditKeeps

LEMMA UpdateConnectionKeeps ==
  ASSUME IInv, NEW k, UpdateConnection(k)
  PROVE  IInv'
<1> DEFINE m == NodesMsg(db.nodes)
           t == [kind |-> "update", conn |-> k]
<1>1. db \in Map /\ IdsTellApart /\ ChainsThere /\ k \in db.conns /\ tells \subseteq Tell
  BY DEF IInv, Types, UpdateConnection
<1>2. m \in Message /\ m.kind = "nodes" /\ m.nodes = db.nodes
  BY <1>1 DEF Map, Message, NodesMsg
<1>3. t \in Tell /\ t.kind = "update"
  BY <1>1 DEF Map, Tell, Conn
<1>4. tells' = tells \cup {t} /\ used' = used /\ Edit(db, m)
  BY DEF UpdateConnection
<1> HIDE DEF m, t
<1>5. \A s \in Map : /\ Applied(s, m).nodes = s.nodes \cup db.nodes
                     /\ Applied(s, m).conns = s.conns
                     /\ Applied(s, m).sources = s.sources /\ Applied(s, m).home = s.home
  BY <1>2 DEF Applied, Upsert, Map
<1>6. IdsTellApart' /\ ChainsThere'
  <2>1. Made' \subseteq Made /\ db' = db
    BY <1>3, <1>4 DEF Made, Edit
  <2> QED BY <1>1, <1>3, <1>4, <2>1, IdsFewer, ChainsStillThere
<1>7. \A c \in Clients, s \in Map :
         db.nodes \ Untold(c) \subseteq s.nodes
           => db.nodes \ Untold(c)' \subseteq Applied(s, m).nodes
  BY <1>5
<1>8. tells' \subseteq Tell
  BY <1>1, <1>3, <1>4
<1>9. /\ \A s \in Map : s.conns = db.conns => Applied(s, m).conns = db.conns
      /\ \A s \in Map : s.sources = db.sources /\ s.home = db.home =>
           Applied(s, m).sources = db.sources /\ Applied(s, m).home = db.home
  BY <1>5
<1> QED BY <1>1, <1>2, <1>4, <1>6, <1>7, <1>8, <1>9, EditKeeps

LEMMA RotateZoneKeeps ==
  ASSUME IInv, NEW z, RotateZone(z)
  PROVE  IInv'
<1> DEFINE m == NodesMsg({z})
<1>1. db \in Map /\ IdsTellApart /\ ChainsThere /\ z \in db.nodes /\ tells \subseteq Tell
  BY DEF IInv, Types, RotateZone
<1>2. m \in Message /\ m.kind = "nodes" /\ m.nodes = {z}
  BY <1>1 DEF Map, Message, NodesMsg
<1>3. UNCHANGED <<used, tells>> /\ Edit(db, m)
  BY DEF RotateZone
<1> HIDE DEF m
<1>4. \A s \in Map : /\ Applied(s, m).nodes = s.nodes \cup {z}
                     /\ Applied(s, m).conns = s.conns
                     /\ Applied(s, m).sources = s.sources /\ Applied(s, m).home = s.home
  BY <1>2 DEF Applied, Upsert, Map
<1>5. \A c \in Clients : Untold(c)' = Untold(c)
  BY <1>3 DEF Untold
<1>6. IdsTellApart' /\ ChainsThere'
  BY <1>1, <1>3, IdsFewer, ChainsStillThere DEF Made, Edit
<1>7. \A c \in Clients, s \in Map :
         db.nodes \ Untold(c) \subseteq s.nodes
           => db.nodes \ Untold(c)' \subseteq Applied(s, m).nodes
  BY <1>4, <1>5
<1> QED BY <1>1, <1>2, <1>3, <1>4, <1>6, <1>7, EditKeeps

LEMMA OrphanedTells ==
  ASSUME tells \subseteq Tell, NEW Z, tells' = Orphaned(Z)
  PROVE  /\ tells' \subseteq Tell
         /\ \A c \in Clients : Untold(c)' = Untold(c)
         /\ {t.conn : t \in {u \in tells' : u.kind \in {"target", "insert"}}}
              = {t.conn : t \in {u \in tells : u.kind \in {"target", "insert"}}}
         /\ ChainsThere /\ db.sources \ Z \subseteq db'.sources => ChainsThere'
<1> DEFINE R(t) == IF t.kind \in {"chain", "answer"} /\ t.zone \in Z
                   THEN [t EXCEPT !.gone = TRUE] ELSE t
<1>1. tells' = {R(t) : t \in tells}
  BY DEF Orphaned
<1>2. \A t \in Tell : /\ R(t) \in Tell /\ R(t).kind = t.kind
                      /\ t.kind \in {"chain", "answer"} =>
                           /\ R(t).zone = t.zone /\ R(t).by = t.by
                           /\ ~R(t).gone => ~t.gone /\ t.zone \notin Z
                      /\ t.kind \notin {"chain", "answer"} => R(t) = t
  BY DEF Tell
<1> HIDE DEF R
<1>3. tells' \subseteq Tell
  BY <1>1, <1>2
<1>4. ASSUME NEW t \in tells, t.kind \notin {"chain", "answer"} PROVE t \in tells'
  <2>1. R(t) = t
    BY <1>2, <1>4
  <2> QED BY <1>1, <2>1
<1>5. ASSUME NEW t \in tells', t.kind \notin {"chain", "answer"} PROVE t \in tells
  BY <1>1, <1>2, <1>5
<1>6. {t.zone : t \in {u \in tells' : u.kind = "chain"}}
        = {t.zone : t \in {u \in tells : u.kind = "chain"}}
  <2>1. ASSUME NEW t \in tells', t.kind = "chain"
        PROVE  \E u \in tells : u.kind = "chain" /\ u.zone = t.zone
    BY <1>1, <1>2, <2>1
  <2>2. ASSUME NEW u \in tells, u.kind = "chain"
        PROVE  \E t \in tells' : t.kind = "chain" /\ t.zone = u.zone
    <3>1. R(u) \in tells' /\ R(u).kind = "chain" /\ R(u).zone = u.zone
      BY <1>1, <1>2, <2>2
    <3> QED BY <3>1
  <2> QED BY <2>1, <2>2
<1>7. ASSUME NEW c \in Clients PROVE Untold(c)' = Untold(c)
  <2>1. (\E t \in tells' : t.kind = "target" \/ (t.kind = "save" /\ t.by # c))
          <=> (\E t \in tells : t.kind = "target" \/ (t.kind = "save" /\ t.by # c))
    BY <1>4, <1>5
  <2> QED BY <1>6, <2>1 DEF Untold
<1>8. {t.conn : t \in {u \in tells' : u.kind \in {"target", "insert"}}}
        = {t.conn : t \in {u \in tells : u.kind \in {"target", "insert"}}}
  BY <1>4, <1>5
<1>9. ASSUME ChainsThere, db.sources \ Z \subseteq db'.sources PROVE ChainsThere'
  <2>1. ASSUME NEW t \in tells', t.kind \in {"chain", "answer"}, ~t.gone, t.by \in Clients
        PROVE  t.zone \in db'.sources
    <3>1. PICK u \in tells : t = R(u)
      BY <1>1
    <3>2. /\ u.kind = t.kind /\ u.zone = t.zone /\ u.by = t.by /\ ~u.gone /\ u.zone \notin Z
      BY <1>2, <2>1, <3>1
    <3> QED BY <1>9, <2>1, <3>2 DEF ChainsThere
  <2> QED BY <2>1 DEF ChainsThere
<1> QED BY <1>3, <1>7, <1>8, <1>9

LEMMA RemoveChainKeeps ==
  ASSUME IInv, NEW s, NEW Z, RemoveChain(s, Z)
  PROVE  IInv'
<1> DEFINE gone == Z \cup {s}
           K == {k \in db.conns : Ends(k) \cap gone # {}}
           ids == {k.id : k \in K}
           new == [db EXCEPT !.conns = @ \ K, !.nodes = @ \ gone, !.sources = @ \ {s}]
           m == [kind |-> "chain_removed", chain |-> s, zones |-> gone, ids |-> ids]
<1>1. db \in Map /\ IdsTellApart /\ ChainsThere /\ tells \subseteq Tell
  BY DEF IInv, Types
<1>2. s \in db.sources /\ gone \subseteq Zones /\ K \subseteq db.conns /\ ids \subseteq ConnIds
  BY <1>1 DEF RemoveChain, Sweepable, Map
<1>3. tells' = Orphaned({s}) /\ used' = used /\ Edit(new, m)
  BY DEF RemoveChain
<1>5. Without(db.conns, ids) = db.conns \ K
  BY <1>1 DEF IdsTellApart, Made, Without
<1> HIDE DEF K, gone, ids
<1>4. new \in Map /\ m \in Message /\ m.kind = "chain_removed"
  BY <1>1, <1>2 DEF Map, Message, Conn
<1>7. /\ \A t \in Map : t.conns = db.conns => Applied(t, m).conns = new.conns
      /\ \A t \in Map : t.sources = db.sources /\ t.home = db.home =>
           Applied(t, m).sources = new.sources /\ Applied(t, m).home = new.home
      /\ \A t \in Map : Applied(t, m).nodes = t.nodes \ gone
      /\ new.nodes = db.nodes \ gone
  <2>1. /\ new.conns = db.conns \ K /\ new.nodes = db.nodes \ gone
        /\ new.sources = db.sources \ {s} /\ new.home = db.home
    BY <1>1 DEF Map
  <2>2. m.ids = ids /\ m.zones = gone /\ m.chain = s
    OBVIOUS
  <2> HIDE DEF m, new
  <2>3. ASSUME NEW t \in Map
        PROVE  /\ Applied(t, m).conns = Without(t.conns, ids)
               /\ Applied(t, m).nodes = t.nodes \ gone
               /\ Applied(t, m).sources = t.sources \ {s} /\ Applied(t, m).home = t.home
    BY <1>4, <2>2, AppliedRemoved
  <2> QED BY <1>5, <2>1, <2>3
<1>8. /\ tells' \subseteq Tell
      /\ \A c \in Clients : Untold(c)' = Untold(c)
  BY <1>1, <1>3, OrphanedTells
<1>9. IdsTellApart' /\ ChainsThere'
  <2>1. db'.conns \subseteq db.conns /\ db.sources \ {s} \subseteq db'.sources
    BY <1>1, <1>3 DEF Edit, Map
  <2>2. Made' \subseteq Made
    BY <1>1, <1>3, <2>1, OrphanedTells DEF Made
  <2>3. ChainsThere'
    BY <1>1, <1>3, <2>1, OrphanedTells
  <2> QED BY <1>1, <1>3, <2>2, <2>3, IdsFewer
<1> HIDE DEF new, m
<1>10. \A c \in Clients, t \in Map :
         db.nodes \ Untold(c) \subseteq t.nodes
           => new.nodes \ Untold(c)' \subseteq Applied(t, m).nodes
  BY <1>7, <1>8
<1> QED BY <1>3, <1>4, <1>7, <1>8, <1>9, <1>10, EditKeeps

LEMMA RenamedTells ==
  ASSUME tells \subseteq Tell, NEW s, tells' = Renamed(s)
  PROVE  /\ tells' \subseteq Tell
         /\ \A c \in Clients : Untold(c)' = Untold(c)
         /\ {t.conn : t \in {u \in tells' : u.kind \in {"target", "insert"}}}
              = {t.conn : t \in {u \in tells : u.kind \in {"target", "insert"}}}
         /\ ChainsThere /\ db.sources \ {s} \subseteq db'.sources => ChainsThere'
<1> DEFINE R(t) == IF t.kind = "chain" /\ t.zone = s /\ ~t.gone THEN [t EXCEPT !.by = "nobody"] ELSE t
<1>1. tells' = {R(t) : t \in {u \in tells : ~(u.kind = "answer" /\ u.zone = s /\ ~u.gone)}}
  BY DEF Renamed
<1>2. \A t \in Tell : /\ R(t) \in Tell /\ R(t).kind = t.kind
                      /\ t.kind \in {"chain", "answer"} =>
                           R(t).zone = t.zone /\ R(t).gone = t.gone
                      /\ t.kind = "chain" /\ R(t).by \in Clients =>
                           R(t) = t /\ (t.gone \/ t.zone # s)
                      /\ t.kind # "chain" => R(t) = t
  BY ClientSyncAssumption DEF Tell
<1> HIDE DEF R
<1>3. tells' \subseteq Tell
  BY <1>1, <1>2
<1>4. ASSUME NEW t \in tells, t.kind \notin {"chain", "answer"} PROVE t \in tells'
  <2>1. R(t) = t
    BY <1>2, <1>4
  <2> QED BY <1>1, <1>4, <2>1
<1>5. ASSUME NEW t \in tells', t.kind \notin {"chain", "answer"} PROVE t \in tells
  BY <1>1, <1>2, <1>5
<1>6. {t.zone : t \in {u \in tells' : u.kind = "chain"}}
        = {t.zone : t \in {u \in tells : u.kind = "chain"}}
  <2>1. ASSUME NEW t \in tells', t.kind = "chain"
        PROVE  \E u \in tells : u.kind = "chain" /\ u.zone = t.zone
    BY <1>1, <1>2, <2>1
  <2>2. ASSUME NEW u \in tells, u.kind = "chain"
        PROVE  \E t \in tells' : t.kind = "chain" /\ t.zone = u.zone
    <3>1. R(u) \in tells' /\ R(u).kind = "chain" /\ R(u).zone = u.zone
      BY <1>1, <1>2, <2>2
    <3> QED BY <3>1
  <2> QED BY <2>1, <2>2
<1>7. ASSUME NEW c \in Clients PROVE Untold(c)' = Untold(c)
  <2>1. (\E t \in tells' : t.kind = "target" \/ (t.kind = "save" /\ t.by # c))
          <=> (\E t \in tells : t.kind = "target" \/ (t.kind = "save" /\ t.by # c))
    BY <1>4, <1>5
  <2> QED BY <1>6, <2>1 DEF Untold
<1>8. {t.conn : t \in {u \in tells' : u.kind \in {"target", "insert"}}}
        = {t.conn : t \in {u \in tells : u.kind \in {"target", "insert"}}}
  BY <1>4, <1>5
<1>9. ASSUME ChainsThere, db.sources \ {s} \subseteq db'.sources PROVE ChainsThere'
  <2>1. ASSUME NEW t \in tells', t.kind \in {"chain", "answer"}, ~t.gone, t.by \in Clients
        PROVE  t.zone \in db'.sources
    <3>1. PICK u \in tells : t = R(u) /\ ~(u.kind = "answer" /\ u.zone = s /\ ~u.gone)
      BY <1>1
    <3>2. u \in Tell /\ u.kind = t.kind
      BY <1>2, <3>1
    <3>3. u = t /\ u.zone # s
      BY <1>2, <2>1, <3>1, <3>2
    <3> QED BY <1>9, <2>1, <3>3 DEF ChainsThere
  <2> QED BY <2>1 DEF ChainsThere
<1> QED BY <1>3, <1>7, <1>8, <1>9

LEMMA RelocateChainKeeps ==
  ASSUME IInv, NEW s, NEW to \in Zones, NEW Z, RelocateChain(s, to, Z)
  PROVE  IInv'
<1> DEFINE gone == Z \cup {s}
           K == {k \in db.conns : Ends(k) \cap gone # {}}
           home == IF s = db.home THEN to ELSE db.home
           ids == {k.id : k \in K}
           new == [nodes |-> (db.nodes \ gone) \cup {to},
                   conns |-> db.conns \ K,
                   sources |-> (db.sources \ {s}) \cup {to}, home |-> home]
           m == [kind |-> "chain_relocated", chain |-> s, to |-> to, home |-> home,
                 zones |-> gone, ids |-> ids]
<1>1. db \in Map /\ IdsTellApart /\ ChainsThere /\ tells \subseteq Tell
  BY DEF IInv, Types
<1>2. s \in db.sources /\ gone \subseteq Zones /\ K \subseteq db.conns
      /\ ids \subseteq ConnIds /\ home \in Zones
  BY <1>1 DEF RelocateChain, Sweepable, Map
<1>3. tells' = Renamed(s) /\ used' = used /\ Edit(new, m)
  BY DEF RelocateChain
<1>5. Without(db.conns, ids) = db.conns \ K
  BY <1>1 DEF IdsTellApart, Made, Without
<1> HIDE DEF K, gone, home, ids
<1>4. new \in Map /\ m \in Message /\ m.kind = "chain_relocated" /\ m.chain \in db.sources
  BY <1>1, <1>2 DEF Map, Message, Conn
<1>7. /\ \A t \in Map : t.conns = db.conns => Applied(t, m).conns = new.conns
      /\ \A t \in Map : t.sources = db.sources /\ t.home = db.home =>
           Applied(t, m).sources = new.sources /\ Applied(t, m).home = new.home
      /\ \A t \in Map : Applied(t, m).nodes = (t.nodes \ gone) \cup {to}
      /\ new.nodes = (db.nodes \ gone) \cup {to}
  <2>1. /\ new.conns = db.conns \ K /\ new.nodes = (db.nodes \ gone) \cup {to}
        /\ new.sources = (db.sources \ {s}) \cup {to} /\ new.home = home
    OBVIOUS
  <2>2. m.ids = ids /\ m.zones = gone /\ m.chain = s /\ m.to = to /\ m.home = home
    OBVIOUS
  <2> HIDE DEF m, new
  <2>3. ASSUME NEW t \in Map
        PROVE  /\ Applied(t, m).conns = Without(t.conns, ids)
               /\ Applied(t, m).nodes = (t.nodes \ gone) \cup {to}
               /\ s \in t.sources => Applied(t, m).sources = (t.sources \ {s}) \cup {to}
               /\ Applied(t, m).home = home
    BY <1>4, <2>2, AppliedRemoved
  <2> QED BY <1>2, <1>5, <2>1, <2>3
<1>8. /\ tells' \subseteq Tell
      /\ \A c \in Clients : Untold(c)' = Untold(c)
  BY <1>1, <1>3, RenamedTells
<1>9. IdsTellApart' /\ ChainsThere'
  <2>1. db'.conns \subseteq db.conns /\ db.sources \ {s} \subseteq db'.sources
    BY <1>3 DEF Edit
  <2>2. Made' \subseteq Made
    BY <1>1, <1>3, <2>1, RenamedTells DEF Made
  <2>3. ChainsThere'
    BY <1>1, <1>3, <2>1, RenamedTells
  <2> QED BY <1>1, <1>3, <2>2, <2>3, IdsFewer
<1> HIDE DEF new, m
<1>10. \A c \in Clients, t \in Map :
         db.nodes \ Untold(c) \subseteq t.nodes
           => new.nodes \ Untold(c)' \subseteq Applied(t, m).nodes
  BY <1>7, <1>8
<1> QED BY <1>1, <1>3, <1>4, <1>7, <1>8, <1>9, <1>10, EditKeeps

LEMMA AddChainKeeps ==
  ASSUME IInv, NEW c \in Clients, NEW z \in Zones, AddChain(c, z)
  PROVE  IInv'
<1> DEFINE new == [db EXCEPT !.sources = @ \cup {z}, !.nodes = @ \cup {z}]
           m == [kind |-> "chain_added", chain |-> z]
           u == [kind |-> IF z \notin db.nodes THEN "chain" ELSE "answer", zone |-> z, by |-> c,
                 gone |-> FALSE]
<1>1. db \in Map /\ IdsTellApart /\ ChainsThere /\ tells \subseteq Tell
  BY DEF IInv, Types
<1>2. tells' = tells \cup {u} /\ used' = used /\ Edit(new, m)
  BY DEF AddChain
<1>3. new \in Map /\ m \in Message /\ m.kind = "chain_added"
  BY <1>1 DEF Map, Message
<1>4. \A s \in Map : /\ Applied(s, m).sources = s.sources \cup {z}
                     /\ Applied(s, m).conns = s.conns
                     /\ Applied(s, m).nodes = s.nodes /\ Applied(s, m).home = s.home
  BY DEF Applied, Map
<1>5. /\ new.sources = db.sources \cup {z} /\ new.nodes = db.nodes \cup {z}
      /\ new.conns = db.conns /\ new.home = db.home
  BY <1>1 DEF Map
<1>6. u \in Tell /\ u.kind \in {"chain", "answer"} /\ u.zone = z
      /\ (z \notin db.nodes => u.kind = "chain")
  BY DEF Tell
<1> HIDE DEF new, m, u
<1>7. tells' \subseteq Tell
  BY <1>1, <1>2, <1>6
<1>8. IdsTellApart' /\ ChainsThere'
  <2>1. Made' \subseteq Made
    BY <1>2, <1>5, <1>6 DEF Made, Edit
  <2>2. db'.sources = db.sources \cup {z}
    BY <1>2, <1>5 DEF Edit
  <2>3. ChainsThere'
    BY <1>1, <1>2, <1>6, <2>2 DEF ChainsThere
  <2> QED BY <1>1, <1>2, <2>1, <2>3, IdsFewer
<1>9. ASSUME NEW d \in Clients
      PROVE  new.nodes \ Untold(d)' \subseteq db.nodes \ Untold(d)
  <2>1. CASE \E t \in tells : t.kind = "target" \/ (t.kind = "save" /\ t.by # d)
    <3>1. Untold(d)' = Zones
      BY <1>2, <2>1 DEF Untold
    <3> QED BY <1>3, <3>1 DEF Map
  <2>2. CASE ~\E t \in tells : t.kind = "target" \/ (t.kind = "save" /\ t.by # d)
    <3>1. /\ Untold(d)' = {t.zone : t \in {x \in tells' : x.kind = "chain"}}
          /\ Untold(d) = {t.zone : t \in {x \in tells : x.kind = "chain"}}
      BY <1>2, <1>6, <2>2 DEF Untold
    <3> QED BY <1>2, <1>5, <1>6, <3>1
  <2> QED BY <2>1, <2>2
<1>10. \A d \in Clients, s \in Map :
         db.nodes \ Untold(d) \subseteq s.nodes
           => new.nodes \ Untold(d)' \subseteq Applied(s, m).nodes
  BY <1>4, <1>9
<1>11. /\ \A s \in Map : s.conns = db.conns => Applied(s, m).conns = new.conns
       /\ \A s \in Map : s.sources = db.sources /\ s.home = db.home =>
            Applied(s, m).sources = new.sources /\ Applied(s, m).home = new.home
  BY <1>4, <1>5
<1> QED BY <1>2, <1>3, <1>7, <1>8, <1>10, <1>11, EditKeeps

\* A room written anew, and all that is told of it.
LEMMA TellResetKeeps ==
  ASSUME IInv, NEW new \in Map, NEW lost \in SUBSET {"chains"}, TellReset(new, lost),
         "chains" \in lost \/ (new.sources = db.sources /\ new.home = db.home),
         used' \subseteq ConnIds, tells' \subseteq Tell, IdsTellApart', ChainsThere'
  PROVE  IInv'
<1> DEFINE m == [kind |-> "room_reset"]
           kept(c) == new.nodes \subseteq Applied(CaughtUp(c), m).nodes
           missed(c) == IF link[c] # "live" THEN {}
                        ELSE (IF new.conns = {} THEN {} ELSE {"conns"}) \cup
                             (IF kept(c) THEN {} ELSE {"nodes"})
<1>1. Types
  BY DEF IInv
<1>2. behind \in [Clients -> SUBSET {"chains", "conns", "nodes"}]
  BY <1>1 DEF Types
<1>3. /\ edits' = edits + 1 /\ edits < MaxEdits
      /\ db' = new
      /\ down' = ToAllBut({}, m)
      /\ behind' = [c \in Clients |-> Races(new)[c] \cup lost \cup missed(c)]
      /\ UNCHANGED <<copy, link, seen, up>>
  BY DEF TellReset
<1>4. m \in Message /\ m.kind = "room_reset"
  BY DEF Message
<1>5. \A s \in Map : /\ Applied(s, m).conns = {}
                     /\ Applied(s, m).sources = s.sources /\ Applied(s, m).home = s.home
  BY DEF Applied, Map
<1>6. ASSUME NEW c \in Clients, link[c] = "live"
      PROVE  /\ new.conns # {} => "conns" \in missed(c)
             /\ ~kept(c) => "nodes" \in missed(c)
  <2> HIDE DEF kept
  <2> QED BY <1>6
<1>7. \A c \in Clients : missed(c) \in SUBSET {"conns", "nodes"}
  OBVIOUS
<1> HIDE DEF m, missed
<1>8. /\ behind' \in [Clients -> SUBSET {"chains", "conns", "nodes"}]
      /\ \A c \in Clients : /\ Races(new)[c] \subseteq behind'[c] /\ behind[c] \subseteq behind'[c]
                           /\ lost \subseteq behind'[c] /\ missed(c) \subseteq behind'[c]
  BY <1>2, <1>3, <1>7, RacesTyped
<1>9. Types'
  <2>1. down' \in [Clients -> Seq(Message)]
    BY <1>1, <1>3, <1>4, DownTyped DEF Types
  <2>2. edits' \in 0..MaxEdits
    BY <1>1, <1>3, ClientSyncAssumption DEF Types
  <2> QED BY <1>1, <1>3, <1>8, <2>1, <2>2 DEF Types
<1>10. \A c \in Clients : ReadSo(c)'
  BY <1>3, <1>8, ReadSoKept
<1>11. ASSUME NEW c \in Clients PROVE WillKnow(c)'
  <2> SUFFICES ASSUME link[c] = "live" PROVE WillKnow(c)'
    BY <1>3 DEF WillKnow
  <2>1. down'[c] = Append(down[c], m)
    BY <1>3 DEF ToAllBut, Registered
  <2>2. "nodes" \notin behind'[c] => kept(c)
    BY <1>6, <1>8
  <2>3. "conns" \notin behind'[c] =>
          \A s \in Map : s.conns = db.conns => Applied(s, m).conns = new.conns
    BY <1>5, <1>6, <1>8
  <2>4. "chains" \notin behind'[c] =>
          \A s \in Map : s.sources = db.sources /\ s.home = db.home =>
            Applied(s, m).sources = new.sources /\ Applied(s, m).home = new.home
    BY <1>5, <1>8
  <2>5. "nodes" \notin behind'[c] /\ db.nodes \ Untold(c) \subseteq CaughtUp(c).nodes
        => new.nodes \ Untold(c)' \subseteq Applied(CaughtUp(c), m).nodes
    BY <2>2
  <2>6. db' = new /\ link'[c] = link[c] /\ copy'[c] = copy[c] /\ behind[c] \subseteq behind'[c]
    BY <1>3, <1>8
  <2> HIDE DEF kept
  <2> QED BY <1>4, <2>1, <2>3, <2>4, <2>5, <2>6, ToldKept
<1> QED BY <1>9, <1>10, <1>11 DEF IInv

LEMMA ResetRoomKeeps ==
  ASSUME IInv, ResetRoom
  PROVE  IInv'
<1> DEFINE new == [db EXCEPT !.conns = {}, !.nodes = db.sources \cup (db.nodes \cap {db.home})]
<1>1. db \in Map /\ IdsTellApart /\ ChainsThere /\ tells \subseteq Tell /\ used \subseteq ConnIds
  BY DEF IInv, Types
<1>2. TellReset(new, {}) /\ UNCHANGED <<used, tells>>
  BY DEF ResetRoom
<1>3. new \in Map /\ new.conns = {} /\ new.sources = db.sources /\ new.home = db.home
  BY <1>1 DEF Map
<1> HIDE DEF new
<1>4. db' = new
  BY <1>2 DEF TellReset
<1>5. IdsTellApart' /\ ChainsThere'
  <2>1. Made' \subseteq Made
    BY <1>2, <1>3, <1>4 DEF Made
  <2> QED BY <1>1, <1>2, <1>3, <1>4, <2>1, IdsFewer, ChainsStillThere
<1> QED BY <1>1, <1>2, <1>3, <1>5, TellResetKeeps

LEMMA ImportRoomKeeps ==
  ASSUME IInv, NEW f \in Imports, ImportRoom(f)
  PROVE  IInv'
<1> DEFINE ids == {k.id : k \in f.conns}
<1>1. /\ db \in Map /\ IdsTellApart /\ ChainsThere /\ tells \subseteq Tell /\ used \subseteq ConnIds
  BY DEF IInv, Types
<1>2. f \in Map /\ \A k, l \in f.conns : k.id = l.id => k = l
  BY ImportsAreRooms
<1>3. /\ ids \cap used = {} /\ TellReset(f, {"chains"}) /\ used' = used \cup ids
      /\ tells' = Orphaned(Zones)
  BY DEF ImportRoom
<1>4. ids \subseteq ConnIds /\ db' = f
  BY <1>2, <1>3 DEF Map, TellReset
<1>5. /\ tells' \subseteq Tell
      /\ {t.conn : t \in {u \in tells' : u.kind \in {"target", "insert"}}}
           = {t.conn : t \in {u \in tells : u.kind \in {"target", "insert"}}}
      /\ ChainsThere'
  <2>1. db.sources \ Zones \subseteq db'.sources
    BY <1>1 DEF Map
  <2> QED BY <1>1, <1>3, <2>1, OrphanedTells
<1>6. IdsTellApart'
  <2>1. \A k \in Made' : k \in f.conns \/ k \in Made
    BY <1>4, <1>5 DEF Made
  <2>2. \A k \in f.conns : k.id \in ids
    OBVIOUS
  <2> HIDE DEF ids
  <2> QED BY <1>1, <1>2, <1>3, <2>1, <2>2 DEF IdsTellApart
<1> HIDE DEF ids
<1> QED BY <1>1, <1>2, <1>3, <1>4, <1>5, <1>6, TellResetKeeps

LEMMA PlaceTargetKeeps ==
  ASSUME IInv, NEW k \in Conn, PlaceTarget(k)
  PROVE  IInv'
<1> DEFINE new == [db EXCEPT !.nodes = @ \cup {k.to}]
           t == [kind |-> "target", conn |-> k]
<1>1. Types /\ IdsTellApart
  BY DEF IInv
<1>2. /\ db \in Map /\ behind \in [Clients -> SUBSET {"chains", "conns", "nodes"}]
      /\ tells \subseteq Tell /\ used \subseteq ConnIds
  BY <1>1 DEF Types
<1>3. /\ edits' = edits + 1 /\ edits < MaxEdits
      /\ k.id \notin used /\ used' = used \cup {k.id}
      /\ db' = new /\ behind' = Races(new)
      /\ tells' = tells \cup {t}
      /\ UNCHANGED <<copy, link, seen, down, up>>
  BY DEF PlaceTarget
<1>4. new \in Map /\ t \in Tell /\ t.kind = "target" /\ t.conn = k
  BY <1>2 DEF Map, Conn, Tell
<1>5. new.conns = db.conns /\ new.sources = db.sources /\ new.home = db.home
  BY <1>2 DEF Map
<1> HIDE DEF new, t
<1>6. /\ behind' \in [Clients -> SUBSET {"chains", "conns", "nodes"}]
      /\ \A c \in Clients : behind[c] \subseteq behind'[c]
  BY <1>2, <1>3, RacesTyped
<1>7. Types'
  <2>1. edits' \in 0..MaxEdits
    BY <1>1, <1>3, ClientSyncAssumption DEF Types
  <2>2. used' \subseteq ConnIds /\ tells' \subseteq Tell
    BY <1>2, <1>3, <1>4 DEF Conn
  <2> QED BY <1>1, <1>3, <1>4, <1>6, <2>1, <2>2 DEF Types
<1>8. IdsTellApart'
  <2>1. Made' = Made \cup {k}
    BY <1>3, <1>4, <1>5 DEF Made
  <2> QED BY <1>1, <1>3, <2>1 DEF IdsTellApart
<1>11. ChainsThere'
  BY <1>3, <1>4, <1>5, ChainsStillThere DEF IInv
<1>9. \A c \in Clients : ReadSo(c)'
  BY <1>3, <1>4, ReadSoKept
<1>10. ASSUME NEW c \in Clients PROVE WillKnow(c)'
  <2>1. Untold(c)' = Zones
    BY <1>3, <1>4 DEF Untold
  <2>2. db'.nodes \ Untold(c)' = {}
    BY <1>3, <1>4, <2>1 DEF Map
  <2> QED BY <1>3, <1>5, <1>6, <2>2, StillKnows DEF IInv
<1> QED BY <1>7, <1>8, <1>9, <1>10, <1>11 DEF IInv

-----------------------------------------------------------------------------
(* Later steps of the handlers *)

LEMMA TellsKeeps ==
  ASSUME IInv, NEW t \in tells, NEW X, NEW nodes \in SUBSET Zones, NEW next \in SUBSET Tell,
         Tells(t, X, nodes, next),
         \A u \in next : u.kind \in {"answer", "insert"},
         \A u \in next : u.kind = "answer" =>
           t.kind = "chain" /\ u.zone = t.zone /\ u.by = t.by /\ u.gone = t.gone,
         \A u \in next : u.kind = "insert" => t.kind = "target" /\ u.conn = t.conn,
         \A c \in Clients \ X : db.nodes \ Untold(c)' \subseteq (db.nodes \ Untold(c)) \cup nodes,
         \A c \in Clients \cap X : Untold(c)' = Untold(c)
  PROVE  IInv'
<1> DEFINE m == NodesMsg(nodes)
<1>1. Types /\ IdsTellApart /\ db \in Map
  BY DEF IInv, Types
<1>2. /\ tells' = (tells \ {t}) \cup next
      /\ down' = ToAllBut(X, m)
      /\ UNCHANGED <<db, copy, link, seen, up, behind, used, edits>>
  BY DEF Tells
<1>3. m \in Message /\ m.kind = "nodes" /\ m.nodes = nodes
  BY DEF Message, NodesMsg
<1> HIDE DEF m
<1>4. \A s \in Map : /\ Applied(s, m).nodes = s.nodes \cup nodes
                     /\ Applied(s, m).conns = s.conns
                     /\ Applied(s, m).sources = s.sources /\ Applied(s, m).home = s.home
  BY <1>3 DEF Applied, Upsert, Map
<1>5. Types'
  <2>1. down' \in [Clients -> Seq(Message)]
    BY <1>1, <1>2, <1>3, DownTyped DEF Types
  <2> QED BY <1>1, <1>2, <2>1 DEF Types
<1>6. IdsTellApart'
  <2>1. Made' \subseteq Made
    BY <1>2 DEF Made
  <2> QED BY <1>1, <1>2, <2>1, IdsFewer
<1>9. ChainsThere'
  BY <1>2 DEF IInv, ChainsThere
<1>7. \A c \in Clients : ReadSo(c)'
  BY <1>2 DEF IInv, ReadSo
<1>8. ASSUME NEW c \in Clients PROVE WillKnow(c)'
  <2>1. CASE c \in X
    <3>1. down'[c] = down[c]
      BY <1>2, <2>1 DEF ToAllBut
    <3>2. Untold(c)' = Untold(c)
      BY <2>1
    <3> QED BY <1>2, <3>1, <3>2, StillKnows DEF IInv
  <2>2. CASE c \notin X
    <3>1. link[c] = "live" => down'[c] = Append(down[c], m)
      BY <1>2, <2>2 DEF ToAllBut, Registered
    <3>2. CaughtUp(c) \in Map
      BY <1>1, CaughtMap DEF Types, CaughtUp, Caught
    <3>3. link[c] = "live" /\ "nodes" \notin behind'[c]
            /\ db.nodes \ Untold(c) \subseteq CaughtUp(c).nodes
          => db.nodes \ Untold(c)' \subseteq Applied(CaughtUp(c), m).nodes
      BY <1>4, <2>2, <3>2
    <3>4. /\ \A s \in Map : s.conns = db.conns => Applied(s, m).conns = db.conns
          /\ \A s \in Map : s.sources = db.sources /\ s.home = db.home =>
               Applied(s, m).sources = db.sources /\ Applied(s, m).home = db.home
      BY <1>4
    <3>5. db' = db /\ link'[c] = link[c] /\ copy'[c] = copy[c] /\ behind[c] \subseteq behind'[c]
      BY <1>2
    <3> QED BY <1>1, <1>3, <3>1, <3>3, <3>4, <3>5, ToldKept
  <2> QED BY <2>1, <2>2
<1> QED BY <1>5, <1>6, <1>7, <1>8, <1>9 DEF IInv

LEMMA TellChainKeeps ==
  ASSUME IInv, NEW t \in tells, TellChain(t)
  PROVE  IInv'
<1> DEFINE nodes == db.nodes \cap {t.zone}
           next == IF t.by \in Clients THEN {[t EXCEPT !.kind = "answer"]} ELSE {}
<1>1. t \in Tell /\ t.kind = "chain" /\ db \in Map
  BY DEF IInv, Types, TellChain
<1>2. t \in [kind : {"chain"}, zone : Zones, by : Clients \cup {"nobody"}, gone : BOOLEAN]
  BY <1>1 DEF Tell
<1>3. next \subseteq Tell /\ \A u \in next : /\ u.kind = "answer" /\ u.zone = t.zone
                                              /\ u.by = t.by /\ u.gone = t.gone
  BY <1>2 DEF Tell
<1>4. Tells(t, {}, nodes, next) /\ nodes \subseteq Zones
  BY <1>1 DEF TellChain, Map
<1> HIDE DEF next
<1>5. tells' = (tells \ {t}) \cup next
  BY <1>4 DEF Tells
<1>6. ASSUME NEW c \in Clients
      PROVE  db.nodes \ Untold(c)' \subseteq (db.nodes \ Untold(c)) \cup nodes
  <2>1. CASE \E x \in tells : x.kind = "target" \/ (x.kind = "save" /\ x.by # c)
    <3>1. Untold(c)' = Zones
      BY <1>1, <1>5, <2>1 DEF Untold
    <3> QED BY <1>1, <3>1 DEF Map
  <2>2. CASE ~\E x \in tells : x.kind = "target" \/ (x.kind = "save" /\ x.by # c)
    <3>1. /\ Untold(c)' = {x.zone : x \in {u \in tells' : u.kind = "chain"}}
          /\ Untold(c) = {x.zone : x \in {u \in tells : u.kind = "chain"}}
      BY <1>3, <1>5, <2>2 DEF Untold
    <3> QED BY <1>5, <3>1
  <2> QED BY <2>1, <2>2
<1> QED BY <1>1, <1>3, <1>4, <1>6, TellsKeeps

LEMMA TellSaveKeeps ==
  ASSUME IInv, NEW t \in tells, TellSave(t)
  PROVE  IInv'
<1>1. t \in Tell /\ t.kind = "save" /\ db.nodes \subseteq Zones
  BY DEF IInv, Types, TellSave, Map
<1>2. Tells(t, {t.by}, db.nodes, {})
  BY DEF TellSave
<1>3. tells' = tells \ {t}
  BY <1>2 DEF Tells
<1>4. ASSUME NEW c \in Clients, c = t.by PROVE Untold(c)' = Untold(c)
  <2>1. {x.zone : x \in {u \in tells' : u.kind = "chain"}}
          = {x.zone : x \in {u \in tells : u.kind = "chain"}}
    BY <1>1, <1>3
  <2>2. (\E x \in tells' : x.kind = "target" \/ (x.kind = "save" /\ x.by # c))
          <=> (\E x \in tells : x.kind = "target" \/ (x.kind = "save" /\ x.by # c))
    BY <1>1, <1>3, <1>4
  <2> QED BY <2>1, <2>2 DEF Untold
<1> QED BY <1>1, <1>2, <1>4, TellsKeeps

LEMMA TellTargetKeeps ==
  ASSUME IInv, NEW t \in tells, TellTarget(t)
  PROVE  IInv'
<1> DEFINE next == {[t EXCEPT !.kind = "insert"]}
<1>1. t \in Tell /\ t.kind = "target" /\ db.nodes \subseteq Zones
  BY DEF IInv, Types, TellTarget, Map
<1>2. t \in [kind : {"target"}, conn : Conn]
  BY <1>1 DEF Tell
<1>3. next \subseteq Tell /\ \A u \in next : u.kind = "insert" /\ u.conn = t.conn
  BY <1>2 DEF Tell
<1>4. Tells(t, {}, db.nodes, next)
  BY DEF TellTarget
<1> HIDE DEF next
<1> QED BY <1>1, <1>3, <1>4, TellsKeeps

LEMMA InsertConnectionKeeps ==
  ASSUME IInv, NEW t \in tells, InsertConnection(t)
  PROVE  IInv'
<1> DEFINE new == [db EXCEPT !.conns = @ \cup {t.conn}]
           m == [kind |-> "connection_added", conn |-> t.conn]
<1>1. Types /\ IdsTellApart
  BY DEF IInv
<1>2. /\ db \in Map /\ behind \in [Clients -> SUBSET {"chains", "conns", "nodes"}]
      /\ tells \subseteq Tell
  BY <1>1 DEF Types
<1>3. /\ t.kind = "insert" /\ tells' = tells \ {t}
      /\ db' = new /\ behind' = Races(new) /\ down' = ToAllBut({}, m)
      /\ UNCHANGED <<copy, link, seen, up, used, edits>>
  BY DEF InsertConnection
<1>4. t.conn \in Conn
  BY <1>2, <1>3 DEF Tell
<1>5. new \in Map /\ m \in Message /\ m.kind = "connection_added" /\ m.conn = t.conn
  BY <1>2, <1>4 DEF Map, Conn, Message
<1>6. /\ new.conns = db.conns \cup {t.conn} /\ new.nodes = db.nodes
      /\ new.sources = db.sources /\ new.home = db.home
  BY <1>2 DEF Map
<1> HIDE DEF new, m
<1>7. \A s \in Map : /\ Applied(s, m).nodes = s.nodes
                     /\ Applied(s, m).conns = s.conns \cup {t.conn}
                     /\ Applied(s, m).sources = s.sources /\ Applied(s, m).home = s.home
  BY <1>5 DEF Applied, Map
<1>8. /\ behind' \in [Clients -> SUBSET {"chains", "conns", "nodes"}]
      /\ \A c \in Clients : behind[c] \subseteq behind'[c]
  BY <1>2, <1>3, RacesTyped
<1>9. Types'
  <2>1. down' \in [Clients -> Seq(Message)]
    BY <1>1, <1>3, <1>5, DownTyped DEF Types
  <2> QED BY <1>1, <1>2, <1>3, <1>5, <1>8, <2>1 DEF Types
<1>10. IdsTellApart'
  <2>1. Made' \subseteq Made
    BY <1>3, <1>6 DEF Made
  <2> QED BY <1>1, <1>3, <2>1, IdsFewer
<1>14. ChainsThere'
  BY <1>3, <1>6, ChainsStillThere DEF IInv
<1>11. \A c \in Clients : ReadSo(c)'
  BY <1>3, <1>5, ReadSoKept
<1>12. ASSUME NEW c \in Clients PROVE Untold(c)' = Untold(c)
  <2>1. {x.zone : x \in {u \in tells' : u.kind = "chain"}}
          = {x.zone : x \in {u \in tells : u.kind = "chain"}}
    BY <1>3
  <2>2. (\E x \in tells' : x.kind = "target" \/ (x.kind = "save" /\ x.by # c))
          <=> (\E x \in tells : x.kind = "target" \/ (x.kind = "save" /\ x.by # c))
    BY <1>3
  <2> QED BY <2>1, <2>2 DEF Untold
<1>13. ASSUME NEW c \in Clients PROVE WillKnow(c)'
  <2>1. link[c] = "live" => down'[c] = Append(down[c], m)
    BY <1>3 DEF ToAllBut, Registered
  <2>2. CaughtUp(c) \in Map
    BY <1>1, CaughtMap DEF Types, CaughtUp, Caught
  <2>3. /\ \A s \in Map : s.conns = db.conns => Applied(s, m).conns = new.conns
        /\ \A s \in Map : s.sources = db.sources /\ s.home = db.home =>
             Applied(s, m).sources = new.sources /\ Applied(s, m).home = new.home
    BY <1>6, <1>7
  <2>4. link[c] = "live" /\ "nodes" \notin behind'[c]
          /\ db.nodes \ Untold(c) \subseteq CaughtUp(c).nodes
        => new.nodes \ Untold(c)' \subseteq Applied(CaughtUp(c), m).nodes
    BY <1>6, <1>7, <1>12, <2>2
  <2>5. db' = new /\ link'[c] = link[c] /\ copy'[c] = copy[c] /\ behind[c] \subseteq behind'[c]
    BY <1>3, <1>8
  <2> QED BY <1>5, <2>1, <2>3, <2>4, <2>5, ToldKept
<1> QED BY <1>9, <1>10, <1>11, <1>13, <1>14 DEF IInv

\* What one may still be told, but for a connection that changed.
LEMMA UntoldBut ==
  ASSUME NEW t \in tells, t.kind \in {"answer", "update"}, tells' = tells \ {t}, NEW c
  PROVE  Untold(c)' = Untold(c)
<1>1. {x.zone : x \in {u \in tells' : u.kind = "chain"}}
        = {x.zone : x \in {u \in tells : u.kind = "chain"}}
  OBVIOUS
<1>2. (\E x \in tells' : x.kind = "target" \/ (x.kind = "save" /\ x.by # c))
        <=> (\E x \in tells : x.kind = "target" \/ (x.kind = "save" /\ x.by # c))
  OBVIOUS
<1> QED BY <1>1, <1>2 DEF Untold

LEMMA TellUpdateKeeps ==
  ASSUME IInv, NEW t \in tells, TellUpdate(t)
  PROVE  IInv'
<1> DEFINE m == [kind |-> "connection_updated", conn |-> t.conn]
<1>1. Types /\ IdsTellApart /\ db \in Map
  BY DEF IInv, Types
<1>2. /\ t.kind = "update" /\ tells' = tells \ {t}
      /\ down' = down \/ down' = ToAllBut({}, m)
      /\ UNCHANGED <<db, copy, link, seen, up, behind, used, edits>>
  BY DEF TellUpdate
<1>3. m \in Message /\ m.kind = "connection_updated"
  <2>1. t.conn \in Conn
    BY <1>1, <1>2 DEF Types, Tell
  <2> QED BY <2>1 DEF Message
<1>4. \A s \in Map : Applied(s, m) = s
  BY DEF Applied
<1> HIDE DEF m
<1>5. Types'
  <2>1. down' \in [Clients -> Seq(Message)]
    BY <1>1, <1>2, <1>3, DownTyped DEF Types
  <2> QED BY <1>1, <1>2, <2>1 DEF Types
<1>6. IdsTellApart' /\ ChainsThere'
  <2>1. Made' \subseteq Made
    BY <1>2 DEF Made
  <2> QED BY <1>1, <1>2, <2>1, IdsFewer, ChainsStillThere DEF IInv
<1>7. \A c \in Clients : ReadSo(c)'
  BY <1>2 DEF IInv, ReadSo
<1>8. ASSUME NEW c \in Clients PROVE WillKnow(c)'
  <2>1. Untold(c)' = Untold(c)
    BY <1>2, UntoldBut
  <2>2. CASE down' = down
    BY <1>2, <2>1, <2>2, StillKnows DEF IInv
  <2>3. CASE down' = ToAllBut({}, m)
    <3>1. link[c] = "live" => down'[c] = Append(down[c], m)
      BY <2>3 DEF ToAllBut, Registered
    <3>2. CaughtUp(c) \in Map
      BY <1>1, CaughtMap DEF Types, CaughtUp, Caught
    <3>3. Applied(CaughtUp(c), m) = CaughtUp(c)
      BY <1>4, <3>2
    <3>4. db' = db /\ link'[c] = link[c] /\ copy'[c] = copy[c] /\ behind[c] \subseteq behind'[c]
      BY <1>2
    <3> QED BY <1>1, <1>3, <1>4, <2>1, <3>1, <3>3, <3>4, ToldKept
  <2> QED BY <1>2, <2>2, <2>3
<1> QED BY <1>5, <1>6, <1>7, <1>8 DEF IInv

LEMMA MergeChainKeeps ==
  ASSUME IInv, NEW t \in tells, MergeChain(t)
  PROVE  IInv'
<1>1. Types /\ IdsTellApart
  BY DEF IInv
<1>2. /\ t.kind = "answer" /\ tells' = tells \ {t}
      /\ copy' = [copy EXCEPT ![t.by].sources = @ \cup {t.zone}]
      /\ behind' = [behind EXCEPT ![t.by] = @ \cup
           (IF t.gone THEN {"chains"} ELSE {})]
      /\ UNCHANGED <<db, link, seen, down, up, used, edits>>
  BY DEF MergeChain
<1>3. t.by \in Clients /\ t.zone \in Zones
  BY <1>1, <1>2 DEF Types, Tell
<1>4. /\ copy \in [Clients -> Map] /\ down \in [Clients -> Seq(Message)]
      /\ behind \in [Clients -> SUBSET {"chains", "conns", "nodes"}]
  BY <1>1 DEF Types
<1> DEFINE s == copy[t.by]
           r == [s EXCEPT !.sources = @ \cup {t.zone}]
           q == down[t.by]
<1>5. copy' = [copy EXCEPT ![t.by] = r] /\ s \in Map /\ q \in Seq(Message)
  BY <1>2, <1>3, <1>4
<1>6. /\ r \in Map /\ SameButSources(Caught(s, q), Caught(r, q))
      /\ ChainsKnown(s, q) /\ t.zone \in Caught(s, q).sources =>
           Caught(r, q).sources = Caught(s, q).sources /\ ChainsKnown(r, q)
  BY <1>3, <1>5, CaughtMerged
<1> HIDE DEF s, r, q
<1>7. /\ behind' \in [Clients -> SUBSET {"chains", "conns", "nodes"}]
      /\ \A c \in Clients : behind[c] \subseteq behind'[c]
  BY <1>2, <1>3, <1>4
<1>8. Types'
  <2>1. copy' \in [Clients -> Map]
    BY <1>3, <1>4, <1>5, <1>6
  <2> QED BY <1>1, <1>2, <1>7, <2>1 DEF Types
<1>9. IdsTellApart'
  <2>1. Made' \subseteq Made
    BY <1>2 DEF Made
  <2> QED BY <1>1, <1>2, <2>1, IdsFewer
<1>12. ChainsThere'
  BY <1>2, ChainsStillThere DEF IInv
<1>10. \A c \in Clients : ReadSo(c)'
  BY <1>2, <1>7 DEF IInv, ReadSo
<1>11. ASSUME NEW c \in Clients PROVE WillKnow(c)'
  <2>1. Untold(c)' = Untold(c) /\ WillKnow(c)
    BY <1>2, UntoldBut DEF IInv
  <2>2. CASE c # t.by
    <3>1. copy'[c] = copy[c]
      BY <1>4, <1>5, <2>2
    <3> QED BY <1>2, <1>7, <2>1, <3>1, StillKnows
  <2>3. CASE c = t.by
    <3>1. copy'[c] = r /\ down'[c] = q /\ link' = link /\ db' = db
      BY <1>2, <1>3, <1>4, <1>5, <2>3 DEF q
    <3>2. CaughtUp(c)' = Caught(r, q) /\ CaughtUp(c) = Caught(s, q)
      BY <2>3, <3>1 DEF CaughtUp, Caught, s, q
    <3>3. ASSUME link[c] = "live", "conns" \notin behind'[c]
          PROVE  CaughtUp(c)'.conns = db.conns
      BY <1>6, <1>7, <2>1, <3>2, <3>3 DEF WillKnow, SameButSources
    <3>4. ASSUME link[c] = "live", "nodes" \notin behind'[c]
          PROVE  db.nodes \ Untold(c) \subseteq CaughtUp(c)'.nodes
      BY <1>6, <1>7, <2>1, <3>2, <3>4 DEF WillKnow, SameButSources
    <3>5. ASSUME link[c] = "live", "chains" \notin behind'[c]
          PROVE  /\ CaughtUp(c)'.sources = db.sources /\ CaughtUp(c)'.home = db.home
                 /\ ChainsKnown(copy[c], down[c])'
      <4>6. ~t.gone
        BY <1>2, <1>3, <1>4, <2>3, <3>5
      <4>1. t.zone \in db.sources
        BY <1>2, <1>3, <4>6 DEF IInv, ChainsThere
      <4>2. CaughtUp(c).sources = db.sources /\ CaughtUp(c).home = db.home
        BY <1>7, <2>1, <3>5 DEF WillKnow
      <4>3. ChainsKnown(s, q)
        BY <1>7, <2>1, <2>3, <3>5 DEF WillKnow, s, q
      <4>4. Caught(r, q).sources = Caught(s, q).sources /\ ChainsKnown(r, q)
        BY <1>6, <3>2, <4>1, <4>2, <4>3
      <4>5. ChainsKnown(copy[c], down[c])'
        BY <3>1, <4>4
      <4> QED BY <1>6, <3>2, <4>2, <4>4, <4>5 DEF SameButSources
    <3> QED BY <2>1, <3>1, <3>3, <3>4, <3>5 DEF WillKnow
  <2> QED BY <2>2, <2>3
<1> QED BY <1>8, <1>9, <1>10, <1>11, <1>12 DEF IInv

-----------------------------------------------------------------------------
(* Sockets *)

LEMMA SaveKeeps ==
  ASSUME IInv, NEW c \in Clients, Save(c)
  PROVE  IInv'
<1> DEFINE new == [db EXCEPT !.nodes = Head(up[c])]
           back == new.nodes \ db.nodes
           t == [kind |-> "save", by |-> c]
<1>1. Types /\ IdsTellApart
  BY DEF IInv
<1>2. /\ db \in Map /\ behind \in [Clients -> SUBSET {"chains", "conns", "nodes"}]
      /\ up \in [Clients -> Snapshots]
  BY <1>1 DEF Types
<1>3. /\ up[c] # <<>>
      /\ db' = new
      /\ behind' = [Races(new) EXCEPT ![c] = @ \cup
           (IF back \subseteq CaughtUp(c).nodes THEN {} ELSE {"nodes"})]
      /\ up' = [up EXCEPT ![c] = Tail(@)]
      /\ tells' = tells \cup {t}
      /\ UNCHANGED <<copy, link, seen, down, used, edits>>
  BY DEF Save
<1>4. /\ Head(up[c]) \in SUBSET Zones /\ Tail(up[c]) \in Snapshots
      /\ Len(Tail(up[c])) <= Len(up[c])
  BY <1>2, <1>3 DEF Snapshots
<1>5. /\ new \in Map /\ new.conns = db.conns /\ new.sources = db.sources /\ new.home = db.home
      /\ t \in Tell /\ t.kind = "save" /\ t.by = c
  BY <1>2, <1>4 DEF Map, Tell
<1>6. back \subseteq CaughtUp(c).nodes \/ "nodes" \in behind'[c]
  BY <1>2, <1>3, RacesTyped
<1>7. /\ behind' \in [Clients -> SUBSET {"chains", "conns", "nodes"}]
      /\ \A d \in Clients : Races(new)[d] \subseteq behind'[d] /\ behind[d] \subseteq behind'[d]
  <2>1. Races(new) \in [Clients -> SUBSET {"chains", "conns", "nodes"}]
        /\ \A d \in Clients : behind[d] \subseteq Races(new)[d]
    BY <1>2, RacesTyped
  <2> HIDE DEF back
  <2> QED BY <1>3, <2>1
<1> HIDE DEF new, t
<1>8. Types'
  <2>1. up' \in [Clients -> Snapshots] /\ \A d \in Clients : Len(up'[d]) <= MaxUp
    <3>1. Len(up[c]) \in Nat /\ Len(Tail(up[c])) \in Nat /\ Len(up[c]) <= MaxUp
      BY <1>1, <1>2, <1>4 DEF Types, Snapshots
    <3> QED BY <1>1, <1>2, <1>3, <1>4, <3>1, ClientSyncAssumption DEF Types
  <2> QED BY <1>1, <1>3, <1>5, <1>7, <2>1 DEF Types
<1>9. IdsTellApart'
  <2>1. Made' \subseteq Made
    BY <1>3, <1>5 DEF Made
  <2> QED BY <1>1, <1>3, <2>1, IdsFewer
<1>12. ChainsThere'
  BY <1>3, <1>5, ChainsStillThere DEF IInv
<1>10. \A d \in Clients : ReadSo(d)'
  BY <1>3, <1>5, <1>7, ReadSoKept
<1>11. ASSUME NEW d \in Clients PROVE WillKnow(d)'
  <2>1. CASE d # c
    <3>1. Untold(d)' = Zones
      BY <1>3, <1>5, <2>1 DEF Untold
    <3>2. db'.nodes \ Untold(d)' = {}
      BY <1>3, <1>5, <3>1 DEF Map
    <3> QED BY <1>3, <1>5, <1>7, <3>2, StillKnows DEF IInv
  <2>2. CASE d = c
    <3>1. Untold(d)' = Untold(d)
      <4>1. {x.zone : x \in {u \in tells' : u.kind = "chain"}}
              = {x.zone : x \in {u \in tells : u.kind = "chain"}}
        BY <1>3, <1>5
      <4>2. (\E x \in tells' : x.kind = "target" \/ (x.kind = "save" /\ x.by # d))
              <=> (\E x \in tells : x.kind = "target" \/ (x.kind = "save" /\ x.by # d))
        BY <1>3, <1>5, <2>2
      <4> QED BY <4>1, <4>2 DEF Untold
    <3>2. "nodes" \notin behind'[d] => new.nodes \ db.nodes \subseteq CaughtUp(d).nodes
      BY <1>6, <2>2
    <3>3. link[d] = "live" /\ "nodes" \notin behind'[d]
            /\ db.nodes \ Untold(d) \subseteq CaughtUp(d).nodes
          => db'.nodes \ Untold(d)' \subseteq CaughtUp(d).nodes
      BY <1>3, <3>1, <3>2
    <3> QED BY <1>3, <1>5, <1>7, <3>3, StillKnows DEF IInv
  <2> QED BY <2>1, <2>2
<1> QED BY <1>8, <1>9, <1>10, <1>11, <1>12 DEF IInv

\* A client whose handshake is under way is owed nothing yet, and the others
\* notice nothing of it.
LEMMA HandshakeKeeps ==
  ASSUME IInv, NEW c \in Clients, NEW from, NEW to \in {"room", "conns", "nodes"},
         NEW part \in Map, Handshake(c, from, to, part),
         down' = down, edits' \in 0..MaxEdits,
         behind' \in [Clients -> SUBSET {"chains", "conns", "nodes"}],
         \A d \in Clients \ {c} : behind'[d] = behind[d],
         ReadSo(c)'
  PROVE  IInv'
<1>1. Types /\ IdsTellApart
  BY DEF IInv
<1>2. /\ link' = [link EXCEPT ![c] = to] /\ seen' = [seen EXCEPT ![c] = part]
      /\ UNCHANGED <<db, copy, up, tells, used>>
  BY DEF Handshake
<1>3. Types'
  BY <1>1, <1>2 DEF Types
<1>4. IdsTellApart' /\ ChainsThere'
  BY <1>1, <1>2, ChainsStillThere DEF IInv, IdsTellApart, Made
<1>5. \A d \in Clients : ReadSo(d)'
  <2>1. ASSUME NEW d \in Clients, d # c PROVE ReadSo(d)'
    <3>1. link'[d] = link[d] /\ seen'[d] = seen[d] /\ behind'[d] = behind[d]
      BY <1>1, <1>2, <2>1 DEF Types
    <3> QED BY <1>2, <3>1 DEF IInv, ReadSo
  <2> QED BY <2>1
<1>6. ASSUME NEW d \in Clients PROVE WillKnow(d)'
  <2>1. CASE d = c
    <3>1. link'[d] # "live"
      BY <1>1, <1>2, <2>1 DEF Types
    <3> QED BY <3>1 DEF WillKnow
  <2>2. CASE d # c
    <3>1. link'[d] = link[d] /\ behind'[d] = behind[d]
      BY <1>1, <1>2, <2>2 DEF Types
    <3>2. Untold(d)' = Untold(d)
      BY <1>2 DEF Untold
    <3> QED BY <1>2, <3>1, <3>2, StillKnows DEF IInv
  <2> QED BY <2>1, <2>2
<1> QED BY <1>3, <1>4, <1>5, <1>6 DEF IInv

LEMMA RegisterKeeps ==
  ASSUME IInv, NEW c \in Clients, Register(c)
  PROVE  IInv'
<1> DEFINE part == [EmptyStore EXCEPT !.home = db.home, !.sources = db.sources]
<1>1. Types /\ db \in Map
  BY DEF IInv, Types
<1>2. part \in Map /\ part.home = db.home /\ part.sources = db.sources
  BY <1>1, ClientSyncAssumption DEF Map, EmptyStore
<1>3. /\ edits < MaxEdits /\ edits' = edits + 1
      /\ Handshake(c, "away", "room", part)
      /\ behind' = [behind EXCEPT ![c] = {}] /\ down' = down
  BY DEF Register
<1> HIDE DEF part
<1>4. edits' \in 0..MaxEdits
  BY <1>1, <1>3, ClientSyncAssumption DEF Types
<1>5. /\ behind' \in [Clients -> SUBSET {"chains", "conns", "nodes"}]
      /\ \A d \in Clients \ {c} : behind'[d] = behind[d]
  BY <1>1, <1>3 DEF Types
<1>6. link'[c] = "room" /\ seen'[c] = part /\ db' = db
  BY <1>1, <1>3 DEF Types, Handshake
<1>7. ReadSo(c)'
  BY <1>2, <1>6 DEF ReadSo
<1> QED BY <1>2, <1>3, <1>4, <1>5, <1>7, HandshakeKeeps

LEMMA ReadConnectionsKeeps ==
  ASSUME IInv, NEW c \in Clients, ReadConnections(c)
  PROVE  IInv'
<1> DEFINE part == [seen[c] EXCEPT !.conns = db.conns]
<1>1. Types /\ db \in Map /\ seen[c] \in Map /\ ReadSo(c)
  BY DEF IInv, Types
<1>2. /\ part \in Map /\ part.home = seen[c].home /\ part.sources = seen[c].sources
      /\ part.conns = db.conns
  BY <1>1 DEF Map
<1>3. /\ Handshake(c, "room", "conns", part) /\ UNCHANGED <<down, behind, edits>>
  BY DEF ReadConnections
<1> HIDE DEF part
<1>4. edits' \in 0..MaxEdits /\ behind' \in [Clients -> SUBSET {"chains", "conns", "nodes"}]
  BY <1>1, <1>3 DEF Types
<1>5. link[c] = "room" /\ link'[c] = "conns" /\ seen'[c] = part /\ db' = db
  BY <1>1, <1>3 DEF Types, Handshake
<1>6. ReadSo(c)'
  BY <1>1, <1>2, <1>3, <1>5 DEF ReadSo
<1> QED BY <1>2, <1>3, <1>4, <1>6, HandshakeKeeps

LEMMA ReadNodesKeeps ==
  ASSUME IInv, NEW c \in Clients, ReadNodes(c)
  PROVE  IInv'
<1> DEFINE part == [seen[c] EXCEPT !.nodes = db.nodes]
<1>1. Types /\ db \in Map /\ seen[c] \in Map /\ ReadSo(c)
  BY DEF IInv, Types
<1>2. /\ part \in Map /\ part.home = seen[c].home /\ part.sources = seen[c].sources
      /\ part.conns = seen[c].conns /\ part.nodes = db.nodes
  BY <1>1 DEF Map
<1>3. /\ Handshake(c, "conns", "nodes", part) /\ UNCHANGED <<down, behind, edits>>
  BY DEF ReadNodes
<1> HIDE DEF part
<1>4. edits' \in 0..MaxEdits /\ behind' \in [Clients -> SUBSET {"chains", "conns", "nodes"}]
  BY <1>1, <1>3 DEF Types
<1>5. link[c] = "conns" /\ link'[c] = "nodes" /\ seen'[c] = part /\ db' = db
  BY <1>1, <1>3 DEF Types, Handshake
<1>6. ReadSo(c)'
  BY <1>1, <1>2, <1>3, <1>5 DEF ReadSo
<1> QED BY <1>2, <1>3, <1>4, <1>6, HandshakeKeeps

LEMMA SendSyncKeeps ==
  ASSUME IInv, NEW c \in Clients, SendSync(c)
  PROVE  IInv'
<1> DEFINE m == [kind |-> "sync", map |-> seen[c]]
<1>1. Types /\ IdsTellApart /\ ReadSo(c)
  BY DEF IInv
<1>2. /\ seen \in [Clients -> Map] /\ copy \in [Clients -> Map]
      /\ down \in [Clients -> Seq(Message)] /\ EmptyStore \in Map
      /\ link \in [Clients -> {"away", "room", "conns", "nodes", "live"}]
  BY <1>1, ClientSyncAssumption DEF Types, Map, EmptyStore
<1>3. /\ link[c] = "nodes" /\ link' = [link EXCEPT ![c] = "live"]
      /\ seen' = [seen EXCEPT ![c] = EmptyStore]
      /\ down' = [down EXCEPT ![c] = Append(@, m)]
      /\ UNCHANGED <<db, copy, up, tells, used, behind, edits>>
  BY DEF SendSync, Handshake
<1>4. m \in Message /\ m.kind = "sync" /\ m.map = seen[c]
  BY <1>2 DEF Message
<1> HIDE DEF m
<1>5. \A s \in Map : Applied(s, m) = seen[c]
  BY <1>4 DEF Applied
<1>6. Types'
  <2>1. /\ link' \in [Clients -> {"away", "room", "conns", "nodes", "live"}]
        /\ seen' \in [Clients -> Map] /\ down' \in [Clients -> Seq(Message)]
    BY <1>2, <1>3, <1>4
  <2> QED BY <1>1, <1>3, <2>1 DEF Types
<1>7. IdsTellApart' /\ ChainsThere'
  BY <1>1, <1>3, ChainsStillThere DEF IInv, IdsTellApart, Made
<1>8. ASSUME NEW d \in Clients PROVE ReadSo(d)' /\ WillKnow(d)'
  <2>1. Untold(d)' = Untold(d)
    BY <1>3 DEF Untold
  <2>2. CASE d # c
    <3>1. link'[d] = link[d] /\ seen'[d] = seen[d] /\ down'[d] = down[d]
      BY <1>2, <1>3, <2>2
    <3>2. ReadSo(d)'
      BY <1>3, <3>1 DEF IInv, ReadSo
    <3> QED BY <1>3, <2>1, <3>1, <3>2, StillKnows DEF IInv
  <2>3. CASE d = c
    <3>1. link'[c] = "live" /\ down'[c] = Append(down[c], m) /\ copy'[c] = copy[c]
      BY <1>2, <1>3
    <3>2. copy[c] \in Map /\ down[c] \in Seq(Message)
      BY <1>2
    <3>3. CaughtUp(c)' = Caught(copy[c], Append(down[c], m))
      BY <3>1 DEF CaughtUp, Caught
    <3>4. CaughtUp(c)' = seen[c]
      BY <1>4, <1>5, <3>2, <3>3, CaughtAppend, CaughtMap
    <3>5. ChainsKnown(copy[c], Append(down[c], m))
      BY <1>4, <3>2, CaughtAppend
    <3>6. ChainsKnown(copy[c], down[c])'
      BY <3>1, <3>5
    <3>7. ReadSo(c)'
      BY <3>1 DEF ReadSo
    <3>8. WillKnow(c)'
      BY <1>1, <1>3, <3>4, <3>6 DEF WillKnow, ReadSo
    <3> QED BY <2>3, <3>7, <3>8
  <2> QED BY <2>2, <2>3
<1> QED BY <1>6, <1>7, <1>8 DEF IInv

LEMMA LeaveKeeps ==
  ASSUME IInv, NEW c \in Clients, Leave(c)
  PROVE  IInv'
<1> DEFINE R(t) == IF t.kind = "save" /\ t.by = c THEN [t EXCEPT !.by = "gone"] ELSE t
<1>1. Types /\ IdsTellApart
  BY DEF IInv
<1>2. /\ edits < MaxEdits /\ edits' = edits + 1
      /\ link' = [link EXCEPT ![c] = "away"] /\ seen' = [seen EXCEPT ![c] = EmptyStore]
      /\ down' = [down EXCEPT ![c] = <<>>] /\ up' = [up EXCEPT ![c] = <<>>]
      /\ behind' = [behind EXCEPT ![c] = {}]
      /\ tells' = {R(t) : t \in tells}
      /\ UNCHANGED <<db, copy, used>>
  BY DEF Leave
<1>3. \A t \in Tell : /\ R(t) \in Tell /\ R(t).kind = t.kind
                      /\ t.kind # "save" => R(t) = t
                      /\ t.kind = "save" => R(t).by = IF t.by = c THEN "gone" ELSE t.by
  BY DEF Tell
<1>4. tells \subseteq Tell
  BY <1>1 DEF Types
<1> HIDE DEF R
<1>5. Types'
  <2>1. /\ link' \in [Clients -> {"away", "room", "conns", "nodes", "live"}]
        /\ seen' \in [Clients -> Map] /\ down' \in [Clients -> Seq(Message)]
        /\ behind' \in [Clients -> SUBSET {"chains", "conns", "nodes"}]
    BY <1>1, <1>2, ClientSyncAssumption DEF Types, Map, EmptyStore
  <2>2. up' \in [Clients -> Snapshots] /\ \A d \in Clients : Len(up'[d]) <= MaxUp
    BY <1>1, <1>2, ClientSyncAssumption DEF Types, Snapshots
  <2>3. edits' \in 0..MaxEdits
    BY <1>1, <1>2, ClientSyncAssumption DEF Types
  <2>4. tells' \subseteq Tell
    BY <1>2, <1>3, <1>4
  <2> QED BY <1>1, <1>2, <2>1, <2>2, <2>3, <2>4 DEF Types
<1>6. IdsTellApart' /\ ChainsThere'
  <2>1. Made' \subseteq Made
    BY <1>2, <1>3, <1>4 DEF Made
  <2>2. \A t \in tells' : t.kind \in {"chain", "answer"} => t \in tells
    BY <1>2, <1>3, <1>4
  <2> QED BY <1>1, <1>2, <2>1, <2>2, IdsFewer, ChainsStillThere DEF IInv
<1>7. ASSUME NEW d \in Clients, d # c PROVE Untold(d)' = Untold(d)
  <2>1. {x.zone : x \in {u \in tells' : u.kind = "chain"}}
          = {x.zone : x \in {u \in tells : u.kind = "chain"}}
    <3>1. {u \in tells' : u.kind = "chain"} = {u \in tells : u.kind = "chain"}
      BY <1>2, <1>3, <1>4
    <3> QED BY <3>1
  <2>2. ASSUME NEW x \in tells, x.kind = "target" \/ (x.kind = "save" /\ x.by # d)
        PROVE  \E y \in tells' : y.kind = "target" \/ (y.kind = "save" /\ y.by # d)
    <3>1. R(x) \in tells' /\ x \in Tell
      BY <1>2, <1>4
    <3> QED BY <1>3, <1>7, <2>2, <3>1, ClientSyncAssumption
  <2>3. ASSUME NEW y \in tells', y.kind = "target" \/ (y.kind = "save" /\ y.by # d)
        PROVE  \E x \in tells : x.kind = "target" \/ (x.kind = "save" /\ x.by # d)
    <3>1. PICK x \in tells : y = R(x)
      BY <1>2
    <3>2. x \in Tell
      BY <1>4
    <3> QED BY <1>3, <1>7, <2>3, <3>1, <3>2
  <2> QED BY <2>1, <2>2, <2>3 DEF Untold
<1>8. ASSUME NEW d \in Clients PROVE ReadSo(d)' /\ WillKnow(d)'
  <2>1. CASE d # c
    <3>1. /\ link'[d] = link[d] /\ seen'[d] = seen[d] /\ down'[d] = down[d]
          /\ behind'[d] = behind[d]
      BY <1>1, <1>2, <2>1 DEF Types
    <3>2. ReadSo(d)'
      BY <1>2, <3>1 DEF IInv, ReadSo
    <3> QED BY <1>2, <1>7, <2>1, <3>1, <3>2, StillKnows DEF IInv
  <2>2. CASE d = c
    <3>1. link'[d] = "away"
      BY <1>1, <1>2, <2>2 DEF Types
    <3> QED BY <3>1 DEF ReadSo, WillKnow
  <2> QED BY <2>1, <2>2
<1> QED BY <1>5, <1>6, <1>8 DEF IInv

-----------------------------------------------------------------------------
(* Browsers *)

\* What a client does to its own queues and copy, no more: it stays owed what
\* it was owed.
LEMMA ClientKeeps ==
  ASSUME IInv, NEW c \in Clients,
         UNCHANGED <<db, link, seen, tells, behind, used>>,
         copy' \in [Clients -> Map], down' \in [Clients -> Seq(Message)],
         up' \in [Clients -> Snapshots], \A d \in Clients : Len(up'[d]) <= MaxUp,
         edits' \in 0..MaxEdits,
         \A d \in Clients \ {c} : copy'[d] = copy[d] /\ down'[d] = down[d],
         MoreNodes(CaughtUp(c), CaughtUp(c)'),
         ChainsKnown(copy[c], down[c]) => ChainsKnown(copy[c], down[c])'
  PROVE  IInv'
<1>1. Types /\ IdsTellApart
  BY DEF IInv
<1>2. Types'
  BY <1>1 DEF Types
<1>3. IdsTellApart' /\ ChainsThere'
  BY <1>1, ChainsStillThere DEF IInv, IdsTellApart, Made
<1>4. ASSUME NEW d \in Clients PROVE ReadSo(d)' /\ WillKnow(d)'
  <2>1. Untold(d)' = Untold(d)
    BY DEF Untold
  <2>2. ReadSo(d)'
    BY DEF IInv, ReadSo
  <2>3. CASE d # c
    <3>1. copy'[d] = copy[d] /\ down'[d] = down[d]
      BY <2>3
    <3> QED BY <2>1, <2>2, <3>1, StillKnows DEF IInv
  <2>4. CASE d = c
    <3>1. WillKnow(c)
      BY DEF IInv
    <3>2. ASSUME link[c] = "live", "chains" \notin behind[c]
          PROVE  ChainsKnown(copy[c], down[c])'
      BY <3>1, <3>2 DEF WillKnow
    <3>3. WillKnow(c)'
      BY <2>1, <2>4, <3>1, <3>2 DEF WillKnow, MoreNodes
    <3> QED BY <2>2, <2>4, <3>3
  <2> QED BY <2>3, <2>4
<1> QED BY <1>2, <1>3, <1>4 DEF IInv

LEMMA MarksNat ==
  ASSUME NEW s \in Map, NEW m \in Message
  PROVE  Marks(s, m) \subseteq Nat
<1>1. CASE m.kind \in {"connection_added", "connection_updated"}
  <2>1. IsFiniteSet({m.conn.from} \cup {m.conn.to})
    BY FS_Singleton, FS_Union
  <2>2. Ends(m.conn) = {m.conn.from} \cup {m.conn.to}
    BY DEF Ends
  <2>3. IsFiniteSet(Ends(m.conn) \cap s.nodes)
    BY <2>1, <2>2, FS_Intersection
  <2>4. Cardinality(Ends(m.conn) \cap s.nodes) \in Nat
    BY <2>3, FS_CardinalityType
  <2>5. Marks(s, m) = 0..Cardinality(Ends(m.conn) \cap s.nodes)
    BY <1>1 DEF Marks
  <2> QED BY <2>4, <2>5
<1>2. CASE m.kind \notin {"connection_added", "connection_updated"}
  BY <1>2 DEF Marks
<1> QED BY <1>1, <1>2

LEMMA ConcatTyped ==
  ASSUME NEW S, NEW a \in Seq(S), NEW b \in Seq(S)
  PROVE  a \o b \in Seq(S) /\ Len(a \o b) = Len(a) + Len(b)
OBVIOUS

LEMMA DeliverKeeps ==
  ASSUME IInv, NEW c \in Clients, Deliver(c)
  PROVE  IInv'
<1> DEFINE s == copy[c]
           q == down[c]
           t == Applied(s, Head(q))
<1>1. Types
  BY DEF IInv
<1>2. /\ copy \in [Clients -> Map] /\ down \in [Clients -> Seq(Message)]
      /\ up \in [Clients -> Snapshots] /\ s \in Map /\ q \in Seq(Message)
  BY <1>1 DEF Types
<1>3. /\ q # <<>> /\ copy' = [copy EXCEPT ![c] = t] /\ down' = [down EXCEPT ![c] = Tail(q)]
      /\ UNCHANGED <<db, link, seen, tells, behind, used, edits>>
  BY <1>2 DEF Deliver
<1>4. PICK n \in Marks(s, Head(q)) :
        /\ Len(up[c]) + n <= MaxUp
        /\ up' = [up EXCEPT ![c] = @ \o [i \in 1..n |-> s.nodes]]
  BY DEF Deliver
<1> HIDE DEF s, q, t
<1>5. /\ Head(q) \in Message /\ Tail(q) \in Seq(Message)
      /\ Caught(t, Tail(q)) = Caught(s, q)
      /\ ChainsKnown(s, q) => ChainsKnown(t, Tail(q))
  BY <1>2, <1>3, CaughtHead DEF t
<1>6. t \in Map
  BY <1>2, <1>5, AppliedMap DEF t
<1>7. up' \in [Clients -> Snapshots] /\ \A d \in Clients : Len(up'[d]) <= MaxUp
  <2>1. n \in Nat
    BY <1>2, <1>4, <1>5, MarksNat
  <2>2. s.nodes \in SUBSET Zones
    BY <1>2 DEF Map
  <2> DEFINE marks == [i \in 1..n |-> s.nodes]
             more == up[c] \o marks
  <2>3. marks \in Snapshots /\ Len(marks) = n
    BY <2>1, <2>2 DEF Snapshots
  <2>5. up' = [up EXCEPT ![c] = more]
    BY <1>4
  <2> HIDE DEF marks
  <2>4. more \in Snapshots /\ Len(more) = Len(up[c]) + n
    <3>1. up[c] \in Seq(SUBSET Zones) /\ marks \in Seq(SUBSET Zones)
      BY <1>2, <2>3 DEF Snapshots
    <3> QED BY <2>3, <3>1, ConcatTyped DEF Snapshots
  <2> HIDE DEF more
  <2>6. \A d \in Clients : up'[d] = IF d = c THEN more ELSE up[d]
    BY <1>2, <2>5
  <2>7. \A d \in Clients : Len(up'[d]) <= MaxUp
    BY <1>1, <1>4, <2>4, <2>6 DEF Types
  <2>8. up' \in [Clients -> Snapshots]
    BY <1>2, <2>4, <2>5
  <2> QED BY <2>7, <2>8
<1>8. /\ copy'[c] = t /\ down'[c] = Tail(q)
      /\ copy' \in [Clients -> Map] /\ down' \in [Clients -> Seq(Message)]
      /\ \A d \in Clients \ {c} : copy'[d] = copy[d] /\ down'[d] = down[d]
  BY <1>2, <1>3, <1>5, <1>6
<1>9. MoreNodes(CaughtUp(c), CaughtUp(c)')
  <2>1. CaughtUp(c) = Caught(s, q)
    BY DEF CaughtUp, Caught, s, q
  <2>2. CaughtUp(c)' = Caught(t, Tail(q))
    BY <1>8 DEF CaughtUp, Caught
  <2> QED BY <1>5, <2>1, <2>2 DEF MoreNodes
<1>10. ASSUME ChainsKnown(copy[c], down[c]) PROVE ChainsKnown(copy[c], down[c])'
  <2>1. ChainsKnown(t, Tail(q))
    BY <1>5, <1>10 DEF s, q
  <2> QED BY <1>8, <2>1
<1>11. edits' \in 0..MaxEdits
  BY <1>1, <1>3 DEF Types
<1> QED BY <1>3, <1>7, <1>8, <1>9, <1>10, <1>11, ClientKeeps

LEMMA SentKeeps ==
  ASSUME IInv, NEW c \in Clients, NEW all \in SUBSET Zones, copy[c].nodes \subseteq all,
         Sent(c, all)
  PROVE  IInv'
<1> DEFINE s == copy[c]
           q == down[c]
           t == [s EXCEPT !.nodes = all]
<1>1. Types
  BY DEF IInv
<1>2. /\ copy \in [Clients -> Map] /\ down \in [Clients -> Seq(Message)]
      /\ up \in [Clients -> Snapshots] /\ s \in Map /\ q \in Seq(Message)
  BY <1>1 DEF Types
<1>3. /\ edits < MaxEdits /\ edits' = edits + 1
      /\ copy' = [copy EXCEPT ![c] = t]
      /\ up' = up \/ (Len(up[c]) < MaxUp /\ up' = [up EXCEPT ![c] = Append(@, all)])
      /\ UNCHANGED <<db, link, seen, down, tells, behind, used>>
  BY <1>2 DEF Sent
<1>4. t \in Map /\ MoreNodes(s, t)
  BY <1>2 DEF Map, MoreNodes
<1> HIDE DEF s, q, t
<1>5. /\ MoreNodes(Caught(s, q), Caught(t, q))
      /\ ChainsKnown(s, q) => ChainsKnown(t, q)
  BY <1>2, <1>4, CaughtMoreNodes
<1>6. up' \in [Clients -> Snapshots] /\ \A d \in Clients : Len(up'[d]) <= MaxUp
  <2>1. /\ Append(up[c], all) \in Snapshots /\ Len(Append(up[c], all)) = Len(up[c]) + 1
        /\ Len(up[c]) \in Nat
    BY <1>2 DEF Snapshots
  <2> DEFINE more == Append(up[c], all)
  <2> HIDE DEF more
  <2>2. CASE up' = up
    BY <1>1, <2>2 DEF Types
  <2>3. CASE Len(up[c]) < MaxUp /\ up' = [up EXCEPT ![c] = more]
    BY <1>1, <1>2, <2>1, <2>3, ClientSyncAssumption DEF Types, more
  <2> QED BY <1>3, <2>2, <2>3 DEF more
<1>7. /\ copy'[c] = t /\ down'[c] = q
      /\ copy' \in [Clients -> Map] /\ down' \in [Clients -> Seq(Message)]
      /\ \A d \in Clients \ {c} : copy'[d] = copy[d] /\ down'[d] = down[d]
  BY <1>2, <1>3, <1>4 DEF q
<1>8. MoreNodes(CaughtUp(c), CaughtUp(c)')
  <2>1. CaughtUp(c) = Caught(s, q)
    BY DEF CaughtUp, Caught, s, q
  <2>2. CaughtUp(c)' = Caught(t, q)
    BY <1>7 DEF CaughtUp, Caught
  <2> QED BY <1>5, <2>1, <2>2
<1>9. ASSUME ChainsKnown(copy[c], down[c]) PROVE ChainsKnown(copy[c], down[c])'
  <2>1. ChainsKnown(t, q)
    BY <1>5, <1>9 DEF s, q
  <2> QED BY <1>7, <2>1
<1>10. edits' \in 0..MaxEdits
  BY <1>1, <1>3, ClientSyncAssumption DEF Types
<1> QED BY <1>3, <1>6, <1>7, <1>8, <1>9, <1>10, ClientKeeps

LEMMA DragStopKeeps ==
  ASSUME IInv, NEW c \in Clients, DragStop(c)
  PROVE  IInv'
<1>1. copy[c] \in Map
  BY DEF IInv, Types
<1>2. Drawn(copy[c]) \in SUBSET Zones /\ copy[c].nodes \subseteq Drawn(copy[c])
  BY <1>1 DEF Drawn, EndsOf, Ends, Map
<1> QED BY <1>2, SentKeeps DEF DragStop

LEMMA EditNodeKeeps ==
  ASSUME IInv, NEW c \in Clients, EditNode(c)
  PROVE  IInv'
<1>1. copy[c].nodes \in SUBSET Zones
  BY DEF IInv, Types, Map
<1> QED BY <1>1, SentKeeps DEF EditNode

-----------------------------------------------------------------------------
(* The theorems *)

LEMMA InitIInv == Init => IInv
<1> SUFFICES ASSUME Init PROVE IInv
  OBVIOUS
<1>1. NewRoom \in Map /\ EmptyStore \in Map
  BY ClientSyncAssumption DEF Map, NewRoom, EmptyStore
<1>2. /\ db = NewRoom /\ link \in [Clients -> {"away", "live"}]
      /\ copy = [c \in Clients |-> IF link[c] = "live" THEN NewRoom ELSE EmptyStore]
      /\ seen = [c \in Clients |-> EmptyStore]
      /\ down = [c \in Clients |-> <<>>] /\ up = [c \in Clients |-> <<>>]
      /\ tells = {} /\ behind = [c \in Clients |-> {}] /\ used = {} /\ edits = 0
  BY DEF Init
<1>3. Types
  <2>1. <<>> \in Seq(Message) /\ <<>> \in Snapshots /\ Len(<<>>) = 0
    BY DEF Snapshots
  <2>2. copy \in [Clients -> Map]
    BY <1>1, <1>2
  <2>3. down \in [Clients -> Seq(Message)] /\ up \in [Clients -> Snapshots]
        /\ \A c \in Clients : Len(up[c]) <= MaxUp
    BY <1>2, <2>1, ClientSyncAssumption
  <2>4. edits \in 0..MaxEdits
    BY <1>2, ClientSyncAssumption
  <2> QED BY <1>1, <1>2, <2>2, <2>3, <2>4 DEF Types
<1>4. IdsTellApart /\ ChainsThere
  BY <1>2 DEF IdsTellApart, Made, NewRoom, ChainsThere
<1>5. ASSUME NEW c \in Clients PROVE ReadSo(c) /\ WillKnow(c)
  <2>1. ReadSo(c)
    BY <1>2, <1>5 DEF ReadSo
  <2>2. ASSUME link[c] = "live" PROVE WillKnow(c)
    <3>1. copy[c] = db /\ down[c] = <<>>
      BY <1>2, <2>2
    <3>2. CaughtUp(c) = Caught(db, <<>>)
      BY <3>1 DEF CaughtUp, Caught
    <3>3. CaughtUp(c) = db
      BY <3>2, CaughtEmpty
    <3>4. ChainsKnown(copy[c], down[c])
      BY <3>1, CaughtEmpty
    <3> QED BY <3>3, <3>4 DEF WillKnow
  <2> QED BY <2>1, <2>2 DEF WillKnow
<1> QED BY <1>3, <1>4, <1>5 DEF IInv

LEMMA NextIInv == IInv /\ [Next]_vars => IInv'
<1> SUFFICES ASSUME IInv, [Next]_vars PROVE IInv'
  OBVIOUS
<1>1. CASE ClientStep
  BY <1>1, DeliverKeeps, DragStopKeeps, EditNodeKeeps DEF ClientStep
<1>2. CASE RequestStep
  <2>1. ASSUME NEW i \in ConnIds, NEW f \in Zones, NEW t \in Zones,
               PlaceTarget([id |-> i, from |-> f, to |-> t])
        PROVE  IInv'
    <3>1. [id |-> i, from |-> f, to |-> t] \in Conn
      BY DEF Conn
    <3> QED BY <2>1, <3>1, PlaceTargetKeeps
  <2>2. ASSUME NEW K, RemoveConnections(K) \/ Expire(K) PROVE IInv'
    BY <2>2, RemoveConnectionsKeeps, ExpireKeeps
  <2>3. ASSUME NEW k, UpdateConnection(k) PROVE IInv'
    BY <2>3, UpdateConnectionKeeps
  <2>4. ASSUME NEW z \in Zones, RotateZone(z) \/ RemoveNode(z) PROVE IInv'
    BY <2>4, RotateZoneKeeps, RemoveNodeKeeps
  <2>5. ASSUME NEW c \in Clients, NEW z \in Zones, AddChain(c, z) PROVE IInv'
    BY <2>5, AddChainKeeps
  <2>6. ASSUME NEW s, NEW Z, RemoveChain(s, Z) PROVE IInv'
    BY <2>6, RemoveChainKeeps
  <2>7. ASSUME NEW s, NEW Z, NEW to \in Zones, RelocateChain(s, to, Z) PROVE IInv'
    BY <2>7, RelocateChainKeeps
  <2>8. CASE ResetRoom
    BY <2>8, ResetRoomKeeps
  <2>9. ASSUME NEW f \in Imports, ImportRoom(f) PROVE IInv'
    BY <2>9, ImportRoomKeeps
  <2> QED BY <1>2, <2>1, <2>2, <2>3, <2>4, <2>5, <2>6, <2>7, <2>8, <2>9 DEF RequestStep
<1>3. CASE TellStep
  BY <1>3, TellChainKeeps, TellTargetKeeps, InsertConnectionKeeps, TellSaveKeeps,
     MergeChainKeeps, TellUpdateKeeps DEF TellStep
<1>4. CASE LinkStep
  BY <1>4, RegisterKeeps, ReadConnectionsKeeps, ReadNodesKeeps, SendSyncKeeps, LeaveKeeps,
     SaveKeeps DEF LinkStep
<1>5. CASE UNCHANGED vars
  <2>1. UNCHANGED <<db, copy, link, seen, down, up, tells, behind, used, edits>>
    BY <1>5 DEF vars
  <2>2. Types' /\ IdsTellApart' /\ ChainsThere'
    BY <2>1 DEF IInv, Types, IdsTellApart, Made, ChainsThere
  <2>3. ASSUME NEW c \in Clients PROVE ReadSo(c)' /\ WillKnow(c)'
    <3>1. Untold(c)' = Untold(c)
      BY <2>1 DEF Untold
    <3>2. WillKnow(c)'
      BY <2>1, <3>1, StillKnows DEF IInv
    <3> QED BY <2>1, <3>2 DEF IInv, ReadSo
  <2> QED BY <2>2, <2>3 DEF IInv
<1> QED BY <1>1, <1>2, <1>3, <1>4, <1>5 DEF Next

\* The invariant that the two theorems below are read off: ids tell the
\* connections that are there or on their way apart, a handshake has read what
\* is still so, and each client that joined will know the room, but for what it
\* is behind in (auth.ts:62, useRoomStore.ts:366).
THEOREM SyncInductive == Spec => []IInv
BY InitIInv, NextIInv, PTL DEF Spec

\* In rooms of any size, with any number of members, queues and edits, no
\* order of edits, full saves and broadcasts hides a node from a client that
\* has applied what was on its way (update_node_positions.ts:71).
THEOREM NodesReachEveryone == Spec => []KnowsEveryNode
<1>1. IInv => KnowsEveryNode
  BY DEF IInv, WillKnow, KnowsEveryNode
<1> QED BY <1>1, SyncInductive, PTL

\* ... and its connections, chains and home zone are the server's
\* (useRoomStore.ts:366).
THEOREM MapsAgree == Spec => []SameMap
<1>1. IInv => SameMap
  <2> SUFFICES ASSUME IInv PROVE SameMap
    OBVIOUS
  <2>1. \A c \in Clients : up[c] \in Seq(SUBSET Zones)
    BY DEF IInv, Types, Snapshots
  <2>2. \A c \in Clients : \A i \in DOMAIN up[c] : up[c][i] \subseteq Zones
    BY <2>1
  <2>3. TypeOK
    BY <2>2 DEF IInv, Types, TypeOK
  <2> QED BY <2>3 DEF IInv, WillKnow, SameMap
<1> QED BY <1>1, SyncInductive, PTL
=============================================================================
