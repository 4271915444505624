----------------------------- MODULE RouteProofs -----------------------------
(***************************************************************************)
(* Proofs about ZoneWalks, ZonePaths and PlotRoute: what the walks over a  *)
(* list of connections find, that the map they are used on keeps to what   *)
(* they need, and where a plotted route gets to.                           *)
(***************************************************************************)
EXTENDS PlotRoute, ZonePaths, FiniteSetTheorems, WellFoundedInduction, TLAPS

-----------------------------------------------------------------------------
(* Lists and iteration *)

\* The only set of numbers that holds 0 and with every number the next.
LEMMA NatSet ==
    ASSUME NEW S \in SUBSET Nat, 0 \in S, \A n \in S : n + 1 \in S
    PROVE  S = Nat
<1>1. SUFFICES ASSUME Nat \ S # {} PROVE FALSE
  OBVIOUS
<1>2. PICK T : T = Nat \ S
  OBVIOUS
<1>3. PICK R : R = OpToRel(<, Nat) /\ IsWellFoundedOn(R, Nat)
  BY NatLessThanWellFounded
<1>4. PICK x \in T : \A y \in T : <<y, x>> \notin R
  BY <1>1, <1>2, <1>3, WFMin
<1>5. \A y \in T : ~(y < x)
  BY <1>2, <1>3, <1>4 DEF OpToRel
<1>6. x \in Nat /\ x # 0 /\ x - 1 \in Nat /\ x - 1 < x
  BY <1>2, <1>4
<1>7. x \in S
  BY <1>2, <1>5, <1>6
<1> QED BY <1>2, <1>4, <1>7

\* A function can be applied over and over.
Iterates(V, base, step, n, it) ==
  it \in [0..n -> V] /\ it[0] = base /\ \A i \in 1..n : it[i] = step[it[i - 1]]

LEMMA Iterated ==
    ASSUME NEW V, NEW base, base \in V, NEW step, step \in [V -> V], NEW n \in Nat
    PROVE  \E it : Iterates(V, base, step, n, it)
<1> DEFINE Is(it, m) == it \in [0..m -> V] /\ it[0] = base /\ \A i \in 1..m : it[i] = step[it[i - 1]]
           S == {m \in Nat : \E it : Is(it, m)}
<1>1. 0 \in S
  <2>1. Is([i \in 0..0 |-> base], 0)
    OBVIOUS
  <2> QED BY <2>1
<1>2. ASSUME NEW m \in S PROVE m + 1 \in S
  <2>1. PICK it : Is(it, m)
    OBVIOUS
  <2>2. PICK jt : jt = [i \in 0..(m + 1) |-> IF i = m + 1 THEN step[it[m]] ELSE it[i]]
    OBVIOUS
  <2>3. it[m] \in V /\ step[it[m]] \in V
    BY <2>1
  <2>4. \A i \in 0..(m + 1) : i = m + 1 \/ i \in 0..m
    OBVIOUS
  <2>5. jt \in [0..(m + 1) -> V]
    BY <2>1, <2>2, <2>3, <2>4
  <2>6. ASSUME NEW i \in 1..(m + 1) PROVE jt[i] = step[jt[i - 1]]
    <3>1. CASE i = m + 1
      BY <2>2, <3>1
    <3>2. CASE i \in 1..m
      <4>1. i \in 0..(m + 1) /\ i - 1 \in 0..(m + 1) /\ i # m + 1 /\ i - 1 # m + 1
        BY <3>2
      <4> QED BY <2>1, <2>2, <3>2, <4>1
    <3> QED BY <3>1, <3>2
  <2>7. jt[0] = base
    BY <2>1, <2>2
  <2>8. Is(jt, m + 1)
    BY <2>5, <2>6, <2>7
  <2> QED BY <2>8
<1>3. S = Nat
  <2> HIDE DEF S
  <2>1. S \subseteq Nat
    BY DEF S
  <2> QED BY <1>1, <1>2, <2>1, NatSet
<1>4. n \in S
  BY <1>3
<1> QED BY <1>4 DEF Iterates


\* What Kept's function leaves at each place.
KeptBy(L, K, f) ==
  f = [i \in 0..Len(L) |->
         IF i = 0 THEN <<>> ELSE IF i \in K THEN Append(f[i-1], L[i]) ELSE f[i-1]]

LEMMA SomeKeptBy ==
    ASSUME NEW V, NEW L \in Seq(V), NEW K
    PROVE  \E f : KeptBy(L, K, f)
<1> DEFINE Is(f, m) == /\ f \in [0..m -> Seq(V)] /\ f[0] = <<>>
                       /\ \A i \in 1..m : f[i] = IF i \in K THEN Append(f[i-1], L[i]) ELSE f[i-1]
           N == {m \in Nat : m <= Len(L) => \E f : Is(f, m)}
<1>0. Len(L) \in Nat /\ \A i \in 1..Len(L) : L[i] \in V
  OBVIOUS
<1>1. 0 \in N
  <2>1. Is([i \in 0..0 |-> <<>>], 0)
    OBVIOUS
  <2> HIDE DEF Is
  <2> QED BY <2>1
<1> HIDE DEF Is
<1>2. ASSUME NEW m \in N PROVE m + 1 \in N
  <2> SUFFICES ASSUME m + 1 <= Len(L) PROVE \E f : Is(f, m + 1)
    OBVIOUS
  <2>0. m \in Nat /\ m <= Len(L) /\ m + 1 \in 1..Len(L) /\ m \in 0..m
    BY <1>0
  <2>1. PICK f : Is(f, m)
    BY <2>0
  <2>2. PICK next : next = IF m + 1 \in K THEN Append(f[m], L[m + 1]) ELSE f[m]
    OBVIOUS
  <2>3. next \in Seq(V)
    <3>1. f[m] \in Seq(V) /\ L[m + 1] \in V
      BY <1>0, <2>0, <2>1 DEF Is
    <3> QED BY <2>2, <3>1
  <2>4. PICK g : g = [i \in 0..(m + 1) |-> IF i = m + 1 THEN next ELSE f[i]]
    OBVIOUS
  <2>5. \A i \in 0..(m + 1) : i = m + 1 \/ i \in 0..m
    OBVIOUS
  <2>6. g \in [0..(m + 1) -> Seq(V)] /\ g[0] = <<>>
    BY <2>1, <2>3, <2>4, <2>5 DEF Is
  <2>7. ASSUME NEW i \in 1..(m + 1)
        PROVE  g[i] = IF i \in K THEN Append(g[i-1], L[i]) ELSE g[i-1]
    <3>1. CASE i = m + 1
      BY <2>2, <2>4, <3>1
    <3>2. CASE i \in 1..m
      <4>1. i \in 0..(m + 1) /\ i - 1 \in 0..(m + 1) /\ i # m + 1 /\ i - 1 # m + 1
        BY <3>2
      <4> QED BY <2>1, <2>4, <3>2, <4>1 DEF Is
    <3> QED BY <3>1, <3>2
  <2>8. Is(g, m + 1)
    BY <2>6, <2>7 DEF Is
  <2> QED BY <2>8
<1>3. N = Nat
  <2> HIDE DEF N
  <2>1. N \subseteq Nat
    BY DEF N
  <2> QED BY <1>1, <1>2, <2>1, NatSet
<1>4. PICK f : Is(f, Len(L))
  BY <1>0, <1>3
<1>5. f = [i \in 0..Len(L) |->
         IF i = 0 THEN <<>> ELSE IF i \in K THEN Append(f[i-1], L[i]) ELSE f[i-1]]
  <2>1. \A i \in 0..Len(L) : i # 0 => i \in 1..Len(L)
    BY <1>0
  <2>2. f = [i \in 0..Len(L) |-> f[i]]
    BY <1>4 DEF Is
  <2> QED BY <1>4, <2>1, <2>2 DEF Is
<1> QED BY <1>5 DEF KeptBy

\* Of the first m places, s holds those in K.
KeptOf(V, L, K, s, m) ==
  /\ s \in Seq(V) /\ Len(s) <= m
  /\ \A i \in 1..Len(s) : \E k \in K : k <= m /\ L[k] = s[i]
  /\ \A k \in K : k <= m => \E i \in 1..Len(s) : s[i] = L[k]
  /\ (\A j, k \in K : L[j] = L[k] => j = k) => \A i, j \in 1..Len(s) : s[i] = s[j] => i = j

LEMMA KeptGrows ==
    ASSUME NEW V, NEW L \in Seq(V), NEW K \in SUBSET Ids(L), NEW m \in Nat, m + 1 \in K,
           NEW s, KeptOf(V, L, K, s, m)
    PROVE  KeptOf(V, L, K, Append(s, L[m + 1]), m + 1)
<1>1. PICK x, t, l : x = L[m + 1] /\ t = Append(s, x) /\ l = Len(s)
  BY DEF KeptOf
<1>2. x \in V /\ s \in Seq(V) /\ l \in Nat /\ l <= m /\ \A k \in K : k \in Nat
  BY <1>1 DEF KeptOf, Ids
<1>3. t \in Seq(V) /\ Len(t) = l + 1 /\ t[l + 1] = x /\ \A i \in 1..l : t[i] = s[i]
  BY <1>1, <1>2
<1>4. l + 1 <= m + 1 /\ \A i \in 1..(l + 1) : i \in 1..l \/ i = l + 1
  BY <1>2
<1>5. ASSUME NEW i \in 1..(l + 1) PROVE \E k \in K : k <= m + 1 /\ L[k] = t[i]
  <2>1. CASE i \in 1..l
    <3>1. PICK k \in K : k <= m /\ L[k] = s[i]
      BY <1>1, <2>1 DEF KeptOf
    <3>2. k <= m + 1
      BY <1>2, <3>1
    <3> QED BY <1>3, <2>1, <3>1, <3>2
  <2>2. CASE i = l + 1
    <3>1. m + 1 <= m + 1
      OBVIOUS
    <3> QED BY <1>1, <1>3, <2>2, <3>1
  <2> QED BY <1>4, <2>1, <2>2
<1>6. ASSUME NEW k \in K, k <= m + 1 PROVE \E i \in 1..(l + 1) : t[i] = L[k]
  <2>1. CASE k <= m
    <3>1. PICK i \in 1..l : s[i] = L[k]
      BY <1>1, <2>1, <1>6 DEF KeptOf
    <3>2. i \in 1..(l + 1)
      BY <1>2
    <3> QED BY <1>3, <3>1, <3>2
  <2>2. CASE k = m + 1
    <3>1. l + 1 \in 1..(l + 1)
      BY <1>2
    <3> QED BY <1>1, <1>3, <2>2, <3>1
  <2> QED BY <1>2, <1>6, <2>1, <2>2
<1>7. ASSUME \A j, k \in K : L[j] = L[k] => j = k,
             NEW i \in 1..(l + 1), NEW j \in 1..(l + 1), t[i] = t[j]
      PROVE  i = j
  <2>1. \A h \in 1..l : s[h] # x
    <3>1. SUFFICES ASSUME NEW h \in 1..l, s[h] = x PROVE FALSE
      OBVIOUS
    <3>2. PICK k \in K : k <= m /\ L[k] = s[h]
      BY <1>1, <3>1 DEF KeptOf
    <3>3. k = m + 1
      BY <1>1, <1>7, <3>1, <3>2
    <3> QED BY <3>2, <3>3
  <2>2. \A h, g \in 1..l : s[h] = s[g] => h = g
    BY <1>1, <1>7 DEF KeptOf
  <2> QED BY <1>3, <1>4, <1>7, <2>1, <2>2
<1>8. KeptOf(V, L, K, t, m + 1)
  BY <1>3, <1>4, <1>5, <1>6, <1>7 DEF KeptOf
<1> QED BY <1>1, <1>8

\* The list of the elements in the places K: they and no others, and none of
\* them twice unless it stands in two places.
LEMMA KeptIs ==
    ASSUME NEW V, NEW L, L \in Seq(V), NEW K, K \subseteq Ids(L)
    PROVE  KeptOf(V, L, K, Kept(L, K), Len(L))
<1>1. PICK f : KeptBy(L, K, f) /\ Kept(L, K) = f[Len(L)]
  <2>1. Kept(L, K) = (CHOOSE f : KeptBy(L, K, f))[Len(L)]
    BY DEF Kept, KeptBy
  <2> QED BY <2>1, SomeKeptBy
<1>2. Len(L) \in Nat /\ \A k \in K : k \in 1..Len(L)
  BY DEF Ids
<1> DEFINE N == {m \in Nat : m <= Len(L) => KeptOf(V, L, K, f[m], m)}
<1>3. 0 \in N
  <2>1. f[0] = <<>>
    BY <1>1, <1>2 DEF KeptBy
  <2>2. KeptOf(V, L, K, <<>>, 0)
    BY <1>2 DEF KeptOf
  <2> QED BY <2>1, <2>2
<1>4. ASSUME NEW m \in N PROVE m + 1 \in N
  <2> SUFFICES ASSUME m + 1 <= Len(L) PROVE KeptOf(V, L, K, f[m + 1], m + 1)
    OBVIOUS
  <2>1. m \in Nat /\ m + 1 \in 0..Len(L) /\ m + 1 # 0 /\ (m + 1) - 1 = m
    BY <1>2
  <2>2. KeptOf(V, L, K, f[m], m)
    BY <1>2, <2>1
  <2>3. f[m + 1] = IF m + 1 \in K THEN Append(f[m], L[m + 1]) ELSE f[m]
    <3> HIDE DEF N
    <3> QED BY <1>1, <2>1 DEF KeptBy
  <2>4. CASE m + 1 \notin K
    <3>1. \A k \in K : k <= m + 1 <=> k <= m
      BY <1>2, <2>1, <2>4
    <3>2. \A k \in K : k <= m => k <= m + 1
      BY <3>1
    <3>3. Len(f[m]) <= m + 1
      BY <2>1, <2>2 DEF KeptOf
    <3> HIDE DEF N
    <3> QED BY <2>2, <2>3, <2>4, <3>1, <3>2, <3>3 DEF KeptOf
  <2>5. CASE m + 1 \in K
    <3> HIDE DEF N
    <3> QED BY <2>1, <2>2, <2>3, <2>5, KeptGrows
  <2> QED BY <2>4, <2>5
<1>5. N = Nat
  <2> HIDE DEF N
  <2>1. N \subseteq Nat
    BY DEF N
  <2> QED BY <1>3, <1>4, <2>1, NatSet
<1>6. KeptOf(V, L, K, f[Len(L)], Len(L))
  BY <1>2, <1>5
<1> HIDE DEF N
<1> QED BY <1>1, <1>6

-----------------------------------------------------------------------------
(* What pairs lead to *)

\* What Within's function holds after each step.
BallBy(S, n, R, f) ==
  f = [i \in 0..n |-> IF i = 0 THEN S ELSE LET T == f[i-1] IN T \cup After(T, R)]

Balls(V, S, n, R, f) ==
  /\ \A i \in 0..n : f[i] \subseteq V
  /\ Within(S, n, R) = f[n] /\ f[0] = S
  /\ \A i \in 1..n : f[i] = f[i-1] \cup After(f[i-1], R)

LEMMA WithinBy ==
    ASSUME NEW V, NEW S, S \subseteq V, NEW R, R \subseteq V \X V, NEW n \in Nat
    PROVE  \E f : Balls(V, S, n, R, f)
<1>0. PICK step : step = [T \in SUBSET V |-> T \cup After(T, R)]
  OBVIOUS
<1>1. \A T \in SUBSET V : T \cup After(T, R) \in SUBSET V
  BY DEF After
<1>2. step \in [SUBSET V -> SUBSET V] /\ \A T \in SUBSET V : step[T] = T \cup After(T, R)
  BY <1>0, <1>1
<1>3. PICK it \in [0..n -> SUBSET V] : it[0] = S /\ \A i \in 1..n : it[i] = step[it[i - 1]]
  <2>1. PICK W, base : W = SUBSET V /\ base = S
    OBVIOUS
  <2>2. base \in W /\ step \in [W -> W]
    BY <1>2, <2>1
  <2>3. PICK jt : Iterates(W, base, step, n, jt)
    BY <2>2, Iterated
  <2> QED BY <2>1, <2>3 DEF Iterates
<1>4. \A i \in 1..n : i - 1 \in 0..n
  OBVIOUS
<1>5. \A i \in 0..n : i # 0 => i \in 1..n
  OBVIOUS
<1>6. \A i \in 1..n : it[i] = it[i-1] \cup After(it[i-1], R)
  BY <1>2, <1>3, <1>4
<1>7. BallBy(S, n, R, it)
  <2>1. it = [i \in 0..n |-> it[i]]
    BY <1>3
  <2>2. \A i \in 0..n : it[i] = IF i = 0 THEN S ELSE it[i-1] \cup After(it[i-1], R)
    BY <1>3, <1>5, <1>6
  <2> QED BY <2>1, <2>2 DEF BallBy
<1>8. PICK f : BallBy(S, n, R, f) /\ Within(S, n, R) = f[n]
  <2>1. Within(S, n, R) = (CHOOSE f : BallBy(S, n, R, f))[n]
    BY DEF Within, BallBy
  <2> QED BY <1>7, <2>1
<1>9. f[0] = S
  BY <1>8 DEF BallBy
<1>10. \A i \in 1..n : f[i] = f[i-1] \cup After(f[i-1], R)
  <2>1. \A i \in 1..n : i \in 0..n /\ i # 0
    OBVIOUS
  <2> QED BY <1>8, <2>1 DEF BallBy
<1>12. \A m \in 0..n : f[m] \subseteq V
  <2> DEFINE N == {m \in Nat : m \in 0..n => f[m] \in SUBSET V}
  <2>1. 0 \in N
    BY <1>9
  <2>2. ASSUME NEW m \in N PROVE m + 1 \in N
    <3> SUFFICES ASSUME m + 1 \in 0..n PROVE f[m + 1] \in SUBSET V
      OBVIOUS
    <3>1. m \in 0..n /\ m + 1 \in 1..n /\ (m + 1) - 1 = m
      OBVIOUS
    <3>2. f[m] \in SUBSET V
      BY <3>1
    <3>3. f[m + 1] = f[m] \cup After(f[m], R)
      <4> HIDE DEF N
      <4> QED BY <1>10, <3>1
    <3> QED BY <1>1, <3>2, <3>3
  <2>3. N = Nat
    <3> HIDE DEF N
    <3>1. N \subseteq Nat
      BY DEF N
    <3> QED BY <2>1, <2>2, <3>1, NatSet
  <2> QED BY <2>3
<1> QED BY <1>8, <1>9, <1>10, <1>12 DEF Balls

\* One more step leads one step further.
LEMMA WithinNext ==
    ASSUME NEW V, NEW S, S \subseteq V, NEW R, R \subseteq V \X V, NEW n \in Nat
    PROVE  /\ Within(S, 0, R) = S
           /\ Within(S, n + 1, R) = Within(S, n, R) \cup After(Within(S, n, R), R)
<1>1. PICK o : Balls(V, S, 0, R, o)
  BY WithinBy
<1>2. PICK f : Balls(V, S, n, R, f)
  BY WithinBy
<1>3. n + 1 \in Nat
  OBVIOUS
<1>4. PICK g : Balls(V, S, n + 1, R, g)
  BY <1>3, WithinBy
<1>5. Within(S, 0, R) = S
  BY <1>1 DEF Balls
<1> DEFINE N == {m \in Nat : m \in 0..n => f[m] = g[m]}
<1>6. 0 \in N
  BY <1>2, <1>4 DEF Balls
<1>7. ASSUME NEW m \in N PROVE m + 1 \in N
  <2> SUFFICES ASSUME m + 1 \in 0..n PROVE f[m + 1] = g[m + 1]
    OBVIOUS
  <2>1. m \in 0..n /\ m + 1 \in 1..n /\ m + 1 \in 1..(n + 1) /\ (m + 1) - 1 = m
    OBVIOUS
  <2>2. f[m] = g[m]
    BY <2>1
  <2> HIDE DEF N
  <2>3. f[m + 1] = f[m] \cup After(f[m], R)
    BY <1>2, <2>1 DEF Balls
  <2>4. g[m + 1] = g[m] \cup After(g[m], R)
    BY <1>4, <2>1 DEF Balls
  <2> QED BY <2>2, <2>3, <2>4
<1>8. N = Nat
  <2> HIDE DEF N
  <2>1. N \subseteq Nat
    BY DEF N
  <2> QED BY <1>6, <1>7, <2>1, NatSet
<1>9. f[n] = g[n]
  BY <1>8
<1>10. n + 1 \in 1..(n + 1) /\ (n + 1) - 1 = n
  OBVIOUS
<1>11. g[n + 1] = g[n] \cup After(g[n], R)
  BY <1>4, <1>10 DEF Balls
<1>12. Within(S, n + 1, R) = g[n + 1] /\ Within(S, n, R) = f[n]
  BY <1>2, <1>4 DEF Balls
<1> QED BY <1>5, <1>9, <1>11, <1>12

\* Steps of any number stay in a set that one step does not leave.
LEMMA WithinLeast ==
    ASSUME NEW V, NEW S, S \subseteq V, NEW R, R \subseteq V \X V, NEW n \in Nat,
           NEW C, S \subseteq C, After(C, R) \subseteq C
    PROVE  Within(S, n, R) \subseteq C
<1>0. PICK f : Balls(V, S, n, R, f)
  BY WithinBy
<1>1. /\ \A i \in 0..n : f[i] \subseteq V
      /\ Within(S, n, R) = f[n] /\ f[0] = S
      /\ \A i \in 1..n : f[i] = f[i-1] \cup After(f[i-1], R)
  BY <1>0 DEF Balls
<1> DEFINE N == {m \in Nat : m \in 0..n => f[m] \subseteq C}
<1>2. 0 \in N
  BY <1>1
<1>3. ASSUME NEW m \in N PROVE m + 1 \in N
  <2> SUFFICES ASSUME m + 1 \in 0..n PROVE f[m + 1] \subseteq C
    OBVIOUS
  <2>1. m \in 0..n /\ m + 1 \in 1..n /\ (m + 1) - 1 = m
    OBVIOUS
  <2>2. f[m] \subseteq C
    BY <2>1
  <2>3. f[m + 1] = f[m] \cup After(f[m], R)
    <3> HIDE DEF N
    <3> QED BY <1>1, <2>1
  <2>4. After(f[m], R) \subseteq After(C, R)
    BY <2>2 DEF After
  <2> QED BY <2>2, <2>3, <2>4
<1>4. N = Nat
  <2> HIDE DEF N
  <2>1. N \subseteq Nat
    BY DEF N
  <2> QED BY <1>2, <1>3, <2>1, NatSet
<1>5. f[n] \subseteq C
  BY <1>4
<1> QED BY <1>1, <1>5

\* As many steps as there are things to reach are enough.
LEMMA WithinCloses ==
    ASSUME NEW V, IsFiniteSet(V), NEW S, S \subseteq V, NEW R, R \subseteq V \X V,
           NEW n \in Nat, Cardinality(V) <= n
    PROVE  /\ Within(S, n, R) \subseteq V /\ S \subseteq Within(S, n, R)
           /\ After(Within(S, n, R), R) \subseteq Within(S, n, R)
<1>0. PICK f : Balls(V, S, n, R, f)
  BY WithinBy
<1>1. /\ \A i \in 0..n : f[i] \subseteq V
      /\ Within(S, n, R) = f[n] /\ f[0] = S
      /\ \A i \in 1..n : f[i] = f[i-1] \cup After(f[i-1], R)
  BY <1>0 DEF Balls
<1>2. \A T \in SUBSET V : IsFiniteSet(T) /\ Cardinality(T) \in Nat /\ Cardinality(T) <= Cardinality(V)
  BY FS_Subset, FS_CardinalityType
<1> DEFINE Closed(m) == After(f[m], R) \subseteq f[m]
           N == {m \in Nat : m \in 0..n => S \subseteq f[m] /\ (Closed(m) \/ Cardinality(f[m]) >= m + 1)}
<1>3. 0 \in N
  <2>1. CASE S = {}
    BY <1>1, <2>1 DEF After
  <2>2. CASE S # {}
    <3>1. Cardinality(S) # 0
      BY <1>2, <2>2, FS_EmptySet
    <3> QED BY <1>1, <1>2, <3>1
  <2> QED BY <2>1, <2>2
<1>4. ASSUME NEW m \in N PROVE m + 1 \in N
  <2> SUFFICES ASSUME m + 1 \in 0..n
               PROVE  S \subseteq f[m + 1] /\ (Closed(m + 1) \/ Cardinality(f[m + 1]) >= (m + 1) + 1)
    OBVIOUS
  <2>1. m \in 0..n /\ m + 1 \in 1..n /\ (m + 1) - 1 = m /\ m \in Nat
    OBVIOUS
  <2>2. S \subseteq f[m] /\ (Closed(m) \/ Cardinality(f[m]) >= m + 1)
    BY <2>1
  <2>3. f[m + 1] = f[m] \cup After(f[m], R)
    <3> HIDE DEF N
    <3> QED BY <1>1, <2>1
  <2>4. CASE Closed(m)
    <3>1. f[m + 1] = f[m]
      BY <2>3, <2>4
    <3> QED BY <2>2, <2>4, <3>1
  <2>5. CASE ~Closed(m)
    <3>1. f[m] \subseteq f[m + 1] /\ f[m] # f[m + 1] /\ f[m] \in SUBSET V /\ f[m + 1] \in SUBSET V
      <4> HIDE DEF N
      <4> QED BY <1>1, <2>1, <2>3, <2>5
    <3>2. Cardinality(f[m]) < Cardinality(f[m + 1])
      BY <1>2, <3>1, FS_Subset
    <3>3. Cardinality(f[m + 1]) >= (m + 1) + 1
      <4> HIDE DEF N, Closed
      <4> QED BY <1>2, <2>1, <2>2, <2>5, <3>1, <3>2
    <3> QED BY <2>2, <3>1, <3>3
  <2> QED BY <2>4, <2>5
<1>5. N = Nat
  <2> HIDE DEF N
  <2>1. N \subseteq Nat
    BY DEF N
  <2> QED BY <1>3, <1>4, <2>1, NatSet
<1>6. S \subseteq f[n] /\ (Closed(n) \/ Cardinality(f[n]) >= n + 1)
  BY <1>5
<1>7. Cardinality(f[n]) <= n /\ Cardinality(f[n]) \in Nat
  <2> HIDE DEF N
  <2>1. f[n] \in SUBSET V
    BY <1>1
  <2> QED BY <1>2, <2>1, FS_CardinalityType
<1>8. Closed(n)
  BY <1>6, <1>7
<1> QED BY <1>1, <1>6, <1>8

-----------------------------------------------------------------------------
(* Walks over a list of connections *)

\* The ends of the connections are zones.
OnTheMap(L) == Len(L) \in Nat /\ \A k \in Ids(L) : L[k].from \in Zones /\ L[k].to \in Zones

\* What Reached leads to is not left by a connection it may use, and is no
\* more than it has to be.
LEMMA ReachedCloses ==
    ASSUME NEW L, OnTheMap(L), NEW from, from \subseteq Zones, NEW K, K \subseteq Ids(L)
    PROVE  /\ Reached(L, from, K) \subseteq Zones /\ from \subseteq Reached(L, from, K)
           /\ \A k \in K : L[k].from \in Reached(L, from, K) => L[k].to \in Reached(L, from, K)
<1> DEFINE R == {<<L[k].from, L[k].to>> : k \in K}
           W == Reached(L, from, K)
<1>1. R \subseteq Zones \X Zones
  BY DEF OnTheMap
<1>2. IsFiniteSet(Zones) /\ Cardinality(Zones) \in Nat /\ Cardinality(Zones) <= Cardinality(Zones)
  BY ZonesOK, FS_CardinalityType
<1>3. W = Within(from, Cardinality(Zones), R)
  BY DEF Reached
<1> HIDE DEF W
<1>4. W \subseteq Zones /\ from \subseteq W /\ After(W, R) \subseteq W
  <2> HIDE DEF R
  <2> QED BY <1>1, <1>2, <1>3, WithinCloses
<1>5. ASSUME NEW k \in K, L[k].from \in W PROVE L[k].to \in W
  <2>1. PICK e : e = <<L[k].from, L[k].to>>
    OBVIOUS
  <2>2. e \in R /\ e[1] = L[k].from /\ e[2] = L[k].to
    BY <2>1
  <2>3. e[2] \in After(W, R)
    BY <1>5, <2>2 DEF After
  <2> QED BY <1>4, <2>2, <2>3
<1> QED BY <1>4, <1>5 DEF W

LEMMA ReachedLeast ==
    ASSUME NEW L, OnTheMap(L), NEW from, from \subseteq Zones, NEW K, K \subseteq Ids(L),
           NEW C, from \subseteq C, \A k \in K : L[k].from \in C => L[k].to \in C
    PROVE  Reached(L, from, K) \subseteq C
<1> DEFINE R == {<<L[k].from, L[k].to>> : k \in K}
<1>1. R \subseteq Zones \X Zones
  BY DEF OnTheMap
<1>2. Cardinality(Zones) \in Nat
  BY ZonesOK, FS_CardinalityType
<1>3. After(C, R) \subseteq C
  BY DEF After
<1>4. Reached(L, from, K) = Within(from, Cardinality(Zones), R)
  BY DEF Reached
<1>5. PICK S, n, V : S = R /\ n = Cardinality(Zones) /\ V = Zones
  OBVIOUS
<1> HIDE DEF R
<1>6. S \subseteq V \X V /\ from \subseteq V /\ n \in Nat /\ After(C, S) \subseteq C
  BY <1>1, <1>2, <1>3, <1>5
<1>7. Within(from, n, S) \subseteq C
  BY <1>6, WithinLeast
<1> QED BY <1>4, <1>5, <1>7

LEMMA ClosureCloses ==
    ASSUME NEW L, Len(L) \in Nat, NEW S, S \subseteq Ids(L), NEW R, R \subseteq Ids(L) \X Ids(L)
    PROVE  /\ Closure(L, R, S) \subseteq Ids(L) /\ S \subseteq Closure(L, R, S)
           /\ After(Closure(L, R, S), R) \subseteq Closure(L, R, S)
<1>1. IsFiniteSet(Ids(L)) /\ Cardinality(Ids(L)) = Len(L)
  <2>1. PICK n \in Nat : n = Len(L)
    OBVIOUS
  <2>2. IsFiniteSet(1..n) /\ Cardinality(1..n) = IF 1 > n THEN 0 ELSE n - 1 + 1
    BY FS_Interval
  <2>3. Cardinality(1..n) = n
    BY <2>2
  <2> QED BY <2>1, <2>2, <2>3 DEF Ids
<1>2. Cardinality(Ids(L)) <= Len(L)
  BY <1>1
<1> QED BY <1>1, <1>2, WithinCloses DEF Closure

LEMMA ClosureLeast ==
    ASSUME NEW L, Len(L) \in Nat, NEW S, S \subseteq Ids(L), NEW R, R \subseteq Ids(L) \X Ids(L),
           NEW C, S \subseteq C, After(C, R) \subseteq C
    PROVE  Closure(L, R, S) \subseteq C
BY WithinLeast DEF Closure

\* The connections above connection k.
LEMMA Ancestors ==
    ASSUME NEW L, Len(L) \in Nat, NEW k \in Ids(L), NEW A, A = treeQuery(L, k, "ancestors")
    PROVE  /\ A \subseteq Ids(L)
           /\ \A j \in Ids(L) : L[j].to = L[k].from => j \in A
           /\ \A i \in A : \A j \in Ids(L) : L[j].to = L[i].from => j \in A
<1> DEFINE S == After({k}, Parents(L))
<1>1. Parents(L) \subseteq Ids(L) \X Ids(L)
  BY DEF Parents, Children
<1>2. \A i, j \in Ids(L) : L[j].to = L[i].from => <<i, j>> \in Parents(L)
  <2>1. SUFFICES ASSUME NEW i \in Ids(L), NEW j \in Ids(L), L[j].to = L[i].from
                 PROVE  <<i, j>> \in Parents(L)
    OBVIOUS
  <2>2. PICK e : e = <<j, i>>
    OBVIOUS
  <2>3. e \in Children(L) /\ e[1] = j /\ e[2] = i
    BY <2>1, <2>2 DEF Children
  <2> QED BY <2>3 DEF Parents
<1>3. S \subseteq Ids(L)
  BY <1>1 DEF After
<1>4. A = Closure(L, Parents(L), S)
  BY DEF treeQuery
<1> HIDE DEF S
<1>5. A \subseteq Ids(L) /\ S \subseteq A /\ After(A, Parents(L)) \subseteq A
  BY <1>1, <1>3, <1>4, ClosureCloses
<1>6. ASSUME NEW i, NEW j, <<i, j>> \in Parents(L), NEW T, i \in T PROVE j \in After(T, Parents(L))
  <2>1. PICK e : e = <<i, j>>
    OBVIOUS
  <2> QED BY <1>6, <2>1 DEF After
<1>7. ASSUME NEW j \in Ids(L), L[j].to = L[k].from PROVE j \in A
  BY <1>2, <1>5, <1>6, <1>7 DEF S
<1>8. ASSUME NEW i \in A, NEW j \in Ids(L), L[j].to = L[i].from PROVE j \in A
  BY <1>2, <1>5, <1>6, <1>8
<1> QED BY <1>5, <1>7, <1>8

LEMMA AncestorsLeast ==
    ASSUME NEW L, Len(L) \in Nat, NEW k \in Ids(L), NEW C,
           \A j \in Ids(L) : L[j].to = L[k].from => j \in C,
           \A i \in C : \A j \in Ids(L) : L[j].to = L[i].from => j \in C
    PROVE  treeQuery(L, k, "ancestors") \subseteq C
<1>1. Parents(L) \subseteq Ids(L) \X Ids(L) /\ \A e \in Parents(L) : L[e[2]].to = L[e[1]].from
  BY DEF Parents, Children
<1>2. After({k}, Parents(L)) \subseteq Ids(L) /\ After({k}, Parents(L)) \subseteq C
  BY <1>1 DEF After
<1>3. After(C, Parents(L)) \subseteq C
  BY <1>1 DEF After
<1>4. treeQuery(L, k, "ancestors") = Closure(L, Parents(L), After({k}, Parents(L)))
  BY DEF treeQuery
<1>5. PICK S, R : S = After({k}, Parents(L)) /\ R = Parents(L)
  OBVIOUS
<1>6. S \subseteq Ids(L) /\ R \subseteq Ids(L) \X Ids(L) /\ S \subseteq C /\ After(C, R) \subseteq C
  BY <1>1, <1>2, <1>3, <1>5
<1>7. Closure(L, R, S) \subseteq C
  BY <1>6, ClosureLeast
<1> QED BY <1>4, <1>5, <1>7

-----------------------------------------------------------------------------
(* What is cut off from home *)

\* Through a connection that has no expired one above it leads a way of live
\* connections from home.
LEMMA NotIsolated ==
    ASSUME NEW L, OnTheMap(L), NoIslands(L), NEW k \in Ids(L), ~isEdgeIsolated(L, k)
    PROVE  L[k].from \in FromHome(L, Live(L))
<1>1. PICK A, C : A = treeQuery(L, k, "ancestors") /\ C = FromHome(L, Live(L))
  OBVIOUS
<1> DEFINE B == {L[k].from} \cup {L[i].from : i \in A}
           Y == (Zones \ B) \cup C
<1>2. /\ A \subseteq Ids(L) /\ A \subseteq Live(L)
      /\ \A j \in Ids(L) : L[j].to = L[k].from => j \in A
      /\ \A i \in A : \A j \in Ids(L) : L[j].to = L[i].from => j \in A
  BY <1>1, Ancestors DEF OnTheMap, isEdgeIsolated, Live
<1>3. C \subseteq Zones /\ Sources \subseteq C /\ \A j \in Live(L) : L[j].from \in C => L[j].to \in C
  BY <1>1, ReachedCloses, ZonesOK DEF FromHome, Live
<1>4. ASSUME NEW j \in Ids(L), L[j].from \in Y PROVE L[j].to \in Y
  <2>1. CASE L[j].to \notin B
    BY <2>1 DEF OnTheMap
  <2>2. CASE L[j].to \in B
    <3>1. j \in A
      BY <1>2, <2>2
    <3>2. L[j].from \in C
      BY <1>4, <3>1
    <3> QED BY <1>2, <1>3, <3>1, <3>2
  <2> QED BY <2>1, <2>2
<1>5. Sources \subseteq Y
  BY <1>3
<1>6. FromHome(L, Ids(L)) \subseteq Y
  <2> HIDE DEF Y
  <2> QED BY <1>4, <1>5, ReachedLeast, ZonesOK DEF FromHome
<1>7. L[k].from \in FromHome(L, Ids(L))
  BY DEF NoIslands
<1> QED BY <1>1, <1>6, <1>7

\* The first half of ShownAliveIffReachable.
LEMMA ShownAliveIsReachable ==
    ASSUME NEW L, OnTheMap(L), NoIslands(L)
    PROVE  /\ \A z \in Zones : Touching(L, z) # {} /\ ~isNodeRestricted(L, z)
                               => z \in FromHome(L, Live(L))
           /\ \A k \in Ids(L) : ~isEdgeRestricted(L, k) => L[k].to \in FromHome(L, Live(L))
<1>1. /\ Sources \subseteq FromHome(L, Live(L))
      /\ \A j \in Live(L) : L[j].from \in FromHome(L, Live(L)) => L[j].to \in FromHome(L, Live(L))
  BY ReachedCloses, ZonesOK DEF FromHome, Live
<1>2. ASSUME NEW k \in Ids(L), ~isEdgeRestricted(L, k)
      PROVE  L[k].from \in FromHome(L, Live(L)) /\ L[k].to \in FromHome(L, Live(L))
  BY <1>1, <1>2, NotIsolated DEF isEdgeRestricted, Live
<1>3. ASSUME NEW z \in Zones, ~isNodeRestricted(L, z), z \notin Sources
      PROVE  z \in FromHome(L, Live(L))
  <2>1. PICK k \in Touching(L, z) : ~isEdgeIsolated(L, k) /\ ~L[k].expired
    BY <1>3 DEF isNodeRestricted, isNodeExpired
  <2>2. k \in Ids(L) /\ ~isEdgeRestricted(L, k) /\ z \in {L[k].from, L[k].to}
    BY <2>1 DEF Touching, isEdgeRestricted
  <2> QED BY <1>2, <2>2
<1> QED BY <1>1, <1>2, <1>3

\* Where no zone has two ways in there is one connection to it at most.
LEMMA OneWay ==
    ASSUME NEW L, OnTheMap(L), OneWayIn(L), NEW j \in Ids(L), NEW k \in Ids(L), L[j].to = L[k].to
    PROVE  j = k
<1>1. PICK E : E = Entrances(L, L[k].to)
  OBVIOUS
<1>2. j \in E /\ k \in E /\ E \subseteq Ids(L)
  BY <1>1 DEF Entrances
<1>3. IsFiniteSet(E)
  <2>1. IsFiniteSet(Ids(L))
    BY FS_Interval DEF Ids, OnTheMap
  <2> QED BY <1>2, <2>1, FS_Subset
<1>4. Cardinality(E) \in Nat /\ Cardinality(E) <= 1
  BY <1>1, <1>3, FS_CardinalityType DEF OneWayIn, OnTheMap
<1>5. Cardinality(E) # 0
  BY <1>2, <1>3, FS_EmptySet
<1>6. Cardinality(E) = 1
  BY <1>4, <1>5
<1>7. PICK x : E = {x}
  BY <1>3, <1>6, FS_Singleton
<1> QED BY <1>2, <1>7

\* The second half.
LEMMA ReachableIsShownAlive ==
    ASSUME NEW L, OnTheMap(L), OneWayIn(L)
    PROVE  \A z \in FromHome(L, Live(L)) :
             /\ ~isNodeRestricted(L, z)
             /\ \A k \in Entrances(L, z) : ~isEdgeRestricted(L, k)
<1> DEFINE G == {z \in Zones : \A k \in Entrances(L, z) : ~isEdgeRestricted(L, k)}
           H == Sources \cup {L[k].to : k \in Live(L)}
<1>1. \A j, k \in Ids(L) : L[j].to = L[k].to => j = k
  BY OneWay
<1>2. ASSUME NEW j \in Live(L), L[j].from \in G PROVE ~isEdgeRestricted(L, j)
  <2>1. j \in Ids(L) /\ ~L[j].expired
    BY DEF Live
  <2> DEFINE P == {i \in Ids(L) : L[i].to = L[j].from}
             C == {i \in Ids(L) : ~L[i].expired}
  <2>2. \A p \in P : p \in Ids(L) /\ ~L[p].expired /\ ~isEdgeIsolated(L, p)
    BY <1>2 DEF Entrances, isEdgeRestricted
  <2> DEFINE D == {i \in Ids(L) : i \in P \/ \E p \in P : i \in treeQuery(L, p, "ancestors")}
  <2>3. \A i \in D : ~L[i].expired
    BY <2>2 DEF isEdgeIsolated
  <2>4. ASSUME NEW i \in D, NEW h \in Ids(L), L[h].to = L[i].from PROVE h \in D
    <3>1. CASE i \in P
      <4>1. h \in treeQuery(L, i, "ancestors")
        BY <2>4, <3>1, Ancestors DEF OnTheMap
      <4> QED BY <3>1, <4>1
    <3>2. CASE \E p \in P : i \in treeQuery(L, p, "ancestors")
      <4>1. PICK p \in P : i \in treeQuery(L, p, "ancestors")
        BY <3>2
      <4>2. p \in Ids(L)
        OBVIOUS
      <4>3. h \in treeQuery(L, p, "ancestors")
        BY <2>4, <4>1, <4>2, Ancestors DEF OnTheMap
      <4> QED BY <4>1, <4>3
    <3> QED BY <3>1, <3>2
  <2>5. \A h \in Ids(L) : L[h].to = L[j].from => h \in D
    OBVIOUS
  <2>6. treeQuery(L, j, "ancestors") \subseteq D
    <3> HIDE DEF D
    <3> QED BY <2>1, <2>4, <2>5, AncestorsLeast DEF OnTheMap
  <2> QED BY <2>1, <2>3, <2>6 DEF isEdgeRestricted, isEdgeIsolated
<1>3. ASSUME NEW j \in Live(L), L[j].from \in G PROVE L[j].to \in G
  <2>1. j \in Ids(L) /\ L[j].to \in Zones
    BY DEF Live, OnTheMap
  <2>2. \A k \in Entrances(L, L[j].to) : k = j
    BY <1>1, <2>1 DEF Entrances
  <2>3. ~isEdgeRestricted(L, j)
    <3> HIDE DEF G
    <3> QED BY <1>2, <1>3
  <2> QED BY <2>1, <2>2, <2>3
<1>4. Sources \subseteq G
  BY ZonesOK DEF OneWayIn
<1>5. FromHome(L, Live(L)) \subseteq G
  <2> HIDE DEF G
  <2> QED BY <1>3, <1>4, ReachedLeast, ZonesOK DEF FromHome, Live
<1>6. FromHome(L, Live(L)) \subseteq H
  <2>1. \A k \in Live(L) : L[k].to \in H
    OBVIOUS
  <2>2. Sources \subseteq H
    OBVIOUS
  <2> HIDE DEF H
  <2> QED BY <2>1, <2>2, ReachedLeast, ZonesOK DEF FromHome, Live
<1>7. ASSUME NEW z \in FromHome(L, Live(L)) PROVE ~isNodeRestricted(L, z)
  <2>1. CASE z \in Sources
    BY <2>1 DEF isNodeRestricted, isNodeIsolated, isNodeExpired
  <2>2. CASE z \notin Sources
    <3>1. PICK k \in Live(L) : L[k].to = z
      BY <1>6, <2>2
    <3>2. k \in Touching(L, z) /\ k \in Entrances(L, z) /\ ~L[k].expired
      BY <3>1 DEF Live, Touching, Entrances
    <3>3. ~isEdgeRestricted(L, k)
      BY <1>5, <3>2
    <3> QED BY <3>2, <3>3 DEF isNodeRestricted, isNodeIsolated, isNodeExpired, isEdgeRestricted
  <2> QED BY <2>1, <2>2
<1> QED BY <1>5, <1>7

-----------------------------------------------------------------------------
(* What a deletion takes *)

\* What is left of a list is what was not deleted.
LEMMA WithoutIs ==
    ASSUME NEW V, NEW L, L \in Seq(V), NEW D
    PROVE  /\ Without(L, D) \in Seq(V) /\ Len(Without(L, D)) <= Len(L)
           /\ \A i \in Ids(Without(L, D)) : \E k \in Ids(L) \ D : L[k] = Without(L, D)[i]
           /\ \A k \in Ids(L) \ D : \E i \in Ids(Without(L, D)) : Without(L, D)[i] = L[k]
<1>1. PICK K, M : K = Ids(L) \ D /\ M = Kept(L, K)
  OBVIOUS
<1>2. K \subseteq Ids(L)
  BY <1>1
<1>3. /\ M \in Seq(V) /\ Len(M) <= Len(L)
      /\ \A i \in 1..Len(M) : \E k \in K : L[k] = M[i]
      /\ \A k \in K : \E i \in 1..Len(M) : M[i] = L[k]
  <2>1. KeptOf(V, L, K, M, Len(L))
    BY <1>1, <1>2, KeptIs
  <2>2. \A k \in K : k <= Len(L)
    BY <1>2 DEF Ids
  <2> QED BY <2>1, <2>2 DEF KeptOf
<1> QED BY <1>1, <1>3 DEF Without, Ids

\* No islands are left if every connection left was reached by such as are left.
LEMMA NoIslandsLeft ==
    ASSUME NEW V, NEW L, L \in Seq(V), OnTheMap(L), NEW D,
           \A j \in Ids(L) \ D : L[j].from \in FromHome(L, Ids(L) \ D)
    PROVE  NoIslands(Without(L, D))
<1>1. PICK M : M = Without(L, D)
  OBVIOUS
<1>2. /\ \A i \in Ids(M) : \E k \in Ids(L) \ D : L[k] = M[i]
      /\ \A k \in Ids(L) \ D : \E i \in Ids(M) : M[i] = L[k]
  BY <1>1, WithoutIs
<1>3. {<<M[i].from, M[i].to>> : i \in Ids(M)} = {<<L[k].from, L[k].to>> : k \in Ids(L) \ D}
  <2>1. ASSUME NEW i \in Ids(M)
        PROVE  <<M[i].from, M[i].to>> \in {<<L[k].from, L[k].to>> : k \in Ids(L) \ D}
    BY <1>2
  <2>2. ASSUME NEW k \in Ids(L) \ D
        PROVE  <<L[k].from, L[k].to>> \in {<<M[i].from, M[i].to>> : i \in Ids(M)}
    BY <1>2
  <2> QED BY <2>1, <2>2
<1>4. FromHome(M, Ids(M)) = FromHome(L, Ids(L) \ D)
  BY <1>3 DEF FromHome, Reached
<1>5. \A i \in Ids(M) : M[i].from \in FromHome(L, Ids(L) \ D)
  BY <1>2
<1> QED BY <1>1, <1>4, <1>5 DEF NoIslands

\* A deletion that goes on from every zone it leads to leaves no islands.
LEMMA DeletionLeavesNoIslands ==
    ASSUME NEW V, NEW L, L \in Seq(V), OnTheMap(L), NoIslands(L), NEW D, D \subseteq Ids(L),
           \A i \in D : \A j \in Ids(L) : L[j].from = L[i].to => j \in D
    PROVE  NoIslands(Without(L, D))
<1>1. PICK C : C = FromHome(L, Ids(L) \ D)
  OBVIOUS
<1> DEFINE Y == C \cup {z \in Zones : \A j \in Ids(L) : L[j].from = z => j \in D}
<1>2. /\ Sources \subseteq C
      /\ \A j \in Ids(L) \ D : L[j].from \in C => L[j].to \in C
  BY <1>1, ReachedCloses, ZonesOK DEF FromHome
<1>3. \A i \in Ids(L) : L[i].from \in Y => L[i].to \in Y
  BY <1>2 DEF OnTheMap
<1>4. FromHome(L, Ids(L)) \subseteq Y
  <2>1. Sources \subseteq Y
    BY <1>2
  <2> HIDE DEF Y
  <2> QED BY <1>3, <2>1, ReachedLeast, ZonesOK DEF FromHome
<1>5. \A j \in Ids(L) \ D : L[j].from \in C
  BY <1>4 DEF NoIslands
<1> QED BY <1>1, <1>5, NoIslandsLeft

\* What the two walks of a deletion take.
LEMMA WalkFromTakes ==
    ASSUME NEW L, Len(L) \in Nat, NEW S, S \subseteq Ids(L)
    PROVE  /\ WalkFrom(L, S) \subseteq Ids(L) /\ S \subseteq WalkFrom(L, S)
           /\ \A i \in WalkFrom(L, S) : \A j \in Ids(L) : L[j].from = L[i].to => j \in WalkFrom(L, S)
<1>1. PICK D, R : D = WalkFrom(L, S) /\ R = Children(L)
  OBVIOUS
<1>2. R \subseteq Ids(L) \X Ids(L)
  BY <1>1 DEF Children
<1>3. D \subseteq Ids(L) /\ S \subseteq D /\ After(D, R) \subseteq D
  BY <1>1, <1>2, ClosureCloses DEF WalkFrom
<1>4. ASSUME NEW i \in D, NEW j \in Ids(L), L[j].from = L[i].to PROVE j \in D
  <2>1. PICK e : e = <<i, j>>
    OBVIOUS
  <2>2. e \in R /\ e[1] = i /\ e[2] = j
    BY <1>1, <1>3, <1>4, <2>1 DEF Children
  <2> QED BY <1>3, <2>2 DEF After
<1> QED BY <1>1, <1>3, <1>4

LEMMA BranchTakes ==
    ASSUME NEW L, Len(L) \in Nat, NEW k \in Ids(L), NEW D, D = onDeleteRecursive(L, k)
    PROVE  /\ D \subseteq Ids(L) /\ k \in D
           /\ \A i \in D : \A j \in Ids(L) : L[j].from = L[i].to /\ L[i].to # L[k].from => j \in D
<1>1. PICK R, S : R = {e \in Children(L) : L[e[1]].to # L[k].from} /\ S = After({k}, R)
  OBVIOUS
<1>2. PICK B : B = Closure(L, R, S)
  OBVIOUS
<1>3. D = {k} \cup B
  BY <1>1, <1>2 DEF onDeleteRecursive
<1>4. R \subseteq Ids(L) \X Ids(L) /\ S \subseteq Ids(L)
  BY <1>1 DEF Children, After
<1>5. B \subseteq Ids(L) /\ S \subseteq B /\ After(B, R) \subseteq B
  BY <1>2, <1>4, ClosureCloses
<1>6. ASSUME NEW i \in D, NEW j \in Ids(L), L[j].from = L[i].to, L[i].to # L[k].from
      PROVE  j \in D
  <2>1. PICK e : e = <<i, j>>
    OBVIOUS
  <2>2. e \in R /\ e[1] = i /\ e[2] = j
    BY <1>1, <1>3, <1>5, <1>6, <2>1 DEF Children
  <2>3. CASE i = k
    BY <1>1, <1>3, <1>5, <2>2, <2>3 DEF After
  <2>4. CASE i \in B
    BY <1>3, <1>5, <2>2, <2>4 DEF After
  <2> QED BY <1>3, <2>3, <2>4
<1> QED BY <1>3, <1>5, <1>6

LEMMA BranchTakesLeast ==
    ASSUME NEW L, Len(L) \in Nat, NEW k \in Ids(L), NEW C, k \in C,
           \A i \in C : \A j \in Ids(L) : i \in Ids(L) /\ L[j].from = L[i].to /\ L[i].to # L[k].from => j \in C
    PROVE  onDeleteRecursive(L, k) \subseteq C
<1>1. PICK R, S : R = {e \in Children(L) : L[e[1]].to # L[k].from} /\ S = After({k}, R)
  OBVIOUS
<1>2. onDeleteRecursive(L, k) = {k} \cup Closure(L, R, S)
  BY <1>1 DEF onDeleteRecursive
<1>3. R \subseteq Ids(L) \X Ids(L) /\ S \subseteq Ids(L)
  BY <1>1 DEF Children, After
<1>4. After(C, R) \subseteq C
  BY <1>1 DEF After, Children
<1>5. S \subseteq C
  BY <1>1, <1>4 DEF After
<1>6. Closure(L, R, S) \subseteq C
  BY <1>3, <1>4, <1>5, ClosureLeast
<1> QED BY <1>2, <1>6

\* Every deleted connection but the first lies behind another.
LEMMA BranchHangsOn ==
    ASSUME NEW L, Len(L) \in Nat, NEW k \in Ids(L), NEW d \in onDeleteRecursive(L, k), d # k
    PROVE  \E i \in onDeleteRecursive(L, k) : L[d].from = L[i].to
<1>1. PICK D : D = onDeleteRecursive(L, k)
  OBVIOUS
<1> DEFINE C == {j \in D : j = k \/ \E i \in D : L[j].from = L[i].to}
<1>2. /\ D \subseteq Ids(L) /\ k \in D
      /\ \A i \in D : \A j \in Ids(L) : L[j].from = L[i].to /\ L[i].to # L[k].from => j \in D
  BY <1>1, BranchTakes
<1>3. /\ k \in C
      /\ \A i \in C : \A j \in Ids(L) : i \in Ids(L) /\ L[j].from = L[i].to /\ L[i].to # L[k].from => j \in C
  BY <1>2
<1>4. D \subseteq C
  <2> HIDE DEF C
  <2> QED BY <1>1, <1>3, BranchTakesLeast
<1> QED BY <1>1, <1>4

\* Without loops the walk never comes back to where the branch begins.
LEMMA BranchDeletionLeavesNoIslands ==
    ASSUME NEW V, NEW L, L \in Seq(V), OnTheMap(L), NoIslands(L), NoLoops(L), NEW k \in Ids(L)
    PROVE  NoIslands(Without(L, onDeleteRecursive(L, k)))
<1>0. Len(L) \in Nat
  BY DEF OnTheMap
<1>1. PICK D, W : D = onDeleteRecursive(L, k) /\ W = Reached(L, {L[k].to}, Ids(L))
  OBVIOUS
<1>2. /\ D \subseteq Ids(L) /\ k \in D
      /\ \A i \in D : \A j \in Ids(L) : L[j].from = L[i].to /\ L[i].to # L[k].from => j \in D
  BY <1>0, <1>1, BranchTakes
<1>3. L[k].to \in W /\ \A j \in Ids(L) : L[j].from \in W => L[j].to \in W
  <2>1. PICK S, K : S = {L[k].to} /\ K = Ids(L)
    OBVIOUS
  <2>2. S \subseteq Zones /\ K \subseteq Ids(L) /\ W = Reached(L, S, K)
    BY <1>1, <2>1 DEF OnTheMap
  <2> QED BY <2>1, <2>2, ReachedCloses
<1> DEFINE C == {i \in Ids(L) : L[i].to \in W}
<1>4. /\ k \in C
      /\ \A i \in C : \A j \in Ids(L) : i \in Ids(L) /\ L[j].from = L[i].to /\ L[i].to # L[k].from => j \in C
  BY <1>3
<1>5. D \subseteq C
  <2> HIDE DEF C
  <2> QED BY <1>0, <1>1, <1>4, BranchTakesLeast
<1>6. L[k].from \notin W
  BY <1>1 DEF NoLoops
<1>7. \A i \in D : \A j \in Ids(L) : L[j].from = L[i].to => j \in D
  BY <1>2, <1>5, <1>6
<1> QED BY <1>1, <1>2, <1>7, DeletionLeavesNoIslands

\* A zone's deletion leaves nothing of it.
LEMMA ZoneDeletionLeavesNothing ==
    ASSUME NEW V, NEW L, L \in Seq(V), OnTheMap(L), NoIslands(L), NEW z \in Zones \ Sources
    PROVE  /\ NoIslands(Without(L, handleDeleteOther(L, z)))
           /\ Touching(Without(L, handleDeleteOther(L, z)), z) = {}
           /\ NoIslands(Without(L, handleDeleteRoads(L, z)))
<1>0. Len(L) \in Nat
  BY DEF OnTheMap
<1>1. PICK D : D = handleDeleteOther(L, z)
  OBVIOUS
<1>2. /\ D \subseteq Ids(L) /\ \A k \in Ids(L) : L[k].to = z => k \in D
      /\ \A i \in D : \A j \in Ids(L) : L[j].from = L[i].to => j \in D
  <2>1. PICK S : S = {k \in Ids(L) : L[k].to = z}
    OBVIOUS
  <2>2. S \subseteq Ids(L) /\ D = WalkFrom(L, S)
    BY <1>1, <2>1 DEF handleDeleteOther
  <2> QED BY <1>0, <2>1, <2>2, WalkFromTakes
<1>3. NoIslands(Without(L, D))
  BY <1>2, DeletionLeavesNoIslands
<1>4. NoIslands(Without(L, handleDeleteRoads(L, z)))
  <2>1. PICK S, E : S = Touching(L, z) /\ E = handleDeleteRoads(L, z)
    OBVIOUS
  <2>2. S \subseteq Ids(L) /\ E = WalkFrom(L, S)
    BY <2>1 DEF handleDeleteRoads, Touching
  <2>3. /\ E \subseteq Ids(L)
        /\ \A i \in E : \A j \in Ids(L) : L[j].from = L[i].to => j \in E
    BY <1>0, <2>2, WalkFromTakes
  <2>4. NoIslands(Without(L, E))
    BY <2>3, DeletionLeavesNoIslands
  <2> QED BY <2>1, <2>4
<1>5. \A j \in Ids(L) \ D : z \notin {L[j].from, L[j].to}
  <2> DEFINE H == Sources \cup {L[i].to : i \in Ids(L)}
  <2>1. Sources \subseteq H /\ \A i \in Ids(L) : L[i].from \in H => L[i].to \in H
    OBVIOUS
  <2>2. FromHome(L, Ids(L)) \subseteq H
    <3> HIDE DEF H
    <3> QED BY <2>1, ReachedLeast, ZonesOK DEF FromHome
  <2>3. SUFFICES ASSUME NEW j \in Ids(L) \ D, z \in {L[j].from, L[j].to} PROVE FALSE
    OBVIOUS
  <2>4. L[j].from = z
    BY <1>2, <2>3
  <2>5. z \in H
    BY <2>2, <2>4 DEF NoIslands
  <2>6. PICK i \in Ids(L) : L[i].to = z
    BY <2>5
  <2> QED BY <1>2, <2>3, <2>4, <2>6
<1>6. Touching(Without(L, D), z) = {}
  <2>1. \A i \in Ids(Without(L, D)) : \E k \in Ids(L) \ D : L[k] = Without(L, D)[i]
    BY WithoutIs
  <2> QED BY <1>5, <2>1 DEF Touching
<1> QED BY <1>1, <1>3, <1>4, <1>6

\* With one way into a zone there is no other than the branch to what it takes.
LEMMA BranchDeletionTakesNoMore ==
    ASSUME NEW L, OnTheMap(L), OneWayIn(L), NEW k \in Ids(L), NEW d \in onDeleteRecursive(L, k) \ {k}
    PROVE  L[d].from \notin FromHome(L, Ids(L) \ {k})
<1>0. Len(L) \in Nat
  BY DEF OnTheMap
<1>1. PICK D : D = onDeleteRecursive(L, k)
  OBVIOUS
<1>2. D \subseteq Ids(L) /\ \A j \in D : j # k => \E i \in D : L[j].from = L[i].to
  BY <1>0, <1>1, BranchTakes, BranchHangsOn
<1> DEFINE P == Zones \ {L[i].to : i \in D}
<1>3. ASSUME NEW j \in Ids(L) \ {k}, L[j].from \in P PROVE L[j].to \in P
  <2>1. SUFFICES ASSUME NEW i \in D, L[j].to = L[i].to PROVE FALSE
    BY DEF OnTheMap
  <2>2. j = i
    BY <1>2, <2>1, OneWay
  <2> QED BY <1>2, <1>3, <2>2
<1>4. Sources \subseteq P
  BY <1>2, ZonesOK DEF OneWayIn, Entrances
<1>5. FromHome(L, Ids(L) \ {k}) \subseteq P
  <2> HIDE DEF P
  <2> QED BY <1>3, <1>4, ReachedLeast, ZonesOK DEF FromHome
<1> QED BY <1>1, <1>2, <1>5

-----------------------------------------------------------------------------
(* ZonePaths: every list the store may hold *)

Conn == [from : Zones, to : Zones, expired : BOOLEAN]

LEMMA PathsOnTheMap ==
    ASSUME PathsTypeOK
    PROVE  /\ conns \in Seq(Conn) /\ OnTheMap(conns)
           /\ \A k \in Ids(conns) : conns[k] \in Conn
<1>1. conns \in Seq(Conn) /\ Len(conns) \in Nat
  BY DEF PathsTypeOK, Conn
<1>2. \A k \in Ids(conns) : conns[k] \in Conn
  BY <1>1 DEF Ids
<1>3. \A k \in Ids(conns) : conns[k].from \in Zones /\ conns[k].to \in Zones
  BY <1>2 DEF Conn
<1> QED BY <1>1, <1>2, <1>3 DEF OnTheMap

LEMMA WithoutTyped ==
    ASSUME PathsTypeOK, NEW D, conns' = Without(conns, D)
    PROVE  PathsTypeOK'
<1>1. PICK M : M = Without(conns, D)
  OBVIOUS
<1>2. conns \in Seq(Conn) /\ Len(conns) <= MaxConns /\ Len(conns) \in Nat
  BY DEF PathsTypeOK, Conn
<1>3. /\ M \in Seq(Conn) /\ Len(M) <= Len(conns)
      /\ \A i \in Ids(M) : \E k \in Ids(conns) \ D : conns[k] = M[i]
  BY <1>1, <1>2, WithoutIs
<1>4. Len(M) \in Nat
  BY <1>3
<1>5. Len(M) <= MaxConns
  BY <1>2, <1>3, <1>4, MaxConnsOK
<1>6. \A k \in Ids(M) : M[k].from # M[k].to
  BY <1>3 DEF PathsTypeOK
<1> QED BY <1>1, <1>3, <1>5, <1>6 DEF PathsTypeOK, Conn

\* Every list the store may hold is one of connections between two zones, and
\* no longer than the bound.
THEOREM PathsTypeCorrect == PathsSpec => []PathsTypeOK
<1>1. PathsInit => PathsTypeOK
  <2>1. ASSUME conns = <<>> PROVE Len(conns) = 0 /\ Ids(conns) = {}
    BY <2>1 DEF Ids
  <2> QED BY <2>1, MaxConnsOK DEF PathsInit, PathsTypeOK
<1>2. ASSUME PathsTypeOK, [PathsNext]_conns PROVE PathsTypeOK'
  <2>0. conns \in Seq(Conn) /\ Len(conns) \in Nat /\ Len(conns) <= MaxConns
    BY <1>2 DEF PathsTypeOK, Conn
  <2>1. ASSUME NEW from \in Zones, NEW to \in Zones, Connect(from, to) PROVE PathsTypeOK'
    <3>1. PICK c : c = [from |-> from, to |-> to, expired |-> FALSE]
      OBVIOUS
    <3>2. c \in Conn /\ c.from # c.to /\ conns' = Append(conns, c) /\ Len(conns) < MaxConns
      BY <2>1, <3>1 DEF Connect, Conn
    <3>3. conns' \in Seq(Conn) /\ Len(conns') = Len(conns) + 1
      BY <2>0, <3>2
    <3>4. \A k \in Ids(conns') : conns'[k] = c \/ (k \in Ids(conns) /\ conns'[k] = conns[k])
      BY <2>0, <3>2 DEF Ids
    <3>5. \A k \in Ids(conns') : conns'[k].from # conns'[k].to
      BY <1>2, <3>2, <3>4 DEF PathsTypeOK
    <3>6. Len(conns') <= MaxConns
      BY <2>0, <3>2, <3>3, MaxConnsOK
    <3> QED BY <3>3, <3>5, <3>6 DEF PathsTypeOK, Conn
  <2>2. ASSUME NEW k \in Ids(conns), Expire(k) PROVE PathsTypeOK'
    <3>1. conns' = [conns EXCEPT ![k] = [conns[k] EXCEPT !.expired = TRUE]]
      BY <2>2 DEF Expire
    <3>2. conns[k] \in Conn
      BY <2>0 DEF Ids
    <3>3. PICK c : c = [conns[k] EXCEPT !.expired = TRUE]
      OBVIOUS
    <3>4. c \in Conn /\ c.from = conns[k].from /\ c.to = conns[k].to
      BY <3>2, <3>3 DEF Conn
    <3>5. conns' \in Seq(Conn) /\ Len(conns') = Len(conns)
      <4>1. PICK n \in Nat : n = Len(conns) /\ conns \in [1..n -> Conn]
        BY <2>0
      <4>2. conns' \in [1..n -> Conn]
        BY <3>1, <3>3, <3>4, <4>1
      <4>3. conns' \in Seq(Conn) /\ DOMAIN conns' = 1..n
        BY <4>1, <4>2
      <4>4. Len(conns') = n
        BY <4>1, <4>3
      <4> QED BY <4>1, <4>3, <4>4
    <3>6. \A j \in Ids(conns) : conns'[j] = IF j = k THEN c ELSE conns[j]
      BY <2>0, <3>1, <3>3 DEF Ids
    <3>7. \A j \in Ids(conns') : conns'[j].from # conns'[j].to
      BY <1>2, <3>4, <3>5, <3>6 DEF PathsTypeOK, Ids
    <3> QED BY <2>0, <3>5, <3>7 DEF PathsTypeOK, Conn
  <2>3. ASSUME NEW k \in Ids(conns), DeleteOne(k) \/ DeleteBranch(k) PROVE PathsTypeOK'
    BY <1>2, <2>3, WithoutTyped DEF DeleteOne, DeleteBranch
  <2>4. ASSUME NEW z \in Zones, DeleteRoadsZone(z) \/ DeleteOtherZone(z) PROVE PathsTypeOK'
    BY <1>2, <2>4, WithoutTyped DEF DeleteRoadsZone, DeleteOtherZone
  <2>5. ASSUME UNCHANGED conns PROVE PathsTypeOK'
    BY <1>2, <2>5 DEF PathsTypeOK, Ids
  <2> QED BY <1>2, <2>1, <2>2, <2>3, <2>4, <2>5 DEF PathsNext
<1> QED BY <1>1, <1>2, PTL DEF PathsSpec

\* On every map, of however many zones and connections, what is shown alive can
\* be reached and the reverse, so far as the map has no islands and no two ways
\* into a zone.
THEOREM ShownAliveIsTrue == PathsSpec => []ShownAliveIffReachable
<1>1. PathsTypeOK => ShownAliveIffReachable
  BY PathsOnTheMap, ShownAliveIsReachable, ReachableIsShownAlive DEF ShownAliveIffReachable
<1> QED BY <1>1, PathsTypeCorrect, PTL

\* On every map a deletion takes the branch, all of it and no more.
THEOREM DeletionAlwaysTakesTheBranch == PathsSpec => []DeletionTakesTheBranch
<1>1. ASSUME PathsTypeOK PROVE DeletionTakesTheBranch
  <2>1. conns \in Seq(Conn) /\ OnTheMap(conns)
    BY <1>1, PathsOnTheMap
  <2>2. ASSUME NoIslands(conns), NoLoops(conns), NEW k \in Ids(conns)
        PROVE  NoIslands(Without(conns, onDeleteRecursive(conns, k)))
    BY <2>1, <2>2, BranchDeletionLeavesNoIslands
  <2>3. ASSUME NoIslands(conns), NEW z \in Zones \ Sources
        PROVE  /\ NoIslands(Without(conns, handleDeleteOther(conns, z)))
               /\ Touching(Without(conns, handleDeleteOther(conns, z)), z) = {}
               /\ NoIslands(Without(conns, handleDeleteRoads(conns, z)))
    BY <2>1, <2>3, ZoneDeletionLeavesNothing
  <2>4. ASSUME OneWayIn(conns), NEW k \in Ids(conns), NEW d \in onDeleteRecursive(conns, k) \ {k}
        PROVE  conns[d].from \notin FromHome(conns, Ids(conns) \ {k})
    BY <2>1, <2>4, BranchDeletionTakesNoMore
  <2> QED BY <2>2, <2>3, <2>4 DEF DeletionTakesTheBranch
<1> QED BY <1>1, PathsTypeCorrect, PTL

-----------------------------------------------------------------------------
(* The route search: one round *)

Entry(L) == [zone : Zones, path : Seq(Ids(L)), reversed : SUBSET Ids(L)]
Begin(L, e, k) == IF k \in e.reversed THEN L[k].to ELSE L[k].from
Stop(L, e, k) == IF k \in e.reversed THEN L[k].from ELSE L[k].to

\* The zones an entry's path goes through, none of them twice.
Passes(L, a, V, e, zs) ==
  /\ zs \in [0..Len(e.path) -> V]
  /\ zs[0] = a /\ zs[Len(e.path)] = e.zone
  /\ \A i \in 1..Len(e.path) : Begin(L, e, e.path[i]) = zs[i-1] /\ Stop(L, e, e.path[i]) = zs[i]
  /\ \A i, j \in 0..Len(e.path) : zs[i] = zs[j] => i = j
  /\ \A k \in e.reversed : \E i \in 1..Len(e.path) : k = e.path[i]
Leads(L, a, V, e) == e \in Entry(L) /\ \E zs : Passes(L, a, V, e, zs)

\* A walk over zones visited may go on to one that is not.
Onward(L, e, k) ==
  [zone |-> Other(L, k, e.zone), path |-> Append(e.path, k),
   reversed |-> e.reversed \cup {h \in {k} : L[h].to = e.zone}]

Simple(L) == OnTheMap(L) /\ \A k \in Ids(L) : L[k].from # L[k].to

LEMMA LeadsOn ==
    ASSUME NEW L, Simple(L), NEW a, NEW V, V \subseteq Zones, NEW e, Leads(L, a, V, e),
           NEW k \in Touching(L, e.zone), Other(L, k, e.zone) \notin V
    PROVE  Leads(L, a, V \cup {Other(L, k, e.zone)}, Onward(L, e, k))
<1>1. PICK f, n, u, p : f = Onward(L, e, k) /\ n = Len(e.path) /\ u = Other(L, k, e.zone) /\ p = e.path
  OBVIOUS
<1>2. PICK zs : Passes(L, a, V, e, zs)
  BY DEF Leads
<1>3. k \in Ids(L) /\ e.zone \in {L[k].from, L[k].to} /\ u \in Zones
  BY <1>1 DEF Touching, Other, Simple, OnTheMap
<1>4. /\ e.zone \in Zones /\ p \in Seq(Ids(L)) /\ e.reversed \subseteq Ids(L)
      /\ n \in Nat /\ \A i \in 1..n : p[i] \in Ids(L)
  BY <1>1 DEF Leads, Entry
<1>5. /\ f.zone = u /\ f.path = Append(p, k)
      /\ f.reversed = e.reversed \cup {h \in {k} : L[h].to = e.zone}
  BY <1>1 DEF Onward
<1>6. /\ f.path \in Seq(Ids(L)) /\ Len(f.path) = n + 1 /\ f.path[n + 1] = k
      /\ \A i \in 1..n : f.path[i] = p[i]
  BY <1>1, <1>3, <1>4, <1>5
<1>7. f \in Entry(L)
  <2>1. f.reversed \subseteq Ids(L)
    BY <1>3, <1>4, <1>5
  <2>2. f = [zone |-> f.zone, path |-> f.path, reversed |-> f.reversed]
    BY <1>1 DEF Onward
  <2> QED BY <1>3, <1>5, <1>6, <2>1, <2>2 DEF Entry
<1>8. /\ zs \in [0..n -> V] /\ zs[0] = a /\ zs[n] = e.zone
      /\ \A i \in 1..n : Begin(L, e, p[i]) = zs[i-1] /\ Stop(L, e, p[i]) = zs[i]
      /\ \A i, j \in 0..n : zs[i] = zs[j] => i = j
      /\ \A h \in e.reversed : \E i \in 1..n : h = p[i]
  BY <1>1, <1>2 DEF Passes
<1>9. \A i \in 1..n : p[i] # k
  <2>1. SUFFICES ASSUME NEW i \in 1..n, p[i] = k PROVE FALSE
    OBVIOUS
  <2>2. zs[i] \in V /\ zs[i-1] \in V
    BY <1>4, <1>8
  <2>3. L[k].from \in V /\ L[k].to \in V
    BY <1>8, <2>1, <2>2 DEF Begin, Stop
  <2> QED BY <1>1, <2>3 DEF Other
<1>10. k \notin e.reversed
  BY <1>8, <1>9
<1>11. PICK ys : ys = [i \in 0..(n + 1) |-> IF i = n + 1 THEN u ELSE zs[i]]
  OBVIOUS
<1>12. \A i \in 0..(n + 1) : i = n + 1 \/ i \in 0..n
  BY <1>4
<1>13. ys[n + 1] = u /\ \A i \in 0..n : ys[i] = zs[i]
  BY <1>4, <1>11
<1>14. ys \in [0..(n + 1) -> V \cup {u}]
  BY <1>8, <1>11, <1>12
<1>15. Begin(L, f, k) = e.zone /\ Stop(L, f, k) = u
  BY <1>1, <1>3, <1>5, <1>10 DEF Begin, Stop, Other, Simple
<1>16. ASSUME NEW i \in 1..(n + 1)
       PROVE  Begin(L, f, f.path[i]) = ys[i-1] /\ Stop(L, f, f.path[i]) = ys[i]
  <2>1. CASE i = n + 1
    <3>1. ys[i - 1] = e.zone
      BY <1>4, <1>8, <1>13, <2>1
    <3> QED BY <1>6, <1>13, <1>15, <2>1, <3>1
  <2>2. CASE i \in 1..n
    <3>0. i - 1 \in 0..n /\ i \in 0..n
      BY <1>4, <2>2
    <3>1. ys[i - 1] = zs[i - 1] /\ ys[i] = zs[i] /\ f.path[i] = p[i] /\ p[i] # k
      BY <1>6, <1>9, <1>13, <2>2, <3>0
    <3>2. p[i] \in f.reversed <=> p[i] \in e.reversed
      BY <1>5, <3>1
    <3>3. Begin(L, f, p[i]) = Begin(L, e, p[i]) /\ Stop(L, f, p[i]) = Stop(L, e, p[i])
      BY <3>2 DEF Begin, Stop
    <3>4. Begin(L, e, p[i]) = zs[i - 1] /\ Stop(L, e, p[i]) = zs[i]
      BY <1>8, <2>2
    <3>5. Begin(L, f, f.path[i]) = Begin(L, f, p[i]) /\ Stop(L, f, f.path[i]) = Stop(L, f, p[i])
      BY <3>1
    <3> QED BY <3>1, <3>3, <3>4, <3>5
  <2> QED BY <1>4, <2>1, <2>2
<1>17. ASSUME NEW i \in 0..(n + 1), NEW j \in 0..(n + 1), ys[i] = ys[j] PROVE i = j
  <2>1. \A h \in 0..n : ys[h] # u
    <3>1. u \notin V
      BY <1>1
    <3>2. \A h \in 0..n : zs[h] \in V
      BY <1>8
    <3> QED BY <1>13, <3>1, <3>2
  <2> QED BY <1>8, <1>12, <1>13, <1>17, <2>1
<1>18. \A h \in f.reversed : \E i \in 1..(n + 1) : h = f.path[i]
  <2>1. ASSUME NEW h \in e.reversed PROVE \E i \in 1..(n + 1) : h = f.path[i]
    <3>1. PICK i \in 1..n : h = p[i]
      BY <1>8
    <3>2. i \in 1..(n + 1)
      BY <1>4
    <3> QED BY <1>6, <3>1, <3>2
  <2>2. n + 1 \in 1..(n + 1)
    BY <1>4
  <2> QED BY <1>5, <1>6, <2>1, <2>2
<1>19. ys[0] = a /\ ys[n + 1] = f.zone
  BY <1>4, <1>5, <1>8, <1>13
<1>20. Passes(L, a, V \cup {u}, f, ys)
  BY <1>6, <1>14, <1>16, <1>17, <1>18, <1>19 DEF Passes
<1> QED BY <1>1, <1>7, <1>20 DEF Leads

\* It may be seen as a walk over more zones.
LEMMA LeadsOver ==
    ASSUME NEW L, NEW a, NEW V, NEW W, V \subseteq W, NEW e, Leads(L, a, V, e)
    PROVE  Leads(L, a, W, e) /\ e.zone \in W
<1>1. PICK zs : Passes(L, a, V, e, zs)
  BY DEF Leads
<1>2. Len(e.path) \in Nat
  BY DEF Leads, Entry
<1>3. zs \in [0..Len(e.path) -> W] /\ zs[Len(e.path)] \in W
  BY <1>1, <1>2 DEF Passes
<1>4. Passes(L, a, W, e, zs) /\ e.zone \in W
  BY <1>1, <1>3 DEF Passes
<1> QED BY <1>4 DEF Leads

\* The first of a set of numbers.
LEMMA First ==
    ASSUME NEW T, T \subseteq Nat, T # {}
    PROVE  \E m \in T : \A x \in T : m <= x
<1>1. PICK R : R = OpToRel(<, Nat) /\ IsWellFoundedOn(R, Nat)
  BY NatLessThanWellFounded
<1>2. PICK x \in T : \A y \in T : <<y, x>> \notin R
  BY <1>1, WFMin
<1>3. \A y \in T : ~(y < x)
  BY <1>1, <1>2 DEF OpToRel
<1> QED BY <1>2, <1>3

\* FirstTo takes one connection to every neighbour not visited.
Takes(L, z, V, new) ==
  /\ new \in Seq(Ids(L))
  /\ \A i \in 1..Len(new) : new[i] \in Touching(L, z) /\ Other(L, new[i], z) \notin V
  /\ \A i, j \in 1..Len(new) : Other(L, new[i], z) = Other(L, new[j], z) => i = j
  /\ \A k \in Touching(L, z) : Other(L, k, z) \notin V =>
        \E i \in 1..Len(new) : Other(L, new[i], z) = Other(L, k, z)

LEMMA FirstToTakes ==
    ASSUME NEW L, Len(L) \in Nat, NEW z, NEW V
    PROVE  Takes(L, z, V, FirstTo(L, z, V))
<1>0. PICK M, T : M = [k \in Ids(L) |-> k] /\ T = Touching(L, z)
  OBVIOUS
<1>1. PICK K : K = {k \in T : /\ Other(L, k, z) \notin V
                              /\ \A j \in T : Other(L, j, z) = Other(L, k, z) => k <= j}
  OBVIOUS
<1>2. M \in Seq(Ids(L)) /\ Len(M) = Len(L) /\ Ids(M) = Ids(L)
  BY <1>0 DEF Ids
<1>3. K \subseteq Ids(L) /\ T \subseteq Ids(L) /\ \A k \in T : M[k] = k /\ k \in Nat /\ k <= Len(L)
  BY <1>0, <1>1 DEF Touching, Ids
<1>4. PICK new : new = Kept(M, K)
  OBVIOUS
<1>5. KeptOf(Ids(L), M, K, new, Len(L))
  <2>1. KeptOf(Ids(L), M, K, Kept(M, K), Len(M))
    BY <1>2, <1>3, KeptIs
  <2> QED BY <1>2, <1>4, <2>1
<1>6. /\ new \in Seq(Ids(L))
      /\ \A i \in 1..Len(new) : new[i] \in K
      /\ \A k \in K : \E i \in 1..Len(new) : new[i] = k
      /\ \A i, j \in 1..Len(new) : new[i] = new[j] => i = j
  <2>1. \A k \in K : M[k] = k /\ k <= Len(L)
    BY <1>1, <1>3
  <2>2. \A i \in 1..Len(new) : \E k \in K : M[k] = new[i]
    BY <1>5 DEF KeptOf
  <2>3. \A k \in K : \E i \in 1..Len(new) : new[i] = M[k]
    BY <1>5, <2>1 DEF KeptOf
  <2>4. \A i, j \in 1..Len(new) : new[i] = new[j] => i = j
    BY <1>5, <2>1 DEF KeptOf
  <2>5. new \in Seq(Ids(L))
    BY <1>5 DEF KeptOf
  <2> QED BY <2>1, <2>2, <2>3, <2>4, <2>5
<1>7. ASSUME NEW i \in 1..Len(new), NEW j \in 1..Len(new), Other(L, new[i], z) = Other(L, new[j], z)
      PROVE  i = j
  <2>1. new[i] \in K /\ new[j] \in K
    BY <1>6
  <2>2. new[i] <= new[j] /\ new[j] <= new[i] /\ new[i] \in Nat /\ new[j] \in Nat
    BY <1>1, <1>3, <1>7, <2>1
  <2> QED BY <1>6, <2>2
<1>8. ASSUME NEW k \in T, Other(L, k, z) \notin V
      PROVE  \E i \in 1..Len(new) : Other(L, new[i], z) = Other(L, k, z)
  <2>1. PICK J : J = {j \in T : Other(L, j, z) = Other(L, k, z)}
    OBVIOUS
  <2>2. J \subseteq Nat /\ k \in J
    BY <1>3, <2>1
  <2>3. PICK m \in J : \A x \in J : m <= x
    BY <2>2, First
  <2>4. m \in K
    BY <1>1, <1>8, <2>1, <2>3
  <2>5. PICK i \in 1..Len(new) : new[i] = m
    BY <1>6, <2>4
  <2> QED BY <2>1, <2>5
<1>9. FirstTo(L, z, V) = new
  BY <1>0, <1>1, <1>4 DEF FirstTo
<1>10. Takes(L, z, V, new)
  BY <1>0, <1>1, <1>6, <1>7, <1>8 DEF Takes
<1> QED BY <1>9, <1>10

\* The search, as long as it goes on: the queue holds zones seen and not yet
\* looked at, in the order of their distance, each with a way to it; from the
\* others seen there is nothing more to see, and all that is nearer than the
\* queue's head has been seen.
Queued(s) == {s.queue[i].zone : i \in 1..Len(s.queue)}
LookedAt(s) == s.visited \ Queued(s)
SearchTyped(L, a, s) == s.visited \subseteq Zones /\ a \in s.visited /\ s.queue \in Seq(Entry(L))
SearchWalks(L, a, s) == \A i \in 1..Len(s.queue) : Leads(L, a, s.visited, s.queue[i])
SearchOnce(s) == \A i, j \in 1..Len(s.queue) : s.queue[i].zone = s.queue[j].zone => i = j
SearchDone(L, b, s) ==
  /\ b \notin LookedAt(s)
  /\ \A k \in Ids(L) : /\ L[k].from \in LookedAt(s) => L[k].to \in s.visited
                       /\ L[k].to \in LookedAt(s) => L[k].from \in s.visited
SearchSorted(s) ==
  \A i, j \in 1..Len(s.queue) :
    /\ i <= j => Len(s.queue[i].path) <= Len(s.queue[j].path)
    /\ Len(s.queue[j].path) <= Len(s.queue[1].path) + 1
SearchFar(L, a, s) ==
  \A i \in 1..Len(s.queue) : \A m \in Nat :
    m < Len(s.queue[i].path) => s.queue[i].zone \notin Ball(L, a, m)
SearchSeen(L, a, s) ==
  Len(s.queue) > 0 => \A m \in 0..Len(s.queue[1].path) : Ball(L, a, m) \subseteq s.visited
Searching(L, a, b, s) ==
  /\ SearchTyped(L, a, s) /\ SearchWalks(L, a, s) /\ SearchOnce(s)
  /\ SearchDone(L, b, s) /\ SearchSorted(s) /\ SearchFar(L, a, s) /\ SearchSeen(L, a, s)
Stopped(b, s) == s.queue = <<>> \/ Head(s.queue).zone = b

\* Two sequences one after the other.
IsJoin(E, p, q, r) ==
  /\ r \in Seq(E) /\ Len(r) = Len(p) + Len(q)
  /\ \A i \in 1..Len(p) : r[i] = p[i]
  /\ \A i \in 1..Len(q) : r[Len(p) + i] = q[i]

LEMMA Joined ==
    ASSUME NEW E, NEW p, p \in Seq(E), NEW q, q \in Seq(E), NEW r, r = p \o q
    PROVE  IsJoin(E, p, q, r)
<1>1. PICK l, m : l = Len(p) /\ m = Len(q)
  OBVIOUS
<1>2. l \in Nat /\ m \in Nat
  BY <1>1
<1>3. r \in Seq(E) /\ Len(r) = l + m
  BY <1>1
<1>4. \A i \in 1..l : r[i] = p[i]
  BY <1>1
<1>5. ASSUME NEW i \in 1..m PROVE r[l + i] = q[i]
  <2>1. PICK j : j = l + i
    OBVIOUS
  <2>2. j \in 1..(l + m) /\ j > l /\ j - l = i
    BY <1>2, <2>1
  <2>3. r[j] = q[j - l]
    BY <1>1, <1>2, <2>2
  <2> QED BY <2>1, <2>2, <2>3
<1> QED BY <1>1, <1>3, <1>4, <1>5 DEF IsJoin

\* What a round does to the queue.
Moves(L, s, t, new, h, n) ==
  /\ h \in Nat /\ n \in Nat /\ Len(s.queue) = h + 1 /\ n = Len(new)
  /\ t.queue \in Seq(Entry(L)) /\ Len(t.queue) = h + n
  /\ \A i \in 1..h : t.queue[i] = s.queue[i + 1]
  /\ \A i \in 1..n : t.queue[h + i] = Onward(L, s.queue[1], new[i])
  /\ t.visited = s.visited \cup {Other(L, new[i], s.queue[1].zone) : i \in 1..n}

LEMMA RoundMoves ==
    ASSUME NEW L, Simple(L), NEW a, NEW b, NEW s, Searching(L, a, b, s), ~Stopped(b, s)
    PROVE  \E new, h, n : /\ Takes(L, s.queue[1].zone, s.visited, new)
                          /\ Moves(L, s, Round(L, b, s), new, h, n)
<1>1. PICK q, at, new : q = s.queue /\ at = q[1] /\ new = FirstTo(L, at.zone, s.visited)
  OBVIOUS
<1>2. /\ q \in Seq(Entry(L)) /\ q # <<>> /\ Len(q) \in Nat /\ Len(q) # 0 /\ Head(q) = at
      /\ Leads(L, a, s.visited, at) /\ s.visited \subseteq Zones
  BY <1>1 DEF Searching, SearchTyped, SearchWalks, Stopped
<1>3. PICK h, n : h = Len(q) - 1 /\ n = Len(new)
  OBVIOUS
<1>4. Takes(L, at.zone, s.visited, new)
  BY <1>1, FirstToTakes DEF Simple, OnTheMap
<1>5. h \in Nat /\ n \in Nat /\ Len(q) = h + 1 /\ new \in Seq(Ids(L)) /\ DOMAIN new = 1..n
  BY <1>2, <1>3, <1>4 DEF Takes
<1>6. PICK added : added = [i \in 1..n |-> Onward(L, at, new[i])]
  OBVIOUS
<1>7. \A i \in 1..n : Onward(L, at, new[i]) \in Entry(L)
  <2>1. SUFFICES ASSUME NEW i \in 1..n PROVE Onward(L, at, new[i]) \in Entry(L)
    OBVIOUS
  <2>2. new[i] \in Touching(L, at.zone) /\ Other(L, new[i], at.zone) \notin s.visited
    BY <1>3, <1>4 DEF Takes
  <2>3. Leads(L, a, s.visited \cup {Other(L, new[i], at.zone)}, Onward(L, at, new[i]))
    BY <1>2, <2>2, LeadsOn
  <2> QED BY <2>3 DEF Leads
<1>8. added \in Seq(Entry(L)) /\ Len(added) = n /\ \A i \in 1..n : added[i] = Onward(L, at, new[i])
  BY <1>5, <1>6, <1>7
<1>9. PICK E, r, rest : E = Entry(L) /\ rest = Tail(q) /\ r = rest \o added
  OBVIOUS
<1>10. rest \in Seq(E) /\ Len(rest) = h /\ \A i \in 1..h : rest[i] = q[i + 1]
  BY <1>2, <1>5, <1>9
<1>11. /\ r \in Seq(E) /\ Len(r) = h + n
       /\ \A i \in 1..h : r[i] = rest[i]
       /\ \A i \in 1..n : r[h + i] = added[i]
  <2>1. rest \in Seq(E) /\ added \in Seq(E) /\ Len(rest) = h /\ Len(added) = n
    BY <1>8, <1>9, <1>10
  <2>2. IsJoin(E, rest, added, r)
    BY <1>9, <2>1, Joined
  <2> QED BY <2>1, <2>2 DEF IsJoin
<1>12. PICK t : t = Round(L, b, s)
  OBVIOUS
<1>13. t = [queue |-> Tail(q) \o [i \in DOMAIN new |->
                        [zone |-> Other(L, new[i], at.zone),
                         path |-> Append(at.path, new[i]),
                         reversed |-> at.reversed \cup
                           {k \in {new[i]} : L[k].to = at.zone}]],
           visited |-> s.visited \cup {Other(L, k, at.zone) : k \in ToSet(new)}]
  BY <1>1, <1>2, <1>12 DEF Round, Stopped
<1>14. t.queue = r
  BY <1>5, <1>6, <1>9, <1>13 DEF Onward
<1>15. t.visited = s.visited \cup {Other(L, new[i], at.zone) : i \in 1..n}
  BY <1>5, <1>13 DEF ToSet
<1>16. Moves(L, s, t, new, h, n)
  <2>1. \A i \in 1..h : t.queue[i] = q[i + 1]
    BY <1>10, <1>11, <1>14
  <2>2. \A i \in 1..n : t.queue[h + i] = Onward(L, at, new[i])
    BY <1>8, <1>11, <1>14
  <2>3. t.queue \in Seq(Entry(L)) /\ Len(t.queue) = h + n
    BY <1>9, <1>11, <1>14
  <2>4. h \in Nat /\ n \in Nat /\ Len(s.queue) = h + 1 /\ n = Len(new)
    BY <1>1, <1>3, <1>5
  <2>5. q = s.queue /\ at = s.queue[1]
    BY <1>1
  <2>6. t.visited = s.visited \cup {Other(L, new[i], s.queue[1].zone) : i \in 1..n}
    BY <1>15, <2>5
  <2> HIDE <1>1
  <2> QED BY <2>1, <2>2, <2>3, <2>4, <2>5, <2>6 DEF Moves
<1> QED BY <1>1, <1>4, <1>12, <1>16

\* One connection more leads from a zone to its neighbours.
LEMMA BallGrows ==
    ASSUME NEW L, OnTheMap(L), NEW a \in Zones, NEW m \in Nat
    PROVE  /\ Ball(L, a, 0) = {a}
           /\ \A z \in Ball(L, a, m + 1) \ Ball(L, a, m) : \E k \in Ids(L) :
                \/ L[k].from \in Ball(L, a, m) /\ L[k].to = z
                \/ L[k].to \in Ball(L, a, m) /\ L[k].from = z
<1>1. PICK R, S : R = Neighbours(L) /\ S = {a}
  OBVIOUS
<1>2. R \subseteq Zones \X Zones /\ S \subseteq Zones
  BY <1>1 DEF Neighbours, OnTheMap
<1>3. Ball(L, a, 0) = {a} /\ Ball(L, a, m + 1) = Ball(L, a, m) \cup After(Ball(L, a, m), R)
  <2>1. Within(S, 0, R) = S /\ Within(S, m + 1, R) = Within(S, m, R) \cup After(Within(S, m, R), R)
    BY <1>2, WithinNext
  <2> QED BY <1>1, <2>1 DEF Ball
<1>4. ASSUME NEW z \in Ball(L, a, m + 1) \ Ball(L, a, m)
      PROVE  \E k \in Ids(L) : \/ L[k].from \in Ball(L, a, m) /\ L[k].to = z
                               \/ L[k].to \in Ball(L, a, m) /\ L[k].from = z
  <2>1. PICK e \in R : e[1] \in Ball(L, a, m) /\ e[2] = z
    BY <1>3 DEF After
  <2>2. \E k \in Ids(L) : e = <<L[k].from, L[k].to>> \/ e = <<L[k].to, L[k].from>>
    BY <1>1, <2>1 DEF Neighbours
  <2> QED BY <2>1, <2>2
<1> QED BY <1>3, <1>4

\* The search goes on.
LEMMA RoundKeeps ==
    ASSUME NEW L, Simple(L), NEW a \in Zones, NEW b, NEW s, Searching(L, a, b, s), ~Stopped(b, s),
           NEW t, t = Round(L, b, s)
    PROVE  /\ Searching(L, a, b, t)
           /\ LookedAt(t) = LookedAt(s) \cup {s.queue[1].zone} /\ s.queue[1].zone \notin LookedAt(s)
<1>1. PICK new, h, n : Takes(L, s.queue[1].zone, s.visited, new) /\ Moves(L, s, t, new, h, n)
  BY RoundMoves
<1>2. PICK q, r, at, V, W : q = s.queue /\ r = t.queue /\ at = q[1] /\ V = s.visited /\ W = t.visited
  OBVIOUS
<1>3. PICK U : U = {Other(L, new[i], at.zone) : i \in 1..n}
  OBVIOUS
<1>4. /\ h \in Nat /\ n \in Nat /\ Len(q) = h + 1 /\ n = Len(new)
      /\ r \in Seq(Entry(L)) /\ Len(r) = h + n
      /\ \A i \in 1..h : r[i] = q[i + 1]
      /\ \A i \in 1..n : r[h + i] = Onward(L, at, new[i])
      /\ W = V \cup U
  BY <1>1, <1>2, <1>3 DEF Moves
<1>5. /\ \A i \in 1..n : new[i] \in Touching(L, at.zone) /\ Other(L, new[i], at.zone) \notin V
      /\ \A i, j \in 1..n : Other(L, new[i], at.zone) = Other(L, new[j], at.zone) => i = j
      /\ \A k \in Touching(L, at.zone) : Other(L, k, at.zone) \notin V =>
            \E i \in 1..n : Other(L, new[i], at.zone) = Other(L, k, at.zone)
  BY <1>1, <1>2, <1>4 DEF Takes
<1>6. at.zone # b
  BY <1>2, <1>4 DEF Searching, SearchTyped, Stopped
<1>7. \A i \in 1..(h + n) : (i \in 1..h) \/ \E j \in 1..n : i = h + j
  <2>1. ASSUME NEW i \in 1..(h + n), i \notin 1..h PROVE \E j \in 1..n : i = h + j
    <3>1. i - h \in 1..n /\ i = h + (i - h)
      BY <1>4, <2>1
    <3> QED BY <3>1
  <2> QED BY <2>1
<1>8. \A i \in 1..h : i + 1 \in 1..(h + 1) /\ i + 1 # 1
  BY <1>4
<1>9. 1 \in 1..(h + 1)
  BY <1>4
<1>10. /\ V \subseteq Zones /\ a \in V /\ q \in Seq(Entry(L))
       /\ \A i \in 1..(h + 1) : Leads(L, a, V, q[i]) /\ q[i].zone \in V /\ Len(q[i].path) \in Nat
       /\ \A i, j \in 1..(h + 1) : q[i].zone = q[j].zone => i = j
  <2>1. V \subseteq Zones /\ a \in V /\ q \in Seq(Entry(L))
    BY <1>2 DEF Searching, SearchTyped
  <2>2. \A i \in 1..(h + 1) : Leads(L, a, V, q[i])
    BY <1>2, <1>4 DEF Searching, SearchWalks
  <2>3. \A i \in 1..(h + 1) : q[i].zone \in V /\ Len(q[i].path) \in Nat
    BY <2>2, LeadsOver DEF Leads, Entry
  <2>4. \A i, j \in 1..(h + 1) : q[i].zone = q[j].zone => i = j
    BY <1>2, <1>4 DEF Searching, SearchOnce
  <2> QED BY <2>1, <2>2, <2>3, <2>4
<1>11. \A i \in 1..n : /\ r[h + i].zone = Other(L, new[i], at.zone) /\ r[h + i].zone \notin V
                        /\ r[h + i].zone \in U /\ r[h + i].path = Append(at.path, new[i])
  <2>1. SUFFICES ASSUME NEW i \in 1..n
                 PROVE  /\ r[h + i].zone = Other(L, new[i], at.zone) /\ r[h + i].zone \notin V
                        /\ r[h + i].zone \in U /\ r[h + i].path = Append(at.path, new[i])
    OBVIOUS
  <2>2. PICK o : o = Onward(L, at, new[i])
    OBVIOUS
  <2>3. o.zone = Other(L, new[i], at.zone) /\ o.path = Append(at.path, new[i])
    BY <2>2 DEF Onward
  <2>4. r[h + i] = o
    BY <1>4, <2>2
  <2> QED BY <1>3, <1>5, <2>3, <2>4
<1>12. \A i \in 1..h : r[i] = q[i + 1] /\ r[i].zone \in V /\ r[i].zone # at.zone
  BY <1>2, <1>4, <1>8, <1>9, <1>10
<1>13. U \subseteq Zones /\ W \subseteq Zones /\ V \subseteq W /\ U \cap V = {}
  <2>1. \A i \in 1..n : Other(L, new[i], at.zone) \in Zones
    BY <1>5 DEF Touching, Other, Simple, OnTheMap
  <2> QED BY <1>3, <1>4, <1>5, <1>10, <2>1
<1>14. SearchTyped(L, a, t)
  BY <1>2, <1>4, <1>10, <1>13 DEF SearchTyped
<1>15. SearchWalks(L, a, t)
  <2>1. ASSUME NEW i \in 1..h PROVE Leads(L, a, W, r[i])
    BY <1>8, <1>10, <1>12, <1>13, LeadsOver
  <2>2. ASSUME NEW i \in 1..n PROVE Leads(L, a, W, r[h + i])
    <3>1. Leads(L, a, V \cup {Other(L, new[i], at.zone)}, Onward(L, at, new[i]))
      BY <1>2, <1>5, <1>9, <1>10, LeadsOn
    <3>2. V \cup {Other(L, new[i], at.zone)} \subseteq W
      BY <1>3, <1>4
    <3> QED BY <1>4, <3>1, <3>2, LeadsOver
  <2>3. \A i \in 1..(h + n) : Leads(L, a, W, r[i])
    BY <1>7, <2>1, <2>2
  <2> QED BY <1>2, <1>4, <2>3 DEF SearchWalks
<1>16. SearchOnce(t)
  <2>1. ASSUME NEW i \in 1..(h + n), NEW j \in 1..(h + n), r[i].zone = r[j].zone PROVE i = j
    <3>1. CASE i \in 1..h /\ j \in 1..h
      <4>1. i + 1 = j + 1
        BY <1>8, <1>10, <1>12, <2>1, <3>1
      <4> QED BY <4>1
    <3>2. CASE i \in 1..h /\ j \notin 1..h
      BY <1>7, <1>11, <1>12, <2>1, <3>2
    <3>3. CASE i \notin 1..h /\ j \in 1..h
      BY <1>7, <1>11, <1>12, <2>1, <3>3
    <3>4. CASE i \notin 1..h /\ j \notin 1..h
      BY <1>5, <1>7, <1>11, <2>1, <3>4
    <3> QED BY <3>1, <3>2, <3>3, <3>4
  <2> QED BY <1>2, <1>4, <2>1 DEF SearchOnce
<1>17. Queued(s) = {at.zone} \cup {q[i + 1].zone : i \in 1..h}
  <2>1. \A i \in 1..(h + 1) : i = 1 \/ \E j \in 1..h : i = j + 1
    <3>1. ASSUME NEW i \in 1..(h + 1), i # 1 PROVE \E j \in 1..h : i = j + 1
      <4>1. i - 1 \in 1..h /\ i = (i - 1) + 1
        BY <1>4, <3>1
      <4> QED BY <4>1
    <3> QED BY <3>1
  <2>2. Queued(s) = {q[i].zone : i \in 1..(h + 1)}
    BY <1>2, <1>4 DEF Queued
  <2>3. \A z \in Queued(s) : z \in {at.zone} \cup {q[i + 1].zone : i \in 1..h}
    BY <1>2, <2>1, <2>2
  <2>4. \A z \in {at.zone} \cup {q[i + 1].zone : i \in 1..h} : z \in Queued(s)
    BY <1>2, <1>8, <1>9, <2>2
  <2> QED BY <2>3, <2>4
<1>18. Queued(t) = {q[i + 1].zone : i \in 1..h} \cup U
  <2>1. Queued(t) = {r[i].zone : i \in 1..(h + n)}
    BY <1>2, <1>4 DEF Queued
  <2>2. \A z \in Queued(t) : z \in {q[i + 1].zone : i \in 1..h} \cup U
    BY <1>7, <1>11, <1>12, <2>1
  <2>3. \A i \in 1..h : i \in 1..(h + n)
    BY <1>4
  <2>4. \A i \in 1..n : h + i \in 1..(h + n)
    BY <1>4
  <2>5. \A z \in U : z \in Queued(t)
    BY <1>3, <1>11, <2>1, <2>4
  <2>6. \A i \in 1..h : q[i + 1].zone \in Queued(t)
    BY <1>12, <2>1, <2>3
  <2> QED BY <2>2, <2>5, <2>6
<1>19. /\ LookedAt(t) = LookedAt(s) \cup {at.zone} /\ at.zone \notin LookedAt(s)
       /\ at.zone \in V
  <2>1. at.zone \in V
    BY <1>2, <1>9, <1>10
  <2>2. \A i \in 1..h : q[i + 1].zone # at.zone /\ q[i + 1].zone \in V
    BY <1>12
  <2> QED BY <1>2, <1>4, <1>13, <1>17, <1>18, <2>1, <2>2 DEF LookedAt
<1>20. SearchDone(L, b, t)
  <2>1. b \notin LookedAt(t)
    BY <1>6, <1>19 DEF Searching, SearchDone
  <2>2. ASSUME NEW k \in Touching(L, at.zone) PROVE Other(L, k, at.zone) \in W
    BY <1>3, <1>4, <1>5, <2>2
  <2>3. ASSUME NEW k \in Ids(L), L[k].from \in LookedAt(t) PROVE L[k].to \in W
    <3>1. CASE L[k].from \in LookedAt(s)
      BY <1>2, <1>13, <3>1 DEF Searching, SearchDone
    <3>2. CASE L[k].from = at.zone
      <4>1. k \in Touching(L, at.zone) /\ Other(L, k, at.zone) = L[k].to
        BY <3>2 DEF Touching, Other
      <4> QED BY <2>2, <4>1
    <3> QED BY <1>19, <2>3, <3>1, <3>2
  <2>4. ASSUME NEW k \in Ids(L), L[k].to \in LookedAt(t) PROVE L[k].from \in W
    <3>1. CASE L[k].to \in LookedAt(s)
      BY <1>2, <1>13, <3>1 DEF Searching, SearchDone
    <3>2. CASE L[k].to = at.zone
      <4>1. k \in Touching(L, at.zone) /\ Other(L, k, at.zone) = L[k].from
        BY <3>2 DEF Touching, Other, Simple
      <4> QED BY <2>2, <4>1
    <3> QED BY <1>19, <2>4, <3>1, <3>2
  <2> QED BY <1>2, <2>1, <2>3, <2>4 DEF SearchDone
<1>21. PICK d : d = Len(at.path) /\ d \in Nat
  BY <1>2, <1>9, <1>10
<1>22. \A i \in 1..n : Len(r[h + i].path) = d + 1
  <2>1. at.path \in Seq(Ids(L)) /\ \A i \in 1..n : new[i] \in Ids(L)
    BY <1>2, <1>5, <1>9, <1>10 DEF Leads, Entry, Touching
  <2> QED BY <1>11, <1>21, <2>1
<1>23. \A i, j \in 1..(h + 1) :
         /\ i <= j => Len(q[i].path) <= Len(q[j].path)
         /\ Len(q[j].path) <= d + 1
  BY <1>2, <1>4, <1>21 DEF Searching, SearchSorted
<1>24. \A i \in 1..(h + n) : Len(r[i].path) \in Nat /\ d <= Len(r[i].path) /\ Len(r[i].path) <= d + 1
  <2>1. ASSUME NEW i \in 1..h
        PROVE  Len(r[i].path) \in Nat /\ d <= Len(r[i].path) /\ Len(r[i].path) <= d + 1
    <3>1. i + 1 \in 1..(h + 1) /\ 1 <= i + 1
      BY <1>8
    <3>2. Len(q[1].path) = d
      BY <1>2, <1>21
    <3> QED BY <1>9, <1>10, <1>12, <1>23, <3>1, <3>2
  <2> QED BY <1>7, <1>21, <1>22, <2>1
<1>25. SearchSorted(t)
  <2>1. ASSUME NEW i \in 1..(h + n), NEW j \in 1..(h + n), i <= j
        PROVE  Len(r[i].path) <= Len(r[j].path)
    <3>1. CASE i \in 1..h /\ j \in 1..h
      <4>1. i + 1 \in 1..(h + 1) /\ j + 1 \in 1..(h + 1) /\ i + 1 <= j + 1
        BY <1>8, <2>1, <3>1
      <4>2. r[i] = q[i + 1] /\ r[j] = q[j + 1]
        BY <1>12, <3>1
      <4> QED BY <1>23, <4>1, <4>2
    <3>2. CASE j \notin 1..h
      <4>1. Len(r[j].path) = d + 1
        BY <1>7, <1>22, <3>2
      <4> QED BY <1>24, <4>1
    <3>3. CASE i \notin 1..h /\ j \in 1..h
      BY <1>4, <2>1, <3>3
    <3> QED BY <3>1, <3>2, <3>3
  <2>2. ASSUME NEW j \in 1..(h + n) PROVE Len(r[j].path) <= Len(r[1].path) + 1
    <3>1. 1 \in 1..(h + n)
      BY <1>4
    <3>2. PICK x, y : x = Len(r[j].path) /\ y = Len(r[1].path)
      OBVIOUS
    <3>3. x \in Nat /\ y \in Nat /\ x <= d + 1 /\ d <= y
      BY <1>24, <3>1, <3>2
    <3> QED BY <1>21, <3>2, <3>3
  <2> QED BY <1>2, <1>4, <2>1, <2>2 DEF SearchSorted
<1>26. /\ \A i \in 1..(h + 1) : \A m \in Nat : m < Len(q[i].path) => q[i].zone \notin Ball(L, a, m)
       /\ \A m \in 0..d : Ball(L, a, m) \subseteq V
  <2>1. \A i \in 1..(h + 1) : \A m \in Nat : m < Len(q[i].path) => q[i].zone \notin Ball(L, a, m)
    BY <1>2, <1>4 DEF Searching, SearchFar
  <2>2. Len(q) > 0
    BY <1>4
  <2>3. \A m \in 0..d : Ball(L, a, m) \subseteq V
    BY <1>2, <1>21, <2>2 DEF Searching, SearchSeen
  <2> QED BY <2>1, <2>3
<1>27. \A i \in 1..(h + n) : \A m \in Nat : m < Len(r[i].path) => r[i].zone \notin Ball(L, a, m)
  <2>1. ASSUME NEW i \in 1..n, NEW m \in Nat, m < Len(r[h + i].path)
        PROVE  r[h + i].zone \notin Ball(L, a, m)
    <3>1. m \in 0..d
      BY <1>21, <1>22, <2>1
    <3> QED BY <1>11, <1>26, <3>1
  <2> QED BY <1>7, <1>8, <1>12, <1>26, <2>1
<1>28. SearchFar(L, a, t)
  BY <1>2, <1>4, <1>27 DEF SearchFar
<1>29. ASSUME h + n > 0, Len(r[1].path) = d + 1 PROVE Ball(L, a, d + 1) \subseteq W
  <2>1. \A i \in 1..(h + n) : Len(r[i].path) = d + 1
    <3>1. \A i \in 1..(h + n) : 1 \in 1..(h + n) /\ 1 <= i
      BY <1>4
    <3>2. \A i \in 1..(h + n) : Len(r[1].path) <= Len(r[i].path)
      BY <1>2, <1>4, <1>25, <3>1 DEF SearchSorted
    <3> QED BY <1>21, <1>24, <1>29, <3>2
  <2>2. \A i \in 1..(h + n) : r[i].zone \notin Ball(L, a, d)
    <3>1. d < d + 1
      BY <1>21
    <3> QED BY <1>21, <1>27, <2>1, <3>1
  <2>3. Ball(L, a, d) \subseteq V
    <3>1. d \in 0..d
      BY <1>21
    <3> QED BY <1>26, <3>1
  <2>4. \A z \in Ball(L, a, d) : z \in LookedAt(t)
    BY <1>2, <1>4, <1>13, <2>2, <2>3 DEF LookedAt, Queued
  <2>5. SUFFICES ASSUME NEW z \in Ball(L, a, d + 1) \ Ball(L, a, d) PROVE z \in W
    BY <1>13, <2>3
  <2>6. PICK k \in Ids(L) : \/ L[k].from \in Ball(L, a, d) /\ L[k].to = z
                            \/ L[k].to \in Ball(L, a, d) /\ L[k].from = z
    BY <1>21, <2>5, BallGrows DEF Simple
  <2> QED BY <1>2, <1>20, <2>4, <2>6 DEF SearchDone
<1>30. SearchSeen(L, a, t)
  <2>1. SUFFICES ASSUME h + n > 0, NEW m \in 0..Len(r[1].path) PROVE Ball(L, a, m) \subseteq W
    BY <1>2, <1>4 DEF SearchSeen
  <2>2. 1 \in 1..(h + n)
    BY <1>4, <2>1
  <2>3. Len(r[1].path) \in Nat /\ (Len(r[1].path) = d \/ Len(r[1].path) = d + 1)
    BY <1>21, <1>24, <2>2
  <2>4. CASE m \in 0..d
    BY <1>13, <1>26, <2>4
  <2>5. CASE m \notin 0..d
    <3>1. m = d + 1 /\ Len(r[1].path) = d + 1
      BY <1>21, <2>1, <2>3, <2>5
    <3> QED BY <1>29, <2>1, <3>1
  <2> QED BY <2>4, <2>5
<1> QED BY <1>2, <1>14, <1>15, <1>16, <1>19, <1>20, <1>25, <1>28, <1>30 DEF Searching

-----------------------------------------------------------------------------
(* The route search: all of it *)

Starting(a) == [queue |-> <<[zone |-> a, path |-> <<>>, reversed |-> {}]>>, visited |-> {a}]

\* What the search holds after each round.
RoundsBy(L, a, b, n, f) ==
  f = [i \in 0..n |->
        IF i = 0 THEN [queue |-> <<[zone |-> a, path |-> <<>>, reversed |-> {}]>>,
                       visited |-> {a}]
        ELSE Round(L, b, f[i-1])]

LEMMA SomeRounds ==
    ASSUME NEW L, NEW a, NEW b, NEW n \in Nat
    PROVE  \E f : RoundsBy(L, a, b, n, f)
<1> DEFINE Is(f, m) == /\ f = [i \in 0..m |-> f[i]] /\ f[0] = Starting(a)
                       /\ \A i \in 1..m : f[i] = Round(L, b, f[i-1])
           N == {m \in Nat : \E f : Is(f, m)}
<1>1. 0 \in N
  <2>1. PICK f : f = [i \in 0..0 |-> Starting(a)]
    OBVIOUS
  <2>2. Is(f, 0)
    BY <2>1
  <2> QED BY <2>2
<1>2. ASSUME NEW m \in N PROVE m + 1 \in N
  <2>1. PICK f : Is(f, m)
    OBVIOUS
  <2>2. PICK g : g = [i \in 0..(m + 1) |-> IF i = m + 1 THEN Round(L, b, f[m]) ELSE f[i]]
    OBVIOUS
  <2>3. m \in Nat /\ \A i \in 0..m : i \in 0..(m + 1) /\ i # m + 1
    OBVIOUS
  <2>4. \A i \in 0..m : g[i] = f[i]
    BY <2>2, <2>3
  <2>5. g[m + 1] = Round(L, b, f[m])
    BY <2>2, <2>3
  <2>6. ASSUME NEW i \in 1..(m + 1) PROVE g[i] = Round(L, b, g[i-1])
    <3>1. CASE i = m + 1
      BY <2>3, <2>4, <2>5, <3>1
    <3>2. CASE i \in 1..m
      <4>1. i \in 0..m /\ i - 1 \in 0..m
        BY <3>2
      <4> QED BY <2>1, <2>4, <3>2, <4>1
    <3> QED BY <2>3, <3>1, <3>2
  <2>7. g = [i \in 0..(m + 1) |-> g[i]]
    BY <2>2
  <2>8. g[0] = Starting(a)
    BY <2>1, <2>3, <2>4
  <2>9. Is(g, m + 1)
    BY <2>6, <2>7, <2>8
  <2> HIDE DEF Is
  <2> QED BY <2>3, <2>9
<1>3. N = Nat
  <2> HIDE DEF N
  <2>1. N \subseteq Nat
    BY DEF N
  <2> QED BY <1>1, <1>2, <2>1, NatSet
<1>4. PICK f : Is(f, n)
  BY <1>3
<1>5. \A i \in 0..n : f[i] = IF i = 0 THEN Starting(a) ELSE Round(L, b, f[i-1])
  <2>1. \A i \in 0..n : i # 0 => i \in 1..n
    OBVIOUS
  <2> QED BY <1>4, <2>1
<1>6. f = [i \in 0..n |-> IF i = 0 THEN Starting(a) ELSE Round(L, b, f[i-1])]
  BY <1>4, <1>5
<1> QED BY <1>6 DEF RoundsBy, Starting

\* The search begins.
LEMMA StartingSearches ==
    ASSUME NEW L, Simple(L), NEW a \in Zones, NEW b
    PROVE  Searching(L, a, b, Starting(a)) /\ LookedAt(Starting(a)) = {}
<1>1. PICK s, e, V : /\ s = Starting(a) /\ e = [zone |-> a, path |-> <<>>, reversed |-> {}]
                     /\ V = {a}
  OBVIOUS
<1>2. s.visited = V /\ s.queue = <<e>> /\ e.zone = a /\ e.path = <<>> /\ e.reversed = {}
  BY <1>1 DEF Starting
<1>3. e \in Entry(L) /\ Len(e.path) = 0
  BY <1>1, <1>2 DEF Entry
<1>4. s.queue \in Seq(Entry(L)) /\ Len(s.queue) = 1 /\ s.queue[1] = e
  BY <1>2, <1>3
<1>5. \A i \in 1..Len(s.queue) : i = 1
  BY <1>4
<1>6. Leads(L, a, V, e)
  <2>1. PICK zs : zs = [i \in 0..0 |-> a]
    OBVIOUS
  <2>2. zs \in [0..0 -> V] /\ zs[0] = a /\ (\A i, j \in 0..0 : i = j) /\ 1..0 = {}
    BY <1>1, <2>1
  <2>3. Passes(L, a, V, e, zs)
    BY <1>2, <1>3, <2>2 DEF Passes
  <2> QED BY <1>3, <2>3 DEF Leads
<1>7. Queued(s) = {a}
  BY <1>2, <1>4 DEF Queued
<1>8. LookedAt(s) = {}
  BY <1>1, <1>2, <1>7 DEF LookedAt
<1>9. SearchTyped(L, a, s)
  BY <1>1, <1>2, <1>4 DEF SearchTyped
<1>10. SearchWalks(L, a, s)
  BY <1>2, <1>4, <1>5, <1>6 DEF SearchWalks
<1>11. SearchOnce(s)
  BY <1>5 DEF SearchOnce
<1>12. SearchDone(L, b, s)
  BY <1>8 DEF SearchDone
<1>13. SearchSorted(s)
  BY <1>3, <1>4, <1>5 DEF SearchSorted
<1>14. SearchFar(L, a, s)
  BY <1>3, <1>4, <1>5 DEF SearchFar
<1>15. SearchSeen(L, a, s)
  <2>1. Ball(L, a, 0) = V
    <3>1. 0 \in Nat
      OBVIOUS
    <3> QED BY <1>1, <3>1, BallGrows DEF Simple
  <2>2. \A m \in 0..Len(s.queue[1].path) : m = 0
    BY <1>3, <1>4
  <2> QED BY <1>2, <2>1, <2>2 DEF SearchSeen
<1> QED BY <1>1, <1>8, <1>9, <1>10, <1>11, <1>12, <1>13, <1>14, <1>15 DEF Searching

\* The search finds a way that is none the longer for the zones it goes through,
\* and no shorter one is left; or there is none.
LEMMA SearchFinds ==
    ASSUME NEW L, Simple(L), NEW a \in Zones, NEW b
    PROVE  /\ bfsRoute(L, a, b) = {} => b \notin Ball(L, a, Cardinality(Zones))
           /\ \A r \in bfsRoute(L, a, b) :
                /\ Leads(L, a, Zones, r) /\ r.zone = b
                /\ \A m \in Nat : m < Len(r.path) => b \notin Ball(L, a, m)
<1>1. PICK n \in Nat : n = Cardinality(Zones)
  BY ZonesOK, FS_CardinalityType
<1>2. PICK f : RoundsBy(L, a, b, n, f) /\ bfsRoute(L, a, b) = IF f[n].queue = <<>> THEN {} ELSE {Head(f[n].queue)}
  <2>1. PICK g : g = CHOOSE f : RoundsBy(L, a, b, n, f)
    OBVIOUS
  <2>2. RoundsBy(L, a, b, n, g)
    BY <2>1, SomeRounds
  <2>3. bfsRoute(L, a, b) = IF g[n].queue = <<>> THEN {} ELSE {Head(g[n].queue)}
    BY <1>1, <2>1 DEF bfsRoute, RoundsBy
  <2> QED BY <2>2, <2>3
<1>3. f[0] = Starting(a) /\ \A i \in 1..n : f[i] = Round(L, b, f[i-1])
  <2>1. \A i \in 1..n : i \in 0..n /\ i # 0
    OBVIOUS
  <2>2. 0 \in 0..n
    OBVIOUS
  <2> QED BY <1>2, <2>1, <2>2 DEF RoundsBy, Starting
<1>4. ASSUME NEW s, Searching(L, a, b, s)
      PROVE  /\ LookedAt(s) \subseteq Zones /\ IsFiniteSet(LookedAt(s)) /\ Cardinality(LookedAt(s)) \in Nat
  <2>1. LookedAt(s) \subseteq Zones
    BY <1>4 DEF Searching, SearchTyped, LookedAt
  <2> QED BY <2>1, ZonesOK, FS_Subset, FS_CardinalityType
<1>5. ASSUME NEW s, Searching(L, a, b, s), ~Stopped(b, s)
      PROVE  /\ Searching(L, a, b, Round(L, b, s))
             /\ Cardinality(LookedAt(Round(L, b, s))) = Cardinality(LookedAt(s)) + 1
             /\ Cardinality(LookedAt(s)) + 1 <= n
  <2>1. PICK t, x : t = Round(L, b, s) /\ x = s.queue[1].zone
    OBVIOUS
  <2>2. Searching(L, a, b, t) /\ LookedAt(t) = LookedAt(s) \cup {x} /\ x \notin LookedAt(s)
    BY <1>5, <2>1, RoundKeeps
  <2>3. Cardinality(LookedAt(t)) = Cardinality(LookedAt(s)) + 1
    BY <1>4, <1>5, <2>2, FS_AddElement
  <2>4. Cardinality(LookedAt(t)) <= n
    BY <1>1, <1>4, <2>2, ZonesOK, FS_Subset
  <2> QED BY <2>1, <2>2, <2>3, <2>4
<1> DEFINE N == {i \in Nat : i \in 0..n =>
                   /\ Searching(L, a, b, f[i])
                   /\ Stopped(b, f[i]) \/ Cardinality(LookedAt(f[i])) >= i}
<1>6. 0 \in N
  <2>1. Searching(L, a, b, f[0]) /\ LookedAt(f[0]) = {}
    BY <1>3, StartingSearches
  <2>2. Cardinality(LookedAt(f[0])) >= 0
    BY <2>1, FS_EmptySet
  <2> QED BY <2>1, <2>2
<1>7. ASSUME NEW i \in N PROVE i + 1 \in N
  <2> SUFFICES ASSUME i + 1 \in 0..n
               PROVE  /\ Searching(L, a, b, f[i + 1])
                      /\ Stopped(b, f[i + 1]) \/ Cardinality(LookedAt(f[i + 1])) >= i + 1
    OBVIOUS
  <2>1. i \in 0..n /\ i + 1 \in 1..n /\ (i + 1) - 1 = i /\ i \in Nat
    OBVIOUS
  <2>2. Searching(L, a, b, f[i]) /\ (Stopped(b, f[i]) \/ Cardinality(LookedAt(f[i])) >= i)
    BY <2>1
  <2> HIDE DEF N
  <2>3. f[i + 1] = Round(L, b, f[i])
    BY <1>3, <2>1
  <2>4. CASE Stopped(b, f[i])
    <3>1. f[i + 1] = f[i]
      BY <2>3, <2>4 DEF Round, Stopped
    <3> QED BY <2>2, <2>4, <3>1
  <2>5. CASE ~Stopped(b, f[i])
    <3>1. /\ Searching(L, a, b, f[i + 1])
          /\ Cardinality(LookedAt(f[i + 1])) = Cardinality(LookedAt(f[i])) + 1
      BY <1>5, <2>2, <2>3, <2>5
    <3>2. Cardinality(LookedAt(f[i])) \in Nat
      BY <1>4, <2>2
    <3> QED BY <2>1, <2>2, <2>5, <3>1, <3>2
  <2> QED BY <2>4, <2>5
<1>8. N = Nat
  <2> HIDE DEF N
  <2>1. N \subseteq Nat
    BY DEF N
  <2> QED BY <1>6, <1>7, <2>1, NatSet
<1>9. PICK s : s = f[n]
  OBVIOUS
<1>10. Searching(L, a, b, s) /\ (Stopped(b, s) \/ Cardinality(LookedAt(s)) >= n)
  BY <1>8, <1>9
<1> HIDE DEF N
<1>11. Stopped(b, s)
  <2>1. SUFFICES ASSUME ~Stopped(b, s) PROVE FALSE
    OBVIOUS
  <2>2. Cardinality(LookedAt(s)) \in Nat /\ Cardinality(LookedAt(s)) + 1 <= n
    BY <1>4, <1>5, <1>10, <2>1
  <2> QED BY <1>10, <2>1, <2>2
<1>12. s.queue \in Seq(Entry(L))
  BY <1>10 DEF Searching, SearchTyped
<1>13. ASSUME s.queue = <<>> PROVE b \notin Ball(L, a, n)
  <2>1. PICK V, R, S : V = s.visited /\ R = Neighbours(L) /\ S = {a}
    OBVIOUS
  <2>2. LookedAt(s) = V
    BY <1>13, <2>1 DEF LookedAt, Queued
  <2>3. b \notin V /\ S \subseteq V
    BY <1>10, <2>1, <2>2 DEF Searching, SearchDone, SearchTyped
  <2>4. \A k \in Ids(L) : (L[k].from \in V => L[k].to \in V) /\ (L[k].to \in V => L[k].from \in V)
    BY <1>10, <2>1, <2>2 DEF Searching, SearchDone
  <2>5. R \subseteq Zones \X Zones /\ S \subseteq Zones
    BY <2>1 DEF Neighbours, Simple, OnTheMap
  <2>6. After(V, R) \subseteq V
    <3>1. SUFFICES ASSUME NEW e \in R, e[1] \in V PROVE e[2] \in V
      BY DEF After
    <3>2. PICK k \in Ids(L) : e = <<L[k].from, L[k].to>> \/ e = <<L[k].to, L[k].from>>
      BY <2>1, <3>1 DEF Neighbours
    <3> QED BY <2>4, <3>1, <3>2
  <2>7. Within(S, n, R) \subseteq V
    BY <2>3, <2>5, <2>6, WithinLeast
  <2> QED BY <2>1, <2>3, <2>7 DEF Ball
<1>14. ASSUME s.queue # <<>>
       PROVE  /\ Leads(L, a, Zones, Head(s.queue)) /\ Head(s.queue).zone = b
              /\ \A m \in Nat : m < Len(Head(s.queue).path) => b \notin Ball(L, a, m)
  <2>1. 1 \in 1..Len(s.queue) /\ Head(s.queue) = s.queue[1]
    BY <1>12, <1>14
  <2>2. s.queue[1].zone = b
    BY <1>11, <1>14, <2>1 DEF Stopped
  <2>3. Leads(L, a, s.visited, s.queue[1]) /\ s.visited \subseteq Zones
    BY <1>10, <2>1 DEF Searching, SearchWalks, SearchTyped
  <2>4. Leads(L, a, Zones, s.queue[1])
    BY <2>3, LeadsOver
  <2>5. \A m \in Nat : m < Len(s.queue[1].path) => s.queue[1].zone \notin Ball(L, a, m)
    BY <1>10, <2>1 DEF Searching, SearchFar
  <2> QED BY <2>1, <2>2, <2>4, <2>5
<1> QED BY <1>1, <1>2, <1>9, <1>13, <1>14

\* On every map the plotted route is a shortest one, and there is one if the
\* zones are joined at all.
THEOREM RouteIsAlwaysShortest == PathsSpec => []RouteIsShortest
<1>1. ASSUME PathsTypeOK PROVE RouteIsShortest
  <2>1. Simple(conns)
    BY <1>1, PathsOnTheMap DEF Simple, PathsTypeOK
  <2>2. ASSUME NEW a \in Zones, NEW b \in Zones, NEW r \in bfsRoute(conns, a, b)
        PROVE  LET n == Len(r.path)
                   start(k) == IF k \in r.reversed THEN conns[k].to ELSE conns[k].from
                   stop(k) == IF k \in r.reversed THEN conns[k].from ELSE conns[k].to
               IN IF n = 0 THEN a = b
                  ELSE /\ start(r.path[1]) = a /\ stop(r.path[n]) = b
                       /\ \A i \in 1..(n-1) : stop(r.path[i]) = start(r.path[i+1])
                       /\ b \notin Ball(conns, a, n - 1)
    <3>1. /\ Leads(conns, a, Zones, r) /\ r.zone = b
          /\ \A m \in Nat : m < Len(r.path) => b \notin Ball(conns, a, m)
      BY <2>1, <2>2, SearchFinds
    <3>2. PICK n : n = Len(r.path) /\ n \in Nat
      BY <3>1 DEF Leads, Entry
    <3>3. PICK zs : Passes(conns, a, Zones, r, zs)
      BY <3>1 DEF Leads
    <3>4. /\ zs[0] = a /\ zs[n] = b
          /\ \A i \in 1..n : Begin(conns, r, r.path[i]) = zs[i-1] /\ Stop(conns, r, r.path[i]) = zs[i]
      BY <3>1, <3>2, <3>3 DEF Passes
    <3>5. CASE n = 0
      BY <3>2, <3>4, <3>5
    <3>6. CASE n # 0
      <4>1. 1 \in 1..n /\ n \in 1..n /\ n - 1 \in Nat /\ n - 1 < n
        BY <3>2, <3>6
      <4>2. Begin(conns, r, r.path[1]) = a /\ Stop(conns, r, r.path[n]) = b
        BY <3>4, <4>1
      <4>3. ASSUME NEW i \in 1..(n - 1)
            PROVE  Stop(conns, r, r.path[i]) = Begin(conns, r, r.path[i + 1])
        <5>1. i \in 1..n /\ i + 1 \in 1..n /\ (i + 1) - 1 = i
          BY <3>2
        <5> QED BY <3>4, <5>1
      <4>4. b \notin Ball(conns, a, n - 1)
        BY <3>1, <3>2, <4>1
      <4> QED BY <3>2, <3>6, <4>2, <4>3, <4>4 DEF Begin, Stop
    <3> QED BY <3>5, <3>6
  <2>3. ASSUME NEW a \in Zones, NEW b \in Zones, bfsRoute(conns, a, b) = {}
        PROVE  b \notin Ball(conns, a, Cardinality(Zones))
    BY <2>1, <2>3, SearchFinds
  <2> QED BY <1>1, <2>2, <2>3 DEF RouteIsShortest
<1> QED BY <1>1, PathsTypeCorrect, PTL

-----------------------------------------------------------------------------
(* PlotRoute: what is on the map, and every route there is *)

\* A route's ends are those of its connections.
JoinsEnds(r) ==
  r.ids # {} => /\ r.from \in Zones /\ r.to \in Zones /\ r.from # r.to
                /\ Degree(r, r.from) = 1 /\ Degree(r, r.to) = 1
Sound == {r \in Route : JoinsEnds(r)}
List == Seq(Connections)
Plot == [step : {"idle", "selectingFrom", "selectingTo"}, route : Route, reversed : SUBSET AllIds]
Update == [by : Clients \cup {None}, route : Sound]
Message ==
  [kind : {"added"}, conn : Connections, zones : SUBSET Zones] \cup
  [kind : {"removed", "chain_removed"}, ids : SUBSET AllIds, zones : SUBSET Zones] \cup
  [kind : {"reset"}, zones : SUBSET Zones] \cup
  [kind : {"route"}, route : Sound] \cup
  [kind : {"sync"}, conns : List, nodes : SUBSET Zones, route : Sound]

\* Under way a plot may hold a route that is not its own, or half a one.
PlotOK(p) ==
  /\ p.step = "idle" => p.route \in Sound
  /\ p.step = "selectingTo" => p.route.from # None

RowsOK == room \in [conns : List, nodes : SUBSET Zones, route : Sound]
StoresOK ==
  /\ map \in [Clients -> [conns : List, nodes : SUBSET Zones]]
  /\ plot \in [Clients -> Plot] /\ \A c \in Clients : PlotOK(plot[c])
LinksOK == link \in [Clients -> {"away", "room", "live"}] /\ seen \in [Clients -> Sound]
MessagesOK == down \in [Clients -> Seq(Message)]
UpdatesOK == writes \subseteq Update /\ tells \subseteq Update
LostOK ==
  /\ lost \in [Clients -> SUBSET AllIds]
  /\ \A c \in Clients : plot[c].route.ids \subseteq IdsOf(map[c].conns) \cup lost[c]
PlotIInv == RowsOK /\ StoresOK /\ LinksOK /\ MessagesOK /\ UpdatesOK /\ LostOK

LEMMA ListIds ==
    ASSUME NEW L, L \in List
    PROVE  /\ Len(L) \in Nat /\ DOMAIN L = Ids(L) /\ \A k \in Ids(L) : L[k] \in Connections
           /\ IdsOf(L) = {L[k].id : k \in Ids(L)} /\ IdsOf(L) \subseteq AllIds
           /\ EndsOf(L) \subseteq Zones /\ Simple(L)
<1>1. Len(L) \in Nat /\ DOMAIN L = Ids(L) /\ \A k \in Ids(L) : L[k] \in Connections
  BY DEF List, Ids
<1>2. IdsOf(L) = {L[k].id : k \in Ids(L)} /\ IdsOf(L) \subseteq AllIds
  BY <1>1 DEF IdsOf, AllIds
<1>3. \A k \in Ids(L) : L[k].from \in Zones /\ L[k].to \in Zones /\ L[k].from # L[k].to
  BY <1>1, PlotRouteAssumption
<1>4. EndsOf(L) \subseteq Zones
  BY <1>1, <1>3 DEF EndsOf
<1> QED BY <1>1, <1>2, <1>3, <1>4 DEF Simple, OnTheMap

LEMMA ListDrop ==
    ASSUME NEW L, L \in List, NEW I
    PROVE  Drop(L, I) \in List /\ IdsOf(Drop(L, I)) = IdsOf(L) \ I
<1>1. PICK K, M : K = {k \in DOMAIN L : L[k].id \notin I} /\ M = Kept(L, K)
  OBVIOUS
<1>2. Drop(L, I) = M
  BY <1>1 DEF Drop
<1>3. DOMAIN L = Ids(L) /\ Len(L) \in Nat
  BY ListIds
<1>4. K \subseteq Ids(L) /\ \A k \in K : k <= Len(L)
  BY <1>1, <1>3 DEF Ids
<1>5. PICK V : V = Connections /\ L \in Seq(V)
  BY DEF List
<1>6. KeptOf(V, L, K, M, Len(L))
  BY <1>1, <1>4, <1>5, KeptIs
<1>7. /\ M \in Seq(V)
      /\ \A i \in 1..Len(M) : \E k \in K : L[k] = M[i]
      /\ \A k \in K : \E i \in 1..Len(M) : M[i] = L[k]
  BY <1>4, <1>6 DEF KeptOf
<1>8. M \in List
  BY <1>5, <1>7 DEF List
<1>9. IdsOf(M) = {M[i].id : i \in 1..Len(M)} /\ IdsOf(L) = {L[k].id : k \in Ids(L)}
  BY <1>8, ListIds DEF Ids
<1>10. IdsOf(M) = IdsOf(L) \ I
  <2>1. ASSUME NEW x \in IdsOf(M) PROVE x \in IdsOf(L) \ I
    <3>1. PICK i \in 1..Len(M) : x = M[i].id
      BY <1>9
    <3>2. PICK k \in K : L[k] = M[i]
      BY <1>7
    <3> QED BY <1>1, <1>4, <1>9, <3>1, <3>2
  <2>2. ASSUME NEW x \in IdsOf(L) \ I PROVE x \in IdsOf(M)
    <3>1. PICK k \in Ids(L) : x = L[k].id
      BY <1>9
    <3>2. k \in K
      BY <1>1, <1>3, <3>1
    <3> QED BY <1>7, <1>9, <3>1, <3>2
  <2> QED BY <2>1, <2>2
<1> QED BY <1>2, <1>8, <1>10

LEMMA ListAdd ==
    ASSUME NEW L, L \in List, NEW k \in Connections
    PROVE  Append(L, k) \in List /\ IdsOf(L) \subseteq IdsOf(Append(L, k))
<1>1. PICK M : M = Append(L, k)
  OBVIOUS
<1>2. M \in List /\ \A i \in Ids(L) : i \in Ids(M) /\ M[i] = L[i]
  BY <1>1, ListIds DEF List, Ids
<1>3. IdsOf(M) = {M[i].id : i \in Ids(M)} /\ IdsOf(L) = {L[i].id : i \in Ids(L)}
  BY <1>2, ListIds
<1>4. IdsOf(L) \subseteq IdsOf(M)
  BY <1>2, <1>3
<1> QED BY <1>1, <1>2, <1>4

LEMMA OneFound ==
    ASSUME NEW L, NEW a, NEW b, NEW r \in bfsRoute(L, a, b), NEW q \in bfsRoute(L, a, b)
    PROVE  q = r
<1>1. PICK n : n = Cardinality(Zones)
  OBVIOUS
<1>2. \E x : bfsRoute(L, a, b) \subseteq {x}
  BY DEF bfsRoute
<1> QED BY <1>2

\* What is found is on the map, and at its ends, and only there, one of the
\* connections ends that are found.
LEMMA FoundIs ==
    ASSUME NEW L, L \in List, NEW a \in Zones, NEW b \in Zones,
           NEW r, r.ids = Found(L, a, b).ids
    PROVE  /\ r.ids \subseteq IdsOf(L) /\ Found(L, a, b).reversed \subseteq AllIds
           /\ r.ids # {} => a # b /\ Degree(r, a) = 1 /\ Degree(r, b) = 1
<1>1. PICK R : R = bfsRoute(L, a, b)
  OBVIOUS
<1>2. /\ Found(L, a, b).ids = UNION {{L[k].id : k \in ToSet(x.path)} : x \in R}
      /\ Found(L, a, b).reversed = UNION {{L[k].id : k \in x.reversed} : x \in R}
  BY <1>1 DEF Found
<1>3. Simple(L) /\ IdsOf(L) = {L[k].id : k \in Ids(L)} /\ IdsOf(L) \subseteq AllIds
  BY ListIds
<1>4. \A x \in R : Leads(L, a, Zones, x) /\ x.zone = b
  BY <1>1, <1>3, SearchFinds
<1>5. ASSUME NEW x \in R
      PROVE  /\ x.path \in Seq(Ids(L)) /\ Len(x.path) \in Nat
             /\ ToSet(x.path) = {x.path[i] : i \in 1..Len(x.path)} /\ ToSet(x.path) \subseteq Ids(L)
             /\ x.reversed \subseteq Ids(L)
  <2>1. x.path \in Seq(Ids(L)) /\ x.reversed \subseteq Ids(L)
    BY <1>4, <1>5 DEF Leads, Entry
  <2>2. DOMAIN x.path = 1..Len(x.path) /\ Len(x.path) \in Nat /\ \A i \in 1..Len(x.path) : x.path[i] \in Ids(L)
    BY <2>1
  <2> QED BY <2>1, <2>2 DEF ToSet
<1>6. r.ids \subseteq IdsOf(L) /\ Found(L, a, b).reversed \subseteq AllIds
  BY <1>2, <1>3, <1>5
<1>7. ASSUME r.ids # {} PROVE a # b /\ Degree(r, a) = 1 /\ Degree(r, b) = 1
  <2>1. PICK x : x \in R
    BY <1>2, <1>7
  <2>2. PICK p, n : p = x.path /\ n = Len(p)
    OBVIOUS
  <2>3. r.ids = {L[k].id : k \in ToSet(p)}
    <3>1. \A y \in R : y = x
      BY <1>1, <2>1, OneFound
    <3> QED BY <1>2, <2>1, <2>2, <3>1
  <2>4. n \in Nat /\ r.ids = {L[p[i]].id : i \in 1..n} /\ \A i \in 1..n : p[i] \in Ids(L)
    <3>1. n \in Nat /\ ToSet(p) = {p[i] : i \in 1..n} /\ ToSet(p) \subseteq Ids(L)
      BY <1>5, <2>1, <2>2
    <3>2. PICK T : T = ToSet(p)
      OBVIOUS
    <3>3. r.ids = {L[k].id : k \in T} /\ T = {p[i] : i \in 1..n}
      BY <2>3, <3>1, <3>2
    <3> QED BY <3>1, <3>2, <3>3
  <2>5. n # 0
    BY <1>7, <2>4
  <2>6. PICK zs : Passes(L, a, Zones, x, zs)
    BY <1>4, <2>1 DEF Leads
  <2>7. /\ zs[0] = a /\ zs[n] = b
        /\ \A i \in 1..n : {L[p[i]].from, L[p[i]].to} = {zs[i-1], zs[i]}
        /\ \A i, j \in 0..n : zs[i] = zs[j] => i = j
    <3>1. zs[0] = a /\ zs[n] = b /\ \A i, j \in 0..n : zs[i] = zs[j] => i = j
      BY <1>4, <2>1, <2>2, <2>6 DEF Passes
    <3>2. ASSUME NEW i \in 1..n PROVE {L[p[i]].from, L[p[i]].to} = {zs[i-1], zs[i]}
      <4>1. Begin(L, x, p[i]) = zs[i-1] /\ Stop(L, x, p[i]) = zs[i]
        BY <2>2, <2>6, <3>2 DEF Passes
      <4> QED BY <4>1 DEF Begin, Stop
    <3> QED BY <3>1, <3>2
  <2>8. a # b
    BY <2>4, <2>5, <2>7
  <2>9. ASSUME NEW h \in 1..n, NEW z,
               \A i \in 1..n : z \in {zs[i-1], zs[i]} <=> i = h
        PROVE  Degree(r, z) = 1
    <3>1. PICK D : D = {k \in Connections : k.id \in r.ids /\ z \in {k.from, k.to}}
      OBVIOUS
    <3>2. \A i \in 1..n : L[p[i]] \in Connections
      BY <2>4, ListIds
    <3>3. L[p[h]] \in D
      BY <2>4, <2>7, <2>9, <3>1, <3>2
    <3>4. ASSUME NEW k \in D PROVE k = L[p[h]]
      <4>1. PICK i \in 1..n : k.id = L[p[i]].id
        BY <2>4, <3>1
      <4>2. k = L[p[i]]
        BY <3>1, <3>2, <4>1, PlotRouteAssumption
      <4>3. z \in {zs[i-1], zs[i]}
        BY <2>7, <3>1, <4>2
      <4> QED BY <2>9, <4>2, <4>3
    <3>5. D = {L[p[h]]}
      BY <3>3, <3>4
    <3>6. Cardinality(D) = 1
      BY <3>5, FS_Singleton
    <3> QED BY <3>1, <3>6 DEF Degree
  <2>10. Degree(r, a) = 1
    <3>1. 1 \in 1..n /\ \A i \in 1..n : i - 1 \in 0..n /\ i \in 0..n /\ 0 \in 0..n /\ i # 0 /\ (i - 1 = 0 <=> i = 1)
      BY <2>4, <2>5
    <3>2. \A i \in 1..n : a \in {zs[i-1], zs[i]} <=> i = 1
      BY <2>7, <3>1
    <3> QED BY <2>9, <3>1, <3>2
  <2>11. Degree(r, b) = 1
    <3>1. n \in 1..n /\ \A i \in 1..n : i - 1 \in 0..n /\ i \in 0..n /\ n \in 0..n /\ i - 1 # n
      BY <2>4, <2>5
    <3>2. \A i \in 1..n : b \in {zs[i-1], zs[i]} <=> i = n
      BY <2>7, <3>1
    <3> QED BY <2>9, <3>1, <3>2
  <2> QED BY <2>8, <2>10, <2>11
<1> QED BY <1>6, <1>7

LEMMA Empty ==
    /\ NoRoute \in Sound /\ NoRoute.ids = {}
    /\ Idle \in Plot /\ PlotOK(Idle) /\ Idle.route.ids = {}
<1>1. NoRoute \in Sound /\ NoRoute.ids = {}
  BY DEF NoRoute, Sound, Route, JoinsEnds
<1> QED BY <1>1 DEF Idle, Plot, PlotOK, Sound

LEMMA EveryPlot ==
    ASSUME StoresOK, LostOK, NEW c \in Clients
    PROVE  /\ plot[c] \in Plot /\ PlotOK(plot[c]) /\ plot[c].route \in Route
           /\ map[c] \in [conns : List, nodes : SUBSET Zones] /\ lost[c] \in SUBSET AllIds
           /\ plot[c].route.ids \subseteq IdsOf(map[c].conns) \cup lost[c]
           /\ map = [map EXCEPT ![c] = map[c]] /\ plot = [plot EXCEPT ![c] = plot[c]]
           /\ lost = [lost EXCEPT ![c] = lost[c]]
<1>1. plot[c] \in Plot /\ PlotOK(plot[c]) /\ plot[c].route \in Route
  BY DEF StoresOK, Plot
<1>2. map[c] \in [conns : List, nodes : SUBSET Zones] /\ lost[c] \in SUBSET AllIds
  BY DEF StoresOK, LostOK
<1>3. plot[c].route.ids \subseteq IdsOf(map[c].conns) \cup lost[c]
  BY DEF LostOK
<1>4. /\ map = [map EXCEPT ![c] = map[c]] /\ plot = [plot EXCEPT ![c] = plot[c]]
      /\ lost = [lost EXCEPT ![c] = lost[c]]
  BY DEF StoresOK, LostOK
<1> QED BY <1>1, <1>2, <1>3, <1>4

\* One browser's map, plot and what was lost change; the others' stay.
LEMMA OneStore ==
    ASSUME StoresOK, LostOK, NEW c \in Clients,
           NEW M \in [conns : List, nodes : SUBSET Zones], NEW P \in Plot, NEW I \in SUBSET AllIds,
           PlotOK(P), P.route.ids \subseteq IdsOf(M.conns) \cup I,
           map' = [map EXCEPT ![c] = M], plot' = [plot EXCEPT ![c] = P],
           lost' = [lost EXCEPT ![c] = I]
    PROVE  StoresOK' /\ LostOK'
<1>1. /\ map' \in [Clients -> [conns : List, nodes : SUBSET Zones]] /\ map'[c] = M
      /\ \A d \in Clients \ {c} : map'[d] = map[d]
  BY DEF StoresOK
<1>2. /\ plot' \in [Clients -> Plot] /\ plot'[c] = P
      /\ \A d \in Clients \ {c} : plot'[d] = plot[d]
  BY DEF StoresOK
<1>3. /\ lost' \in [Clients -> SUBSET AllIds] /\ lost'[c] = I
      /\ \A d \in Clients \ {c} : lost'[d] = lost[d]
  BY DEF LostOK
<1>4. \A d \in Clients : PlotOK(plot'[d])
  BY <1>2 DEF StoresOK
<1>5. \A d \in Clients : plot'[d].route.ids \subseteq IdsOf(map'[d].conns) \cup lost'[d]
  BY <1>1, <1>2, <1>3 DEF LostOK
<1>6. StoresOK'
  BY <1>1, <1>2, <1>4 DEF StoresOK
<1> QED BY <1>3, <1>5, <1>6 DEF LostOK

LEMMA Sent ==
    ASSUME UpdatesOK, NEW c \in Clients, NEW r \in Sound, Send(c, r), tells' = tells
    PROVE  UpdatesOK'
<1>1. [by |-> c, route |-> IF r.ids = {} THEN NoRoute ELSE r] \in Update
  BY Empty DEF Update
<1> QED BY <1>1 DEF Send, UpdatesOK

LEMMA GivenUp ==
    ASSUME StoresOK, LostOK, UpdatesOK, NEW c \in Clients,
           NEW M \in [conns : List, nodes : SUBSET Zones],
           map' = [map EXCEPT ![c] = M], GiveUp(c), tells' = tells
    PROVE  StoresOK' /\ LostOK' /\ UpdatesOK'
<1>1. UpdatesOK'
  BY Empty, Sent DEF GiveUp
<1>2. PICK P, I : P = Idle /\ I = {}
  OBVIOUS
<1>3. /\ P \in Plot /\ PlotOK(P) /\ P.route.ids \subseteq IdsOf(M.conns) \cup I
      /\ I \in SUBSET AllIds
  BY <1>2, Empty
<1>4. plot' = [plot EXCEPT ![c] = P] /\ lost' = [lost EXCEPT ![c] = I]
  BY <1>2 DEF GiveUp
<1>5. StoresOK' /\ LostOK'
  BY <1>3, <1>4, OneStore
<1> QED BY <1>1, <1>5

LEMMA TellsAllBut ==
    ASSUME MessagesOK, NEW X, NEW m \in Message, down' = ToAllBut(X, m)
    PROVE  MessagesOK'
<1>1. \A c \in Clients : down[c] \in Seq(Message) /\ Append(down[c], m) \in Seq(Message)
  BY DEF MessagesOK
<1> QED BY <1>1 DEF ToAllBut, MessagesOK

LEMMA Edited ==
    ASSUME PlotIInv, NEW L \in List, NEW Z \in SUBSET Zones, NEW m \in Message, Edit(L, Z, m)
    PROVE  PlotIInv'
<1>1. RowsOK'
  BY DEF Edit, PlotIInv, RowsOK
<1>2. MessagesOK'
  BY TellsAllBut DEF Edit, PlotIInv
<1>3. StoresOK' /\ LinksOK' /\ UpdatesOK' /\ LostOK'
  BY DEF Edit, PlotIInv, StoresOK, LinksOK, UpdatesOK, LostOK, ghosts
<1> QED BY <1>1, <1>2, <1>3 DEF PlotIInv

LEMMA Drops ==
    ASSUME PlotIInv, NEW I \in SUBSET AllIds, RemoveAll(I)
    PROVE  PlotIInv'
<1>1. PICK L, G : L = Drop(room.conns, I) /\ G = EndsOf(room.conns) \ (EndsOf(L) \cup Sources)
  OBVIOUS
<1>2. room.conns \in List /\ room.nodes \subseteq Zones
  BY DEF PlotIInv, RowsOK
<1>3. L \in List /\ G \subseteq Zones
  BY <1>1, <1>2, ListDrop, ListIds
<1>4. PICK Z, m : Z = room.nodes \ G /\ m = [kind |-> "removed", ids |-> I, zones |-> G]
  OBVIOUS
<1>5. Z \in SUBSET Zones /\ m \in Message
  BY <1>2, <1>3, <1>4 DEF Message
<1>6. Edit(L, Z, m)
  BY <1>1, <1>4 DEF RemoveAll
<1> QED BY <1>3, <1>5, <1>6, Edited

LEMMA PlotStarts == Init => PlotIInv
<1> SUFFICES ASSUME Init PROVE PlotIInv
  OBVIOUS
<1>1. FirstMap \in List
  BY PlotRouteAssumption DEF List
<1>2. PICK Z : Z = Sources \cup EndsOf(FirstMap)
  OBVIOUS
<1>3. Z \subseteq Zones
  BY <1>1, <1>2, ListIds, ZonesOK
<1>4. room = [conns |-> FirstMap, nodes |-> Z, route |-> NoRoute]
  BY <1>2 DEF Init
<1>5. RowsOK
  BY <1>1, <1>3, <1>4, Empty DEF RowsOK
<1>6. map = [c \in Clients |-> [conns |-> FirstMap, nodes |-> Z]]
  <2>1. PICK r : r = room
    OBVIOUS
  <2>2. map = [c \in Clients |-> [conns |-> r.conns, nodes |-> r.nodes]]
    BY <2>1 DEF Init
  <2>3. r.conns = FirstMap /\ r.nodes = Z
    BY <1>4, <2>1
  <2> QED BY <2>2, <2>3
<1>7. StoresOK
  BY <1>1, <1>3, <1>6, Empty DEF StoresOK, Init
<1>8. LinksOK /\ MessagesOK /\ UpdatesOK
  BY Empty DEF Init, LinksOK, MessagesOK, UpdatesOK
<1>9. LostOK
  BY Empty DEF Init, LostOK
<1> QED BY <1>5, <1>7, <1>8, <1>9 DEF PlotIInv

LEMMA Entering ==
    ASSUME PlotIInv, NEW c \in Clients, enterPlotRouteMode(c)
    PROVE  PlotIInv'
<1>1. PICK P : P = [Idle EXCEPT !.step = "selectingFrom"]
  OBVIOUS
<1>2. P \in Plot /\ PlotOK(P) /\ P.route.ids = {}
  BY <1>1, Empty DEF Idle, Plot, PlotOK, Sound
<1>3. plot' = [plot EXCEPT ![c] = P] /\ map' = map /\ lost' = lost
  BY <1>1 DEF enterPlotRouteMode, ghosts
<1>4. StoresOK' /\ LostOK'
  <2>1. map' = [map EXCEPT ![c] = map[c]] /\ lost' = [lost EXCEPT ![c] = lost[c]]
    BY <1>3, EveryPlot DEF PlotIInv
  <2>2. map[c] \in [conns : List, nodes : SUBSET Zones] /\ lost[c] \in SUBSET AllIds
    BY EveryPlot DEF PlotIInv
  <2>3. P.route.ids \subseteq IdsOf(map[c].conns) \cup lost[c]
    BY <1>2
  <2>4. PICK M, I : M = map[c] /\ I = lost[c]
    OBVIOUS
  <2> QED BY <1>2, <1>3, <2>1, <2>2, <2>3, <2>4, OneStore DEF PlotIInv
<1>5. RowsOK' /\ LinksOK' /\ MessagesOK' /\ UpdatesOK'
  BY DEF enterPlotRouteMode, PlotIInv, RowsOK, LinksOK, MessagesOK, UpdatesOK
<1> QED BY <1>4, <1>5 DEF PlotIInv

LEMMA Leaving ==
    ASSUME PlotIInv, NEW c \in Clients, exitPlotRouteMode(c)
    PROVE  PlotIInv'
<1>1. map' = [map EXCEPT ![c] = map[c]] /\ map[c] \in [conns : List, nodes : SUBSET Zones]
  BY EveryPlot DEF PlotIInv, exitPlotRouteMode
<1>2. StoresOK' /\ LostOK' /\ UpdatesOK'
  BY <1>1, GivenUp DEF PlotIInv, exitPlotRouteMode
<1>3. RowsOK' /\ LinksOK' /\ MessagesOK'
  BY DEF exitPlotRouteMode, PlotIInv, RowsOK, LinksOK, MessagesOK
<1> QED BY <1>2, <1>3 DEF PlotIInv

LEMMA NodeRemoved ==
    ASSUME PlotIInv, NEW c \in Clients, NEW z, onNodeRemoved(c, z)
    PROVE  PlotIInv'
<1>1. map' = [map EXCEPT ![c] = map[c]] /\ map[c] \in [conns : List, nodes : SUBSET Zones]
  BY EveryPlot DEF PlotIInv, onNodeRemoved
<1>2. ASSUME GiveUp(c) PROVE StoresOK' /\ LostOK' /\ UpdatesOK'
  BY <1>1, <1>2, GivenUp DEF PlotIInv, onNodeRemoved
<1>3. ASSUME UNCHANGED <<plot, writes, ghosts>> PROVE StoresOK' /\ LostOK' /\ UpdatesOK'
  BY <1>3 DEF PlotIInv, onNodeRemoved, StoresOK, LostOK, UpdatesOK, ghosts
<1>4. StoresOK' /\ LostOK' /\ UpdatesOK'
  BY <1>2, <1>3 DEF onNodeRemoved
<1>5. RowsOK' /\ LinksOK' /\ MessagesOK'
  BY DEF onNodeRemoved, PlotIInv, RowsOK, LinksOK, MessagesOK
<1> QED BY <1>4, <1>5 DEF PlotIInv

LEMMA DrawnAre ==
    ASSUME StoresOK, NEW c \in Clients
    PROVE  Drawn(c) \subseteq Zones
<1>1. PICK L, Z : L = map[c].conns /\ Z = map[c].nodes
  OBVIOUS
<1>2. L \in List /\ Z \subseteq Zones
  BY <1>1 DEF StoresOK
<1>3. EndsOf(L) \subseteq Zones
  BY <1>2, ListIds
<1> QED BY <1>1, <1>2, <1>3 DEF Drawn

LEMMA FromSelected ==
    ASSUME PlotIInv, NEW c \in Clients, NEW z \in Zones, SelectFrom(c, z)
    PROVE  PlotIInv'
<1>1. PICK p, ch : p = plot[c] /\ ch = ChainAt(c, z)
  OBVIOUS
<1>2. p \in Plot /\ p.route \in Route /\ p.route.ids \subseteq IdsOf(map[c].conns) \cup lost[c]
  BY <1>1, EveryPlot DEF PlotIInv
<1>3. ch \in {ChainOf[x] : x \in Zones} \cup {None}
  BY <1>1 DEF ChainAt
<1>4. PICK r : r = [p.route EXCEPT !.from = z, !.chain = ch]
  OBVIOUS
<1>5. r \in Route /\ r.ids = p.route.ids /\ r.from = z
  BY <1>2, <1>3, <1>4 DEF Route
<1>6. PICK P : P = [p EXCEPT !.step = "selectingTo", !.route = r]
  OBVIOUS
<1>7. P \in Plot /\ P.step = "selectingTo" /\ P.route = r
  BY <1>2, <1>5, <1>6 DEF Plot
<1>8. PlotOK(P) /\ P.route.ids \subseteq IdsOf(map[c].conns) \cup lost[c]
  BY <1>2, <1>5, <1>7, PlotRouteAssumption DEF PlotOK
<1>9. plot' = [plot EXCEPT ![c] = P]
  <2>1. plot \in [Clients -> Plot]
    BY DEF PlotIInv, StoresOK
  <2>2. plot' = [plot EXCEPT ![c].step = "selectingTo", ![c].route.from = z,
                          ![c].route.chain = ch]
    BY <1>1 DEF SelectFrom
  <2>3. plot' = [plot EXCEPT ![c] = [@ EXCEPT !.step = "selectingTo", !.route.from = z, !.route.chain = ch]]
    BY <2>1, <2>2 
  <2> QED BY <1>1, <1>2, <1>4, <1>6, <2>1, <2>3 DEF Plot, Route
<1>10. StoresOK' /\ LostOK'
  <2>1. map' = [map EXCEPT ![c] = map[c]] /\ lost' = [lost EXCEPT ![c] = lost[c]]
    BY EveryPlot DEF PlotIInv, SelectFrom
  <2>2. map[c] \in [conns : List, nodes : SUBSET Zones] /\ lost[c] \in SUBSET AllIds
    BY EveryPlot DEF PlotIInv
  <2>3. PICK M, I : M = map[c] /\ I = lost[c]
    OBVIOUS
  <2> QED BY <1>7, <1>8, <1>9, <2>1, <2>2, <2>3, OneStore DEF PlotIInv
<1>11. RowsOK' /\ LinksOK' /\ MessagesOK' /\ UpdatesOK'
  BY DEF SelectFrom, PlotIInv, RowsOK, LinksOK, MessagesOK, UpdatesOK
<1> QED BY <1>10, <1>11 DEF PlotIInv

LEMMA ToSelected ==
    ASSUME PlotIInv, NEW c \in Clients, NEW z \in Zones, SelectTo(c, z)
    PROVE  PlotIInv'
<1>1. PICK p, L : p = plot[c] /\ L = map[c].conns
  OBVIOUS
<1>2. /\ p \in Plot /\ PlotOK(p) /\ p.route \in Route
      /\ map[c] \in [conns : List, nodes : SUBSET Zones] /\ L \in List
  BY <1>1, EveryPlot DEF PlotIInv
<1>3. p.step = "selectingTo"
  BY <1>1 DEF SelectTo
<1>4. p.route.from \in Zones
  BY <1>2, <1>3 DEF PlotOK, Route
<1>5. PICK a, f : a = p.route.from /\ f = Found(L, a, z)
  OBVIOUS
<1>6. PICK r : r = [p.route EXCEPT !.to = z, !.ids = f.ids]
  OBVIOUS
<1>7. r.ids = Found(L, a, z).ids /\ r.from = a /\ r.to = z
  BY <1>2, <1>5, <1>6 DEF Route
<1>8. /\ r.ids \subseteq IdsOf(L) /\ f.reversed \subseteq AllIds
      /\ r.ids # {} => a # z /\ Degree(r, a) = 1 /\ Degree(r, z) = 1
  BY <1>2, <1>4, <1>5, <1>7, FoundIs
<1>9. r.ids \subseteq AllIds
  BY <1>2, <1>8, ListIds
<1>10. r \in Sound
  <2>1. r \in Route
    BY <1>2, <1>6, <1>7, <1>9 DEF Route
  <2>2. JoinsEnds(r)
    BY <1>4, <1>5, <1>7, <1>8 DEF JoinsEnds
  <2> QED BY <2>1, <2>2 DEF Sound
<1>11. PICK P : P = [step |-> "idle", route |-> r, reversed |-> f.reversed]
  OBVIOUS
<1>12. P \in Plot /\ PlotOK(P) /\ P.route.ids \subseteq IdsOf(L) \cup {}
  BY <1>8, <1>10, <1>11 DEF Plot, PlotOK, Sound
<1>13. plot' = [plot EXCEPT ![c] = P] /\ Send(c, r)
  BY <1>1, <1>5, <1>6, <1>11 DEF SelectTo
<1>14. StoresOK' /\ LostOK'
  <2>1. map' = [map EXCEPT ![c] = map[c]]
    BY EveryPlot DEF PlotIInv, SelectTo
  <2>2. PICK M, I : M = map[c] /\ I = {}
    OBVIOUS
  <2>3. lost' = [lost EXCEPT ![c] = I] /\ I \in SUBSET AllIds
    BY <2>2 DEF SelectTo
  <2> QED BY <1>1, <1>2, <1>12, <1>13, <2>1, <2>2, <2>3, OneStore DEF PlotIInv
<1>15. UpdatesOK'
  BY <1>10, <1>13, Sent DEF PlotIInv, SelectTo
<1>16. RowsOK' /\ LinksOK' /\ MessagesOK'
  BY DEF SelectTo, PlotIInv, RowsOK, LinksOK, MessagesOK
<1> QED BY <1>14, <1>15, <1>16 DEF PlotIInv

\* What a message that arrives may be, by its kind.
LEMMA Kinds ==
    ASSUME NEW m \in Message
    PROVE  /\ m.kind = "added" => m.conn \in Connections /\ m.zones \subseteq Zones
           /\ m.kind \in {"removed", "chain_removed"} => m.ids \subseteq AllIds /\ m.zones \subseteq Zones
           /\ m.kind = "route" => m.route \in Sound
           /\ m.kind = "sync" => m.conns \in List /\ m.nodes \subseteq Zones /\ m.route \in Sound
  BY DEF Message

LEMMA AppliedIs ==
    ASSUME NEW p \in Plot, NEW r \in Sound
    PROVE  Applied(p, r) \in Plot /\ PlotOK(Applied(p, r)) /\ Applied(p, r).route.ids = r.ids
<1>1. CASE r.ids = {}
  BY <1>1, Empty DEF Applied
<1>2. CASE r.ids # {}
  <2>1. r \in Route /\ r.from \in Zones
    BY <1>2 DEF Sound, JoinsEnds
  <2>2. PICK P : P = [step |-> p.step, route |-> r, reversed |-> {}]
    OBVIOUS
  <2>3. P \in Plot /\ P.route = r
    BY <2>1, <2>2 DEF Plot
  <2>4. PlotOK(P)
    BY <2>1, <2>3, PlotRouteAssumption DEF PlotOK
  <2> QED BY <1>2, <2>2, <2>3, <2>4 DEF Applied
<1> QED BY <1>1, <1>2

LEMMA MapMessages ==
    ASSUME StoresOK, LostOK, UpdatesOK, NEW c \in Clients, NEW m \in Message, MapMessage(c, m),
           tells' = tells
    PROVE  StoresOK' /\ LostOK' /\ UpdatesOK'
<1>1. PICK L, Z, p, I : L = map[c].conns /\ Z = map[c].nodes /\ p = plot[c] /\ I = lost[c]
  OBVIOUS
<1>2. /\ L \in List /\ Z \subseteq Zones /\ p \in Plot /\ PlotOK(p) /\ I \in SUBSET AllIds
      /\ p.route.ids \subseteq IdsOf(L) \cup I /\ p.route.ids \subseteq AllIds
  BY <1>1, EveryPlot DEF Route
<1>3. plot' = [plot EXCEPT ![c] = p] /\ UpdatesOK'
  BY <1>1, EveryPlot DEF MapMessage, UpdatesOK
<1>4. CASE m.kind = "added"
  <2>1. PICK M : M = [conns |-> Append(L, m.conn), nodes |-> Z \cup m.zones]
    OBVIOUS
  <2>2. M \in [conns : List, nodes : SUBSET Zones] /\ IdsOf(L) \subseteq IdsOf(M.conns)
    BY <1>2, <1>4, <2>1, Kinds, ListAdd
  <2>3. map' = [map EXCEPT ![c] = M] /\ lost' = [lost EXCEPT ![c] = I]
    BY <1>1, <1>4, <2>1 DEF MapMessage
  <2>4. p.route.ids \subseteq IdsOf(M.conns) \cup I
    BY <1>2, <2>2
  <2> QED BY <1>2, <1>3, <2>2, <2>3, <2>4, OneStore
<1>5. CASE m.kind = "chain_removed"
  <2>1. PICK M, J : M = [conns |-> Drop(L, m.ids), nodes |-> Z \ m.zones] /\ J = I \cup m.ids
    OBVIOUS
  <2>2. /\ M \in [conns : List, nodes : SUBSET Zones] /\ IdsOf(M.conns) = IdsOf(L) \ m.ids
        /\ J \in SUBSET AllIds
    BY <1>2, <1>5, <2>1, Kinds, ListDrop
  <2>3. map' = [map EXCEPT ![c] = M] /\ lost' = [lost EXCEPT ![c] = J]
    BY <1>1, <1>5, <2>1 DEF MapMessage
  <2>4. p.route.ids \subseteq IdsOf(M.conns) \cup J
    BY <1>2, <2>1, <2>2
  <2> QED BY <1>2, <1>3, <2>2, <2>3, <2>4, OneStore
<1> QED BY <1>4, <1>5 DEF MapMessage

LEMMA RemovedMessages ==
    ASSUME StoresOK, LostOK, UpdatesOK, NEW c \in Clients, NEW m \in Message, RemovedMessage(c, m),
           tells' = tells
    PROVE  StoresOK' /\ LostOK' /\ UpdatesOK'
<1>1. PICK L, Z, p, I : L = map[c].conns /\ Z = map[c].nodes /\ p = plot[c] /\ I = lost[c]
  OBVIOUS
<1>2. /\ L \in List /\ Z \subseteq Zones /\ p \in Plot /\ PlotOK(p) /\ I \in SUBSET AllIds
      /\ p.route.ids \subseteq IdsOf(L) \cup I
  BY <1>1, EveryPlot
<1>3. PICK M : M = [conns |-> Drop(L, m.ids), nodes |-> Z \ m.zones]
  OBVIOUS
<1>4. M \in [conns : List, nodes : SUBSET Zones] /\ IdsOf(M.conns) = IdsOf(L) \ m.ids
  BY <1>2, <1>3, Kinds, ListDrop DEF RemovedMessage
<1>5. map' = [map EXCEPT ![c] = M]
  BY <1>1, <1>3 DEF RemovedMessage
<1>6. ASSUME GiveUp(c) PROVE StoresOK' /\ LostOK' /\ UpdatesOK'
  BY <1>4, <1>5, <1>6, GivenUp
<1>7. ASSUME ~GivesUp(p, m.ids), UNCHANGED <<plot, writes, ghosts>>
      PROVE  StoresOK' /\ LostOK' /\ UpdatesOK'
  <2>1. plot' = [plot EXCEPT ![c] = p] /\ lost' = [lost EXCEPT ![c] = I]
    BY <1>1, <1>7, EveryPlot DEF ghosts
  <2>2. p.route.ids \subseteq IdsOf(M.conns) \cup I
    BY <1>2, <1>4, <1>7 DEF GivesUp
  <2>3. UpdatesOK'
    BY <1>7 DEF UpdatesOK
  <2> QED BY <1>2, <1>4, <1>5, <2>1, <2>2, <2>3, OneStore
<1> QED BY <1>1, <1>6, <1>7 DEF RemovedMessage

LEMMA ResetMessages ==
    ASSUME StoresOK, LostOK, UpdatesOK, NEW c \in Clients, NEW m \in Message, ResetMessage(c, m),
           tells' = tells
    PROVE  StoresOK' /\ LostOK' /\ UpdatesOK'
<1>1. PICK Z : Z = map[c].nodes
  OBVIOUS
<1>2. Z \subseteq Zones
  BY <1>1, EveryPlot
<1>3. PICK M : M = [conns |-> <<>>, nodes |-> Z \cap m.zones]
  OBVIOUS
<1>4. M \in [conns : List, nodes : SUBSET Zones]
  BY <1>2, <1>3 DEF List
<1>5. map' = [map EXCEPT ![c] = M] /\ GiveUp(c)
  BY <1>1, <1>3 DEF ResetMessage
<1> QED BY <1>4, <1>5, GivenUp

LEMMA RouteMessages ==
    ASSUME StoresOK, LostOK, UpdatesOK, NEW c \in Clients, NEW m \in Message, RouteMessage(c, m),
           tells' = tells
    PROVE  StoresOK' /\ LostOK' /\ UpdatesOK'
<1>1. PICK M, P, r : M = map[c] /\ P = Applied(plot[c], m.route) /\ r = m.route
  OBVIOUS
<1>2. M \in [conns : List, nodes : SUBSET Zones] /\ map' = [map EXCEPT ![c] = M]
  BY <1>1, EveryPlot DEF RouteMessage
<1>3. r \in Sound
  BY <1>1, Kinds DEF RouteMessage
<1>4. P \in Plot /\ PlotOK(P) /\ P.route.ids = r.ids
  BY <1>1, <1>3, EveryPlot, AppliedIs
<1>5. PICK I : I = r.ids \ IdsOf(M.conns)
  OBVIOUS
<1>6. I \in SUBSET AllIds /\ P.route.ids \subseteq IdsOf(M.conns) \cup I
  BY <1>3, <1>4, <1>5 DEF Sound, Route
<1>7. plot' = [plot EXCEPT ![c] = P] /\ lost' = [lost EXCEPT ![c] = I] /\ UpdatesOK'
  BY <1>1, <1>5 DEF RouteMessage, UpdatesOK
<1> QED BY <1>2, <1>4, <1>6, <1>7, OneStore

LEMMA SyncMessages ==
    ASSUME StoresOK, LostOK, UpdatesOK, NEW c \in Clients, NEW m \in Message, SyncMessage(c, m),
           tells' = tells
    PROVE  StoresOK' /\ LostOK' /\ UpdatesOK'
<1>1. PICK M, p, r : M = [conns |-> m.conns, nodes |-> m.nodes] /\ p = plot[c] /\ r = m.route
  OBVIOUS
<1>2. r \in Sound /\ M \in [conns : List, nodes : SUBSET Zones]
  BY <1>1, Kinds DEF SyncMessage
<1>3. PICK P : P = IF r.ids = {} THEN p ELSE Applied(p, r)
  OBVIOUS
<1>4. P \in Plot /\ PlotOK(P)
  BY <1>1, <1>2, <1>3, EveryPlot, AppliedIs
<1>5. plot' = [plot EXCEPT ![c] = P]
  BY <1>1, <1>3 DEF SyncMessage
<1>6. plot'[c] = P
  BY <1>5 DEF StoresOK
<1>7. PICK I : I = P.route.ids \ IdsOf(M.conns)
  OBVIOUS
<1>8. I \in SUBSET AllIds /\ P.route.ids \subseteq IdsOf(M.conns) \cup I
  BY <1>4, <1>7 DEF Plot, Route
<1>9. map' = [map EXCEPT ![c] = M] /\ lost' = [lost EXCEPT ![c] = I] /\ UpdatesOK'
  BY <1>1, <1>6, <1>7 DEF SyncMessage, UpdatesOK
<1> QED BY <1>2, <1>4, <1>5, <1>8, <1>9, OneStore

LEMMA Delivered ==
    ASSUME PlotIInv, NEW c \in Clients, Deliver(c)
    PROVE  PlotIInv'
<1>1. PICK q, m : q = down[c] /\ m = Head(down[c])
  OBVIOUS
<1>2. q \in Seq(Message) /\ q # <<>>
  BY <1>1 DEF PlotIInv, MessagesOK, Deliver
<1>3. m \in Message /\ Tail(q) \in Seq(Message)
  BY <1>1, <1>2
<1>4. \/ MapMessage(c, m) \/ RemovedMessage(c, m) \/ ResetMessage(c, m)
      \/ RouteMessage(c, m) \/ SyncMessage(c, m)
  BY <1>1 DEF Deliver
<1>5. tells' = tells /\ StoresOK /\ LostOK /\ UpdatesOK
  BY DEF Deliver, PlotIInv
<1>6. StoresOK' /\ LostOK' /\ UpdatesOK'
  BY <1>3, <1>4, <1>5, MapMessages, RemovedMessages, ResetMessages, RouteMessages, SyncMessages
<1>7. MessagesOK'
  BY <1>1, <1>3 DEF Deliver, PlotIInv, MessagesOK
<1>8. RowsOK' /\ LinksOK'
  BY DEF Deliver, PlotIInv, RowsOK, LinksOK
<1> QED BY <1>6, <1>7, <1>8 DEF PlotIInv

LEMMA Linked ==
    ASSUME PlotIInv, NEW c \in Clients, Leave(c) \/ Register(c) \/ SendSync(c)
    PROVE  PlotIInv'
<1>1. ASSUME Leave(c) PROVE PlotIInv'
  <2>1. RowsOK' /\ StoresOK' /\ LostOK'
    BY <1>1 DEF Leave, PlotIInv, RowsOK, StoresOK, LostOK
  <2>2. LinksOK' /\ MessagesOK'
    BY <1>1, Empty DEF Leave, PlotIInv, LinksOK, MessagesOK
  <2>3. \A w \in Update : [w EXCEPT !.by = None] \in Update
    BY DEF Update
  <2>4. UpdatesOK'
    BY <1>1, <2>3 DEF Leave, PlotIInv, UpdatesOK
  <2> QED BY <2>1, <2>2, <2>4 DEF PlotIInv
<1>2. ASSUME Register(c) PROVE PlotIInv'
  <2>1. RowsOK' /\ StoresOK' /\ LostOK' /\ MessagesOK' /\ UpdatesOK'
    BY <1>2 DEF Register, PlotIInv, RowsOK, StoresOK, LostOK, MessagesOK, UpdatesOK, ghosts
  <2>2. LinksOK'
    BY <1>2 DEF Register, PlotIInv, LinksOK, RowsOK
  <2> QED BY <2>1, <2>2 DEF PlotIInv
<1>3. ASSUME SendSync(c) PROVE PlotIInv'
  <2>1. RowsOK' /\ StoresOK' /\ LostOK' /\ UpdatesOK'
    BY <1>3 DEF SendSync, PlotIInv, RowsOK, StoresOK, LostOK, UpdatesOK
  <2>2. LinksOK'
    BY <1>3, Empty DEF SendSync, PlotIInv, LinksOK
  <2>3. PICK m : m = [kind |-> "sync", conns |-> room.conns, nodes |-> room.nodes, route |-> seen[c]]
    OBVIOUS
  <2>4. m \in Message
    BY <2>3 DEF PlotIInv, RowsOK, LinksOK, Message
  <2>5. down' = [down EXCEPT ![c] = Append(@, m)]
    BY <1>3, <2>3 DEF SendSync
  <2>6. MessagesOK'
    BY <2>4, <2>5 DEF PlotIInv, MessagesOK
  <2> QED BY <2>1, <2>2, <2>6 DEF PlotIInv
<1> QED BY <1>1, <1>2, <1>3

LEMMA Written ==
    ASSUME PlotIInv, NEW w \in writes, Write(w)
    PROVE  PlotIInv'
<1>1. StoresOK' /\ LinksOK' /\ MessagesOK' /\ LostOK'
  BY DEF Write, PlotIInv, StoresOK, LinksOK, MessagesOK, LostOK, ghosts
<1>2. w \in Update /\ w.route \in Sound
  BY DEF PlotIInv, UpdatesOK, Update
<1>3. UpdatesOK' /\ RowsOK'
  BY <1>2 DEF Write, PlotIInv, UpdatesOK, RowsOK
<1> QED BY <1>1, <1>3 DEF PlotIInv

LEMMA ToldOff ==
    ASSUME PlotIInv, NEW t \in tells, Tell(t)
    PROVE  PlotIInv'
<1>1. RowsOK' /\ StoresOK' /\ LinksOK' /\ UpdatesOK' /\ LostOK'
  BY DEF Tell, PlotIInv, RowsOK, StoresOK, LinksOK, UpdatesOK, LostOK, ghosts
<1>2. PICK m : m = [kind |-> "route", route |-> t.route]
  OBVIOUS
<1>3. m \in Message
  BY <1>2 DEF PlotIInv, UpdatesOK, Update, Message
<1>4. MessagesOK'
  BY <1>2, <1>3, TellsAllBut DEF Tell, PlotIInv
<1> QED BY <1>1, <1>4 DEF PlotIInv

LEMMA MapEdited ==
    ASSUME PlotIInv,
           \/ \E k \in Spare : AddConnection(k)
           \/ \E i \in IdsOf(room.conns) : RemoveConnection(i)
           \/ \E s \in Sources : RemoveChain(s)
           \/ ResetRoom
           \/ \E c \in Clients, z \in Zones : DeleteZone(c, z)
    PROVE  PlotIInv'
<1>1. PICK L, Z : L = room.conns /\ Z = room.nodes
  OBVIOUS
<1>2. L \in List /\ Z \subseteq Zones
  BY <1>1 DEF PlotIInv, RowsOK
<1>3. ASSUME NEW k \in Spare, AddConnection(k) PROVE PlotIInv'
  <2>1. k \in Connections /\ k.to \in Zones
    BY PlotRouteAssumption DEF Connections
  <2>2. PICK M, Y, m : M = Append(L, k) /\ Y = Z \cup {k.to} /\ m = [kind |-> "added", conn |-> k, zones |-> {k.to}]
    OBVIOUS
  <2>3. M \in List /\ Y \in SUBSET Zones /\ m \in Message
    BY <1>2, <2>1, <2>2, ListAdd DEF Message
  <2> QED BY <1>1, <1>3, <2>2, <2>3, Edited DEF AddConnection
<1>4. ASSUME NEW i \in IdsOf(room.conns), RemoveConnection(i) PROVE PlotIInv'
  <2>1. {i} \in SUBSET AllIds
    BY <1>1, <1>2, <1>4, ListIds
  <2> QED BY <1>4, <2>1, Drops DEF RemoveConnection
<1>5. ASSUME NEW s \in Sources, RemoveChain(s) PROVE PlotIInv'
  <2>1. PICK Y, J : /\ Y = {z \in Z : ChainOf[z] = ChainOf[s]}
                    /\ J = {L[k].id : k \in {j \in DOMAIN L : {L[j].from, L[j].to} \cap Y # {}}}
    OBVIOUS
  <2>2. Y \subseteq Zones /\ J \subseteq AllIds
    BY <1>2, <2>1, ListIds
  <2>3. PICK M, X, m : M = Drop(L, J) /\ X = Z \ Y /\ m = [kind |-> "chain_removed", ids |-> J, zones |-> Y]
    OBVIOUS
  <2>4. M \in List /\ X \in SUBSET Zones /\ m \in Message
    BY <1>2, <2>2, <2>3, ListDrop DEF Message
  <2>5. Edit(M, X, m)
    BY <1>1, <1>5, <2>1, <2>3 DEF RemoveChain
  <2> QED BY <2>4, <2>5, Edited
<1>6. ASSUME ResetRoom PROVE PlotIInv'
  <2>1. PICK M, X, m : M = <<>> /\ X = Z \cap Sources /\ m = [kind |-> "reset", zones |-> Sources]
    OBVIOUS
  <2>2. M \in List /\ X \in SUBSET Zones /\ m \in Message
    BY <1>2, <2>1, ZonesOK DEF Message, List
  <2> QED BY <1>1, <1>6, <2>1, <2>2, Edited DEF ResetRoom
<1>7. ASSUME NEW c \in Clients, NEW z \in Zones, DeleteZone(c, z) PROVE PlotIInv'
  <2> DEFINE N == map[c].conns
  <2>2. N \in List
    BY EveryPlot DEF PlotIInv
  <2>3. PICK K \in {handleDeleteRoads(N, z), handleDeleteOther(N, z)} : RemoveAll({N[k].id : k \in K})
    BY <1>7 DEF DeleteZone
  <2> HIDE DEF N
  <2>4. K \subseteq Ids(N)
    <3>1. Touching(N, z) \subseteq Ids(N) /\ {k \in Ids(N) : N[k].to = z} \subseteq Ids(N)
      BY DEF Touching
    <3>2. Len(N) \in Nat
      BY <2>2, ListIds
    <3> QED BY <2>3, <3>1, <3>2, WalkFromTakes DEF handleDeleteRoads, handleDeleteOther
  <2>5. {N[k].id : k \in K} \in SUBSET AllIds
    BY <2>2, <2>4, ListIds
  <2> QED BY <2>3, <2>5, Drops
<1> QED BY <1>3, <1>4, <1>5, <1>6, <1>7

\* What is stored, shown, under way and sent is well formed, every route that
\* is anybody's joins its ends, and no plot has lost a connection unnoticed.
THEOREM AlwaysPlotIInv == Spec => []PlotIInv
<1>1. ASSUME PlotIInv, [Next]_vars PROVE PlotIInv'
  <2>1. CASE Next
    <3>1. ASSUME NEW c \in Clients, NEW z \in Zones,
                 SelectFrom(c, z) \/ SelectTo(c, z) \/ onNodeRemoved(c, z)
          PROVE  PlotIInv'
      BY <1>1, <3>1, FromSelected, ToSelected, NodeRemoved
    <3>2. ASSUME NEW c \in Clients, enterPlotRouteMode(c) \/ exitPlotRouteMode(c) \/ Deliver(c)
          PROVE  PlotIInv'
      BY <1>1, <3>2, Entering, Leaving, Delivered
    <3>3. ASSUME NEW c \in Clients, Leave(c) \/ Register(c) \/ SendSync(c)
          PROVE  PlotIInv'
      BY <1>1, <3>3, Linked
    <3>4. ASSUME \/ \E w \in writes : Write(w)
                 \/ \E t \in tells : Tell(t)
          PROVE  PlotIInv'
      BY <1>1, <3>4, Written, ToldOff
    <3>5. ASSUME \/ \E k \in Spare : AddConnection(k)
                 \/ \E i \in IdsOf(room.conns) : RemoveConnection(i)
                 \/ \E s \in Sources : RemoveChain(s)
                 \/ ResetRoom
                 \/ \E c \in Clients, z \in Zones : DeleteZone(c, z)
          PROVE  PlotIInv'
      BY <1>1, <3>5, MapEdited
    <3> QED BY <2>1, <3>1, <3>2, <3>3, <3>4, <3>5 DEF Next
  <2>2. CASE UNCHANGED vars
    BY <1>1, <2>2 DEF vars, ghosts, counters, PlotIInv, RowsOK, StoresOK, LinksOK, MessagesOK, UpdatesOK, LostOK
  <2> QED BY <1>1, <2>1, <2>2
<1> QED BY <1>1, PlotStarts, PTL DEF Spec

\* The stored route, every plot, every link and every update on its way are
\* well formed, and whoever is choosing the end of a plot has chosen its start.
THEOREM PlotTypeCorrect == Spec => []TypeOK
<1>1. PlotIInv => TypeOK
  BY DEF PlotIInv, RowsOK, StoresOK, LinksOK, UpdatesOK, TypeOK, Sound, Plot, PlotOK, Update
<1> QED BY <1>1, AlwaysPlotIInv, PTL

\* However its zones and connections come and go, a route on screen holds no
\* connection the store has lost, but those a removed chain took and those that
\* were gone when the route was told.
THEOREM RouteAlwaysStands == Spec => []RouteStands
<1>1. PlotIInv => RouteStands
  <2>1. PlotIInv => TypeOK
    BY DEF PlotIInv, RowsOK, StoresOK, LinksOK, UpdatesOK, TypeOK, Sound, Plot, PlotOK, Update
  <2> QED BY <2>1 DEF PlotIInv, LostOK, RouteStands
<1> QED BY <1>1, AlwaysPlotIInv, PTL

\* The ends stored and shown with a route are the ends of its connections, and
\* just one of them is at each.
THEOREM RouteAlwaysJoinsItsEnds == Spec => []RouteJoinsItsEnds
<1>1. PlotIInv => RouteJoinsItsEnds
  <2>1. ASSUME PlotIInv PROVE room.route \in Sound /\ \A c \in Clients : plot[c].step = "idle" => plot[c].route \in Sound
    BY <2>1 DEF PlotIInv, RowsOK, StoresOK, PlotOK
  <2> QED BY <2>1 DEF RouteJoinsItsEnds, Sound, JoinsEnds
<1> QED BY <1>1, AlwaysPlotIInv, PTL

-----------------------------------------------------------------------------
(* PlotRoute: what everyone there comes to *)

\* The messages of a queue that tell a route.
ToldIn(q) == {i \in 1..Len(q) : q[i].kind \in {"route", "sync"}}
\* Once the queue is empty the route J has become I.
EndsWith(q, J, I) ==
  /\ \A i \in ToldIn(q) : (\A j \in ToldIn(q) : j <= i) => q[i].route.ids = I
  /\ ToldIn(q) = {} => J = I
\* Who is there comes to the route I: an update of another's is on its way to
\* him, or the last he will be told is that, or he is told none and shows it.
ComesTo(c, I) ==
  \/ \E w \in writes \cup tells : w.by # c
  \/ EndsWith(down[c], plot[c].route.ids, I)
AllComeTo(I) ==
  /\ \A w \in writes \cup tells : w.route.ids = I
  /\ writes = {} => room.route.ids = I
  /\ \A c \in Clients : link[c] = "room" /\ (\E w \in writes \cup tells : w.by = c) => seen[c].ids = I
  /\ \A c \in Clients : link[c] = "live" => ComesTo(c, I)
Attached == \A w \in writes \cup tells : w.by \in Clients => link[w.by] # "away"
Agreed == ~apart => \E I \in SUBSET AllIds : AllComeTo(I)
SameIInv == Attached /\ Agreed

LEMMA LastAppended ==
    ASSUME NEW V, NEW q \in Seq(V), NEW m, m.kind \in {"route", "sync"}, NEW J,
           NEW I, m.route.ids = I
    PROVE  EndsWith(Append(q, m), J, I)
<1>1. PICK r, n : r = Append(q, m) /\ n = Len(q)
  OBVIOUS
<1>2. n \in Nat /\ Len(r) = n + 1 /\ r[n + 1] = m
  BY <1>1
<1>3. n + 1 \in ToldIn(r) /\ \A i \in ToldIn(r) : i \in 1..(n + 1)
  BY <1>2 DEF ToldIn
<1>4. ASSUME NEW i \in ToldIn(r), \A j \in ToldIn(r) : j <= i PROVE r[i].route.ids = I
  <2>1. i = n + 1
    BY <1>2, <1>3, <1>4
  <2> QED BY <1>2, <2>1
<1> QED BY <1>1, <1>3, <1>4 DEF EndsWith

LEMMA OtherAppended ==
    ASSUME NEW V, NEW q \in Seq(V), NEW m, m.kind \notin {"route", "sync"}, NEW J, NEW I, EndsWith(q, J, I)
    PROVE  EndsWith(Append(q, m), J, I)
<1>1. PICK r, n : r = Append(q, m) /\ n = Len(q)
  OBVIOUS
<1>2. n \in Nat /\ Len(r) = n + 1 /\ r[n + 1] = m /\ \A i \in 1..n : r[i] = q[i]
  BY <1>1
<1>3. ToldIn(r) = ToldIn(q) /\ \A i \in ToldIn(q) : r[i] = q[i]
  <2>1. \A i \in 1..n : i \in 1..(n + 1)
    BY <1>2
  <2>2. \A i \in 1..(n + 1) : i = n + 1 \/ i \in 1..n
    BY <1>2
  <2> QED BY <1>1, <1>2, <2>1, <2>2 DEF ToldIn
<1> QED BY <1>1, <1>3 DEF EndsWith

LEMMA Dequeued ==
    ASSUME NEW V, NEW q \in Seq(V), q # <<>>, NEW J, NEW I, EndsWith(q, J, I)
    PROVE  /\ Head(q).kind \in {"route", "sync"} => EndsWith(Tail(q), Head(q).route.ids, I)
           /\ Head(q).kind \notin {"route", "sync"} => EndsWith(Tail(q), J, I)
<1>1. PICK r, n : r = Tail(q) /\ n = Len(r)
  OBVIOUS
<1>2. /\ n \in Nat /\ Len(q) = n + 1 /\ Head(q) = q[1]
      /\ \A i \in 1..n : r[i] = q[i + 1]
  BY <1>1
<1>3. /\ \A i \in 1..n : i \in ToldIn(r) <=> i + 1 \in ToldIn(q)
      /\ 1 \in ToldIn(q) <=> Head(q).kind \in {"route", "sync"}
      /\ ToldIn(r) \subseteq 1..n /\ ToldIn(q) \subseteq 1..(n + 1)
  <2>1. \A i \in 1..n : i + 1 \in 1..(n + 1)
    BY <1>2
  <2>2. 1 \in 1..(n + 1)
    BY <1>2
  <2> QED BY <1>1, <1>2, <2>1, <2>2 DEF ToldIn
<1>4. ASSUME NEW i \in ToldIn(r), \A j \in ToldIn(r) : j <= i PROVE r[i].route.ids = I
  <2>1. i \in 1..n /\ i + 1 \in ToldIn(q) /\ r[i] = q[i + 1]
    BY <1>2, <1>3
  <2>2. ASSUME NEW j \in ToldIn(q) PROVE j <= i + 1
    <3>1. CASE j = 1
      BY <2>1, <3>1
    <3>2. CASE j # 1
      <4>1. j - 1 \in 1..n /\ (j - 1) + 1 = j
        BY <1>2, <1>3, <3>2
      <4>2. j - 1 <= i
        BY <1>3, <1>4, <4>1
      <4> QED BY <2>1, <4>1, <4>2
    <3> QED BY <3>1, <3>2
  <2> QED BY <2>1, <2>2 DEF EndsWith
<1>5. ASSUME ToldIn(r) = {} PROVE ToldIn(q) \subseteq {1}
  <2>1. ASSUME NEW j \in ToldIn(q), j # 1 PROVE FALSE
    <3>1. j - 1 \in 1..n /\ (j - 1) + 1 = j
      BY <1>2, <1>3, <2>1
    <3> QED BY <1>3, <1>5, <3>1
  <2> QED BY <2>1
<1>6. ASSUME ToldIn(r) = {}, Head(q).kind \in {"route", "sync"} PROVE Head(q).route.ids = I
  <2>1. 1 \in ToldIn(q) /\ \A j \in ToldIn(q) : j <= 1
    BY <1>3, <1>5, <1>6
  <2> QED BY <1>2, <2>1 DEF EndsWith
<1>7. ASSUME ToldIn(r) = {}, Head(q).kind \notin {"route", "sync"} PROVE J = I
  <2>1. ToldIn(q) = {}
    BY <1>3, <1>5, <1>7
  <2> QED BY <2>1 DEF EndsWith
<1> QED BY <1>1, <1>4, <1>6, <1>7 DEF EndsWith

\* A step after which everyone comes to what he came to.
LEMMA Keeps ==
    ASSUME SameIInv, link' = link, seen' = seen, writes' = writes, tells' = tells,
           room'.route = room.route, ~apart' => ~apart,
           ~apart' => \A c \in Clients, I \in SUBSET AllIds :
                        EndsWith(down[c], plot[c].route.ids, I)
                        => EndsWith(down'[c], plot'[c].route.ids, I)
    PROVE  SameIInv'
<1>1. Attached'
  BY DEF SameIInv, Attached
<1>2. ASSUME ~apart' PROVE \E I \in SUBSET AllIds : AllComeTo(I)'
  <2>1. PICK I \in SUBSET AllIds : AllComeTo(I)
    BY <1>2 DEF SameIInv, Agreed
  <2>2. \A c \in Clients : link[c] = "live" => ComesTo(c, I)'
    BY <1>2, <2>1 DEF AllComeTo, ComesTo
  <2>3. AllComeTo(I)'
    BY <2>1, <2>2 DEF AllComeTo
  <2> QED BY <2>3
<1>3. Agreed'
  BY <1>2 DEF Agreed
<1> QED BY <1>1, <1>3 DEF SameIInv

\* An update that meets no other brings everyone to its route.
LEMMA Brings ==
    ASSUME SameIInv, NEW c \in Clients, NEW r \in Sound, Send(c, r),
           link \in [Clients -> {"away", "room", "live"}],
           tells' = tells, link' = link, seen' = seen, plot'[c].route.ids = r.ids,
           \A i \in ToldIn(down'[c]) : down'[c][i] \in ToSet(down[c])
    PROVE  SameIInv'
<1>1. Attached'
  <2>1. \A w \in writes \cup tells : w.by \in Clients => link'[w.by] # "away"
    BY DEF SameIInv, Attached
  <2>2. CASE link[c] = "away"
    <3>1. writes' = writes
      BY <2>2 DEF Send
    <3> QED BY <2>1, <3>1 DEF Attached
  <2>3. CASE link[c] # "away"
    <3>1. PICK u : u = [by |-> c, route |-> IF r.ids = {} THEN NoRoute ELSE r]
      OBVIOUS
    <3>2. writes' = writes \cup {u} /\ u.by = c
      BY <2>3, <3>1 DEF Send
    <3> QED BY <2>1, <2>3, <3>2 DEF Attached
  <2> QED BY <2>2, <2>3
<1>2. ASSUME ~apart' PROVE \E I \in SUBSET AllIds : AllComeTo(I)'
  <2>1. PICK u : u = [by |-> c, route |-> IF r.ids = {} THEN NoRoute ELSE r]
    OBVIOUS
  <2>2. u.by = c /\ u.route.ids = r.ids
    BY <2>1, Empty
  <2>3. writes' = writes \cup {u} /\ InFlight \subseteq {r.ids}
    BY <1>2, <2>1 DEF Send
  <2>4. \A w \in writes' \cup tells' : w.route.ids = r.ids
    BY <2>2, <2>3 DEF InFlight
  <2>5. \A d \in Clients : link[d] = "room" => seen[d].ids = r.ids
    BY <2>3 DEF InFlight
  <2>6. ASSUME NEW d \in Clients, NEW m \in ToSet(down[d]), m.kind \in {"route", "sync"}
        PROVE  m.route.ids = r.ids
    <3>1. PICK T : T = {x \in ToSet(down[d]) : x.kind \in {"route", "sync"}}
      OBVIOUS
    <3>2. m \in T
      BY <2>6, <3>1
    <3>3. m.route.ids \in {x.route.ids : x \in T}
      BY <3>2
    <3>4. {x.route.ids : x \in T} \subseteq InFlight
      BY <3>1, Zenon DEF InFlight
    <3> QED BY <2>3, <3>3, <3>4
  <2>7. EndsWith(down'[c], plot'[c].route.ids, r.ids)
    BY <2>6 DEF EndsWith, ToldIn
  <2>8. \A d \in Clients : ComesTo(d, r.ids)'
    BY <2>2, <2>3, <2>7 DEF ComesTo
  <2>9. AllComeTo(r.ids)'
    BY <2>3, <2>4, <2>5, <2>8 DEF AllComeTo
  <2> QED BY <2>9 DEF Sound, Route
<1>3. Agreed'
  BY <1>2 DEF Agreed
<1> QED BY <1>1, <1>3 DEF SameIInv

LEMMA GivenUpFor ==
    ASSUME PlotIInv, SameIInv, NEW c \in Clients, GiveUp(c), tells' = tells, link' = link, seen' = seen,
           \A i \in ToldIn(down'[c]) : down'[c][i] \in ToSet(down[c])
    PROVE  SameIInv'
<1>1. NoRoute \in Sound /\ Send(c, NoRoute)
  BY Empty DEF GiveUp
<1>2. plot' = [plot EXCEPT ![c] = Idle] /\ plot \in [Clients -> Plot]
  BY DEF GiveUp, PlotIInv, StoresOK
<1>3. plot'[c].route.ids = NoRoute.ids
  BY <1>2, Empty
<1>4. link \in [Clients -> {"away", "room", "live"}]
  BY DEF PlotIInv, LinksOK
<1> QED BY <1>1, <1>3, <1>4, Brings

LEMMA SamePlotted ==
    ASSUME PlotIInv, SameIInv, NEW c \in Clients, enterPlotRouteMode(c) \/ exitPlotRouteMode(c)
    PROVE  SameIInv'
<1>1. ASSUME enterPlotRouteMode(c) PROVE SameIInv'
  <2>1. plot' = [plot EXCEPT ![c] = [Idle EXCEPT !.step = "selectingFrom"]] /\ plot[c].route.ids = {}
    BY <1>1 DEF enterPlotRouteMode
  <2>2. [Idle EXCEPT !.step = "selectingFrom"].route.ids = {}
    BY Empty DEF Idle
  <2>3. \A d \in Clients : plot'[d].route.ids = plot[d].route.ids
    BY <2>1, <2>2 DEF PlotIInv, StoresOK
  <2> QED BY <1>1, <2>3, Keeps DEF enterPlotRouteMode, ghosts
<1>2. ASSUME exitPlotRouteMode(c) PROVE SameIInv'
  <2>1. down' = down /\ down[c] \in Seq(Message)
    BY <1>2 DEF exitPlotRouteMode, PlotIInv, MessagesOK
  <2>2. \A i \in ToldIn(down'[c]) : down'[c][i] \in ToSet(down[c])
    BY <2>1 DEF ToldIn, ToSet
  <2> QED BY <1>2, <2>2, GivenUpFor DEF exitPlotRouteMode
<1> QED BY <1>1, <1>2

LEMMA SameSelected ==
    ASSUME PlotIInv, SameIInv, NEW c \in Clients, NEW z \in Zones,
           SelectFrom(c, z) \/ SelectTo(c, z) \/ onNodeRemoved(c, z)
    PROVE  SameIInv'
<1>1. ASSUME down' = down PROVE \A i \in ToldIn(down'[c]) : down'[c][i] \in ToSet(down[c])
  <2>1. down[c] \in Seq(Message)
    BY DEF PlotIInv, MessagesOK
  <2> QED BY <1>1, <2>1 DEF ToldIn, ToSet
<1>2. ASSUME SelectFrom(c, z) PROVE SameIInv'
  <2>1. plot' = [plot EXCEPT ![c].step = "selectingTo", ![c].route.from = z,
                          ![c].route.chain = ChainAt(c, z)]
    BY <1>2 DEF SelectFrom
  <2>2. plot \in [Clients -> Plot] /\ plot[c].route \in Route
    BY DEF PlotIInv, StoresOK, Plot
  <2>3. \A d \in Clients : plot'[d].route.ids = plot[d].route.ids
    BY <2>1, <2>2 DEF Plot, Route
  <2> QED BY <1>2, <2>3, Keeps DEF SelectFrom
<1>3. ASSUME SelectTo(c, z) PROVE SameIInv'
  <2> DEFINE found == Found(map[c].conns, plot[c].route.from, z)
             route == [plot[c].route EXCEPT !.to = z, !.ids = found.ids]
  <2>1. /\ plot' = [plot EXCEPT ![c] = [step |-> "idle", route |-> route, reversed |-> found.reversed]]
        /\ Send(c, route)
    BY <1>3 DEF SelectTo
  <2>2. plot' \in [Clients -> Plot] /\ \A d \in Clients : PlotOK(plot'[d])
    BY <1>3, ToSelected DEF PlotIInv, StoresOK
  <2> HIDE DEF found, route
  <2>3. plot'[c].route = route /\ plot'[c].step = "idle"
    BY <2>1 DEF PlotIInv, StoresOK
  <2>4. route \in Sound
    BY <2>2, <2>3 DEF PlotOK
  <2>5. link \in [Clients -> {"away", "room", "live"}]
    BY DEF PlotIInv, LinksOK
  <2>6. tells' = tells /\ link' = link /\ seen' = seen /\ down' = down
    BY <1>3 DEF SelectTo
  <2>7. plot'[c].route.ids = route.ids
    BY <2>3
  <2> QED BY <1>1, <2>1, <2>4, <2>5, <2>6, <2>7, Brings
<1>4. ASSUME onNodeRemoved(c, z) PROVE SameIInv'
  <2>1. ASSUME GiveUp(c) PROVE SameIInv'
    BY <1>1, <1>4, <2>1, GivenUpFor DEF onNodeRemoved
  <2>2. ASSUME UNCHANGED <<plot, writes, ghosts>> PROVE SameIInv'
    BY <1>4, <2>2, Keeps DEF onNodeRemoved, ghosts
  <2> QED BY <1>4, <2>1, <2>2 DEF onNodeRemoved
<1> QED BY <1>2, <1>3, <1>4

LEMMA SameDelivered ==
    ASSUME PlotIInv, SameIInv, NEW c \in Clients, Deliver(c)
    PROVE  SameIInv'
<1> DEFINE q == down[c]
           m == Head(q)
<1>1. q \in Seq(Message) /\ q # <<>> /\ down \in [Clients -> Seq(Message)]
  BY DEF PlotIInv, MessagesOK, Deliver
<1>2. down' = [down EXCEPT ![c] = Tail(q)]
  BY DEF Deliver
<1>3. /\ tells' = tells /\ link' = link /\ seen' = seen /\ room' = room
      /\ \/ MapMessage(c, m) \/ RemovedMessage(c, m) \/ ResetMessage(c, m)
         \/ RouteMessage(c, m) \/ SyncMessage(c, m)
  BY DEF Deliver
<1> HIDE DEF q, m
<1>4. down'[c] = Tail(q) /\ \A d \in Clients \ {c} : down'[d] = down[d]
  BY <1>1, <1>2
<1>5. m \in Message /\ Tail(q) \in Seq(Message) /\ \A i \in ToldIn(down'[c]) : down'[c][i] \in ToSet(down[c])
  <2>1. m \in Message /\ Tail(q) \in Seq(Message)
    BY <1>1 DEF m
  <2>2. Len(Tail(q)) \in Nat /\ \A i \in 1..Len(Tail(q)) : i + 1 \in DOMAIN q /\ Tail(q)[i] = q[i + 1]
    BY <1>1
  <2> QED BY <1>4, <2>1, <2>2 DEF ToldIn, ToSet, q
<1>6. /\ plot \in [Clients -> Plot] /\ plot[c] \in Plot
  BY DEF PlotIInv, StoresOK
<1>7. ASSUME m.kind \notin {"route", "sync"}, plot' = plot, writes' = writes, apart' = apart
      PROVE  SameIInv'
  <2>1. ASSUME NEW d \in Clients, NEW I \in SUBSET AllIds, EndsWith(down[d], plot[d].route.ids, I)
        PROVE  EndsWith(down'[d], plot'[d].route.ids, I)
    <3>1. CASE d = c
      <4>1. EndsWith(q, plot[c].route.ids, I)
        BY <2>1, <3>1 DEF q
      <4>2. EndsWith(Tail(q), plot[c].route.ids, I)
        BY <1>1, <1>7, <4>1, Dequeued DEF m
      <4> QED BY <1>4, <1>7, <3>1, <4>2
    <3>2. CASE d # c
      BY <1>4, <1>7, <2>1, <3>2
    <3> QED BY <3>1, <3>2
  <2> QED BY <1>3, <1>7, <2>1, Keeps
<1>8. ASSUME m.kind \in {"route", "sync"}, writes' = writes, ~apart' => ~apart,
             NEW P, plot' = [plot EXCEPT ![c] = P], ~apart' => P.route.ids = m.route.ids
      PROVE  SameIInv'
  <2>1. ASSUME ~apart', NEW d \in Clients, NEW I \in SUBSET AllIds, EndsWith(down[d], plot[d].route.ids, I)
        PROVE  EndsWith(down'[d], plot'[d].route.ids, I)
    <3>1. CASE d = c
      <4>1. EndsWith(q, plot[c].route.ids, I)
        BY <2>1, <3>1 DEF q
      <4>2. EndsWith(Tail(q), m.route.ids, I)
        BY <1>1, <1>8, <4>1, Dequeued DEF m
      <4>3. plot'[c] = P
        BY <1>6, <1>8
      <4> QED BY <1>4, <1>8, <2>1, <3>1, <4>2, <4>3
    <3>2. CASE d # c
      <4>1. plot'[d] = plot[d]
        BY <1>6, <1>8, <3>2
      <4> QED BY <1>4, <2>1, <3>2, <4>1
    <3> QED BY <3>1, <3>2
  <2> QED BY <1>3, <1>8, <2>1, Keeps
<1>9. ASSUME GiveUp(c) PROVE SameIInv'
  BY <1>3, <1>5, <1>9, GivenUpFor
<1>10. ASSUME MapMessage(c, m) PROVE SameIInv'
  BY <1>7, <1>10 DEF MapMessage
<1>11. ASSUME RemovedMessage(c, m) PROVE SameIInv'
  BY <1>7, <1>9, <1>11 DEF RemovedMessage, ghosts
<1>12. ASSUME ResetMessage(c, m) PROVE SameIInv'
  BY <1>9, <1>12 DEF ResetMessage
<1>13. ASSUME RouteMessage(c, m) PROVE SameIInv'
  <2>1. PICK P : P = Applied(plot[c], m.route)
    OBVIOUS
  <2>2. P.route.ids = m.route.ids
    BY <1>5, <1>6, <1>13, <2>1, Kinds, AppliedIs DEF RouteMessage
  <2>3. plot' = [plot EXCEPT ![c] = P]
    BY <1>13, <2>1 DEF RouteMessage
  <2> QED BY <1>8, <1>13, <2>2, <2>3 DEF RouteMessage
<1>14. ASSUME SyncMessage(c, m) PROVE SameIInv'
  <2>1. PICK P : P = IF m.route.ids = {} THEN plot[c] ELSE Applied(plot[c], m.route)
    OBVIOUS
  <2>2. plot' = [plot EXCEPT ![c] = P]
    BY <1>14, <2>1 DEF SyncMessage
  <2>3. plot'[c] = P
    BY <1>6, <2>2
  <2>4. ~apart' => ~apart /\ P.route.ids = m.route.ids
    BY <1>14, <2>3 DEF SyncMessage
  <2> QED BY <1>8, <1>14, <2>2, <2>4 DEF SyncMessage
<1> QED BY <1>3, <1>10, <1>11, <1>12, <1>13, <1>14

LEMMA SameEdited ==
    ASSUME PlotIInv, SameIInv, NEW L, NEW Z, NEW m, m.kind \notin {"route", "sync"}, Edit(L, Z, m)
    PROVE  SameIInv'
<1>1. /\ link' = link /\ seen' = seen /\ writes' = writes /\ tells' = tells /\ plot' = plot
      /\ apart' = apart /\ room'.route = room.route
  BY DEF Edit, ghosts, PlotIInv, RowsOK
<1>2. ASSUME NEW d \in Clients, NEW I \in SUBSET AllIds, EndsWith(down[d], plot[d].route.ids, I)
      PROVE  EndsWith(down'[d], plot'[d].route.ids, I)
  <2>1. down[d] \in Seq(Message)
    BY DEF PlotIInv, MessagesOK
  <2>2. down'[d] = down[d] \/ down'[d] = Append(down[d], m)
    BY DEF Edit, ToAllBut
  <2> QED BY <1>1, <1>2, <2>1, <2>2, OtherAppended
<1> QED BY <1>1, <1>2, Keeps

LEMMA SameMapEdited ==
    ASSUME PlotIInv, SameIInv,
           \/ \E k \in Spare : AddConnection(k)
           \/ \E i \in IdsOf(room.conns) : RemoveConnection(i)
           \/ \E s \in Sources : RemoveChain(s)
           \/ ResetRoom
           \/ \E c \in Clients, z \in Zones : DeleteZone(c, z)
    PROVE  SameIInv'
<1>1. ASSUME NEW I, RemoveAll(I) PROVE SameIInv'
  <2>1. PICK L, G : L = Drop(room.conns, I) /\ G = EndsOf(room.conns) \ (EndsOf(L) \cup Sources)
    OBVIOUS
  <2>2. PICK Z, m : Z = room.nodes \ G /\ m = [kind |-> "removed", ids |-> I, zones |-> G]
    OBVIOUS
  <2>3. Edit(L, Z, m) /\ m.kind = "removed"
    BY <1>1, <2>1, <2>2 DEF RemoveAll
  <2> QED BY <2>3, SameEdited
<1>2. ASSUME NEW k \in Spare, AddConnection(k) PROVE SameIInv'
  <2>1. PICK m : m = [kind |-> "added", conn |-> k, zones |-> {k.to}]
    OBVIOUS
  <2>2. Edit(Append(room.conns, k), room.nodes \cup {k.to}, m) /\ m.kind = "added"
    BY <1>2, <2>1 DEF AddConnection
  <2> QED BY <2>2, SameEdited
<1>3. ASSUME NEW s \in Sources, RemoveChain(s) PROVE SameIInv'
  <2>1. PICK Y, J : /\ Y = {z \in room.nodes : ChainOf[z] = ChainOf[s]}
                    /\ J = {room.conns[k].id : k \in {j \in DOMAIN room.conns :
                              {room.conns[j].from, room.conns[j].to} \cap Y # {}}}
    OBVIOUS
  <2>2. PICK m : m = [kind |-> "chain_removed", ids |-> J, zones |-> Y]
    OBVIOUS
  <2>3. Edit(Drop(room.conns, J), room.nodes \ Y, m) /\ m.kind = "chain_removed"
    BY <1>3, <2>1, <2>2 DEF RemoveChain
  <2> QED BY <2>3, SameEdited
<1>4. ASSUME ResetRoom PROVE SameIInv'
  <2>1. PICK m : m = [kind |-> "reset", zones |-> Sources]
    OBVIOUS
  <2>2. Edit(<<>>, room.nodes \cap Sources, m) /\ m.kind = "reset"
    BY <1>4, <2>1 DEF ResetRoom
  <2> QED BY <2>2, SameEdited
<1> QED BY <1>1, <1>2, <1>3, <1>4 DEF RemoveConnection, DeleteZone

LEMMA SameWritten ==
    ASSUME PlotIInv, SameIInv, NEW w \in writes, Write(w)
    PROVE  SameIInv'
<1>1. /\ writes' \cup tells' = writes \cup tells /\ room'.route = w.route
      /\ link' = link /\ seen' = seen /\ down' = down /\ plot' = plot /\ apart' = apart
  BY DEF Write, ghosts, PlotIInv, RowsOK
<1>2. Attached'
  BY <1>1 DEF SameIInv, Attached
<1>3. ASSUME ~apart' PROVE \E I \in SUBSET AllIds : AllComeTo(I)'
  <2>1. PICK I \in SUBSET AllIds : AllComeTo(I)
    BY <1>1, <1>3 DEF SameIInv, Agreed
  <2>2. \A d \in Clients : ComesTo(d, I)' <=> ComesTo(d, I)
    BY <1>1 DEF ComesTo
  <2>3. AllComeTo(I)'
    BY <1>1, <2>1, <2>2 DEF AllComeTo
  <2> QED BY <2>3
<1>4. Agreed'
  BY <1>3 DEF Agreed
<1> QED BY <1>2, <1>4 DEF SameIInv

LEMMA SameTold ==
    ASSUME PlotIInv, SameIInv, NEW t \in tells, Tell(t)
    PROVE  SameIInv'
<1>1. /\ writes' = writes /\ tells' = tells \ {t} /\ room' = room
      /\ link' = link /\ seen' = seen /\ plot' = plot /\ apart' = apart
  BY DEF Tell, ghosts
<1>2. Attached'
  BY <1>1 DEF SameIInv, Attached
<1>3. PICK m : m = [kind |-> "route", route |-> t.route]
  OBVIOUS
<1>4. \A d \in Clients : down'[d] = IF link[d] = "away" \/ d = t.by THEN down[d] ELSE Append(down[d], m)
  BY <1>3 DEF Tell, ToAllBut
<1>5. ASSUME ~apart' PROVE \E I \in SUBSET AllIds : AllComeTo(I)'
  <2>1. PICK I \in SUBSET AllIds : AllComeTo(I)
    BY <1>1, <1>5 DEF SameIInv, Agreed
  <2>2. m.route.ids = I /\ m.kind \in {"route", "sync"}
    BY <1>3, <2>1 DEF AllComeTo
  <2>3. ASSUME NEW d \in Clients, link[d] = "live" PROVE ComesTo(d, I)'
    <3>1. CASE d # t.by
      <4>1. down'[d] = Append(down[d], m) /\ down[d] \in Seq(Message)
        BY <1>4, <2>3, <3>1 DEF PlotIInv, MessagesOK
      <4>2. PICK q, J : q = down[d] /\ J = plot'[d].route.ids
        OBVIOUS
      <4>3. q \in Seq(Message)
        BY <4>1, <4>2
      <4>4. EndsWith(Append(q, m), J, I)
        BY <2>2, <4>3, LastAppended
      <4>5. EndsWith(down'[d], plot'[d].route.ids, I)
        BY <4>1, <4>2, <4>4
      <4> QED BY <4>5 DEF ComesTo
    <3>2. CASE d = t.by
      <4>1. ComesTo(d, I) /\ down'[d] = down[d]
        BY <1>4, <2>1, <2>3, <3>2 DEF AllComeTo
      <4> QED BY <1>1, <3>2, <4>1 DEF ComesTo
    <3> QED BY <3>1, <3>2
  <2>4. AllComeTo(I)'
    BY <1>1, <2>1, <2>3 DEF AllComeTo
  <2> QED BY <2>4
<1>6. Agreed'
  BY <1>5 DEF Agreed
<1> QED BY <1>2, <1>6 DEF SameIInv

LEMMA SameLeft ==
    ASSUME PlotIInv, SameIInv, NEW c \in Clients, Leave(c)
    PROVE  SameIInv'
<1>1. PICK kept \in SUBSET {w \in writes : w.by = c} :
         /\ writes' = {w \in writes : w.by # c} \cup {[w EXCEPT !.by = None] : w \in kept}
         /\ apart' = (apart \/ \E w \in writes : w.by = c /\ w \notin kept)
  BY DEF Leave
<1>2. tells' = {IF t.by = c THEN [t EXCEPT !.by = None] ELSE t : t \in tells}
  BY DEF Leave
<1>3. \A w \in writes \cup tells : /\ [w EXCEPT !.by = None].by = None
                                   /\ [w EXCEPT !.by = None].route = w.route
  BY DEF PlotIInv, UpdatesOK, Update
<1>4. None \notin Clients
  BY PlotRouteAssumption
<1>5. ASSUME NEW u \in writes' \cup tells'
      PROVE  \E w \in writes \cup tells : u.route = w.route /\ (u.by = None \/ (u = w /\ u.by # c))
  BY <1>1, <1>2, <1>3
<1>6. /\ link \in [Clients -> {"away", "room", "live"}] /\ link' = [link EXCEPT ![c] = "away"]
      /\ down' = [down EXCEPT ![c] = <<>>] /\ down \in [Clients -> Seq(Message)]
      /\ seen' = [seen EXCEPT ![c] = NoRoute] /\ seen \in [Clients -> Sound]
      /\ plot' = plot /\ room' = room
  BY DEF PlotIInv, LinksOK, MessagesOK, Leave
<1>7. \A d \in Clients \ {c} : link'[d] = link[d] /\ down'[d] = down[d] /\ seen'[d] = seen[d]
  BY <1>6
<1>8. link'[c] = "away"
  BY <1>6
<1>9. Attached'
  <2>1. ASSUME NEW u \in writes' \cup tells', u.by \in Clients PROVE link'[u.by] # "away"
    <3>1. PICK w \in writes \cup tells : u = w /\ u.by # c
      BY <1>4, <1>5, <2>1
    <3> QED BY <1>7, <2>1, <3>1 DEF SameIInv, Attached
  <2> QED BY <2>1 DEF Attached
<1>10. ASSUME ~apart' PROVE \E I \in SUBSET AllIds : AllComeTo(I)'
  <2>1. PICK I \in SUBSET AllIds : AllComeTo(I)
    BY <1>1, <1>10 DEF SameIInv, Agreed
  <2>2. ASSUME NEW w \in writes
        PROVE  \E u \in writes' : u.by = w.by \/ u.by = None
    <3>1. w.by = c => w \in kept
      BY <1>1, <1>10
    <3>2. w.by # c => w \in writes'
      BY <1>1
    <3>3. w.by = c => [w EXCEPT !.by = None] \in writes'
      BY <1>1, <3>1
    <3> QED BY <1>3, <3>2, <3>3
  <2>3. ASSUME NEW w \in tells
        PROVE  \E u \in tells' : u.by = w.by \/ u.by = None
    <3>1. w.by # c => w \in tells'
      BY <1>2
    <3>2. w.by = c => [w EXCEPT !.by = None] \in tells'
      BY <1>2
    <3> QED BY <1>3, <3>1, <3>2
  <2>4. ASSUME NEW d \in Clients, link'[d] = "live" PROVE ComesTo(d, I)'
    <3>1. d # c /\ link[d] = "live"
      BY <1>7, <1>8, <2>4
    <3>2. ComesTo(d, I)
      BY <2>1, <3>1 DEF AllComeTo
    <3>3. ASSUME NEW w \in writes \cup tells, w.by # d PROVE \E u \in writes' \cup tells' : u.by # d
      BY <1>4, <2>2, <2>3, <3>3
    <3> QED BY <1>6, <1>7, <3>1, <3>2, <3>3 DEF ComesTo
  <2>5. \A u \in writes' \cup tells' : u.route.ids = I
    BY <1>5, <2>1 DEF AllComeTo
  <2>6. writes' = {} => room'.route.ids = I
    BY <1>6, <2>1, <2>2 DEF AllComeTo
  <2>7. ASSUME NEW d \in Clients, link'[d] = "room", NEW u \in writes' \cup tells', u.by = d
        PROVE  seen'[d].ids = I
    <3>1. PICK w \in writes \cup tells : u = w /\ u.by # c
      BY <1>4, <1>5, <2>7
    <3>2. link[d] = "room" /\ seen'[d] = seen[d]
      BY <1>7, <2>7, <3>1
    <3> QED BY <2>1, <2>7, <3>1, <3>2 DEF AllComeTo
  <2>8. AllComeTo(I)'
    BY <2>4, <2>5, <2>6, <2>7 DEF AllComeTo
  <2> QED BY <2>8
<1>11. Agreed'
  BY <1>10 DEF Agreed
<1> QED BY <1>9, <1>11 DEF SameIInv

LEMMA SameRegistered ==
    ASSUME PlotIInv, SameIInv, NEW c \in Clients, Register(c)
    PROVE  SameIInv'
<1>1. /\ writes' = writes /\ tells' = tells /\ room' = room /\ down' = down
      /\ plot' = plot /\ apart' = apart
      /\ link[c] = "away" /\ link' = [link EXCEPT ![c] = "room"] /\ link'[c] = "room"
      /\ \A d \in Clients \ {c} : link'[d] = link[d] /\ seen'[d] = seen[d]
  BY DEF Register, ghosts, PlotIInv, LinksOK
<1>2. \A w \in writes \cup tells : w.by # c
  BY <1>1 DEF SameIInv, Attached
<1>3. Attached'
  BY <1>1 DEF SameIInv, Attached
<1>4. ASSUME ~apart' PROVE \E I \in SUBSET AllIds : AllComeTo(I)'
  <2>1. PICK I \in SUBSET AllIds : AllComeTo(I)
    BY <1>1, <1>4 DEF SameIInv, Agreed
  <2>2. \A d \in Clients : link'[d] = "live" => ComesTo(d, I)'
    BY <1>1, <2>1 DEF AllComeTo, ComesTo
  <2>3. AllComeTo(I)'
    BY <1>1, <1>2, <2>1, <2>2 DEF AllComeTo
  <2> QED BY <2>3
<1>5. Agreed'
  BY <1>4 DEF Agreed
<1> QED BY <1>3, <1>5 DEF SameIInv

LEMMA SameSynced ==
    ASSUME PlotIInv, SameIInv, NEW c \in Clients, SendSync(c)
    PROVE  SameIInv'
<1>1. PICK m : m = [kind |-> "sync", conns |-> room.conns, nodes |-> room.nodes, route |-> seen[c]]
  OBVIOUS
<1>2. /\ writes' = writes /\ tells' = tells /\ room' = room /\ plot' = plot
      /\ link[c] = "room" /\ link'[c] = "live" /\ down'[c] = Append(down[c], m)
      /\ apart' = (apart \/ seen[c] # room.route)
      /\ \A d \in Clients \ {c} : link'[d] = link[d] /\ seen'[d] = seen[d] /\ down'[d] = down[d]
  BY <1>1 DEF SendSync, PlotIInv, LinksOK, MessagesOK
<1>3. Attached'
  BY <1>2 DEF SameIInv, Attached
<1>4. ASSUME ~apart' PROVE \E I \in SUBSET AllIds : AllComeTo(I)'
  <2>1. PICK I \in SUBSET AllIds : AllComeTo(I)
    BY <1>2, <1>4 DEF SameIInv, Agreed
  <2>2. ComesTo(c, I)'
    <3>1. CASE \E w \in writes \cup tells : w.by # c
      BY <1>2, <3>1 DEF ComesTo
    <3>2. CASE \A w \in writes \cup tells : w.by = c
      <4>1. seen[c].ids = I
        <5>1. CASE writes = {}
          BY <1>2, <1>4, <2>1, <5>1 DEF AllComeTo
        <5>2. CASE writes # {}
          BY <1>2, <2>1, <3>2, <5>2 DEF AllComeTo
        <5> QED BY <5>1, <5>2
      <4>2. m.kind \in {"route", "sync"} /\ m.route.ids = I /\ down[c] \in Seq(Message)
        BY <1>1, <4>1 DEF PlotIInv, MessagesOK
      <4>3. PICK q, J : q = down[c] /\ J = plot'[c].route.ids
        OBVIOUS
      <4>4. q \in Seq(Message)
        BY <4>2, <4>3
      <4>5. EndsWith(Append(q, m), J, I)
        BY <4>2, <4>4, LastAppended
      <4>6. EndsWith(down'[c], plot'[c].route.ids, I)
        BY <1>2, <4>3, <4>5
      <4> QED BY <4>6 DEF ComesTo
    <3> QED BY <3>1, <3>2
  <2>3. \A d \in Clients : link'[d] = "live" => ComesTo(d, I)'
    BY <1>2, <2>1, <2>2 DEF AllComeTo, ComesTo
  <2>4. AllComeTo(I)'
    BY <1>2, <2>1, <2>3 DEF AllComeTo
  <2> QED BY <2>4
<1>5. Agreed'
  BY <1>4 DEF Agreed
<1> QED BY <1>3, <1>5 DEF SameIInv

LEMMA SameStarts == Init => SameIInv
<1> SUFFICES ASSUME Init PROVE SameIInv
  OBVIOUS
<1>1. ToldIn(<<>>) = {}
  BY DEF ToldIn
<1>2. AllComeTo({})
  BY <1>1, Empty DEF Init, AllComeTo, ComesTo, EndsWith
<1> QED BY <1>2 DEF Init, SameIInv, Attached, Agreed

\* Once nothing is on its way everyone there shows the stored route, whatever
\* order the updates, their broadcasts and the handshakes came in, unless an
\* update crossed another, was lost or was missed by a handshake.
THEOREM RouteIsAlwaysTheSame == Spec => []SameRoute
<1>1. ASSUME PlotIInv, SameIInv, [Next]_vars PROVE SameIInv'
  <2>1. CASE Next
    <3>1. ASSUME NEW c \in Clients, NEW z \in Zones,
                 SelectFrom(c, z) \/ SelectTo(c, z) \/ onNodeRemoved(c, z)
          PROVE  SameIInv'
      BY <1>1, <3>1, SameSelected
    <3>2. ASSUME NEW c \in Clients, enterPlotRouteMode(c) \/ exitPlotRouteMode(c) \/ Deliver(c)
          PROVE  SameIInv'
      BY <1>1, <3>2, SamePlotted, SameDelivered
    <3>3. ASSUME NEW c \in Clients, Leave(c) \/ Register(c) \/ SendSync(c)
          PROVE  SameIInv'
      BY <1>1, <3>3, SameLeft, SameRegistered, SameSynced
    <3>4. ASSUME \/ \E w \in writes : Write(w)
                 \/ \E t \in tells : Tell(t)
          PROVE  SameIInv'
      BY <1>1, <3>4, SameWritten, SameTold
    <3>5. ASSUME \/ \E k \in Spare : AddConnection(k)
                 \/ \E i \in IdsOf(room.conns) : RemoveConnection(i)
                 \/ \E s \in Sources : RemoveChain(s)
                 \/ ResetRoom
                 \/ \E c \in Clients, z \in Zones : DeleteZone(c, z)
          PROVE  SameIInv'
      BY <1>1, <3>5, SameMapEdited
    <3> QED BY <2>1, <3>1, <3>2, <3>3, <3>4, <3>5 DEF Next
  <2>2. CASE UNCHANGED vars
    BY <1>1, <2>2, Keeps DEF vars, ghosts, counters
  <2> QED BY <1>1, <2>1, <2>2
<1>2. SameIInv => SameRoute
  <2> SUFFICES ASSUME SameIInv, writes = {}, tells = {},
                      \A c \in Clients : down[c] = <<>> /\ link[c] # "room", ~apart,
                      NEW c \in Clients, link[c] = "live"
               PROVE  plot[c].route.ids = room.route.ids
    BY DEF SameRoute
  <2>1. PICK I \in SUBSET AllIds : AllComeTo(I)
    BY DEF SameIInv, Agreed
  <2>2. room.route.ids = I /\ ComesTo(c, I)
    BY <2>1 DEF AllComeTo
  <2>3. ToldIn(down[c]) = {}
    BY DEF ToldIn
  <2> QED BY <2>2, <2>3 DEF ComesTo, EndsWith
<1> QED BY <1>1, <1>2, SameStarts, AlwaysPlotIInv, PTL DEF Spec
=============================================================================
