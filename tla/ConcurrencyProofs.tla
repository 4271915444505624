-------------------------- MODULE ConcurrencyProofs --------------------------
(***************************************************************************)
(* Concurrency for every set of rooms and tokens, every number of days,    *)
(* overlapping ticks, failed queries and restarts.  IInv says how much of  *)
(* what happened the maps in memory, the ticks in flight and the rows of   *)
(* the tables know: never more, and of a day that is not lost everything,  *)
(* in memory until midnight and in the rows afterwards.                    *)
(***************************************************************************)
EXTENDS Concurrency, FiniteSetTheorems, TLAPS

RoomEntry == [room : Rooms, date : Days, peak : Count, tokens : Nat]
GlobalEntry == [date : Days, peak : Count, tokens : Nat]
Unset == [date |-> 0]

\* A tick between two awaits, or as it starts.
Tick == [query : {"none", "daily", "alltime", "global"}, rollover : BOOLEAN, today : Days,
         entries : SUBSET RoomEntry, dates : SUBSET Days,
         entry : RoomEntry \cup GlobalEntry \cup {Unset}]

Memory == [tokens : [Rooms -> [Days -> SUBSET Tokens]], peak : [Rooms -> [Days -> Count]],
           allTokens : [Days -> SUBSET Tokens], allPeak : [Days -> Count]]

PeakRow == [peak : Nat, tokens : Nat]

Tables == [daily : [Rooms -> [Days -> PeakRow]], alltime : [Rooms -> PeakRow],
           global : [Days -> PeakRow], hourly : [Days -> Nat]]

Truth == [tokens : [Rooms -> [Days -> SUBSET Tokens]], peak : [Rooms -> [Days -> Count]],
          allPeak : [Days -> Count], hour : [Days -> Count]]

\* The distinct tokens seen on day d in a room, and in all rooms.
TokensSeen(r, d) == Cardinality(truth.tokens[r][d])
AllSeen(d) == UNION {truth.tokens[r][d] : r \in Rooms}

Types ==
    /\ day \in Days /\ lastDate \in Days
    /\ open \in [Rooms -> Count] /\ Total(open) <= MaxSockets
    /\ memory \in Memory /\ stored \in Tables /\ truth \in Truth
    /\ \A r \in Rooms, d \in Days : truth.tokens[r][d] \subseteq TokensOf[r]
    /\ ticks \in [1..MaxTicks -> Tick \cup {NoTick}]
    /\ lost \subseteq Days /\ faults \in 0..MaxFaults

\* Memory holds nothing that did not happen, and a day is either all there or not.
MemoryIsTrue ==
    /\ \A r \in Rooms, d \in Days :
         /\ memory.tokens[r][d] \subseteq truth.tokens[r][d]
         /\ memory.peak[r][d] <= truth.peak[r][d]
    /\ \A d \in Days :
         /\ memory.allTokens[d] \subseteq AllSeen(d)
         /\ memory.allPeak[d] <= truth.allPeak[d]
         /\ memory.allPeak[d] = 0 => Forgotten(d)

\* What a tick is about to write did happen.
RoomEntryIsTrue(e) ==
    /\ e \in RoomEntry
    /\ e.peak <= truth.peak[e.room][e.date] /\ e.tokens <= TokensSeen(e.room, e.date)

GlobalEntryIsTrue(e) ==
    /\ e \in GlobalEntry
    /\ e.peak <= truth.allPeak[e.date] /\ e.tokens <= Cardinality(AllSeen(e.date))

TickIsTrue(t) ==
    /\ t \in Tick
    /\ \A e \in t.entries : RoomEntryIsTrue(e)
    /\ t.query \in {"daily", "alltime"} => RoomEntryIsTrue(t.entry)
    /\ t.query = "global" => GlobalEntryIsTrue(t.entry)

RowsAreTrue(rows) ==
    /\ rows \in Tables
    /\ \A r \in Rooms, d \in Days :
         /\ rows.daily[r][d].peak <= truth.peak[r][d]
         /\ rows.daily[r][d].tokens <= TokensSeen(r, d)
    /\ \A d \in Days :
         /\ rows.global[d].peak <= truth.allPeak[d]
         /\ rows.global[d].tokens <= Cardinality(AllSeen(d))
         /\ rows.hourly[d] <= truth.hour[d]

NothingInvented ==
    /\ Types
    /\ MemoryIsTrue
    /\ \A i \in 1..MaxTicks : ticks[i] # NoTick => TickIsTrue(ticks[i]) /\ ticks[i].query # "none"
    /\ RowsAreTrue(stored)
    /\ Total(open) <= truth.hour[day]
    /\ \A d \in Days : d > day => truth.hour[d] = 0

\* All that happened on day d is in memory.
Remembered(d) ==
    /\ \A r \in Rooms :
         memory.tokens[r][d] = truth.tokens[r][d] /\ memory.peak[r][d] = truth.peak[r][d]
    /\ memory.allTokens[d] = AllSeen(d) /\ memory.allPeak[d] = truth.allPeak[d]

\* The entry e carries what memory knows of room r and day d; the rows have it.
Carries(e, r, d) ==
    /\ e.room = r /\ e.date = d
    /\ e.peak = memory.peak[r][d] /\ e.tokens = Cardinality(memory.tokens[r][d])

Has(row, r, d) ==
    row.peak >= memory.peak[r][d] /\ row.tokens >= Cardinality(memory.tokens[r][d])

RoomSafe(t, rows, r, d) ==
    \/ Has(rows.daily[r][d], r, d) /\ Has(rows.alltime[r], r, d)
    \/ \E e \in t.entries : Carries(e, r, d)
    \/ t.query = "daily" /\ Carries(t.entry, r, d)
    \/ t.query = "alltime" /\ Carries(t.entry, r, d) /\ Has(rows.daily[r][d], r, d)

GlobalSafe(t, rows, d) ==
    \/ /\ rows.global[d].peak >= memory.allPeak[d]
       /\ rows.global[d].tokens >= Cardinality(memory.allTokens[d])
    \/ d \in t.dates
    \/ /\ t.query = "global" /\ t.entry.date = d
       /\ t.entry.peak = memory.allPeak[d]
       /\ t.entry.tokens = Cardinality(memory.allTokens[d])

\* What a midnight tick has still to write, or has written, of the day it closes;
\* gone are the days it need not save.
ClosesDay(t, rows, gone) ==
    t.rollover =>
      /\ t.today = day
      /\ lastDate < day /\ lastDate \notin gone =>
           (\A r \in Rooms : RoomSafe(t, rows, r, lastDate)) /\ GlobalSafe(t, rows, lastDate)

KeptInMemory == \A d \in Days : d >= lastDate /\ d \notin lost => Remembered(d)

ClosedDays == \A d \in Days : d < lastDate => Forgotten(d) /\ (d \notin lost => Complete(d))

IInv ==
    /\ NothingInvented
    /\ day \in {lastDate, lastDate + 1}
    /\ KeptInMemory
    /\ ClosedDays
    /\ \A i \in 1..MaxTicks : ClosesDay(ticks[i], stored, lost)

\* Each row of the tables is at least what it was.
RowsRise(old, new) ==
    /\ \A r \in Rooms, d \in Days :
         /\ old.daily[r][d].peak <= new.daily[r][d].peak
         /\ old.daily[r][d].tokens <= new.daily[r][d].tokens
    /\ \A r \in Rooms :
         /\ old.alltime[r].peak <= new.alltime[r].peak
         /\ old.alltime[r].tokens <= new.alltime[r].tokens
    /\ \A d \in Days :
         /\ old.global[d].peak <= new.global[d].peak
         /\ old.global[d].tokens <= new.global[d].tokens
         /\ old.hourly[d] <= new.hourly[d]

-----------------------------------------------------------------------------
(* Arithmetic and counting *)

LEMMA Bounds ==
    /\ MaxDay \in Nat /\ MaxDay >= 1 /\ MaxSockets \in Nat /\ MaxTicks \in Nat /\ MaxFaults \in Nat
    /\ Days \subseteq Nat /\ 1 \in Days /\ Count \subseteq Nat /\ 0 \in Count
BY ConcurrencyAssumption DEF Days, Count

LEMMA LargerFacts ==
    ASSUME NEW a \in Nat, NEW b \in Nat
    PROVE  /\ Larger(a, b) \in {a, b} /\ Larger(a, b) \in Nat
           /\ a <= Larger(a, b) /\ b <= Larger(a, b)
           /\ \A c \in Nat : a <= c /\ b <= c => Larger(a, b) <= c
BY DEF Larger

Sockets(o) == UNION {{r} \X (1..o[r]) : r \in Rooms}

LEMMA SocketsAreFinite ==
    ASSUME NEW o \in [Rooms -> Nat], NEW m \in Nat, \A r \in Rooms : o[r] <= m
    PROVE  /\ IsFiniteSet(Sockets(o)) /\ Total(o) = Cardinality(Sockets(o)) /\ Total(o) \in Nat
           /\ Sockets(o) \subseteq Rooms \X (1..m)
<1>1. Sockets(o) \subseteq Rooms \X (1..m)
  <2> SUFFICES ASSUME NEW r \in Rooms, NEW i \in 1..o[r] PROVE <<r, i>> \in Rooms \X (1..m)
    BY DEF Sockets
  <2> QED OBVIOUS
<1>2. IsFiniteSet(Rooms \X (1..m))
  <2>1. IsFiniteSet(Rooms) /\ IsFiniteSet(1..m)
    BY ConcurrencyAssumption, FS_Interval
  <2> QED BY <2>1, FS_Product
<1>3. IsFiniteSet(Sockets(o))
  BY <1>1, <1>2, FS_Subset
<1>4. Total(o) = Cardinality(Sockets(o))
  BY DEF Total, Sockets
<1> QED BY <1>1, <1>3, <1>4, FS_CardinalityType

\* The sockets of one room are some of all.
LEMMA OneRoomOfAll ==
    ASSUME NEW o \in [Rooms -> Nat], NEW m \in Nat, \A r \in Rooms : o[r] <= m, NEW r \in Rooms
    PROVE  o[r] <= Total(o)
<1>1. {r} \X (1..o[r]) \subseteq Sockets(o)
  BY DEF Sockets
<1>2. IsFiniteSet({r}) /\ Cardinality({r}) = 1
  BY FS_Singleton
<1>3. IsFiniteSet(1..o[r]) /\ Cardinality(1..o[r]) = o[r]
  BY FS_Interval
<1>4. Cardinality({r} \X (1..o[r])) = Cardinality({r}) * Cardinality(1..o[r])
  BY <1>2, <1>3, FS_Product
<1>6. 1 * o[r] = o[r] /\ o[r] \in Nat
  OBVIOUS
<1>5. Cardinality({r} \X (1..o[r])) <= Cardinality(Sockets(o))
  BY <1>1, SocketsAreFinite, FS_Subset
<1> QED BY <1>2, <1>3, <1>4, <1>5, <1>6, SocketsAreFinite

LEMMA OneMoreSocket ==
    ASSUME NEW o \in [Rooms -> Count], NEW r \in Rooms
    PROVE  Total([o EXCEPT ![r] = @ + 1]) = Total(o) + 1
<1> DEFINE n == [o EXCEPT ![r] = @ + 1]
<1>1. o \in [Rooms -> Nat] /\ n \in [Rooms -> Nat]
  <2>1. \A q \in Rooms : o[q] \in Nat
    BY Bounds
  <2>2. \A q \in Rooms : n[q] \in Nat
    BY <2>1
  <2> QED BY <2>1, <2>2
<1>2. /\ MaxSockets + 1 \in Nat
      /\ \A q \in Rooms : o[q] <= MaxSockets + 1 /\ n[q] <= MaxSockets + 1
  BY Bounds DEF Count
<1>3. Sockets(n) = Sockets(o) \cup {<<r, o[r] + 1>>}
  <2>1. ASSUME NEW q \in Rooms, NEW i PROVE <<q, i>> \in Sockets(n) <=> i \in 1..n[q]
    BY DEF Sockets
  <2>2. ASSUME NEW q \in Rooms, NEW i PROVE <<q, i>> \in Sockets(o) <=> i \in 1..o[q]
    BY DEF Sockets
  <2>3. ASSUME NEW q \in Rooms, NEW i
        PROVE  i \in 1..n[q] <=> i \in 1..o[q] \/ <<q, i>> = <<r, o[r] + 1>>
    BY <1>1
  <2>4. \A s \in Sockets(n) \cup Sockets(o) : \E q \in Rooms : \E i \in Nat : s = <<q, i>>
    BY <1>1 DEF Sockets
  <2>5. <<r, o[r] + 1>> \in Sockets(n)
    BY <2>1, <2>3, <1>1
  <2> HIDE DEF n
  <2>6. ASSUME NEW s \in Sockets(n) \cup Sockets(o)
        PROVE  s \in Sockets(n) <=> s \in Sockets(o) \/ s = <<r, o[r] + 1>>
    <3>1. PICK q \in Rooms, i \in Nat : s = <<q, i>>
      BY <2>4
    <3> QED BY <2>1, <2>2, <2>3, <3>1
  <2> QED BY <2>5, <2>6
<1>4. <<r, o[r] + 1>> \notin Sockets(o)
  <2> SUFFICES ASSUME NEW q \in Rooms, <<r, o[r] + 1>> \in {q} \X (1..o[q]) PROVE FALSE
    BY DEF Sockets
  <2> QED BY <1>1
<1> HIDE DEF n
<1>5. IsFiniteSet(Sockets(o)) /\ Total(o) = Cardinality(Sockets(o))
  BY <1>1, <1>2, SocketsAreFinite
<1>6. Total(n) = Cardinality(Sockets(n))
  BY <1>1, <1>2, SocketsAreFinite
<1>7. Cardinality(Sockets(n)) = Cardinality(Sockets(o)) + 1
  BY <1>3, <1>4, <1>5, FS_AddElement
<1>8. Total(n) = Total(o) + 1
  BY <1>5, <1>6, <1>7
<1> QED BY <1>8 DEF n

LEMMA FewerSockets ==
    ASSUME NEW o \in [Rooms -> Count], NEW n \in [Rooms -> Count], \A r \in Rooms : n[r] <= o[r]
    PROVE  Total(n) <= Total(o)
<1>1. o \in [Rooms -> Nat] /\ n \in [Rooms -> Nat] /\ MaxSockets \in Nat
  BY Bounds
<1>2. \A r \in Rooms : o[r] <= MaxSockets /\ n[r] <= MaxSockets
  BY Bounds DEF Count
<1>3. Sockets(n) \subseteq Sockets(o)
  <2> SUFFICES ASSUME NEW r \in Rooms, NEW i \in 1..n[r] PROVE <<r, i>> \in Sockets(o)
    BY DEF Sockets
  <2>1. i \in 1..o[r]
    BY <1>1
  <2> QED BY <2>1 DEF Sockets
<1>4. Cardinality(Sockets(n)) <= Cardinality(Sockets(o))
  BY <1>1, <1>2, <1>3, SocketsAreFinite, FS_Subset
<1> QED BY <1>1, <1>2, <1>4, SocketsAreFinite

LEMMA NoSockets == Total([r \in Rooms |-> 0]) = 0
<1>1. UNION {{r} \X (1..[q \in Rooms |-> 0][r]) : r \in Rooms} = {}
  OBVIOUS
<1> QED BY <1>1, FS_EmptySet DEF Total

\* The tokens of a room are finitely many, and so are those of all rooms.
LEMMA TokensAreFinite ==
    /\ IsFiniteSet(Tokens)
    /\ \A S \in SUBSET Tokens : IsFiniteSet(S) /\ Cardinality(S) \in Nat
    /\ \A S, T \in SUBSET Tokens : S \subseteq T => Cardinality(S) <= Cardinality(T)
<1>1. IsFiniteSet({TokensOf[r] : r \in Rooms})
  <2> DEFINE f == [r \in Rooms |-> TokensOf[r]]
  <2>1. f \in Surjection(Rooms, {TokensOf[r] : r \in Rooms})
    BY DEF Surjection
  <2> QED BY <2>1, ConcurrencyAssumption, FS_Surjection
<1>2. \A T \in {TokensOf[r] : r \in Rooms} : IsFiniteSet(T)
  BY ConcurrencyAssumption
<1>3. IsFiniteSet(Tokens)
  BY <1>1, <1>2, FS_UNION DEF Tokens
<1>4. \A S \in SUBSET Tokens : IsFiniteSet(S) /\ Cardinality(S) \in Nat
  BY <1>3, FS_Subset, FS_CardinalityType
<1>5. \A S, T \in SUBSET Tokens : S \subseteq T => Cardinality(S) <= Cardinality(T)
  BY <1>4, FS_Subset
<1> QED BY <1>3, <1>4, <1>5

LEMMA Counted ==
    ASSUME Types
    PROVE  /\ \A r \in Rooms, d \in Days :
                /\ TokensSeen(r, d) \in Nat /\ truth.peak[r][d] \in Nat
                /\ Cardinality(memory.tokens[r][d]) \in Nat /\ memory.peak[r][d] \in Nat
           /\ \A d \in Days :
                /\ AllSeen(d) \in SUBSET Tokens /\ Cardinality(AllSeen(d)) \in Nat
                /\ Cardinality(memory.allTokens[d]) \in Nat
                /\ memory.allPeak[d] \in Nat /\ truth.allPeak[d] \in Nat /\ truth.hour[d] \in Nat
<1>1. \A r \in Rooms, d \in Days :
        truth.tokens[r][d] \in SUBSET Tokens /\ memory.tokens[r][d] \in SUBSET Tokens
  BY DEF Types, Truth, Memory
<1>2. \A d \in Days : AllSeen(d) \in SUBSET Tokens /\ memory.allTokens[d] \in SUBSET Tokens
  BY <1>1 DEF Types, Memory, AllSeen
<1>3. \A r \in Rooms, d \in Days : truth.peak[r][d] \in Count /\ memory.peak[r][d] \in Count
  BY DEF Types, Truth, Memory
<1>4. \A d \in Days : memory.allPeak[d] \in Count /\ truth.allPeak[d] \in Count /\ truth.hour[d] \in Count
  BY DEF Types, Truth, Memory
<1> QED BY <1>1, <1>2, <1>3, <1>4, Bounds, TokensAreFinite DEF TokensSeen

\* What memory knows of a day is no more than what happened.
LEMMA MemoryCounts ==
    ASSUME Types, MemoryIsTrue
    PROVE  /\ \A r \in Rooms, d \in Days :
                Cardinality(memory.tokens[r][d]) <= TokensSeen(r, d)
           /\ \A d \in Days : Cardinality(memory.allTokens[d]) <= Cardinality(AllSeen(d))
<1>1. \A r \in Rooms, d \in Days :
        truth.tokens[r][d] \in SUBSET Tokens /\ memory.tokens[r][d] \in SUBSET Tokens
  BY DEF Types, Truth, Memory
<1>2. \A d \in Days : AllSeen(d) \in SUBSET Tokens /\ memory.allTokens[d] \in SUBSET Tokens
  BY Counted DEF Types, Memory
<1> QED BY <1>1, <1>2, TokensAreFinite DEF TokensSeen, MemoryIsTrue

-----------------------------------------------------------------------------
(* The tables *)

\* Rows that rise, and stay true, stay complete.
LEMMA CompleteStays ==
    ASSUME Types, Types', UNCHANGED truth, RowsRise(stored, stored'), RowsAreTrue(stored)',
           NEW d \in Days, Complete(d)
    PROVE  Complete(d)'
<1>1. \A r \in Rooms : TokensSeen(r, d) \in Nat /\ TokensSeen(r, d)' = TokensSeen(r, d)
  BY Counted DEF TokensSeen
<1>2. Cardinality(AllSeen(d)) \in Nat /\ Cardinality(AllSeen(d))' = Cardinality(AllSeen(d))
  BY Counted DEF AllSeen
<1>t. stored \in Tables /\ stored' \in Tables /\ truth \in Truth
  BY DEF Types
<1>3. ASSUME NEW r \in Rooms
      PROVE  /\ stored'.daily[r][d] = [peak |-> truth.peak[r][d], tokens |-> TokensSeen(r, d)]
             /\ stored'.alltime[r].peak >= stored'.daily[r][d].peak
             /\ stored'.alltime[r].tokens >= stored'.daily[r][d].tokens
  <2>1. /\ stored.daily[r][d] = [peak |-> truth.peak[r][d], tokens |-> TokensSeen(r, d)]
        /\ stored.alltime[r].peak >= stored.daily[r][d].peak
        /\ stored.alltime[r].tokens >= stored.daily[r][d].tokens
    BY DEF Complete, TokensSeen
  <2>2. stored'.daily[r][d] \in PeakRow /\ stored'.alltime[r] \in PeakRow /\ stored.alltime[r] \in PeakRow
    BY <1>t DEF Tables
  <2>3. stored'.daily[r][d].peak = truth.peak[r][d]
    <3>1. stored.daily[r][d].peak <= stored'.daily[r][d].peak /\ stored'.daily[r][d].peak <= truth.peak[r][d]
      BY DEF RowsRise, RowsAreTrue
    <3>2. truth.peak[r][d] \in Nat
      BY Counted
    <3> QED BY <2>1, <2>2, <3>1, <3>2 DEF PeakRow
  <2>4. stored'.daily[r][d].tokens = TokensSeen(r, d)
    <3>1. /\ stored.daily[r][d].tokens <= stored'.daily[r][d].tokens
          /\ stored'.daily[r][d].tokens <= TokensSeen(r, d)'
      BY DEF RowsRise, RowsAreTrue
    <3> QED BY <2>1, <2>2, <3>1, <1>1 DEF PeakRow
  <2>5. stored.alltime[r].peak <= stored'.alltime[r].peak /\ stored.alltime[r].tokens <= stored'.alltime[r].tokens
    BY DEF RowsRise
  <2>6. stored'.daily[r][d] = [peak |-> truth.peak[r][d], tokens |-> TokensSeen(r, d)]
    BY <2>2, <2>3, <2>4 DEF PeakRow
  <2>7. stored'.daily[r][d] = stored.daily[r][d]
    BY <2>1, <2>6
  <2> QED BY <2>1, <2>2, <2>5, <2>6, <2>7, <1>1 DEF PeakRow
<1>4. stored'.global[d] = [peak |-> truth.allPeak[d], tokens |-> Cardinality(AllSeen(d))]
  <2>1. stored.global[d] = [peak |-> truth.allPeak[d], tokens |-> Cardinality(AllSeen(d))]
    BY DEF Complete, AllSeen
  <2>2. stored'.global[d] \in PeakRow /\ truth.allPeak[d] \in Nat
    BY <1>t, Bounds DEF Tables, Truth
  <2>3. /\ stored.global[d].peak <= stored'.global[d].peak /\ stored'.global[d].peak <= truth.allPeak[d]
        /\ stored.global[d].tokens <= stored'.global[d].tokens
        /\ stored'.global[d].tokens <= Cardinality(AllSeen(d))'
    BY DEF RowsRise, RowsAreTrue
  <2>4. stored'.global[d].peak = truth.allPeak[d] /\ stored'.global[d].tokens = Cardinality(AllSeen(d))
    BY <2>1, <2>2, <2>3, <1>2 DEF PeakRow
  <2> QED BY <2>2, <2>4 DEF PeakRow
<1> QED BY <1>3, <1>4 DEF Complete, TokensSeen, AllSeen

\* Greatest raises a row to what an entry carries and no further.
LEMMA GreatestFacts ==
    ASSUME NEW row \in PeakRow, NEW e, e.peak \in Nat, e.tokens \in Nat
    PROVE  /\ Greatest(row, e) \in PeakRow
           /\ row.peak <= Greatest(row, e).peak /\ row.tokens <= Greatest(row, e).tokens
           /\ e.peak <= Greatest(row, e).peak /\ e.tokens <= Greatest(row, e).tokens
           /\ \A p \in Nat : row.peak <= p /\ e.peak <= p => Greatest(row, e).peak <= p
           /\ \A p \in Nat : row.tokens <= p /\ e.tokens <= p => Greatest(row, e).tokens <= p
BY LargerFacts DEF Greatest, PeakRow

LEMMA EntryFigures ==
    \A e \in RoomEntry \cup GlobalEntry :
        e.peak \in Nat /\ e.tokens \in Nat /\ e.date \in Days
BY Bounds DEF RoomEntry, GlobalEntry

\* Writing one row of one table.
WithDaily(s, r, d, x) == [s EXCEPT !.daily[r][d] = x]
WithAlltime(s, r, x) == [s EXCEPT !.alltime[r] = x]
WithGlobal(s, d, x) == [s EXCEPT !.global[d] = x]

LEMMA SetDaily ==
    ASSUME NEW s \in Tables, NEW r \in Rooms, NEW d \in Days, NEW x \in PeakRow,
           NEW n, n = WithDaily(s, r, d, x)
    PROVE  /\ n \in Tables
           /\ n.daily[r][d] = x
           /\ \A q \in Rooms, c \in Days : q # r \/ c # d => n.daily[q][c] = s.daily[q][c]
           /\ n.alltime = s.alltime /\ n.global = s.global /\ n.hourly = s.hourly
<1>1. /\ s.daily \in [Rooms -> [Days -> PeakRow]] /\ s.alltime \in [Rooms -> PeakRow]
      /\ s.global \in [Days -> PeakRow] /\ s.hourly \in [Days -> Nat]
  BY DEF Tables
<1>2. PICK f : f = [s.daily EXCEPT ![r][d] = x]
  OBVIOUS
<1>3. f \in [Rooms -> [Days -> PeakRow]]
  BY <1>1, <1>2
<1>5. f[r][d] = x /\ \A q \in Rooms, c \in Days : q # r \/ c # d => f[q][c] = s.daily[q][c]
  BY <1>1, <1>2
<1>6. n = [daily |-> f, alltime |-> s.alltime, global |-> s.global, hourly |-> s.hourly]
  BY <1>2 DEF Tables, WithDaily
<1>7. n.daily = f /\ n.alltime = s.alltime /\ n.global = s.global /\ n.hourly = s.hourly
  BY <1>6
<1>8. [daily |-> f, alltime |-> s.alltime, global |-> s.global, hourly |-> s.hourly] \in Tables
  BY <1>1, <1>3 DEF Tables
<1>9. n \in Tables
  BY <1>6, <1>8
<1> QED BY <1>5, <1>7, <1>9

LEMMA SetAlltime ==
    ASSUME NEW s \in Tables, NEW r \in Rooms, NEW x \in PeakRow,
           NEW n, n = WithAlltime(s, r, x)
    PROVE  /\ n \in Tables
           /\ n.alltime[r] = x
           /\ \A q \in Rooms : q # r => n.alltime[q] = s.alltime[q]
           /\ n.daily = s.daily /\ n.global = s.global /\ n.hourly = s.hourly
<1>1. /\ s.daily \in [Rooms -> [Days -> PeakRow]] /\ s.alltime \in [Rooms -> PeakRow]
      /\ s.global \in [Days -> PeakRow] /\ s.hourly \in [Days -> Nat]
  BY DEF Tables
<1>2. PICK f : f = [s.alltime EXCEPT ![r] = x]
  OBVIOUS
<1>3. f \in [Rooms -> PeakRow] /\ f[r] = x /\ \A q \in Rooms : q # r => f[q] = s.alltime[q]
  BY <1>1, <1>2
<1>4. n = [daily |-> s.daily, alltime |-> f, global |-> s.global, hourly |-> s.hourly]
  BY <1>2 DEF Tables, WithAlltime
<1>5. n.alltime = f /\ n.daily = s.daily /\ n.global = s.global /\ n.hourly = s.hourly
  BY <1>4
<1>6. [daily |-> s.daily, alltime |-> f, global |-> s.global, hourly |-> s.hourly] \in Tables
  BY <1>1, <1>3 DEF Tables
<1>7. n \in Tables
  BY <1>4, <1>6
<1> QED BY <1>3, <1>5, <1>7

LEMMA SetGlobal ==
    ASSUME NEW s \in Tables, NEW d \in Days, NEW x \in PeakRow,
           NEW n, n = WithGlobal(s, d, x)
    PROVE  /\ n \in Tables
           /\ n.global[d] = x
           /\ \A c \in Days : c # d => n.global[c] = s.global[c]
           /\ n.daily = s.daily /\ n.alltime = s.alltime /\ n.hourly = s.hourly
<1>1. /\ s.daily \in [Rooms -> [Days -> PeakRow]] /\ s.alltime \in [Rooms -> PeakRow]
      /\ s.global \in [Days -> PeakRow] /\ s.hourly \in [Days -> Nat]
  BY DEF Tables
<1>2. PICK f : f = [s.global EXCEPT ![d] = x]
  OBVIOUS
<1>3. f \in [Days -> PeakRow] /\ f[d] = x /\ \A c \in Days : c # d => f[c] = s.global[c]
  BY <1>1, <1>2
<1>4. n = [daily |-> s.daily, alltime |-> s.alltime, global |-> f, hourly |-> s.hourly]
  BY <1>2 DEF Tables, WithGlobal
<1>5. n.global = f /\ n.daily = s.daily /\ n.alltime = s.alltime /\ n.hourly = s.hourly
  BY <1>4
<1>6. [daily |-> s.daily, alltime |-> s.alltime, global |-> f, hourly |-> s.hourly] \in Tables
  BY <1>1, <1>3 DEF Tables
<1>7. n \in Tables
  BY <1>4, <1>6
<1> QED BY <1>3, <1>5, <1>7

\* A query of a tick raises the rows its entry is about, truthfully.
LEMMA DailyUpsert ==
    ASSUME Types, RowsAreTrue(stored), NEW t, TickIsTrue(t), t.query = "daily", NEW rows, rows = Upserted(t)
    PROVE  /\ RowsAreTrue(rows) /\ RowsRise(stored, rows)
           /\ rows.daily[t.entry.room][t.entry.date].peak >= t.entry.peak
           /\ rows.daily[t.entry.room][t.entry.date].tokens >= t.entry.tokens
<1> DEFINE e == t.entry
<1>e. /\ e \in RoomEntry /\ e.room \in Rooms /\ e.date \in Days /\ e.peak \in Nat /\ e.tokens \in Nat
      /\ e.peak <= truth.peak[e.room][e.date] /\ e.tokens <= TokensSeen(e.room, e.date)
  BY EntryFigures DEF TickIsTrue, RoomEntryIsTrue, RoomEntry
<1> DEFINE row == stored.daily[e.room][e.date]
<1>r. row \in PeakRow /\ stored \in Tables
  BY <1>e DEF Types, Tables
<1>g. /\ Greatest(row, e) \in PeakRow
      /\ row.peak <= Greatest(row, e).peak /\ row.tokens <= Greatest(row, e).tokens
      /\ e.peak <= Greatest(row, e).peak /\ e.tokens <= Greatest(row, e).tokens
      /\ Greatest(row, e).peak <= truth.peak[e.room][e.date]
      /\ Greatest(row, e).tokens <= TokensSeen(e.room, e.date)
  <2>1. truth.peak[e.room][e.date] \in Nat /\ TokensSeen(e.room, e.date) \in Nat
    BY <1>e, Counted
  <2>2. row.peak <= truth.peak[e.room][e.date] /\ row.tokens <= TokensSeen(e.room, e.date)
    BY <1>e DEF RowsAreTrue
  <2> QED BY <1>e, <1>r, <2>1, <2>2, GreatestFacts
<1>u. rows = WithDaily(stored, e.room, e.date, Greatest(row, e))
  BY DEF Upserted, WithDaily
<1> HIDE DEF e, row
<1>1. /\ rows \in Tables
      /\ rows.daily[e.room][e.date] = Greatest(row, e)
      /\ \A q \in Rooms, d \in Days :
           q # e.room \/ d # e.date => rows.daily[q][d] = stored.daily[q][d]
      /\ rows.alltime = stored.alltime /\ rows.global = stored.global /\ rows.hourly = stored.hourly
  <2>1. PICK q \in Rooms, d \in Days, x \in PeakRow :
          q = e.room /\ d = e.date /\ x = Greatest(row, e)
    BY <1>e, <1>g
  <2>2. rows = WithDaily(stored, q, d, x)
    BY <2>1, <1>u
  <2>3. PICK s \in Tables : s = stored
    BY <1>r
  <2>4. rows = WithDaily(s, q, d, x)
    BY <2>2, <2>3
  <2>5. /\ rows \in Tables /\ rows.daily[q][d] = x
        /\ \A k \in Rooms, c \in Days : k # q \/ c # d => rows.daily[k][c] = s.daily[k][c]
        /\ rows.alltime = s.alltime /\ rows.global = s.global /\ rows.hourly = s.hourly
    BY <2>4, SetDaily
  <2> QED BY <2>1, <2>3, <2>5
<1>2. RowsAreTrue(rows)
  BY <1>1, <1>g DEF RowsAreTrue
<1>3. RowsRise(stored, rows)
  <2>1. \A x \in PeakRow : x.peak <= x.peak /\ x.tokens <= x.tokens
    BY DEF PeakRow
  <2>2. \A x \in Nat : x <= x
    OBVIOUS
  <2>3. /\ stored.daily \in [Rooms -> [Days -> PeakRow]] /\ stored.alltime \in [Rooms -> PeakRow]
        /\ stored.global \in [Days -> PeakRow] /\ stored.hourly \in [Days -> Nat]
    BY <1>r DEF Tables
  <2>4. ASSUME NEW q \in Rooms, NEW d \in Days
        PROVE  /\ stored.daily[q][d].peak <= rows.daily[q][d].peak
               /\ stored.daily[q][d].tokens <= rows.daily[q][d].tokens
    <3>1. CASE q = e.room /\ d = e.date
      BY <3>1, <1>1, <1>g DEF row
    <3>2. CASE q # e.room \/ d # e.date
      BY <3>2, <1>1, <2>1, <2>3
    <3> QED BY <3>1, <3>2
  <2>5. /\ \A q \in Rooms : /\ stored.alltime[q].peak <= rows.alltime[q].peak
                            /\ stored.alltime[q].tokens <= rows.alltime[q].tokens
        /\ \A d \in Days : /\ stored.global[d].peak <= rows.global[d].peak
                           /\ stored.global[d].tokens <= rows.global[d].tokens
                           /\ stored.hourly[d] <= rows.hourly[d]
    BY <1>1, <2>1, <2>2, <2>3
  <2> QED BY <2>4, <2>5 DEF RowsRise
<1>4. rows.daily[e.room][e.date].peak >= e.peak /\ rows.daily[e.room][e.date].tokens >= e.tokens
  BY <1>1, <1>g, <1>e DEF PeakRow
<1> QED BY <1>2, <1>3, <1>4 DEF e

LEMMA AlltimeUpsert ==
    ASSUME Types, RowsAreTrue(stored), NEW t, TickIsTrue(t), t.query = "alltime", NEW rows, rows = Upserted(t)
    PROVE  /\ RowsAreTrue(rows) /\ RowsRise(stored, rows)
           /\ rows.alltime[t.entry.room].peak >= t.entry.peak
           /\ rows.alltime[t.entry.room].tokens >= t.entry.tokens
<1> DEFINE e == t.entry
<1>e. e \in RoomEntry /\ e.room \in Rooms /\ e.peak \in Nat /\ e.tokens \in Nat
  BY EntryFigures DEF TickIsTrue, RoomEntryIsTrue, RoomEntry
<1> DEFINE row == stored.alltime[e.room]
<1>r. row \in PeakRow /\ stored \in Tables
  BY <1>e DEF Types, Tables
<1>g. /\ Greatest(row, e) \in PeakRow
      /\ row.peak <= Greatest(row, e).peak /\ row.tokens <= Greatest(row, e).tokens
      /\ e.peak <= Greatest(row, e).peak /\ e.tokens <= Greatest(row, e).tokens
  BY <1>e, <1>r, GreatestFacts
<1>u. rows = WithAlltime(stored, e.room, Greatest(row, e))
  BY DEF Upserted, WithAlltime
<1> HIDE DEF e, row
<1>1. /\ rows \in Tables
      /\ rows.alltime[e.room] = Greatest(row, e)
      /\ \A q \in Rooms : q # e.room => rows.alltime[q] = stored.alltime[q]
      /\ rows.daily = stored.daily /\ rows.global = stored.global /\ rows.hourly = stored.hourly
  <2>1. PICK q \in Rooms, x \in PeakRow, s \in Tables :
          q = e.room /\ x = Greatest(row, e) /\ s = stored
    BY <1>e, <1>g, <1>r
  <2>2. rows = WithAlltime(s, q, x)
    BY <2>1, <1>u
  <2>3. /\ rows \in Tables /\ rows.alltime[q] = x
        /\ \A k \in Rooms : k # q => rows.alltime[k] = s.alltime[k]
        /\ rows.daily = s.daily /\ rows.global = s.global /\ rows.hourly = s.hourly
    BY <2>2, SetAlltime
  <2> QED BY <2>1, <2>3
<1>2. RowsAreTrue(rows)
  BY <1>1 DEF RowsAreTrue
<1>3. RowsRise(stored, rows)
  <2>1. \A x \in PeakRow : x.peak <= x.peak /\ x.tokens <= x.tokens
    BY DEF PeakRow
  <2>2. \A x \in Nat : x <= x
    OBVIOUS
  <2> QED BY <1>1, <1>g, <1>r, <2>1, <2>2 DEF RowsRise, row, Tables
<1>4. rows.alltime[e.room].peak >= e.peak /\ rows.alltime[e.room].tokens >= e.tokens
  BY <1>1, <1>g, <1>e DEF PeakRow
<1> QED BY <1>2, <1>3, <1>4 DEF e

LEMMA GlobalUpsert ==
    ASSUME Types, RowsAreTrue(stored), NEW t, TickIsTrue(t), t.query = "global", NEW rows, rows = Upserted(t)
    PROVE  /\ RowsAreTrue(rows) /\ RowsRise(stored, rows)
           /\ rows.global[t.entry.date].peak >= t.entry.peak
           /\ rows.global[t.entry.date].tokens >= t.entry.tokens
<1> DEFINE e == t.entry
<1>e. /\ e \in GlobalEntry /\ e.date \in Days /\ e.peak \in Nat /\ e.tokens \in Nat
      /\ e.peak <= truth.allPeak[e.date] /\ e.tokens <= Cardinality(AllSeen(e.date))
  BY EntryFigures DEF TickIsTrue, GlobalEntryIsTrue
<1> DEFINE row == stored.global[e.date]
<1>r. row \in PeakRow /\ stored \in Tables
  BY <1>e DEF Types, Tables
<1>g. /\ Greatest(row, e) \in PeakRow
      /\ row.peak <= Greatest(row, e).peak /\ row.tokens <= Greatest(row, e).tokens
      /\ e.peak <= Greatest(row, e).peak /\ e.tokens <= Greatest(row, e).tokens
      /\ Greatest(row, e).peak <= truth.allPeak[e.date]
      /\ Greatest(row, e).tokens <= Cardinality(AllSeen(e.date))
  <2>1. truth.allPeak[e.date] \in Nat /\ Cardinality(AllSeen(e.date)) \in Nat
    BY <1>e, Counted
  <2>2. row.peak <= truth.allPeak[e.date] /\ row.tokens <= Cardinality(AllSeen(e.date))
    BY <1>e DEF RowsAreTrue
  <2> QED BY <1>e, <1>r, <2>1, <2>2, GreatestFacts
<1>u. rows = WithGlobal(stored, e.date, Greatest(row, e))
  BY DEF Upserted, WithGlobal
<1> HIDE DEF e, row
<1>1. /\ rows \in Tables
      /\ rows.global[e.date] = Greatest(row, e)
      /\ \A d \in Days : d # e.date => rows.global[d] = stored.global[d]
      /\ rows.daily = stored.daily /\ rows.alltime = stored.alltime /\ rows.hourly = stored.hourly
  <2>1. PICK d \in Days, x \in PeakRow, s \in Tables :
          d = e.date /\ x = Greatest(row, e) /\ s = stored
    BY <1>e, <1>g, <1>r
  <2>2. rows = WithGlobal(s, d, x)
    BY <2>1, <1>u
  <2>3. /\ rows \in Tables /\ rows.global[d] = x
        /\ \A c \in Days : c # d => rows.global[c] = s.global[c]
        /\ rows.daily = s.daily /\ rows.alltime = s.alltime /\ rows.hourly = s.hourly
    BY <2>2, SetGlobal
  <2> QED BY <2>1, <2>3
<1>2. RowsAreTrue(rows)
  BY <1>1, <1>g DEF RowsAreTrue
<1>3. RowsRise(stored, rows)
  <2>1. \A x \in PeakRow : x.peak <= x.peak /\ x.tokens <= x.tokens
    BY DEF PeakRow
  <2>2. \A x \in Nat : x <= x
    OBVIOUS
  <2> QED BY <1>1, <1>g, <1>r, <2>1, <2>2 DEF RowsRise, row, Tables
<1>4. rows.global[e.date].peak >= e.peak /\ rows.global[e.date].tokens >= e.tokens
  BY <1>1, <1>g, <1>e DEF PeakRow
<1> QED BY <1>2, <1>3, <1>4 DEF e

\* The last query of a tick raises the hour of the server's day.
LEMMA SampledFacts ==
    ASSUME Types, Total(open) <= truth.hour[day], NEW rows, RowsAreTrue(rows), NEW new, new = Sampled(rows)
    PROVE  RowsAreTrue(new) /\ RowsRise(rows, new)
<1>t. rows \in Tables /\ day \in Days /\ rows.hourly[day] \in Nat /\ truth.hour[day] \in Nat
  BY Bounds DEF RowsAreTrue, Tables, Types, Truth
<1>o. Total(open) \in Nat
  <2>1. open \in [Rooms -> Nat]
    BY Bounds DEF Types
  <2>2. \A r \in Rooms : open[r] <= MaxSockets
    BY DEF Types, Count
  <2> QED BY <2>1, <2>2, Bounds, SocketsAreFinite
<1> DEFINE h == Larger(rows.hourly[day], Total(open))
<1>h. h \in Nat /\ rows.hourly[day] <= h /\ h <= truth.hour[day]
  BY <1>t, <1>o, LargerFacts DEF RowsAreTrue
<1>f. /\ rows.daily \in [Rooms -> [Days -> PeakRow]] /\ rows.alltime \in [Rooms -> PeakRow]
      /\ rows.global \in [Days -> PeakRow] /\ rows.hourly \in [Days -> Nat]
  BY <1>t DEF Tables
<1>g. PICK f : f = [rows.hourly EXCEPT ![day] = h]
  OBVIOUS
<1>u. new = [daily |-> rows.daily, alltime |-> rows.alltime, global |-> rows.global, hourly |-> f]
  BY <1>t, <1>g DEF Sampled, Tables
<1> HIDE DEF h
<1>k. f \in [Days -> Nat] /\ f[day] = h /\ \A d \in Days : d # day => f[d] = rows.hourly[d]
  BY <1>f, <1>g, <1>h, <1>t
<1>1. /\ new \in Tables
      /\ new.hourly[day] = h /\ \A d \in Days : d # day => new.hourly[d] = rows.hourly[d]
      /\ new.daily = rows.daily /\ new.alltime = rows.alltime /\ new.global = rows.global
  <2>1. new.daily = rows.daily /\ new.alltime = rows.alltime /\ new.global = rows.global /\ new.hourly = f
    BY <1>u
  <2>2. [daily |-> rows.daily, alltime |-> rows.alltime, global |-> rows.global, hourly |-> f] \in Tables
    BY <1>f, <1>k DEF Tables
  <2>3. new \in Tables
    BY <1>u, <2>2
  <2> QED BY <2>1, <2>3, <1>k
<1>2. RowsAreTrue(new)
  BY <1>1, <1>h DEF RowsAreTrue
<1>3. RowsRise(rows, new)
  <2>1. \A x \in PeakRow : x.peak <= x.peak /\ x.tokens <= x.tokens
    BY DEF PeakRow
  <2>2. \A x \in Nat : x <= x
    OBVIOUS
  <2> QED BY <1>1, <1>h, <1>t, <2>1, <2>2 DEF RowsRise, Tables
<1> QED BY <1>2, <1>3

LEMMA RisesTwice ==
    ASSUME NEW a \in Tables, NEW b \in Tables, NEW c \in Tables, RowsRise(a, b), RowsRise(b, c)
    PROVE  RowsRise(a, c)
BY DEF RowsRise, Tables, PeakRow

LEMMA RisesToItself ==
    ASSUME NEW a \in Tables
    PROVE  RowsRise(a, a)
BY DEF RowsRise, Tables, PeakRow

-----------------------------------------------------------------------------
(* Steps of a tick *)

\* While nothing more happens, what is true stays so.
LEMMA TruthKept ==
    ASSUME UNCHANGED truth
    PROVE  /\ \A t : TickIsTrue(t) => TickIsTrue(t)'
           /\ \A rows : RowsAreTrue(rows) => RowsAreTrue(rows)'
<1>1. \A t : TickIsTrue(t) => TickIsTrue(t)'
  BY DEF TickIsTrue, RoomEntryIsTrue, GlobalEntryIsTrue, TokensSeen, AllSeen
<1>2. \A rows : RowsAreTrue(rows) => RowsAreTrue(rows)'
  BY DEF RowsAreTrue, TokensSeen, AllSeen
<1> QED BY <1>1, <1>2

\* What rows hold of a day they still hold after they rose.
LEMMA SafeStays ==
    ASSUME Types, NEW t, NEW old \in Tables, NEW new \in Tables, RowsRise(old, new), NEW d \in Days
    PROVE  /\ \A r \in Rooms : RoomSafe(t, old, r, d) => RoomSafe(t, new, r, d)
           /\ GlobalSafe(t, old, d) => GlobalSafe(t, new, d)
<1>1. ASSUME NEW r \in Rooms
      PROVE  /\ Has(old.daily[r][d], r, d) => Has(new.daily[r][d], r, d)
             /\ Has(old.alltime[r], r, d) => Has(new.alltime[r], r, d)
  <2>1. /\ old.daily[r][d] \in PeakRow /\ new.daily[r][d] \in PeakRow
        /\ old.alltime[r] \in PeakRow /\ new.alltime[r] \in PeakRow
    BY DEF Tables
  <2>2. memory.peak[r][d] \in Nat /\ Cardinality(memory.tokens[r][d]) \in Nat
    BY Counted
  <2>3. /\ old.daily[r][d].peak <= new.daily[r][d].peak /\ old.daily[r][d].tokens <= new.daily[r][d].tokens
        /\ old.alltime[r].peak <= new.alltime[r].peak /\ old.alltime[r].tokens <= new.alltime[r].tokens
    BY DEF RowsRise
  <2> QED BY <2>1, <2>2, <2>3 DEF Has, PeakRow
<1>2. \A r \in Rooms : RoomSafe(t, old, r, d) => RoomSafe(t, new, r, d)
  BY <1>1 DEF RoomSafe
<1>3. GlobalSafe(t, old, d) => GlobalSafe(t, new, d)
  <2>1. old.global[d] \in PeakRow /\ new.global[d] \in PeakRow
    BY DEF Tables
  <2>2. memory.allPeak[d] \in Nat /\ Cardinality(memory.allTokens[d]) \in Nat
    BY Counted
  <2>3. old.global[d].peak <= new.global[d].peak /\ old.global[d].tokens <= new.global[d].tokens
    BY DEF RowsRise
  <2> QED BY <2>1, <2>2, <2>3 DEF GlobalSafe, PeakRow
<1> QED BY <1>2, <1>3

\* The other ticks lose nothing when rows rise and more days are given up.
LEMMA OthersStillClose ==
    ASSUME Types, NEW t, NEW new \in Tables, RowsRise(stored, new), NEW gone, lost \subseteq gone,
           ClosesDay(t, stored, lost)
    PROVE  ClosesDay(t, new, gone)
<1>1. stored \in Tables /\ lastDate \in Days
  BY DEF Types
<1>2. PICK old \in Tables, d \in Days : old = stored /\ d = lastDate
  BY <1>1
<1>3. /\ \A r \in Rooms : RoomSafe(t, old, r, d) => RoomSafe(t, new, r, d)
      /\ GlobalSafe(t, old, d) => GlobalSafe(t, new, d)
  BY <1>2, SafeStays
<1> QED BY <1>2, <1>3 DEF ClosesDay

\* A step of a tick that leaves memory and the cron's date alone.
LEMMA MemoryKept ==
    ASSUME IInv, NEW i \in 1..MaxTicks, NEW u, NEW rows, NEW gone,
           ticks' = [ticks EXCEPT ![i] = u], u = NoTick \/ (TickIsTrue(u) /\ u.query # "none"),
           stored' = rows, RowsAreTrue(rows), RowsRise(stored, rows),
           lost' = gone, lost \subseteq gone, gone \subseteq Days, ClosesDay(u, rows, gone),
           UNCHANGED <<day, open, memory, lastDate, truth>>, faults' \in 0..MaxFaults
    PROVE  IInv'
<1>t. Types /\ MemoryIsTrue /\ rows \in Tables
  BY DEF IInv, NothingInvented, RowsAreTrue
<1>1. Types'
  <2>1. ticks' \in [1..MaxTicks -> Tick \cup {NoTick}]
    BY <1>t DEF Types, TickIsTrue
  <2> QED BY <1>t, <2>1 DEF Types
<1>2. MemoryIsTrue'
  BY <1>t DEF MemoryIsTrue, AllSeen, Forgotten
<1>3. ASSUME NEW j \in 1..MaxTicks, ticks'[j] # NoTick
      PROVE  TickIsTrue(ticks[j])' /\ ticks'[j].query # "none"
  <2>1. PICK t : t = ticks'[j]
    OBVIOUS
  <2>2. TickIsTrue(t) /\ t.query # "none"
    BY <1>3, <2>1, <1>t DEF IInv, NothingInvented, Types
  <2>3. TickIsTrue(t)'
    BY <2>2, TruthKept
  <2> QED BY <2>1, <2>2, <2>3
<1>4. RowsAreTrue(stored)'
  BY TruthKept
<1>5. NothingInvented'
  BY <1>1, <1>2, <1>3, <1>4 DEF IInv, NothingInvented
<1>6. KeptInMemory'
  BY DEF IInv, KeptInMemory, Remembered, AllSeen
<1>7. ClosedDays'
  <2> SUFFICES ASSUME NEW d \in Days, d < lastDate
               PROVE  Forgotten(d)' /\ (d \notin lost' => Complete(d)')
    BY DEF ClosedDays
  <2>1. Forgotten(d)'
    BY DEF IInv, ClosedDays, Forgotten
  <2>2. d \notin lost' => Complete(d)'
    <3>1. d \notin lost' => Complete(d)
      BY DEF IInv, ClosedDays
    <3> QED BY <3>1, <1>t, <1>1, <1>4, CompleteStays
  <2> QED BY <2>1, <2>2
<1>8. ASSUME NEW j \in 1..MaxTicks PROVE ClosesDay(ticks[j], stored, lost)'
  <2>1. PICK t : t = ticks'[j]
    OBVIOUS
  <2>2. ClosesDay(t, rows, gone)
    <3>1. CASE j = i
      BY <3>1, <2>1, <1>t DEF Types
    <3>2. CASE j # i
      <4>1. t = ticks[j]
        BY <3>2, <2>1, <1>t DEF Types
      <4>2. ClosesDay(t, stored, lost)
        BY <4>1 DEF IInv
      <4> QED BY <4>2, <1>t, OthersStillClose
    <3> QED BY <3>1, <3>2
  <2>3. ClosesDay(t, rows, gone)'
    BY <2>2 DEF ClosesDay, RoomSafe, GlobalSafe, Has, Carries
  <2> QED BY <2>1, <2>3
<1> QED BY <1>5, <1>6, <1>7, <1>8 DEF IInv

\* The rows hold all of a day.
Saved(rows, d) ==
    /\ \A r \in Rooms : Has(rows.daily[r][d], r, d) /\ Has(rows.alltime[r], r, d)
    /\ rows.global[d].peak >= memory.allPeak[d]
    /\ rows.global[d].tokens >= Cardinality(memory.allTokens[d])

LEMMA SavedIsComplete ==
    ASSUME Types, NEW rows, RowsAreTrue(rows), NEW d \in Days, Remembered(d), Saved(rows, d)
    PROVE  /\ \A r \in Rooms :
                /\ rows.daily[r][d] = [peak |-> truth.peak[r][d], tokens |-> TokensSeen(r, d)]
                /\ rows.alltime[r].peak >= rows.daily[r][d].peak
                /\ rows.alltime[r].tokens >= rows.daily[r][d].tokens
           /\ rows.global[d] = [peak |-> truth.allPeak[d], tokens |-> Cardinality(AllSeen(d))]
<1>t. rows \in Tables
  BY DEF RowsAreTrue
<1>1. ASSUME NEW r \in Rooms
      PROVE  /\ rows.daily[r][d] = [peak |-> truth.peak[r][d], tokens |-> TokensSeen(r, d)]
             /\ rows.alltime[r].peak >= rows.daily[r][d].peak
             /\ rows.alltime[r].tokens >= rows.daily[r][d].tokens
  <2>1. rows.daily[r][d] \in PeakRow /\ rows.alltime[r] \in PeakRow
    BY <1>t DEF Tables
  <2>2. truth.peak[r][d] \in Nat /\ TokensSeen(r, d) \in Nat
    BY Counted
  <2>3. memory.peak[r][d] = truth.peak[r][d] /\ Cardinality(memory.tokens[r][d]) = TokensSeen(r, d)
    BY DEF Remembered, TokensSeen
  <2>4. rows.daily[r][d].peak <= truth.peak[r][d] /\ rows.daily[r][d].tokens <= TokensSeen(r, d)
    BY DEF RowsAreTrue
  <2>5. Has(rows.daily[r][d], r, d) /\ Has(rows.alltime[r], r, d)
    BY DEF Saved
  <2>6. rows.daily[r][d].peak = truth.peak[r][d] /\ rows.daily[r][d].tokens = TokensSeen(r, d)
    BY <2>1, <2>2, <2>3, <2>4, <2>5 DEF Has, PeakRow
  <2>7. rows.daily[r][d] = [peak |-> truth.peak[r][d], tokens |-> TokensSeen(r, d)]
    BY <2>1, <2>6 DEF PeakRow
  <2> QED BY <2>3, <2>5, <2>6, <2>7 DEF Has
<1>2. rows.global[d] = [peak |-> truth.allPeak[d], tokens |-> Cardinality(AllSeen(d))]
  <2>1. rows.global[d] \in PeakRow
    BY <1>t DEF Tables
  <2>2. truth.allPeak[d] \in Nat /\ Cardinality(AllSeen(d)) \in Nat
    BY Counted
  <2>3. rows.global[d].peak <= truth.allPeak[d] /\ rows.global[d].tokens <= Cardinality(AllSeen(d))
    BY DEF RowsAreTrue
  <2>4. rows.global[d].peak = truth.allPeak[d] /\ rows.global[d].tokens = Cardinality(AllSeen(d))
    BY <2>1, <2>2, <2>3 DEF Saved, Remembered, PeakRow
  <2> QED BY <2>1, <2>4 DEF PeakRow
<1> QED BY <1>1, <1>2

LEMMA ClearedFacts ==
    ASSUME Types, memory' = Cleared(lastDate)
    PROVE  /\ memory' \in Memory
           /\ \A r \in Rooms, d \in Days :
                /\ memory'.tokens[r][d] = IF d = lastDate THEN {} ELSE memory.tokens[r][d]
                /\ memory'.peak[r][d] = IF d = lastDate THEN 0 ELSE memory.peak[r][d]
           /\ \A d \in Days :
                /\ memory'.allTokens[d] = IF d = lastDate THEN {} ELSE memory.allTokens[d]
                /\ memory'.allPeak[d] = IF d = lastDate THEN 0 ELSE memory.allPeak[d]
<1>t. /\ memory.tokens \in [Rooms -> [Days -> SUBSET Tokens]]
      /\ memory.peak \in [Rooms -> [Days -> Count]]
      /\ memory.allTokens \in [Days -> SUBSET Tokens]
      /\ memory.allPeak \in [Days -> Count]
      /\ lastDate \in Days /\ 0 \in Count
  BY Bounds DEF Types, Memory
<1>1. PICK a : a = [r \in Rooms |-> [memory.tokens[r] EXCEPT ![lastDate] = {}]]
  OBVIOUS
<1>2. PICK b : b = [r \in Rooms |-> [memory.peak[r] EXCEPT ![lastDate] = 0]]
  OBVIOUS
<1>3. PICK c : c = [memory.allTokens EXCEPT ![lastDate] = {}]
  OBVIOUS
<1>4. PICK e : e = [memory.allPeak EXCEPT ![lastDate] = 0]
  OBVIOUS
<1>5. memory' = [tokens |-> a, peak |-> b, allTokens |-> c, allPeak |-> e]
  BY <1>1, <1>2, <1>3, <1>4 DEF Cleared
<1>6. memory'.tokens = a /\ memory'.peak = b /\ memory'.allTokens = c /\ memory'.allPeak = e
  BY <1>5
<1>a. /\ a \in [Rooms -> [Days -> SUBSET Tokens]]
      /\ \A r \in Rooms, d \in Days : a[r][d] = IF d = lastDate THEN {} ELSE memory.tokens[r][d]
  BY <1>1, <1>t
<1>b. /\ b \in [Rooms -> [Days -> Count]]
      /\ \A r \in Rooms, d \in Days : b[r][d] = IF d = lastDate THEN 0 ELSE memory.peak[r][d]
  BY <1>2, <1>t
<1>c. /\ c \in [Days -> SUBSET Tokens]
      /\ \A d \in Days : c[d] = IF d = lastDate THEN {} ELSE memory.allTokens[d]
  BY <1>3, <1>t
<1>e. /\ e \in [Days -> Count]
      /\ \A d \in Days : e[d] = IF d = lastDate THEN 0 ELSE memory.allPeak[d]
  BY <1>4, <1>t
<1>7. [tokens |-> a, peak |-> b, allTokens |-> c, allPeak |-> e] \in Memory
  BY <1>a, <1>b, <1>c, <1>e DEF Memory
<1>8. memory' \in Memory
  BY <1>5, <1>7
<1> QED BY <1>6, <1>8, <1>a, <1>b, <1>c, <1>e

\* The end of a midnight tick: the day it closes is in the rows, and leaves memory.
LEMMA PageTurned ==
    ASSUME IInv, NEW i \in 1..MaxTicks, NEW rows, NEW gone,
           ticks' = [ticks EXCEPT ![i] = NoTick], memory' = Cleared(lastDate), lastDate' = day,
           stored' = rows, RowsAreTrue(rows), RowsRise(stored, rows),
           lost \subseteq gone, gone \subseteq Days, lost' = gone \union ClearedToday,
           lastDate < day /\ lastDate \notin gone => Saved(rows, lastDate),
           UNCHANGED <<day, open, truth>>, faults' \in 0..MaxFaults
    PROVE  IInv'
<1>t. Types /\ MemoryIsTrue /\ rows \in Tables
  BY DEF IInv, NothingInvented, RowsAreTrue
<1>d. lastDate \in Nat /\ day \in Nat /\ day \in {lastDate, lastDate + 1} /\ Days \subseteq Nat
  BY <1>t, Bounds DEF IInv, Types
<1>m. /\ memory' \in Memory
      /\ \A r \in Rooms, d \in Days :
           /\ memory'.tokens[r][d] = IF d = lastDate THEN {} ELSE memory.tokens[r][d]
           /\ memory'.peak[r][d] = IF d = lastDate THEN 0 ELSE memory.peak[r][d]
      /\ \A d \in Days :
           /\ memory'.allTokens[d] = IF d = lastDate THEN {} ELSE memory.allTokens[d]
           /\ memory'.allPeak[d] = IF d = lastDate THEN 0 ELSE memory.allPeak[d]
  BY <1>t, ClearedFacts
<1>l. lost \subseteq lost' /\ gone \subseteq lost' /\ lost' \subseteq Days
  BY DEF ClearedToday
<1>1. Types'
  <2>1. ticks' \in [1..MaxTicks -> Tick \cup {NoTick}]
    BY <1>t DEF Types
  <2> QED BY <1>t, <1>m, <1>l, <2>1 DEF Types
<1>f. \A d \in Days : d = lastDate => Forgotten(d)'
  BY <1>m DEF Forgotten
<1>g. \A d \in Days : d # lastDate /\ Forgotten(d) => Forgotten(d)'
  BY <1>m DEF Forgotten
<1>2. MemoryIsTrue'
  <2>1. ASSUME NEW r \in Rooms, NEW d \in Days
        PROVE  /\ memory'.tokens[r][d] \subseteq truth.tokens[r][d]
               /\ memory'.peak[r][d] <= truth.peak[r][d]
    <3>1. truth.peak[r][d] \in Nat
      BY <1>t, Counted
    <3> QED BY <1>m, <1>t, <3>1 DEF MemoryIsTrue
  <2>2. ASSUME NEW d \in Days
        PROVE  /\ memory'.allTokens[d] \subseteq AllSeen(d)
               /\ memory'.allPeak[d] <= truth.allPeak[d]
               /\ memory'.allPeak[d] = 0 => Forgotten(d)'
    <3>1. truth.allPeak[d] \in Nat
      BY <1>t, Counted
    <3>2. CASE d = lastDate
      <4>1. memory'.allTokens[d] = {} /\ memory'.allPeak[d] = 0
        BY <1>m, <3>2
      <4> QED BY <4>1, <3>1, <3>2, <1>f DEF Forgotten
    <3>3. CASE d # lastDate
      BY <1>m, <1>t, <1>g, <3>3 DEF MemoryIsTrue
    <3> QED BY <3>2, <3>3
  <2> QED BY <2>1, <2>2 DEF MemoryIsTrue, AllSeen
<1>3. ASSUME NEW j \in 1..MaxTicks, ticks'[j] # NoTick
      PROVE  TickIsTrue(ticks[j])' /\ ticks'[j].query # "none"
  <2>1. PICK t : t = ticks'[j]
    OBVIOUS
  <2>2. TickIsTrue(t) /\ t.query # "none"
    BY <1>3, <2>1, <1>t DEF IInv, NothingInvented, Types
  <2>3. TickIsTrue(t)'
    BY <2>2, TruthKept
  <2> QED BY <2>1, <2>2, <2>3
<1>4. RowsAreTrue(stored)'
  BY TruthKept
<1>5. NothingInvented'
  BY <1>1, <1>2, <1>3, <1>4 DEF IInv, NothingInvented
<1>6. KeptInMemory'
  <2> SUFFICES ASSUME NEW d \in Days, d >= day, d \notin lost' PROVE Remembered(d)'
    BY DEF KeptInMemory
  <2>1. Remembered(d)
    BY <1>l, <1>d DEF IInv, KeptInMemory
  <2>2. CASE d # lastDate
    BY <2>1, <2>2, <1>m DEF Remembered, AllSeen
  <2>3. CASE d = lastDate
    <3>1. d = day
      BY <2>3, <1>d
    <3>2. memory'.allPeak[d] = 0
      BY <1>m, <2>3
    <3>3. ~(memory.allPeak[d] > 0)
      BY <3>1, <3>2 DEF ClearedToday
    <3>4. memory.allPeak[d] = 0
      BY <3>3, <1>t, Counted
    <3>5. Forgotten(d)
      BY <3>4, <1>t DEF MemoryIsTrue
    <3>6. /\ \A r \in Rooms : memory'.tokens[r][d] = memory.tokens[r][d] /\ memory'.peak[r][d] = memory.peak[r][d]
          /\ memory'.allTokens[d] = memory.allTokens[d] /\ memory'.allPeak[d] = memory.allPeak[d]
      BY <3>5, <2>3, <1>m DEF Forgotten
    <3> QED BY <3>6, <2>1 DEF Remembered, AllSeen
  <2> QED BY <2>2, <2>3
<1>7. ClosedDays'
  <2> SUFFICES ASSUME NEW d \in Days, d < day
               PROVE  Forgotten(d)' /\ (d \notin lost' => Complete(d)')
    BY DEF ClosedDays
  <2>1. CASE d < lastDate
    <3>1. d # lastDate /\ Forgotten(d) /\ (d \notin lost => Complete(d))
      BY <2>1, <1>d DEF IInv, ClosedDays
    <3>2. d \notin lost' => Complete(d)'
      BY <3>1, <1>l, <1>t, <1>1, <1>4, CompleteStays
    <3> QED BY <3>1, <3>2, <1>g
  <2>2. CASE ~(d < lastDate)
    <3>1. d = lastDate /\ d >= lastDate /\ lastDate < day
      BY <2>2, <1>d
    <3>2. ASSUME d \notin lost' PROVE Complete(d)'
      <4>1. Remembered(d) /\ Saved(rows, d)
        BY <3>1, <3>2, <1>l DEF IInv, KeptInMemory
      <4>2. /\ \A r \in Rooms :
                /\ rows.daily[r][d] = [peak |-> truth.peak[r][d], tokens |-> TokensSeen(r, d)]
                /\ rows.alltime[r].peak >= rows.daily[r][d].peak
                /\ rows.alltime[r].tokens >= rows.daily[r][d].tokens
            /\ rows.global[d] = [peak |-> truth.allPeak[d], tokens |-> Cardinality(AllSeen(d))]
        BY <4>1, <1>t, SavedIsComplete
      <4> QED BY <4>2 DEF Complete, TokensSeen, AllSeen
    <3> QED BY <3>1, <3>2, <1>f
  <2> QED BY <2>1, <2>2
<1>8. ASSUME NEW j \in 1..MaxTicks PROVE ClosesDay(ticks[j], stored, lost)'
  <2>1. ticks'[j].rollover => ticks'[j].today = day
    <3>1. CASE j = i
      BY <3>1, <1>t DEF Types, NoTick
    <3>2. CASE j # i
      BY <3>2, <1>t DEF Types, IInv, ClosesDay
    <3> QED BY <3>1, <3>2
  <2> QED BY <2>1, <1>d DEF ClosesDay
<1> QED BY <1>5, <1>6, <1>7, <1>8, <1>d DEF IInv

\* Of a day that memory knows nothing of, rows know enough.
LEMMA NothingToSave ==
    ASSUME Types, MemoryIsTrue, NEW rows, RowsAreTrue(rows), NEW d \in Days,
           ~(memory.allPeak[d] > 0)
    PROVE  Saved(rows, d)
<1>1. memory.allPeak[d] = 0
  BY Counted
<1>2. Forgotten(d)
  BY <1>1 DEF MemoryIsTrue
<1>3. rows \in Tables
  BY DEF RowsAreTrue
<1>4. /\ \A r \in Rooms : rows.daily[r][d] \in PeakRow /\ rows.alltime[r] \in PeakRow
      /\ rows.global[d] \in PeakRow
  BY <1>3 DEF Tables
<1>5. \A row \in PeakRow : row.peak >= 0 /\ row.tokens >= 0
  BY DEF PeakRow
<1>6. Cardinality({}) = 0
  BY FS_EmptySet
<1>7. ASSUME NEW r \in Rooms
      PROVE  Has(rows.daily[r][d], r, d) /\ Has(rows.alltime[r], r, d)
  <2>1. memory.peak[r][d] = 0 /\ Cardinality(memory.tokens[r][d]) = 0
    BY <1>2, <1>6 DEF Forgotten
  <2> QED BY <2>1, <1>4, <1>5 DEF Has
<1>8. /\ rows.global[d].peak >= memory.allPeak[d]
      /\ rows.global[d].tokens >= Cardinality(memory.allTokens[d])
  <2>1. memory.allPeak[d] = 0 /\ Cardinality(memory.allTokens[d]) = 0
    BY <1>2, <1>6 DEF Forgotten
  <2> QED BY <2>1, <1>4, <1>5
<1> QED BY <1>7, <1>8 DEF Saved

LEMMA SavedStays ==
    ASSUME Types, NEW old \in Tables, NEW new \in Tables, RowsRise(old, new), NEW d \in Days,
           Saved(old, d)
    PROVE  Saved(new, d)
<1>1. ASSUME NEW r \in Rooms
      PROVE  Has(new.daily[r][d], r, d) /\ Has(new.alltime[r], r, d)
  <2>1. /\ old.daily[r][d] \in PeakRow /\ new.daily[r][d] \in PeakRow
        /\ old.alltime[r] \in PeakRow /\ new.alltime[r] \in PeakRow
    BY DEF Tables
  <2>2. memory.peak[r][d] \in Nat /\ Cardinality(memory.tokens[r][d]) \in Nat
    BY Counted
  <2>3. /\ old.daily[r][d].peak <= new.daily[r][d].peak /\ old.daily[r][d].tokens <= new.daily[r][d].tokens
        /\ old.alltime[r].peak <= new.alltime[r].peak /\ old.alltime[r].tokens <= new.alltime[r].tokens
    BY DEF RowsRise
  <2> QED BY <2>1, <2>2, <2>3 DEF Saved, Has, PeakRow
<1>2. /\ new.global[d].peak >= memory.allPeak[d]
      /\ new.global[d].tokens >= Cardinality(memory.allTokens[d])
  <2>1. old.global[d] \in PeakRow /\ new.global[d] \in PeakRow
    BY DEF Tables
  <2>2. memory.allPeak[d] \in Nat /\ Cardinality(memory.allTokens[d]) \in Nat
    BY Counted
  <2>3. old.global[d].peak <= new.global[d].peak /\ old.global[d].tokens <= new.global[d].tokens
    BY DEF RowsRise
  <2> QED BY <2>1, <2>2, <2>3 DEF Saved, PeakRow
<1> QED BY <1>1, <1>2 DEF Saved

\* What a midnight tick has still to write when it goes on from here.
Due(t, rows, gone) ==
    t.rollover =>
      /\ t.today = day
      /\ lastDate < day /\ lastDate \notin gone =>
           /\ \A r \in Rooms :
                \/ Has(rows.daily[r][lastDate], r, lastDate) /\ Has(rows.alltime[r], r, lastDate)
                \/ \E e \in t.entries : Carries(e, r, lastDate)
           /\ \/ /\ rows.global[lastDate].peak >= memory.allPeak[lastDate]
                 /\ rows.global[lastDate].tokens >= Cardinality(memory.allTokens[lastDate])
              \/ lastDate \in t.dates

\* A tick that goes on to the first query about a room.
LEMMA NextEntry ==
    ASSUME NEW t, TickIsTrue(t), NEW e \in t.entries, NEW rows, NEW gone, Due(t, rows, gone),
           NEW u, u = [t EXCEPT !.query = "daily", !.entry = e, !.entries = @ \ {e}]
    PROVE  TickIsTrue(u) /\ u.query # "none" /\ ClosesDay(u, rows, gone)
<1>t. /\ t \in Tick /\ RoomEntryIsTrue(e) /\ e \in RoomEntry
      /\ \A x \in t.entries : RoomEntryIsTrue(x)
  BY DEF TickIsTrue, RoomEntryIsTrue
<1>1. u = [query |-> "daily", rollover |-> t.rollover, today |-> t.today,
           entries |-> t.entries \ {e}, dates |-> t.dates, entry |-> e]
  BY <1>t DEF Tick
<1>2. /\ u.query = "daily" /\ u.rollover = t.rollover /\ u.today = t.today
      /\ u.entries = t.entries \ {e} /\ u.dates = t.dates /\ u.entry = e
  BY <1>1
<1>3. u \in Tick
  <2>1. /\ t.rollover \in BOOLEAN /\ t.today \in Days /\ t.entries \ {e} \in SUBSET RoomEntry
        /\ t.dates \in SUBSET Days
    BY <1>t DEF Tick
  <2> QED BY <1>1, <1>t, <2>1 DEF Tick
<1>4. TickIsTrue(u)
  BY <1>2, <1>3, <1>t DEF TickIsTrue
<1>5. ClosesDay(u, rows, gone)
  <2> SUFFICES ASSUME t.rollover
               PROVE  /\ t.today = day
                      /\ lastDate < day /\ lastDate \notin gone =>
                           /\ \A r \in Rooms : RoomSafe(u, rows, r, lastDate)
                           /\ GlobalSafe(u, rows, lastDate)
    BY <1>2 DEF ClosesDay
  <2>1. t.today = day
    BY DEF Due
  <2>2. ASSUME lastDate < day, lastDate \notin gone
        PROVE  (\A r \in Rooms : RoomSafe(u, rows, r, lastDate)) /\ GlobalSafe(u, rows, lastDate)
    <3>1. ASSUME NEW r \in Rooms PROVE RoomSafe(u, rows, r, lastDate)
      <4>1. CASE Has(rows.daily[r][lastDate], r, lastDate) /\ Has(rows.alltime[r], r, lastDate)
        BY <4>1 DEF RoomSafe
      <4>2. CASE \E x \in t.entries : Carries(x, r, lastDate)
        <5>1. PICK x \in t.entries : Carries(x, r, lastDate)
          BY <4>2
        <5>2. CASE x = e
          BY <5>1, <5>2, <1>2 DEF RoomSafe
        <5>3. CASE x # e
          BY <5>1, <5>3, <1>2 DEF RoomSafe
        <5> QED BY <5>2, <5>3
      <4> QED BY <4>1, <4>2, <2>2 DEF Due
    <3>2. GlobalSafe(u, rows, lastDate)
      BY <2>2, <1>2 DEF Due, GlobalSafe
    <3> QED BY <3>1, <3>2
  <2> QED BY <2>1, <2>2
<1> QED BY <1>2, <1>4, <1>5

\* A tick that goes on to the query about all rooms on one day.
LEMMA NextDate ==
    ASSUME Types, MemoryIsTrue, NEW t, TickIsTrue(t), t.entries = {},
           NEW rows, RowsAreTrue(rows), NEW gone, Due(t, rows, gone),
           NEW d \in t.dates,
           NEW dates, dates = {x \in t.dates : memory.allPeak[x] > 0},
           NEW g, g = [date |-> d, peak |-> memory.allPeak[d],
                       tokens |-> Cardinality(memory.allTokens[d])],
           NEW u, u = [t EXCEPT !.query = "global", !.dates = dates \ {d}, !.entry = g]
    PROVE  TickIsTrue(u) /\ u.query # "none" /\ ClosesDay(u, rows, gone)
<1>t. t \in Tick /\ d \in Days /\ t.dates \in SUBSET Days
  BY DEF TickIsTrue, Tick
<1>g. /\ GlobalEntryIsTrue(g)
      /\ g.date = d /\ g.peak = memory.allPeak[d] /\ g.tokens = Cardinality(memory.allTokens[d])
  <2>1. g.date = d /\ g.peak = memory.allPeak[d] /\ g.tokens = Cardinality(memory.allTokens[d])
    OBVIOUS
  <2>2. memory.allPeak[d] \in Count /\ Cardinality(memory.allTokens[d]) \in Nat
    BY <1>t, Counted DEF Types, Memory
  <2>3. g \in GlobalEntry
    BY <1>t, <2>2 DEF GlobalEntry
  <2>4. memory.allPeak[d] <= truth.allPeak[d]
    BY <1>t DEF MemoryIsTrue
  <2>5. Cardinality(memory.allTokens[d]) <= Cardinality(AllSeen(d))
    BY <1>t, MemoryCounts
  <2> QED BY <2>1, <2>3, <2>4, <2>5 DEF GlobalEntryIsTrue
<1>1. u = [query |-> "global", rollover |-> t.rollover, today |-> t.today,
           entries |-> t.entries, dates |-> dates \ {d}, entry |-> g]
  BY <1>t DEF Tick
<1>2. /\ u.query = "global" /\ u.rollover = t.rollover /\ u.today = t.today
      /\ u.entries = t.entries /\ u.dates = dates \ {d} /\ u.entry = g
  BY <1>1
<1>3. u \in Tick
  <2>1. /\ t.rollover \in BOOLEAN /\ t.today \in Days /\ t.entries \in SUBSET RoomEntry
        /\ dates \ {d} \in SUBSET Days /\ g \in GlobalEntry
    BY <1>t, <1>g DEF Tick, GlobalEntryIsTrue
  <2> QED BY <1>1, <2>1 DEF Tick
<1>4. TickIsTrue(u)
  BY <1>2, <1>3, <1>g DEF TickIsTrue
<1>5. ClosesDay(u, rows, gone)
  <2> SUFFICES ASSUME t.rollover
               PROVE  /\ t.today = day
                      /\ lastDate < day /\ lastDate \notin gone =>
                           /\ \A r \in Rooms : RoomSafe(u, rows, r, lastDate)
                           /\ GlobalSafe(u, rows, lastDate)
    BY <1>2 DEF ClosesDay
  <2>1. t.today = day
    BY DEF Due
  <2>2. ASSUME lastDate < day, lastDate \notin gone
        PROVE  (\A r \in Rooms : RoomSafe(u, rows, r, lastDate)) /\ GlobalSafe(u, rows, lastDate)
    <3>1. ASSUME NEW r \in Rooms PROVE RoomSafe(u, rows, r, lastDate)
      BY <2>2 DEF Due, RoomSafe
    <3>2. GlobalSafe(u, rows, lastDate)
      <4>1. CASE /\ rows.global[lastDate].peak >= memory.allPeak[lastDate]
                 /\ rows.global[lastDate].tokens >= Cardinality(memory.allTokens[lastDate])
        BY <4>1 DEF GlobalSafe
      <4>2. CASE lastDate \in t.dates
        <5>1. CASE lastDate = d
          BY <5>1, <1>2, <1>g DEF GlobalSafe
        <5>2. CASE lastDate # d /\ memory.allPeak[lastDate] > 0
          BY <4>2, <5>2, <1>2 DEF GlobalSafe
        <5>3. CASE ~(memory.allPeak[lastDate] > 0)
          BY <5>3, <4>2, <1>t, NothingToSave DEF GlobalSafe, Saved
        <5> QED BY <5>1, <5>2, <5>3
      <4> QED BY <4>1, <4>2, <2>2 DEF Due
    <3> QED BY <3>1, <3>2
  <2> QED BY <2>1, <2>2
<1> QED BY <1>2, <1>4, <1>5

\* A tick runs on to its next query, or ends.
LEMMA RunOnIInv ==
    ASSUME IInv, NEW i \in 1..MaxTicks, NEW t, TickIsTrue(t),
           NEW rows, RowsAreTrue(rows), RowsRise(stored, rows), NEW gone, Due(t, rows, gone),
           RunOn(i, t, rows), lost \subseteq gone, gone \subseteq Days,
           lost' = gone \union ClearedToday,
           UNCHANGED <<day, open, truth>>, faults' \in 0..MaxFaults
    PROVE  IInv' /\ RowsRise(stored, stored')
<1>t. Types /\ MemoryIsTrue /\ Total(open) <= truth.hour[day] /\ rows \in Tables
      /\ stored \in Tables
  BY DEF IInv, NothingInvented, RowsAreTrue, Types
<1>u. ASSUME UNCHANGED memory PROVE lost' = gone
  BY <1>u DEF ClearedToday
<1> DEFINE dates == {x \in t.dates : memory.allPeak[x] > 0}
<1>1. CASE /\ t.entries # {}
           /\ ticks' = [ticks EXCEPT ![i] =
                           [t EXCEPT !.query = "daily", !.entry = CHOOSE e \in t.entries : TRUE,
                                     !.entries = @ \ {CHOOSE e \in t.entries : TRUE}]]
           /\ stored' = rows /\ UNCHANGED <<memory, lastDate>>
  <2>1. PICK e \in t.entries : e = CHOOSE x \in t.entries : TRUE
    BY <1>1
  <2>2. PICK u : u = [t EXCEPT !.query = "daily", !.entry = e, !.entries = @ \ {e}]
    OBVIOUS
  <2>3. ticks' = [ticks EXCEPT ![i] = u]
    BY <1>1, <2>1, <2>2
  <2>4. TickIsTrue(u) /\ u.query # "none" /\ ClosesDay(u, rows, gone)
    BY <2>2, NextEntry
  <2>5. lost' = gone
    BY <1>1, <1>u
  <2> QED BY <1>1, <2>3, <2>4, <2>5, MemoryKept
<1>2. CASE /\ t.entries = {}
           /\ \E d \in dates :
                ticks' = [ticks EXCEPT ![i] =
                      [t EXCEPT !.query = "global", !.dates = dates \ {d},
                                !.entry = [date |-> d, peak |-> memory.allPeak[d],
                                           tokens |-> Cardinality(memory.allTokens[d])]]]
           /\ stored' = rows /\ UNCHANGED <<memory, lastDate>>
  <2>1. PICK d \in dates : ticks' = [ticks EXCEPT ![i] =
                      [t EXCEPT !.query = "global", !.dates = dates \ {d},
                                !.entry = [date |-> d, peak |-> memory.allPeak[d],
                                           tokens |-> Cardinality(memory.allTokens[d])]]]
    BY <1>2
  <2>2. d \in t.dates
    OBVIOUS
  <2>3. PICK g : g = [date |-> d, peak |-> memory.allPeak[d],
                      tokens |-> Cardinality(memory.allTokens[d])]
    OBVIOUS
  <2>4. PICK ds : ds = {x \in t.dates : memory.allPeak[x] > 0}
    OBVIOUS
  <2>5. PICK u : u = [t EXCEPT !.query = "global", !.dates = ds \ {d}, !.entry = g]
    OBVIOUS
  <2>6. ticks' = [ticks EXCEPT ![i] = u]
    BY <2>1, <2>3, <2>4, <2>5
  <2>7. TickIsTrue(u) /\ u.query # "none" /\ ClosesDay(u, rows, gone)
    <3>1. t.entries = {} /\ Types /\ MemoryIsTrue
      BY <1>t, <1>2
    <3> QED BY <2>2, <2>3, <2>4, <2>5, <3>1, NextDate
  <2>8. lost' = gone
    BY <1>2, <1>u
  <2> QED BY <1>2, <2>6, <2>7, <2>8, MemoryKept
<1>3. CASE /\ t.entries = {} /\ dates = {}
           /\ memory' = IF t.rollover THEN Cleared(lastDate) ELSE memory
           /\ lastDate' = IF t.rollover THEN t.today ELSE lastDate
           /\ ticks' = [ticks EXCEPT ![i] = NoTick]
           /\ stored' = Sampled(rows)
  <2>1. PICK new : new = Sampled(rows)
    OBVIOUS
  <2>2. RowsAreTrue(new) /\ RowsRise(rows, new) /\ new \in Tables
    BY <1>t, <2>1, SampledFacts DEF RowsAreTrue
  <2>3. RowsRise(stored, new)
    BY <1>t, <2>2, RisesTwice
  <2>4. stored' = new
    BY <1>3, <2>1
  <2>5. CASE t.rollover
    <3>1. t.today = day
      BY <2>5 DEF Due
    <3>2. ASSUME lastDate < day, lastDate \notin gone PROVE Saved(new, lastDate)
      <4>1. Saved(rows, lastDate)
        <5>1. PICK d \in Days : d = lastDate
          BY <1>t DEF Types
        <5>2. \A r \in Rooms : Has(rows.daily[r][d], r, d) /\ Has(rows.alltime[r], r, d)
          BY <1>3, <2>5, <3>2, <5>1 DEF Due
        <5>3. \/ /\ rows.global[d].peak >= memory.allPeak[d]
                 /\ rows.global[d].tokens >= Cardinality(memory.allTokens[d])
              \/ d \in t.dates
          BY <2>5, <3>2, <5>1 DEF Due
        <5>4. CASE d \in t.dates
          <6>1. ~(memory.allPeak[d] > 0)
            BY <1>3, <5>4
          <6> QED BY <6>1, <5>1, <1>t, NothingToSave
        <5>5. CASE /\ rows.global[d].peak >= memory.allPeak[d]
                   /\ rows.global[d].tokens >= Cardinality(memory.allTokens[d])
          BY <5>1, <5>2, <5>5 DEF Saved
        <5> QED BY <5>3, <5>4, <5>5
      <4>2. PICK d \in Days : d = lastDate
        BY <1>t DEF Types
      <4>3. Saved(new, d)
        BY <4>1, <4>2, <1>t, <2>2, SavedStays
      <4> QED BY <4>2, <4>3
    <3>3. memory' = Cleared(lastDate) /\ lastDate' = day
      BY <1>3, <2>5, <3>1
    <3> QED BY <1>3, <2>2, <2>3, <2>4, <3>2, <3>3, PageTurned
  <2>6. CASE ~t.rollover
    <3>1. UNCHANGED <<memory, lastDate>>
      BY <1>3, <2>6
    <3>2. lost' = gone
      BY <3>1, <1>u
    <3>3. ClosesDay(NoTick, new, gone)
      BY DEF ClosesDay, NoTick
    <3>4. PICK u : u = NoTick
      OBVIOUS
    <3> QED BY <1>3, <2>2, <2>3, <2>4, <3>1, <3>2, <3>3, <3>4, MemoryKept
  <2> QED BY <2>5, <2>6
<1> QED BY <1>1, <1>2, <1>3 DEF RunOn

\* What a tick sets out to write is all that memory knows.
LEMMA FreshTick ==
    ASSUME IInv,
           NEW t, t = [query |-> "none", rollover |-> day # lastDate, today |-> day,
                       entries |-> Entries, dates |-> {d \in Days : memory.allPeak[d] > 0},
                       entry |-> Unset],
           NEW rows, rows = stored, NEW gone, gone = lost
    PROVE  TickIsTrue(t) /\ Due(t, rows, gone)
<1>t. Types /\ MemoryIsTrue /\ RowsAreTrue(rows)
  BY DEF IInv, NothingInvented
<1>1. /\ t.query = "none" /\ t.rollover = (day # lastDate) /\ t.today = day /\ t.entries = Entries
      /\ t.dates = {d \in Days : memory.allPeak[d] > 0} /\ t.entry = Unset
  OBVIOUS
<1>2. ASSUME NEW e \in Entries PROVE RoomEntryIsTrue(e)
  <2>1. PICK r \in Rooms, d \in Days :
          e = [room |-> r, date |-> d, peak |-> memory.peak[r][d],
               tokens |-> Cardinality(memory.tokens[r][d])]
    BY DEF Entries, Snapshot
  <2>2. /\ e.room = r /\ e.date = d /\ e.peak = memory.peak[r][d]
        /\ e.tokens = Cardinality(memory.tokens[r][d])
    BY <2>1
  <2>3. memory.peak[r][d] \in Count /\ Cardinality(memory.tokens[r][d]) \in Nat
    BY <1>t, Counted DEF Types, Memory
  <2>4. e \in RoomEntry
    BY <2>1, <2>3 DEF RoomEntry
  <2>5. memory.peak[r][d] <= truth.peak[r][d] /\ Cardinality(memory.tokens[r][d]) <= TokensSeen(r, d)
    BY <1>t, MemoryCounts DEF MemoryIsTrue
  <2> QED BY <2>2, <2>4, <2>5 DEF RoomEntryIsTrue
<1>3. t \in Tick
  <2>1. Entries \in SUBSET RoomEntry
    BY <1>2 DEF RoomEntryIsTrue
  <2>2. (day # lastDate) \in BOOLEAN /\ day \in Days
    BY <1>t DEF Types
  <2> QED BY <2>1, <2>2 DEF Tick
<1>4. TickIsTrue(t)
  BY <1>1, <1>2, <1>3 DEF TickIsTrue
<1>5. PICK d \in Days : d = lastDate
  BY <1>t DEF Types
<1>6. CASE ~(memory.allPeak[d] > 0)
  <2>1. Saved(rows, d)
    BY <1>t, <1>6, NothingToSave
  <2> QED BY <2>1, <1>1, <1>4, <1>5 DEF Due, Saved
<1>7. CASE memory.allPeak[d] > 0
  <2>1. ASSUME NEW r \in Rooms
        PROVE  \/ Has(rows.daily[r][d], r, d) /\ Has(rows.alltime[r], r, d)
               \/ \E e \in t.entries : Carries(e, r, d)
    <3>1. PICK e : e = [room |-> r, date |-> d, peak |-> memory.peak[r][d],
                        tokens |-> Cardinality(memory.tokens[r][d])]
      OBVIOUS
    <3>2. e \in Snapshot
      BY <3>1, <1>7 DEF Snapshot
    <3>3. Carries(e, r, d)
      BY <3>1 DEF Carries
    <3>4. CASE e.peak > 0 \/ e.tokens > 0
      BY <3>2, <3>3, <3>4, <1>1 DEF Entries
    <3>5. CASE ~(e.peak > 0 \/ e.tokens > 0)
      <4>1. memory.peak[r][d] \in Nat /\ Cardinality(memory.tokens[r][d]) \in Nat
        BY <1>t, Counted
      <4>2. memory.peak[r][d] = 0 /\ Cardinality(memory.tokens[r][d]) = 0
        BY <3>1, <3>5, <4>1
      <4>3. rows.daily[r][d] \in PeakRow /\ rows.alltime[r] \in PeakRow
        BY <1>t DEF RowsAreTrue, Tables
      <4>4. \A row \in PeakRow : row.peak >= 0 /\ row.tokens >= 0
        BY DEF PeakRow
      <4> QED BY <4>2, <4>3, <4>4 DEF Has
    <3> QED BY <3>4, <3>5
  <2>2. d \in t.dates
    BY <1>1, <1>7
  <2> QED BY <2>1, <2>2, <1>1, <1>4, <1>5 DEF Due
<1> QED BY <1>6, <1>7

LEMMA StartTickIInv ==
    ASSUME IInv, NEW i \in 1..MaxTicks, StartTick(i)
    PROVE  IInv' /\ UNCHANGED truth /\ RowsRise(stored, stored')
<1>t. Types /\ RowsAreTrue(stored) /\ stored \in Tables /\ lost \subseteq Days
      /\ faults \in 0..MaxFaults
  BY DEF IInv, NothingInvented, Types
<1>1. PICK t : t = [query |-> "none", rollover |-> day # lastDate, today |-> day,
                    entries |-> Entries, dates |-> {d \in Days : memory.allPeak[d] > 0},
                    entry |-> Unset]
  OBVIOUS
<1>2. PICK rows : rows = stored
  OBVIOUS
<1>3. PICK gone : gone = lost
  OBVIOUS
<1>4. /\ RunOn(i, t, rows) /\ lost' = gone \union ClearedToday
      /\ UNCHANGED <<day, open, truth>> /\ faults' = faults
  BY <1>1, <1>2, <1>3 DEF StartTick, Unset
<1>5. TickIsTrue(t) /\ Due(t, rows, gone)
  BY <1>1, <1>2, <1>3, FreshTick
<1>6. RowsRise(stored, rows) /\ RowsAreTrue(rows)
  BY <1>t, <1>2, RisesToItself
<1>7. lost \subseteq gone /\ gone \subseteq Days /\ faults' \in 0..MaxFaults
  BY <1>3, <1>4, <1>t
<1> QED BY <1>4, <1>5, <1>6, <1>7, RunOnIInv

\* The second of the two queries about a room is still to come.
LEMMA DailyAnswered ==
    ASSUME Types, RowsAreTrue(stored), NEW t, TickIsTrue(t), t.query = "daily",
           NEW rows, rows = Upserted(t), NEW gone, gone = lost, ClosesDay(t, stored, gone),
           NEW u, u = [t EXCEPT !.query = "alltime"]
    PROVE  TickIsTrue(u) /\ u.query # "none" /\ ClosesDay(u, rows, gone)
<1>t. t \in Tick /\ RoomEntryIsTrue(t.entry) /\ stored \in Tables
  BY DEF TickIsTrue, Types
<1>1. u = [query |-> "alltime", rollover |-> t.rollover, today |-> t.today,
           entries |-> t.entries, dates |-> t.dates, entry |-> t.entry]
  BY <1>t DEF Tick
<1>2. /\ u.query = "alltime" /\ u.rollover = t.rollover /\ u.today = t.today
      /\ u.entries = t.entries /\ u.dates = t.dates /\ u.entry = t.entry
  BY <1>1
<1>3. u \in Tick
  BY <1>t, <1>1 DEF Tick
<1>4. TickIsTrue(u)
  BY <1>2, <1>3, <1>t DEF TickIsTrue
<1>5. /\ RowsAreTrue(rows) /\ RowsRise(stored, rows) /\ rows \in Tables
      /\ rows.daily[t.entry.room][t.entry.date].peak >= t.entry.peak
      /\ rows.daily[t.entry.room][t.entry.date].tokens >= t.entry.tokens
  BY DailyUpsert DEF RowsAreTrue
<1>6. ASSUME t.rollover, lastDate < day, lastDate \notin gone
      PROVE  (\A r \in Rooms : RoomSafe(u, rows, r, lastDate)) /\ GlobalSafe(u, rows, lastDate)
  <2>1. PICK old \in Tables, d \in Days : old = stored /\ d = lastDate
    BY <1>t DEF Types
  <2>2. (\A r \in Rooms : RoomSafe(t, old, r, d)) /\ GlobalSafe(t, old, d)
    BY <1>6, <2>1 DEF ClosesDay
  <2>3. (\A r \in Rooms : RoomSafe(t, rows, r, d)) /\ GlobalSafe(t, rows, d)
    BY <2>1, <2>2, <1>5, SafeStays
  <2>4. ASSUME NEW r \in Rooms PROVE RoomSafe(u, rows, r, d)
    <3>1. CASE Carries(t.entry, r, d)
      <4>1. Has(rows.daily[r][d], r, d)
        BY <3>1, <1>5 DEF Carries, Has
      <4> QED BY <3>1, <4>1, <1>2 DEF RoomSafe
    <3>2. CASE ~Carries(t.entry, r, d)
      BY <2>3, <3>2, <1>2 DEF RoomSafe
    <3> QED BY <3>1, <3>2
  <2>5. GlobalSafe(u, rows, d)
    BY <2>3, <1>2 DEF GlobalSafe
  <2> QED BY <2>1, <2>4, <2>5
<1>7. ClosesDay(u, rows, gone)
  BY <1>2, <1>6 DEF ClosesDay
<1> QED BY <1>2, <1>4, <1>7

\* Nothing of what the answered query was about is still to write.
LEMMA OtherAnswered ==
    ASSUME Types, RowsAreTrue(stored), NEW t, TickIsTrue(t), t.query \in {"alltime", "global"},
           NEW rows, rows = Upserted(t), NEW gone, gone = lost, ClosesDay(t, stored, gone)
    PROVE  RowsAreTrue(rows) /\ RowsRise(stored, rows) /\ Due(t, rows, gone)
<1>5. RowsAreTrue(rows) /\ RowsRise(stored, rows)
  <2>1. CASE t.query = "alltime"
    BY <2>1, AlltimeUpsert
  <2>2. CASE t.query = "global"
    BY <2>2, GlobalUpsert
  <2> QED BY <2>1, <2>2
<1>6. ASSUME t.rollover, lastDate < day, lastDate \notin gone
      PROVE  /\ \A r \in Rooms :
                  \/ Has(rows.daily[r][lastDate], r, lastDate) /\ Has(rows.alltime[r], r, lastDate)
                  \/ \E e \in t.entries : Carries(e, r, lastDate)
             /\ \/ /\ rows.global[lastDate].peak >= memory.allPeak[lastDate]
                   /\ rows.global[lastDate].tokens >= Cardinality(memory.allTokens[lastDate])
                \/ lastDate \in t.dates
  <2>1. PICK old \in Tables, d \in Days : old = stored /\ d = lastDate
    BY DEF Types
  <2>2. (\A r \in Rooms : RoomSafe(t, old, r, d)) /\ GlobalSafe(t, old, d)
    BY <1>6, <2>1 DEF ClosesDay
  <2>3. rows \in Tables
    BY <1>5 DEF RowsAreTrue
  <2>4. (\A r \in Rooms : RoomSafe(t, rows, r, d)) /\ GlobalSafe(t, rows, d)
    BY <2>1, <2>2, <2>3, <1>5, SafeStays
  <2>5. ASSUME NEW r \in Rooms
        PROVE  \/ Has(rows.daily[r][d], r, d) /\ Has(rows.alltime[r], r, d)
               \/ \E e \in t.entries : Carries(e, r, d)
    <3>1. CASE t.query = "alltime" /\ Carries(t.entry, r, d) /\ Has(rows.daily[r][d], r, d)
      <4>1. /\ rows.alltime[t.entry.room].peak >= t.entry.peak
            /\ rows.alltime[t.entry.room].tokens >= t.entry.tokens
        BY <3>1, AlltimeUpsert
      <4>2. Has(rows.alltime[r], r, d)
        BY <3>1, <4>1 DEF Carries, Has
      <4> QED BY <3>1, <4>2
    <3>2. CASE ~(t.query = "alltime" /\ Carries(t.entry, r, d) /\ Has(rows.daily[r][d], r, d))
      <4>1. RoomSafe(t, rows, r, d) /\ t.query # "daily"
        BY <2>4
      <4> QED BY <3>2, <4>1 DEF RoomSafe
    <3> QED BY <3>1, <3>2
  <2>6. \/ /\ rows.global[d].peak >= memory.allPeak[d]
           /\ rows.global[d].tokens >= Cardinality(memory.allTokens[d])
        \/ d \in t.dates
    <3>1. CASE /\ t.query = "global" /\ t.entry.date = d
               /\ t.entry.peak = memory.allPeak[d]
               /\ t.entry.tokens = Cardinality(memory.allTokens[d])
      <4>1. /\ rows.global[t.entry.date].peak >= t.entry.peak
            /\ rows.global[t.entry.date].tokens >= t.entry.tokens
        BY <3>1, GlobalUpsert
      <4> QED BY <3>1, <4>1
    <3>2. CASE ~(/\ t.query = "global" /\ t.entry.date = d
                 /\ t.entry.peak = memory.allPeak[d]
                 /\ t.entry.tokens = Cardinality(memory.allTokens[d]))
      BY <2>4, <3>2 DEF GlobalSafe
    <3> QED BY <3>1, <3>2
  <2> QED BY <2>1, <2>5, <2>6
<1>7. Due(t, rows, gone)
  BY <1>6 DEF Due, ClosesDay
<1> QED BY <1>5, <1>7

LEMMA AnswerIInv ==
    ASSUME IInv, NEW i \in 1..MaxTicks, Answer(i)
    PROVE  IInv' /\ UNCHANGED truth /\ RowsRise(stored, stored')
<1>t. /\ Types /\ RowsAreTrue(stored) /\ stored \in Tables /\ lost \subseteq Days
      /\ faults \in 0..MaxFaults /\ ticks[i] # NoTick
      /\ ticks \in [1..MaxTicks -> Tick \cup {NoTick}]
  BY DEF IInv, NothingInvented, Types, Answer
<1>1. PICK t : t = ticks[i]
  OBVIOUS
<1>2. PICK gone : gone = lost
  OBVIOUS
<1>3. TickIsTrue(t) /\ t \in Tick /\ ClosesDay(t, stored, gone)
  BY <1>1, <1>2, <1>t DEF IInv, NothingInvented, TickIsTrue
<1>4. PICK rows : rows = Upserted(t)
  OBVIOUS
<1>5. /\ lost' = gone \union ClearedToday
      /\ UNCHANGED <<day, open, truth>> /\ faults' \in 0..MaxFaults
      /\ lost \subseteq gone /\ gone \subseteq Days
  BY <1>2, <1>t DEF Answer
<1>6. CASE /\ t.query = "daily" /\ ticks' = [ticks EXCEPT ![i].query = "alltime"]
           /\ stored' = rows /\ UNCHANGED <<memory, lastDate>>
  <2>1. PICK u : u = [t EXCEPT !.query = "alltime"]
    OBVIOUS
  <2>2. ticks' = [ticks EXCEPT ![i] = u]
    BY <1>1, <1>6, <2>1, <1>t
  <2>3. TickIsTrue(u) /\ u.query # "none" /\ ClosesDay(u, rows, gone)
    BY <1>t, <1>2, <1>3, <1>4, <1>6, <2>1, DailyAnswered
  <2>4. RowsAreTrue(rows) /\ RowsRise(stored, rows)
    BY <1>t, <1>3, <1>4, <1>6, DailyUpsert
  <2>5. lost' = gone
    BY <1>5, <1>6 DEF ClearedToday
  <2> QED BY <1>5, <1>6, <2>2, <2>3, <2>4, <2>5, MemoryKept
<1>7. CASE t.query \in {"alltime", "global"} /\ RunOn(i, t, rows)
  <2>1. RowsAreTrue(rows) /\ RowsRise(stored, rows) /\ Due(t, rows, gone)
    BY <1>t, <1>2, <1>3, <1>4, <1>7, OtherAnswered
  <2> QED BY <1>3, <1>5, <1>7, <2>1, RunOnIInv
<1> QED BY <1>1, <1>4, <1>6, <1>7 DEF Answer, GoOn

LEMMA FailIInv ==
    ASSUME IInv, NEW i \in 1..MaxTicks, Fail(i)
    PROVE  IInv' /\ UNCHANGED truth /\ RowsRise(stored, stored')
<1>t. /\ Types /\ RowsAreTrue(stored) /\ stored \in Tables /\ lost \subseteq Days
      /\ faults \in 0..MaxFaults /\ ticks[i] # NoTick
  BY DEF IInv, NothingInvented, Types, Fail
<1>1. PICK t : t = ticks[i]
  OBVIOUS
<1>2. PICK gone : gone = lost \union {d \in Days : t.rollover /\ d = t.entry.date /\ d < t.today}
  OBVIOUS
<1>3. TickIsTrue(t) /\ ClosesDay(t, stored, lost)
  BY <1>1, <1>t DEF IInv, NothingInvented
<1>4. PICK rows : rows = stored
  OBVIOUS
<1>5. /\ lost' = gone \union ClearedToday /\ RunOn(i, t, rows)
      /\ UNCHANGED <<day, open, truth>> /\ faults' = faults + 1 /\ faults < MaxFaults
      /\ lost \subseteq gone /\ gone \subseteq Days
  BY <1>1, <1>2, <1>4, <1>t DEF Fail
<1>6. faults' \in 0..MaxFaults
  BY <1>5, <1>t, Bounds
<1>7. Due(t, rows, gone)
  <2>1. ASSUME t.rollover PROVE t.today = day
    BY <1>3, <2>1 DEF ClosesDay
  <2>2. ASSUME t.rollover, lastDate < day, lastDate \notin gone
        PROVE  /\ \A r \in Rooms :
                    \/ Has(rows.daily[r][lastDate], r, lastDate) /\ Has(rows.alltime[r], r, lastDate)
                    \/ \E e \in t.entries : Carries(e, r, lastDate)
               /\ \/ /\ rows.global[lastDate].peak >= memory.allPeak[lastDate]
                     /\ rows.global[lastDate].tokens >= Cardinality(memory.allTokens[lastDate])
                  \/ lastDate \in t.dates
    <3>1. lastDate # t.entry.date
      BY <2>1, <2>2, <1>2, <1>t DEF Types
    <3>2. /\ \A r \in Rooms : RoomSafe(t, rows, r, lastDate)
          /\ GlobalSafe(t, rows, lastDate)
      BY <2>2, <1>2, <1>3, <1>4 DEF ClosesDay
    <3>3. \A r \in Rooms : ~Carries(t.entry, r, lastDate)
      BY <3>1 DEF Carries
    <3> QED BY <3>1, <3>2, <3>3 DEF RoomSafe, GlobalSafe
  <2> QED BY <2>1, <2>2 DEF Due
<1>8. RowsRise(stored, rows) /\ RowsAreTrue(rows)
  BY <1>t, <1>4, RisesToItself
<1> QED BY <1>3, <1>5, <1>6, <1>7, <1>8, RunOnIInv

-----------------------------------------------------------------------------
(* Sockets, days and restarts *)

\* What happened only grows.
TruthGrows ==
    /\ \A r \in Rooms, d \in Days :
         truth.tokens[r][d] \subseteq truth'.tokens[r][d] /\ truth.peak[r][d] <= truth'.peak[r][d]
    /\ \A d \in Days : truth.allPeak[d] <= truth'.allPeak[d] /\ truth.hour[d] <= truth'.hour[d]

LEMMA GrowthCounts ==
    ASSUME Types, Types', TruthGrows
    PROVE  /\ \A r \in Rooms, d \in Days :
                /\ TokensSeen(r, d) \in Nat /\ TokensSeen(r, d)' \in Nat
                /\ TokensSeen(r, d) <= TokensSeen(r, d)'
                /\ truth.peak[r][d] \in Nat /\ truth'.peak[r][d] \in Nat
           /\ \A d \in Days :
                /\ Cardinality(AllSeen(d)) \in Nat /\ Cardinality(AllSeen(d)') \in Nat
                /\ Cardinality(AllSeen(d)) <= Cardinality(AllSeen(d)')
                /\ truth.allPeak[d] \in Nat /\ truth'.allPeak[d] \in Nat
                /\ truth.hour[d] \in Nat /\ truth'.hour[d] \in Nat
<1>t. truth \in Truth /\ truth' \in Truth
  BY DEF Types
<1>1. \A r \in Rooms, d \in Days :
        truth.tokens[r][d] \in SUBSET Tokens /\ truth'.tokens[r][d] \in SUBSET Tokens
  BY <1>t DEF Truth
<1>2. \A r \in Rooms, d \in Days :
        /\ TokensSeen(r, d) \in Nat /\ TokensSeen(r, d)' \in Nat
        /\ TokensSeen(r, d) <= TokensSeen(r, d)'
  BY <1>1, TokensAreFinite DEF TruthGrows, TokensSeen
<1>3. \A d \in Days : AllSeen(d) \in SUBSET Tokens /\ AllSeen(d)' \in SUBSET Tokens
  BY <1>1 DEF AllSeen
<1>4. \A d \in Days : AllSeen(d) \subseteq AllSeen(d)'
  BY DEF TruthGrows, AllSeen
<1>5. \A r \in Rooms, d \in Days : truth.peak[r][d] \in Count /\ truth'.peak[r][d] \in Count
  BY <1>t DEF Truth
<1>6. \A d \in Days : /\ truth.allPeak[d] \in Count /\ truth'.allPeak[d] \in Count
                     /\ truth.hour[d] \in Count /\ truth'.hour[d] \in Count
  BY <1>t DEF Truth
<1>7. \A d \in Days : /\ Cardinality(AllSeen(d)) \in Nat /\ Cardinality(AllSeen(d)') \in Nat
                     /\ Cardinality(AllSeen(d)) <= Cardinality(AllSeen(d)')
  BY <1>3, <1>4, TokensAreFinite
<1> QED BY <1>2, <1>5, <1>6, <1>7, Bounds

\* What was written, or is about to be, stays true when more happens.
LEMMA TruthGrown ==
    ASSUME Types, Types', TruthGrows
    PROVE  /\ \A t : TickIsTrue(t) => TickIsTrue(t)'
           /\ \A rows : RowsAreTrue(rows) => RowsAreTrue(rows)'
<1>1. ASSUME NEW e, RoomEntryIsTrue(e) PROVE RoomEntryIsTrue(e)'
  <2>1. e \in RoomEntry /\ e.room \in Rooms /\ e.date \in Days /\ e.peak \in Nat /\ e.tokens \in Nat
    BY <1>1, EntryFigures DEF RoomEntryIsTrue, RoomEntry
  <2>2. e.peak <= truth'.peak[e.room][e.date]
    BY <1>1, <2>1, GrowthCounts DEF RoomEntryIsTrue, TruthGrows
  <2>3. e.tokens <= TokensSeen(e.room, e.date)'
    <3>1. PICK r \in Rooms, d \in Days : r = e.room /\ d = e.date
      BY <2>1
    <3>2. TokensSeen(r, d) \in Nat /\ TokensSeen(r, d)' \in Nat /\ TokensSeen(r, d) <= TokensSeen(r, d)'
      BY GrowthCounts
    <3>3. e.tokens <= TokensSeen(r, d)
      BY <1>1, <3>1 DEF RoomEntryIsTrue
    <3>4. e.tokens <= TokensSeen(r, d)'
      BY <3>2, <3>3, <2>1
    <3> QED BY <3>1, <3>4 DEF TokensSeen
  <2> QED BY <2>1, <2>2, <2>3 DEF RoomEntryIsTrue
<1>2. ASSUME NEW e, GlobalEntryIsTrue(e) PROVE GlobalEntryIsTrue(e)'
  <2>1. e \in GlobalEntry /\ e.date \in Days /\ e.peak \in Nat /\ e.tokens \in Nat
    BY <1>2, EntryFigures DEF GlobalEntryIsTrue
  <2>2. PICK d \in Days : d = e.date
    BY <2>1
  <2>3. /\ Cardinality(AllSeen(d)) \in Nat /\ Cardinality(AllSeen(d)') \in Nat
        /\ Cardinality(AllSeen(d)) <= Cardinality(AllSeen(d)')
        /\ truth.allPeak[d] \in Nat /\ truth'.allPeak[d] \in Nat
        /\ truth.allPeak[d] <= truth'.allPeak[d]
    BY GrowthCounts DEF TruthGrows
  <2>4. e.peak <= truth.allPeak[d] /\ e.tokens <= Cardinality(AllSeen(d))
    BY <1>2, <2>2 DEF GlobalEntryIsTrue
  <2>5. e.peak <= truth'.allPeak[d] /\ e.tokens <= Cardinality(AllSeen(d)')
    BY <2>1, <2>3, <2>4
  <2> QED BY <2>1, <2>2, <2>5 DEF GlobalEntryIsTrue, AllSeen
<1>3. \A t : TickIsTrue(t) => TickIsTrue(t)'
  BY <1>1, <1>2 DEF TickIsTrue
<1>4. ASSUME NEW rows, RowsAreTrue(rows) PROVE RowsAreTrue(rows)'
  <2>1. rows \in Tables
    BY <1>4 DEF RowsAreTrue
  <2>2. ASSUME NEW r \in Rooms, NEW d \in Days
        PROVE  /\ rows.daily[r][d].peak <= truth'.peak[r][d]
               /\ rows.daily[r][d].tokens <= TokensSeen(r, d)'
    <3>1. rows.daily[r][d].peak \in Nat /\ rows.daily[r][d].tokens \in Nat
      BY <2>1 DEF Tables, PeakRow
    <3>2. rows.daily[r][d].peak <= truth.peak[r][d] /\ rows.daily[r][d].tokens <= TokensSeen(r, d)
      BY <1>4 DEF RowsAreTrue
    <3>3. truth.peak[r][d] <= truth'.peak[r][d]
      BY DEF TruthGrows
    <3> QED BY <3>1, <3>2, <3>3, GrowthCounts
  <2>3. ASSUME NEW d \in Days
        PROVE  /\ rows.global[d].peak <= truth'.allPeak[d]
               /\ rows.global[d].tokens <= Cardinality(AllSeen(d)')
               /\ rows.hourly[d] <= truth'.hour[d]
    <3>1. rows.global[d].peak \in Nat /\ rows.global[d].tokens \in Nat /\ rows.hourly[d] \in Nat
      BY <2>1 DEF Tables, PeakRow
    <3>2. /\ rows.global[d].peak <= truth.allPeak[d] /\ rows.global[d].tokens <= Cardinality(AllSeen(d))
          /\ rows.hourly[d] <= truth.hour[d]
      BY <1>4 DEF RowsAreTrue
    <3>3. truth.allPeak[d] <= truth'.allPeak[d] /\ truth.hour[d] <= truth'.hour[d]
      BY DEF TruthGrows
    <3> QED BY <3>1, <3>2, <3>3, GrowthCounts
  <2> QED BY <2>1, <2>2, <2>3 DEF RowsAreTrue, AllSeen
<1> QED BY <1>3, <1>4

\* One more socket: what it changes in memory it changes in what happened.
LEMMA ConnectFacts ==
    ASSUME Types, NEW r \in Rooms, NEW k \in TokensOf[r], Connect(r, k)
    PROVE  \E n \in Count, all \in Count :
             /\ n > 0 /\ all > 0 /\ all = Total(open') /\ k \in Tokens
             /\ open' \in [Rooms -> Count]
             /\ memory' \in Memory /\ truth' \in Truth
             /\ \A q \in Rooms, d \in Days :
                  /\ memory'.tokens[q][d] = IF q = r /\ d = day THEN memory.tokens[q][d] \cup {k}
                                            ELSE memory.tokens[q][d]
                  /\ memory'.peak[q][d] = IF q = r /\ d = day THEN Larger(memory.peak[q][d], n)
                                          ELSE memory.peak[q][d]
                  /\ truth'.tokens[q][d] = IF q = r /\ d = day THEN truth.tokens[q][d] \cup {k}
                                           ELSE truth.tokens[q][d]
                  /\ truth'.peak[q][d] = IF q = r /\ d = day THEN Larger(truth.peak[q][d], n)
                                         ELSE truth.peak[q][d]
             /\ \A d \in Days :
                  /\ memory'.allTokens[d] = IF d = day THEN memory.allTokens[d] \cup {k}
                                            ELSE memory.allTokens[d]
                  /\ memory'.allPeak[d] = IF d = day THEN Larger(memory.allPeak[d], all)
                                          ELSE memory.allPeak[d]
                  /\ truth'.allPeak[d] = IF d = day THEN Larger(truth.allPeak[d], all)
                                         ELSE truth.allPeak[d]
                  /\ truth'.hour[d] = IF d = day THEN Larger(truth.hour[d], all) ELSE truth.hour[d]
<1>k. k \in Tokens
  BY DEF Tokens
<1>o. /\ open \in [Rooms -> Count] /\ day \in Days /\ open \in [Rooms -> Nat]
      /\ \A q \in Rooms : open[q] <= MaxSockets
  BY Bounds DEF Types, Count
<1>a. Total(open) \in Nat /\ open[r] <= Total(open)
  BY <1>o, Bounds, SocketsAreFinite, OneRoomOfAll
<1>1. PICK now : now = [open EXCEPT ![r] = @ + 1]
  OBVIOUS
<1>2. Total(now) = Total(open) + 1
  BY <1>1, <1>o, OneMoreSocket
<1>3. Total(open) < MaxSockets /\ open' = now
  BY <1>1 DEF Connect
<1>4. PICK n : n = now[r]
  OBVIOUS
<1>5. PICK all : all = Total(now)
  OBVIOUS
<1>6. n = open[r] + 1 /\ n \in Count /\ n > 0 /\ all \in Count /\ all > 0
  BY <1>1, <1>2, <1>3, <1>4, <1>5, <1>a, <1>o, Bounds DEF Count
<1>7. now \in [Rooms -> Count]
  BY <1>1, <1>4, <1>6, <1>o
<1>l. \A a, b \in Count : Larger(a, b) \in Count
  BY DEF Larger
<1>m. /\ memory.tokens \in [Rooms -> [Days -> SUBSET Tokens]]
      /\ memory.peak \in [Rooms -> [Days -> Count]]
      /\ memory.allTokens \in [Days -> SUBSET Tokens]
      /\ memory.allPeak \in [Days -> Count]
      /\ truth.tokens \in [Rooms -> [Days -> SUBSET Tokens]]
      /\ truth.peak \in [Rooms -> [Days -> Count]]
      /\ truth.allPeak \in [Days -> Count] /\ truth.hour \in [Days -> Count]
  BY DEF Types, Memory, Truth
<1>8. /\ memory' = [memory EXCEPT !.tokens[r][day] = @ \union {k},
                                  !.allTokens[day] = @ \union {k},
                                  !.peak[r][day] = Larger(@, n),
                                  !.allPeak[day] = Larger(@, all)]
      /\ truth' = [truth EXCEPT !.tokens[r][day] = @ \union {k},
                                !.peak[r][day] = Larger(@, n),
                                !.allPeak[day] = Larger(@, all),
                                !.hour[day] = Larger(@, all)]
  BY <1>1, <1>4, <1>5 DEF Connect
<1>s. \A f \in [Rooms -> [Days -> SUBSET Tokens]] : \A g :
        g = [f EXCEPT ![r][day] = @ \union {k}] =>
          /\ g \in [Rooms -> [Days -> SUBSET Tokens]]
          /\ \A q \in Rooms, d \in Days :
               g[q][d] = IF q = r /\ d = day THEN f[q][d] \cup {k} ELSE f[q][d]
  <2> SUFFICES ASSUME NEW f \in [Rooms -> [Days -> SUBSET Tokens]],
                      NEW g, g = [f EXCEPT ![r][day] = @ \union {k}]
               PROVE  /\ g \in [Rooms -> [Days -> SUBSET Tokens]]
                      /\ \A q \in Rooms, d \in Days :
                           g[q][d] = IF q = r /\ d = day THEN f[q][d] \cup {k} ELSE f[q][d]
    OBVIOUS
  <2>1. f[r][day] \cup {k} \in SUBSET Tokens
    BY <1>o, <1>k
  <2> QED BY <1>o, <2>1
<1>p. \A f \in [Rooms -> [Days -> Count]] :
        LET g == [f EXCEPT ![r][day] = Larger(@, n)] IN
          /\ g \in [Rooms -> [Days -> Count]]
          /\ \A q \in Rooms, d \in Days :
               g[q][d] = IF q = r /\ d = day THEN Larger(f[q][d], n) ELSE f[q][d]
  <2> SUFFICES ASSUME NEW f \in [Rooms -> [Days -> Count]],
                      NEW g, g = [f EXCEPT ![r][day] = Larger(@, n)]
               PROVE  /\ g \in [Rooms -> [Days -> Count]]
                      /\ \A q \in Rooms, d \in Days :
                           g[q][d] = IF q = r /\ d = day THEN Larger(f[q][d], n) ELSE f[q][d]
    OBVIOUS
  <2>1. Larger(f[r][day], n) \in Count
    BY <1>o, <1>6, <1>l
  <2> QED BY <1>o, <2>1
<1>q. \A f \in [Days -> Count] :
        LET g == [f EXCEPT ![day] = Larger(@, all)] IN
          /\ g \in [Days -> Count]
          /\ \A d \in Days : g[d] = IF d = day THEN Larger(f[d], all) ELSE f[d]
  <2> SUFFICES ASSUME NEW f \in [Days -> Count], NEW g, g = [f EXCEPT ![day] = Larger(@, all)]
               PROVE  /\ g \in [Days -> Count]
                      /\ \A d \in Days : g[d] = IF d = day THEN Larger(f[d], all) ELSE f[d]
    OBVIOUS
  <2>1. Larger(f[day], all) \in Count
    BY <1>o, <1>6, <1>l
  <2> QED BY <1>o, <2>1
<1>w. \A f \in [Days -> SUBSET Tokens] :
        LET g == [f EXCEPT ![day] = @ \union {k}] IN
          /\ g \in [Days -> SUBSET Tokens]
          /\ \A d \in Days : g[d] = IF d = day THEN f[d] \cup {k} ELSE f[d]
  <2> SUFFICES ASSUME NEW f \in [Days -> SUBSET Tokens], NEW g, g = [f EXCEPT ![day] = @ \union {k}]
               PROVE  /\ g \in [Days -> SUBSET Tokens]
                      /\ \A d \in Days : g[d] = IF d = day THEN f[d] \cup {k} ELSE f[d]
    OBVIOUS
  <2>1. f[day] \cup {k} \in SUBSET Tokens
    BY <1>o, <1>k
  <2> QED BY <1>o, <2>1
<1>9. PICK ma, mb, mc, me, ta, tb, tc, te :
        /\ ma = [memory.tokens EXCEPT ![r][day] = @ \union {k}]
        /\ mb = [memory.peak EXCEPT ![r][day] = Larger(@, n)]
        /\ mc = [memory.allTokens EXCEPT ![day] = @ \union {k}]
        /\ me = [memory.allPeak EXCEPT ![day] = Larger(@, all)]
        /\ ta = [truth.tokens EXCEPT ![r][day] = @ \union {k}]
        /\ tb = [truth.peak EXCEPT ![r][day] = Larger(@, n)]
        /\ tc = [truth.allPeak EXCEPT ![day] = Larger(@, all)]
        /\ te = [truth.hour EXCEPT ![day] = Larger(@, all)]
  OBVIOUS
<1>10. /\ memory' = [tokens |-> ma, peak |-> mb, allTokens |-> mc, allPeak |-> me]
       /\ truth' = [tokens |-> ta, peak |-> tb, allPeak |-> tc, hour |-> te]
  <2>1. memory \in Memory /\ truth \in Truth
    BY DEF Types
  <2>2. memory' = [tokens |-> ma, peak |-> mb, allTokens |-> mc, allPeak |-> me]
    BY <1>8, <1>9, <2>1 DEF Memory
  <2>3. truth' = [tokens |-> ta, peak |-> tb, allPeak |-> tc, hour |-> te]
    BY <1>8, <1>9, <2>1 DEF Truth
  <2> QED BY <2>2, <2>3
<1>11. /\ ma \in [Rooms -> [Days -> SUBSET Tokens]]
       /\ \A q \in Rooms, d \in Days :
            ma[q][d] = IF q = r /\ d = day THEN memory.tokens[q][d] \cup {k} ELSE memory.tokens[q][d]
       /\ ta \in [Rooms -> [Days -> SUBSET Tokens]]
       /\ \A q \in Rooms, d \in Days :
            ta[q][d] = IF q = r /\ d = day THEN truth.tokens[q][d] \cup {k} ELSE truth.tokens[q][d]
  <2>1. PICK f \in [Rooms -> [Days -> SUBSET Tokens]] : f = memory.tokens
    BY <1>m
  <2>2. PICK h \in [Rooms -> [Days -> SUBSET Tokens]] : h = truth.tokens
    BY <1>m
  <2>3. ma = [f EXCEPT ![r][day] = @ \union {k}]
    BY <1>9, <2>1
  <2>4. ta = [h EXCEPT ![r][day] = @ \union {k}]
    BY <1>9, <2>2
  <2>5. /\ ma \in [Rooms -> [Days -> SUBSET Tokens]]
        /\ \A q \in Rooms, d \in Days : ma[q][d] = IF q = r /\ d = day THEN f[q][d] \cup {k} ELSE f[q][d]
    BY <1>s, <2>3
  <2>6. /\ ta \in [Rooms -> [Days -> SUBSET Tokens]]
        /\ \A q \in Rooms, d \in Days : ta[q][d] = IF q = r /\ d = day THEN h[q][d] \cup {k} ELSE h[q][d]
    BY <1>s, <2>4
  <2> QED BY <2>1, <2>2, <2>5, <2>6
<1>12. /\ mb \in [Rooms -> [Days -> Count]]
       /\ \A q \in Rooms, d \in Days :
            mb[q][d] = IF q = r /\ d = day THEN Larger(memory.peak[q][d], n) ELSE memory.peak[q][d]
       /\ tb \in [Rooms -> [Days -> Count]]
       /\ \A q \in Rooms, d \in Days :
            tb[q][d] = IF q = r /\ d = day THEN Larger(truth.peak[q][d], n) ELSE truth.peak[q][d]
  BY <1>9, <1>m, <1>p
<1>13. /\ mc \in [Days -> SUBSET Tokens]
       /\ \A d \in Days : mc[d] = IF d = day THEN memory.allTokens[d] \cup {k} ELSE memory.allTokens[d]
  BY <1>9, <1>m, <1>w
<1>14. /\ me \in [Days -> Count] /\ tc \in [Days -> Count] /\ te \in [Days -> Count]
       /\ \A d \in Days :
            /\ me[d] = IF d = day THEN Larger(memory.allPeak[d], all) ELSE memory.allPeak[d]
            /\ tc[d] = IF d = day THEN Larger(truth.allPeak[d], all) ELSE truth.allPeak[d]
            /\ te[d] = IF d = day THEN Larger(truth.hour[d], all) ELSE truth.hour[d]
  BY <1>9, <1>m, <1>q
<1>15. /\ memory'.tokens = ma /\ memory'.peak = mb /\ memory'.allTokens = mc /\ memory'.allPeak = me
       /\ truth'.tokens = ta /\ truth'.peak = tb /\ truth'.allPeak = tc /\ truth'.hour = te
  BY <1>10
<1>16. memory' \in Memory /\ truth' \in Truth
  BY <1>10, <1>11, <1>12, <1>13, <1>14 DEF Memory, Truth
<1>17. all = Total(open')
  BY <1>3, <1>5
<1>18. open' \in [Rooms -> Count]
  BY <1>3, <1>7
<1>19. \A q \in Rooms, d \in Days :
           /\ memory'.tokens[q][d] = IF q = r /\ d = day THEN memory.tokens[q][d] \cup {k}
                                     ELSE memory.tokens[q][d]
           /\ memory'.peak[q][d] = IF q = r /\ d = day THEN Larger(memory.peak[q][d], n)
                                   ELSE memory.peak[q][d]
           /\ truth'.tokens[q][d] = IF q = r /\ d = day THEN truth.tokens[q][d] \cup {k}
                                    ELSE truth.tokens[q][d]
           /\ truth'.peak[q][d] = IF q = r /\ d = day THEN Larger(truth.peak[q][d], n)
                                  ELSE truth.peak[q][d]
  <2> TAKE q \in Rooms, d \in Days
  <2>1. /\ memory'.tokens[q][d] = ma[q][d] /\ memory'.peak[q][d] = mb[q][d]
        /\ truth'.tokens[q][d] = ta[q][d] /\ truth'.peak[q][d] = tb[q][d]
    BY <1>15
  <2>2. /\ ma[q][d] = IF q = r /\ d = day THEN memory.tokens[q][d] \cup {k} ELSE memory.tokens[q][d]
        /\ ta[q][d] = IF q = r /\ d = day THEN truth.tokens[q][d] \cup {k} ELSE truth.tokens[q][d]
    BY <1>11
  <2>3. /\ mb[q][d] = IF q = r /\ d = day THEN Larger(memory.peak[q][d], n) ELSE memory.peak[q][d]
        /\ tb[q][d] = IF q = r /\ d = day THEN Larger(truth.peak[q][d], n) ELSE truth.peak[q][d]
    BY <1>12
  <2> QED BY <2>1, <2>2, <2>3
<1>20. \A d \in Days :
           /\ memory'.allTokens[d] = IF d = day THEN memory.allTokens[d] \cup {k}
                                     ELSE memory.allTokens[d]
           /\ memory'.allPeak[d] = IF d = day THEN Larger(memory.allPeak[d], all)
                                   ELSE memory.allPeak[d]
           /\ truth'.allPeak[d] = IF d = day THEN Larger(truth.allPeak[d], all)
                                  ELSE truth.allPeak[d]
           /\ truth'.hour[d] = IF d = day THEN Larger(truth.hour[d], all) ELSE truth.hour[d]
  BY <1>13, <1>14, <1>15
<1> QED BY <1>6, <1>k, <1>16, <1>17, <1>18, <1>19, <1>20

LEMMA ConnectIInv ==
    ASSUME IInv, NEW r \in Rooms, NEW k \in TokensOf[r], Connect(r, k)
    PROVE  IInv' /\ TruthGrows
<1>t. /\ Types /\ MemoryIsTrue /\ RowsAreTrue(stored) /\ memory \in Memory
      /\ truth \in Truth /\ day \in Days
  BY DEF IInv, NothingInvented, Types
<1>d. lastDate \in Nat /\ day \in Nat /\ day \in {lastDate, lastDate + 1} /\ Days \subseteq Nat
  BY <1>t, Bounds DEF IInv, Types
<1>u. UNCHANGED <<day, lastDate, ticks, stored, lost, faults>>
  BY DEF Connect
<1>1. PICK n \in Count, all \in Count :
             /\ n > 0 /\ all > 0 /\ all = Total(open') /\ k \in Tokens
             /\ open' \in [Rooms -> Count]
             /\ memory' \in Memory /\ truth' \in Truth
             /\ \A q \in Rooms, d \in Days :
                  /\ memory'.tokens[q][d] = IF q = r /\ d = day THEN memory.tokens[q][d] \cup {k}
                                            ELSE memory.tokens[q][d]
                  /\ memory'.peak[q][d] = IF q = r /\ d = day THEN Larger(memory.peak[q][d], n)
                                          ELSE memory.peak[q][d]
                  /\ truth'.tokens[q][d] = IF q = r /\ d = day THEN truth.tokens[q][d] \cup {k}
                                           ELSE truth.tokens[q][d]
                  /\ truth'.peak[q][d] = IF q = r /\ d = day THEN Larger(truth.peak[q][d], n)
                                         ELSE truth.peak[q][d]
             /\ \A d \in Days :
                  /\ memory'.allTokens[d] = IF d = day THEN memory.allTokens[d] \cup {k}
                                            ELSE memory.allTokens[d]
                  /\ memory'.allPeak[d] = IF d = day THEN Larger(memory.allPeak[d], all)
                                          ELSE memory.allPeak[d]
                  /\ truth'.allPeak[d] = IF d = day THEN Larger(truth.allPeak[d], all)
                                         ELSE truth.allPeak[d]
                  /\ truth'.hour[d] = IF d = day THEN Larger(truth.hour[d], all) ELSE truth.hour[d]
  BY <1>t, ConnectFacts
<1>ms. \A q \in Rooms, d \in Days :
        memory'.tokens[q][d] = IF q = r /\ d = day THEN memory.tokens[q][d] \cup {k}
                               ELSE memory.tokens[q][d]
  BY <1>1
<1>mp. \A q \in Rooms, d \in Days :
        memory'.peak[q][d] = IF q = r /\ d = day THEN Larger(memory.peak[q][d], n)
                             ELSE memory.peak[q][d]
  BY <1>1
<1>ts. \A q \in Rooms, d \in Days :
        truth'.tokens[q][d] = IF q = r /\ d = day THEN truth.tokens[q][d] \cup {k}
                              ELSE truth.tokens[q][d]
  BY <1>1
<1>tp. \A q \in Rooms, d \in Days :
        truth'.peak[q][d] = IF q = r /\ d = day THEN Larger(truth.peak[q][d], n)
                            ELSE truth.peak[q][d]
  BY <1>1
<1>ma. \A d \in Days :
        memory'.allTokens[d] = IF d = day THEN memory.allTokens[d] \cup {k} ELSE memory.allTokens[d]
  BY <1>1
<1>me. \A d \in Days :
        memory'.allPeak[d] = IF d = day THEN Larger(memory.allPeak[d], all) ELSE memory.allPeak[d]
  BY <1>1
<1>te. \A d \in Days :
        truth'.allPeak[d] = IF d = day THEN Larger(truth.allPeak[d], all) ELSE truth.allPeak[d]
  BY <1>1
<1>th. \A d \in Days :
        truth'.hour[d] = IF d = day THEN Larger(truth.hour[d], all) ELSE truth.hour[d]
  BY <1>1
<1>v. /\ all > 0 /\ all = Total(open') /\ open' \in [Rooms -> Count]
      /\ memory' \in Memory /\ truth' \in Truth
  BY <1>1
<1>n. /\ n \in Nat /\ all \in Nat
      /\ \A q \in Rooms, d \in Days :
           /\ memory.peak[q][d] \in Nat /\ truth.peak[q][d] \in Nat
           /\ memory.peak[q][d] <= truth.peak[q][d]
      /\ \A d \in Days :
           /\ memory.allPeak[d] \in Nat /\ truth.allPeak[d] \in Nat /\ truth.hour[d] \in Nat
           /\ memory.allPeak[d] <= truth.allPeak[d]
  BY <1>t, Counted, Bounds DEF MemoryIsTrue
<1>z. /\ \A q \in Rooms, d \in Days : memory.tokens[q][d] \subseteq truth.tokens[q][d]
      /\ \A d \in Days : memory.allTokens[d] \subseteq AllSeen(d)
  BY <1>t DEF MemoryIsTrue
<1>g. TruthGrows
  <2>1. ASSUME NEW q \in Rooms, NEW d \in Days
        PROVE  truth.tokens[q][d] \subseteq truth'.tokens[q][d] /\ truth.peak[q][d] <= truth'.peak[q][d]
    <3>1. truth.tokens[q][d] \subseteq truth'.tokens[q][d]
      <4>1. truth'.tokens[q][d] \in {truth.tokens[q][d], truth.tokens[q][d] \cup {k}}
        BY <1>ts
      <4> QED BY <4>1
    <3>2. truth.peak[q][d] <= truth'.peak[q][d]
      <4>1. truth'.peak[q][d] \in {truth.peak[q][d], Larger(truth.peak[q][d], n)}
        BY <1>tp
      <4>2. PICK x \in Nat : x = truth.peak[q][d]
        BY <1>n
      <4>3. x <= x /\ x <= Larger(x, n)
        BY <1>n DEF Larger
      <4> QED BY <4>1, <4>2, <4>3
    <3> QED BY <3>1, <3>2
  <2>2. ASSUME NEW d \in Days
        PROVE  truth.allPeak[d] <= truth'.allPeak[d] /\ truth.hour[d] <= truth'.hour[d]
    <3>1. truth'.allPeak[d] \in {truth.allPeak[d], Larger(truth.allPeak[d], all)}
      BY <1>te
    <3>2. truth'.hour[d] \in {truth.hour[d], Larger(truth.hour[d], all)}
      BY <1>th
    <3>3. /\ truth.allPeak[d] \in Nat /\ truth.hour[d] \in Nat /\ all \in Nat
      BY <1>n
    <3>4. PICK x \in Nat, y \in Nat : x = truth.allPeak[d] /\ y = truth.hour[d]
      BY <3>3
    <3>5. x <= x /\ x <= Larger(x, all) /\ y <= y /\ y <= Larger(y, all)
      BY <3>3 DEF Larger
    <3> QED BY <3>1, <3>2, <3>4, <3>5
  <2> QED BY <2>1, <2>2 DEF TruthGrows
<1>2. Types'
  <2>1. ASSUME NEW q \in Rooms, NEW d \in Days PROVE truth'.tokens[q][d] \subseteq TokensOf[q]
    <3>1. truth.tokens[q][d] \subseteq TokensOf[q]
      BY <1>t DEF Types
    <3>2. CASE q = r /\ d = day
      <4>1. truth'.tokens[q][d] = truth.tokens[q][d] \cup {k}
        BY <3>2, <1>ts
      <4> QED BY <3>1, <3>2, <4>1
    <3>3. CASE ~(q = r /\ d = day)
      <4>1. truth'.tokens[q][d] = truth.tokens[q][d]
        BY <3>3, <1>ts
      <4> QED BY <3>1, <4>1
    <3> QED BY <3>2, <3>3
  <2>2. all <= MaxSockets
    BY Bounds DEF Count
  <2>3. Total(open)' <= MaxSockets
    BY <1>v, <2>2 DEF Total
  <2> QED BY <1>v, <1>t, <1>u, <2>1, <2>3 DEF Types
<1>s. /\ \A d \in Days : d = day => AllSeen(d)' = AllSeen(d) \cup {k}
      /\ \A d \in Days : d # day => AllSeen(d)' = AllSeen(d)
  <2>1. ASSUME NEW d \in Days, d # day PROVE AllSeen(d)' = AllSeen(d)
    <3>1. \A q \in Rooms : truth'.tokens[q][d] = truth.tokens[q][d]
      BY <2>1, <1>ts
    <3> QED BY <3>1 DEF AllSeen
  <2>2. ASSUME NEW d \in Days, d = day PROVE AllSeen(d)' = AllSeen(d) \cup {k}
    <3>1. truth'.tokens[r][d] = truth.tokens[r][d] \cup {k}
      BY <2>2, <1>ts
    <3>2. \A q \in Rooms : q # r => truth'.tokens[q][d] = truth.tokens[q][d]
      BY <1>ts
    <3> QED BY <3>1, <3>2 DEF AllSeen
  <2> QED BY <2>1, <2>2
<1>k. \A d \in Days : d # day =>
        /\ \A q \in Rooms : memory'.tokens[q][d] = memory.tokens[q][d]
        /\ \A q \in Rooms : memory'.peak[q][d] = memory.peak[q][d]
        /\ memory'.allTokens[d] = memory.allTokens[d] /\ memory'.allPeak[d] = memory.allPeak[d]
  <2> SUFFICES ASSUME NEW d \in Days, d # day
               PROVE  /\ \A q \in Rooms : memory'.tokens[q][d] = memory.tokens[q][d]
                      /\ \A q \in Rooms : memory'.peak[q][d] = memory.peak[q][d]
                      /\ memory'.allTokens[d] = memory.allTokens[d]
                      /\ memory'.allPeak[d] = memory.allPeak[d]
    OBVIOUS
  <2>1. \A q \in Rooms : memory'.tokens[q][d] = memory.tokens[q][d]
    BY <1>ms
  <2>2. \A q \in Rooms : memory'.peak[q][d] = memory.peak[q][d]
    BY <1>mp
  <2>3. memory'.allTokens[d] = memory.allTokens[d]
    BY <1>ma
  <2>4. memory'.allPeak[d] = memory.allPeak[d]
    BY <1>me
  <2> QED BY <2>1, <2>2, <2>3, <2>4
<1>f. \A d \in Days : d # day /\ Forgotten(d) => Forgotten(d)'
  BY <1>k DEF Forgotten
<1>3. MemoryIsTrue'
  <2>1. ASSUME NEW q \in Rooms, NEW d \in Days
        PROVE  /\ memory'.tokens[q][d] \subseteq truth'.tokens[q][d]
               /\ memory'.peak[q][d] <= truth'.peak[q][d]
    <3>1. CASE q = r /\ d = day
      <4>1. /\ memory'.tokens[q][d] = memory.tokens[q][d] \cup {k}
            /\ truth'.tokens[q][d] = truth.tokens[q][d] \cup {k}
            /\ memory'.peak[q][d] = Larger(memory.peak[q][d], n)
            /\ truth'.peak[q][d] = Larger(truth.peak[q][d], n)
        <5>1. memory'.tokens[q][d] = memory.tokens[q][d] \cup {k}
          BY <3>1, <1>ms
        <5>2. truth'.tokens[q][d] = truth.tokens[q][d] \cup {k}
          BY <3>1, <1>ts
        <5>3. memory'.peak[q][d] = Larger(memory.peak[q][d], n)
          BY <3>1, <1>mp
        <5>4. truth'.peak[q][d] = Larger(truth.peak[q][d], n)
          BY <3>1, <1>tp
        <5> QED BY <5>1, <5>2, <5>3, <5>4
      <4>2. memory'.tokens[q][d] \subseteq truth'.tokens[q][d]
        BY <4>1, <1>z
      <4>3. Larger(memory.peak[q][d], n) <= Larger(truth.peak[q][d], n)
        BY <1>n DEF Larger
      <4> QED BY <4>1, <4>2, <4>3
    <3>2. CASE ~(q = r /\ d = day)
      <4>1. memory'.tokens[q][d] = memory.tokens[q][d] /\ truth'.tokens[q][d] = truth.tokens[q][d]
        BY <3>2, <1>ms, <1>ts
      <4>2. memory'.peak[q][d] = memory.peak[q][d] /\ truth'.peak[q][d] = truth.peak[q][d]
        BY <3>2, <1>mp, <1>tp
      <4> QED BY <4>1, <4>2, <1>n, <1>z
    <3> QED BY <3>1, <3>2
  <2>2. ASSUME NEW d \in Days
        PROVE  /\ memory'.allTokens[d] \subseteq AllSeen(d)'
               /\ memory'.allPeak[d] <= truth'.allPeak[d]
               /\ memory'.allPeak[d] = 0 => Forgotten(d)'
    <3>1. CASE d = day
      <4>1. /\ memory'.allTokens[d] = memory.allTokens[d] \cup {k}
            /\ memory'.allPeak[d] = Larger(memory.allPeak[d], all)
            /\ truth'.allPeak[d] = Larger(truth.allPeak[d], all)
            /\ AllSeen(d)' = AllSeen(d) \cup {k}
        <5>1. memory'.allTokens[d] = memory.allTokens[d] \cup {k}
          BY <3>1, <1>ma
        <5>2. memory'.allPeak[d] = Larger(memory.allPeak[d], all)
          BY <3>1, <1>me
        <5>3. truth'.allPeak[d] = Larger(truth.allPeak[d], all)
          BY <3>1, <1>te
        <5>4. AllSeen(d)' = AllSeen(d) \cup {k}
          BY <3>1, <1>s
        <5> QED BY <5>1, <5>2, <5>3, <5>4
      <4>2. Larger(memory.allPeak[d], all) <= Larger(truth.allPeak[d], all)
            /\ Larger(memory.allPeak[d], all) # 0
        BY <1>n, <1>v DEF Larger
      <4>3. memory'.allTokens[d] \subseteq AllSeen(d)'
        BY <4>1, <1>z
      <4> QED BY <4>1, <4>2, <4>3
    <3>2. CASE d # day
      <4>1. memory'.allPeak[d] = memory.allPeak[d] /\ truth'.allPeak[d] = truth.allPeak[d]
        BY <3>2, <1>me, <1>te
      <4>2. memory'.allTokens[d] \subseteq AllSeen(d)'
        BY <3>2, <1>k, <1>z, <1>s
      <4>3. memory.allPeak[d] = 0 => Forgotten(d)
        BY <1>t DEF MemoryIsTrue
      <4> QED BY <4>1, <4>2, <4>3, <3>2, <1>n, <1>f
    <3> QED BY <3>1, <3>2
  <2> QED BY <2>1, <2>2 DEF MemoryIsTrue
<1>4. /\ \A i \in 1..MaxTicks : ticks'[i] # NoTick => TickIsTrue(ticks[i])' /\ ticks'[i].query # "none"
      /\ RowsAreTrue(stored)'
  <2>1. /\ \A t : TickIsTrue(t) => TickIsTrue(t)'
        /\ \A rows : RowsAreTrue(rows) => RowsAreTrue(rows)'
    BY <1>t, <1>2, <1>g, TruthGrown
  <2>2. ASSUME NEW i \in 1..MaxTicks, ticks'[i] # NoTick
        PROVE  TickIsTrue(ticks[i])' /\ ticks'[i].query # "none"
    <3>1. PICK t : t = ticks[i] /\ t = ticks'[i]
      BY <1>u
    <3>2. TickIsTrue(t) /\ t.query # "none"
      BY <2>2, <3>1 DEF IInv, NothingInvented
    <3> QED BY <2>1, <3>1, <3>2
  <2>3. RowsAreTrue(stored)'
    <3>1. PICK rows : rows = stored /\ rows = stored'
      BY <1>u
    <3> QED BY <2>1, <3>1, <1>t
  <2> QED BY <2>2, <2>3
<1>5. Total(open)' <= truth'.hour[day'] /\ \A d \in Days : d > day' => truth'.hour[d] = 0
  <2>1. truth'.hour[day] = Larger(truth.hour[day], all)
    BY <1>th, <1>t
  <2>2. \A d \in Days : d > day => truth'.hour[d] = truth.hour[d]
    BY <1>th, <1>d
  <2>3. \A d \in Days : d > day => truth.hour[d] = 0
    BY DEF IInv, NothingInvented
  <2>4. Total(open)' = all
    BY <1>v DEF Total
  <2>5. all <= Larger(truth.hour[day], all)
    BY <1>n, <1>t, LargerFacts
  <2> QED BY <2>1, <2>2, <2>3, <2>4, <2>5, <1>u
<1>6. NothingInvented'
  BY <1>2, <1>3, <1>4, <1>5 DEF NothingInvented
<1>7. KeptInMemory'
  <2> SUFFICES ASSUME NEW d \in Days, d >= lastDate, d \notin lost PROVE Remembered(d)'
    BY <1>u DEF KeptInMemory
  <2>1. Remembered(d)
    BY DEF IInv, KeptInMemory
  <2>2. ASSUME NEW q \in Rooms
        PROVE  memory'.tokens[q][d] = truth'.tokens[q][d] /\ memory'.peak[q][d] = truth'.peak[q][d]
    <3>1. memory.tokens[q][d] = truth.tokens[q][d] /\ memory.peak[q][d] = truth.peak[q][d]
      BY <2>1 DEF Remembered
    <3>2. memory'.tokens[q][d] = truth'.tokens[q][d]
      BY <3>1, <1>ms, <1>ts
    <3>3. memory'.peak[q][d] = truth'.peak[q][d]
      BY <3>1, <1>mp, <1>tp
    <3> QED BY <3>2, <3>3
  <2>3. memory'.allTokens[d] = AllSeen(d)' /\ memory'.allPeak[d] = truth'.allPeak[d]
    <3>1. memory.allTokens[d] = AllSeen(d) /\ memory.allPeak[d] = truth.allPeak[d]
      BY <2>1 DEF Remembered
    <3>2. memory'.allTokens[d] = AllSeen(d)'
      <4>1. CASE d = day
        BY <3>1, <4>1, <1>ma, <1>s
      <4>2. CASE d # day
        BY <3>1, <4>2, <1>ma, <1>s
      <4> QED BY <4>1, <4>2
    <3>3. memory'.allPeak[d] = truth'.allPeak[d]
      BY <3>1, <1>me, <1>te
    <3> QED BY <3>2, <3>3
  <2> QED BY <2>2, <2>3 DEF Remembered
<1>8. ClosedDays'
  <2> SUFFICES ASSUME NEW d \in Days, d < lastDate
               PROVE  Forgotten(d)' /\ (d \notin lost => Complete(d)')
    BY <1>u DEF ClosedDays
  <2>1. d # day /\ Forgotten(d) /\ (d \notin lost => Complete(d))
    BY <1>d DEF IInv, ClosedDays
  <2>2. /\ \A q \in Rooms : truth'.peak[q][d] = truth.peak[q][d] /\ truth'.tokens[q][d] = truth.tokens[q][d]
        /\ truth'.allPeak[d] = truth.allPeak[d] /\ stored' = stored
    BY <2>1, <1>ts, <1>tp, <1>te, <1>u
  <2>3. Complete(d) => Complete(d)'
    <3>1. AllSeen(d)' = AllSeen(d)
      BY <2>1, <1>s
    <3>2. UNION {truth.tokens[q][d] : q \in Rooms}' = UNION {truth.tokens[q][d] : q \in Rooms}
      BY <3>1 DEF AllSeen
    <3> QED BY <2>2, <3>2 DEF Complete
  <2> QED BY <2>1, <2>3, <1>f
<1>9. ASSUME NEW j \in 1..MaxTicks PROVE ClosesDay(ticks[j], stored, lost)'
  <2>1. PICK t, rows, gone : t = ticks[j] /\ rows = stored /\ gone = lost
    OBVIOUS
  <2>2. ClosesDay(t, rows, gone)
    BY <2>1 DEF IInv
  <2>3. ClosesDay(t, rows, gone)'
    <3>1. lastDate < day => /\ lastDate # day
                            /\ memory'.allPeak[lastDate] = memory.allPeak[lastDate]
                            /\ memory'.allTokens[lastDate] = memory.allTokens[lastDate]
                            /\ \A q \in Rooms : /\ memory'.peak[q][lastDate] = memory.peak[q][lastDate]
                                                /\ memory'.tokens[q][lastDate] = memory.tokens[q][lastDate]
      BY <1>k, <1>d, <1>t DEF Types
    <3> QED BY <2>2, <3>1, <1>u DEF ClosesDay, RoomSafe, GlobalSafe, Has, Carries
  <2> QED BY <2>1, <2>3, <1>u
<1>10. day' \in {lastDate', lastDate' + 1}
  BY <1>d, <1>u
<1> QED BY <1>6, <1>7, <1>8, <1>9, <1>10, <1>g DEF IInv

LEMMA DisconnectIInv ==
    ASSUME IInv, NEW r \in Rooms, Disconnect(r)
    PROVE  IInv'
<1>u. UNCHANGED <<day, memory, lastDate, ticks, stored, truth, lost, faults>>
  BY DEF Disconnect
<1>t. open \in [Rooms -> Count] /\ Total(open) <= MaxSockets /\ truth.hour[day] \in Nat
  BY Counted DEF IInv, NothingInvented, Types
<1>1. PICK o : o = open'
  OBVIOUS
<1>2. o = [open EXCEPT ![r] = @ - 1] /\ open[r] > 0
  BY <1>1 DEF Disconnect
<1>3. o \in [Rooms -> Count] /\ \A q \in Rooms : o[q] <= open[q]
  <2>1. \A q \in Rooms : open[q] \in Nat
    BY <1>t, Bounds
  <2>2. open[r] - 1 \in Count
    BY <1>2, <1>t, Bounds DEF Count
  <2> QED BY <1>2, <1>t, <2>1, <2>2
<1>4. Total(o) <= Total(open)
  BY <1>t, <1>3, FewerSockets
<1>5. Total(o) \in Nat /\ Total(open) \in Nat
  <2>1. o \in [Rooms -> Nat] /\ open \in [Rooms -> Nat]
        /\ \A q \in Rooms : o[q] <= MaxSockets /\ open[q] <= MaxSockets
    BY <1>3, <1>t, Bounds DEF Count
  <2> QED BY <2>1, Bounds, SocketsAreFinite
<1>6. Total(open)' = Total(o)
  BY <1>1 DEF Total
<1>7. Types'
  BY <1>1, <1>3, <1>4, <1>5, <1>6, <1>t, <1>u, Bounds DEF IInv, NothingInvented, Types
<1>8. Total(open)' <= truth.hour[day]
  BY <1>4, <1>5, <1>6, <1>t DEF IInv, NothingInvented
<1>9. MemoryIsTrue' /\ KeptInMemory' /\ ClosedDays'
  BY <1>u DEF IInv, NothingInvented, MemoryIsTrue, KeptInMemory, ClosedDays, Remembered, Forgotten,
              Complete, AllSeen
<1>10. /\ \A i \in 1..MaxTicks : ticks'[i] # NoTick => TickIsTrue(ticks[i])' /\ ticks'[i].query # "none"
       /\ RowsAreTrue(stored)'
  <2>1. ASSUME NEW i \in 1..MaxTicks, ticks'[i] # NoTick
        PROVE  TickIsTrue(ticks[i])' /\ ticks'[i].query # "none"
    <3>1. PICK t : t = ticks[i] /\ t = ticks'[i]
      BY <1>u
    <3>2. TickIsTrue(t) /\ t.query # "none"
      BY <2>1, <3>1 DEF IInv, NothingInvented
    <3> QED BY <1>u, <3>1, <3>2, TruthKept
  <2>2. RowsAreTrue(stored)'
    <3>1. PICK rows : rows = stored /\ rows = stored'
      BY <1>u
    <3> QED BY <1>u, <3>1, TruthKept DEF IInv, NothingInvented
  <2> QED BY <2>1, <2>2
<1>11. \A i \in 1..MaxTicks : ClosesDay(ticks[i], stored, lost)'
  BY <1>u DEF IInv, ClosesDay, RoomSafe, GlobalSafe, Has, Carries
<1> QED BY <1>7, <1>8, <1>9, <1>10, <1>11, <1>u DEF IInv, NothingInvented

LEMMA NextDayIInv ==
    ASSUME IInv, NextDay
    PROVE  IInv' /\ TruthGrows
<1>t. /\ Types /\ MemoryIsTrue /\ RowsAreTrue(stored) /\ truth \in Truth /\ day \in Days
      /\ open \in [Rooms -> Count] /\ Total(open) <= MaxSockets
  BY DEF IInv, NothingInvented, Types
<1>u. /\ UNCHANGED <<open, memory, lastDate, ticks, stored, lost, faults>>
      /\ day < MaxDay /\ lastDate = day /\ day' = day + 1
      /\ \A i \in 1..MaxTicks : ~ticks[i].rollover
      /\ truth' = [truth EXCEPT !.hour[day + 1] = Total(open)]
  BY DEF NextDay
<1>d. day \in Nat /\ day + 1 \in Days
  BY <1>t, <1>u, Bounds DEF Days
<1>o. Total(open) \in Count
  <2>1. open \in [Rooms -> Nat] /\ \A q \in Rooms : open[q] <= MaxSockets
    BY <1>t, Bounds DEF Count
  <2>2. Total(open) \in Nat
    BY <2>1, Bounds, SocketsAreFinite
  <2> QED BY <2>2, <1>t, Bounds DEF Count
<1>1. PICK h : h = [truth.hour EXCEPT ![day + 1] = Total(open)]
  OBVIOUS
<1>2. /\ h \in [Days -> Count] /\ h[day + 1] = Total(open)
      /\ \A d \in Days : d # day + 1 => h[d] = truth.hour[d]
  BY <1>1, <1>d, <1>o, <1>t DEF Truth
<1>3. truth' = [tokens |-> truth.tokens, peak |-> truth.peak, allPeak |-> truth.allPeak, hour |-> h]
  BY <1>1, <1>u, <1>t DEF Truth
<1>4. truth'.tokens = truth.tokens /\ truth'.peak = truth.peak /\ truth'.allPeak = truth.allPeak
      /\ truth'.hour = h
  BY <1>3
<1>5. truth' \in Truth
  BY <1>2, <1>3, <1>t DEF Truth
<1>6. \A d \in Days : d > day => truth.hour[d] = 0
  BY DEF IInv, NothingInvented
<1>g. TruthGrows
  <2>1. /\ \A r \in Rooms, d \in Days : truth.peak[r][d] \in Nat
        /\ \A d \in Days : truth.allPeak[d] \in Nat /\ truth.hour[d] \in Nat
    BY <1>t, Counted
  <2>2. truth.hour[day + 1] = 0 /\ Total(open) \in Nat
    <3>1. day + 1 > day
      BY <1>d
    <3> QED BY <3>1, <1>6, <1>d, <1>o, Bounds
  <2>3. \A d \in Days : truth.hour[d] <= h[d]
    BY <1>2, <2>1, <2>2
  <2> QED BY <1>4, <2>1, <2>3 DEF TruthGrows
<1>7. Types'
  BY <1>5, <1>4, <1>t, <1>u, <1>d DEF Types, Total
<1>8. MemoryIsTrue' /\ ClosedDays'
  BY <1>t, <1>u, <1>4 DEF IInv, MemoryIsTrue, ClosedDays, Forgotten, Complete, AllSeen
<1>9. KeptInMemory'
  BY <1>u, <1>4 DEF IInv, KeptInMemory, Remembered, AllSeen
<1>10. /\ \A i \in 1..MaxTicks : ticks'[i] # NoTick => TickIsTrue(ticks[i])' /\ ticks'[i].query # "none"
       /\ RowsAreTrue(stored)'
  <2>1. /\ \A t : TickIsTrue(t) => TickIsTrue(t)'
        /\ \A rows : RowsAreTrue(rows) => RowsAreTrue(rows)'
    BY <1>t, <1>7, <1>g, TruthGrown
  <2>2. ASSUME NEW i \in 1..MaxTicks, ticks'[i] # NoTick
        PROVE  TickIsTrue(ticks[i])' /\ ticks'[i].query # "none"
    <3>1. PICK t : t = ticks[i] /\ t = ticks'[i]
      BY <1>u
    <3>2. TickIsTrue(t) /\ t.query # "none"
      BY <2>2, <3>1 DEF IInv, NothingInvented
    <3> QED BY <2>1, <3>1, <3>2
  <2>3. RowsAreTrue(stored)'
    <3>1. PICK rows : rows = stored /\ rows = stored'
      BY <1>u
    <3> QED BY <2>1, <3>1, <1>t
  <2> QED BY <2>2, <2>3
<1>11. Total(open)' <= truth'.hour[day'] /\ \A d \in Days : d > day' => truth'.hour[d] = 0
  <2>1. Total(open)' = Total(open) /\ truth'.hour[day'] = h[day + 1]
    BY <1>u, <1>4 DEF Total
  <2>2. Total(open) <= Total(open)
    <3>1. PICK m \in Nat : m = Total(open)
      BY <1>o, Bounds
    <3> QED BY <3>1
  <2>3. \A d \in Days : d > day + 1 => d > day /\ d # day + 1
    BY <1>d, Bounds
  <2> QED BY <2>1, <2>2, <2>3, <1>2, <1>4, <1>6, <1>u
<1>12. NothingInvented'
  BY <1>7, <1>8, <1>10, <1>11 DEF NothingInvented
<1>13. \A i \in 1..MaxTicks : ClosesDay(ticks[i], stored, lost)'
  BY <1>u DEF ClosesDay
<1> QED BY <1>8, <1>9, <1>12, <1>13, <1>g, <1>u DEF IInv

LEMMA RestartIInv ==
    ASSUME IInv, Restart
    PROVE  IInv'
<1>t. /\ Types /\ MemoryIsTrue /\ RowsAreTrue(stored) /\ day \in Days /\ truth.hour[day] \in Nat
      /\ lost \subseteq Days /\ faults \in 0..MaxFaults
  BY Counted DEF IInv, NothingInvented, Types
<1>d. lastDate \in Nat /\ day \in Nat /\ day \in {lastDate, lastDate + 1} /\ Days \subseteq Nat
  BY <1>t, Bounds DEF IInv, Types
<1>u. /\ UNCHANGED <<day, stored, truth>> /\ lastDate' = day /\ memory' = Nothing
      /\ ticks' = [i \in 1..MaxTicks |-> NoTick] /\ open' = [r \in Rooms |-> 0]
      /\ faults' = faults + 1 /\ faults < MaxFaults
      /\ lost' = lost \union {d \in Days : memory.allPeak[d] > 0}
  BY DEF Restart
<1>0. 0 \in Count /\ {} \in SUBSET Tokens
  BY Bounds
<1>m. /\ memory' \in Memory
      /\ \A r \in Rooms, d \in Days : memory'.tokens[r][d] = {} /\ memory'.peak[r][d] = 0
      /\ \A d \in Days : memory'.allTokens[d] = {} /\ memory'.allPeak[d] = 0
  BY <1>u, <1>0 DEF Nothing, PerRoomDay, PerDay, Memory
<1>o. Total(open)' = 0
  BY <1>u, NoSockets DEF Total
<1>f. \A d \in Days : Forgotten(d)'
  BY <1>m DEF Forgotten
<1>1. Types'
  <2>1. open' \in [Rooms -> Count] /\ ticks' \in [1..MaxTicks -> Tick \cup {NoTick}]
    BY <1>u, <1>0
  <2>2. faults' \in 0..MaxFaults /\ lost' \subseteq Days /\ Total(open)' <= MaxSockets
    <3>1. faults' \in 0..MaxFaults
      BY <1>u, <1>t, Bounds
    <3>2. lost' \subseteq Days
      BY <1>u, <1>t
    <3> QED BY <3>1, <3>2, <1>o, Bounds
  <2> QED BY <1>t, <1>u, <1>m, <2>1, <2>2 DEF Types
<1>2. MemoryIsTrue'
  <2>1. \A r \in Rooms, d \in Days : truth.peak[r][d] \in Nat /\ truth.allPeak[d] \in Nat
    BY <1>t, Counted
  <2>2. \A d \in Days : truth.allPeak[d] \in Nat
    BY <1>t, Counted
  <2>3. \A r \in Rooms, d \in Days :
          memory'.tokens[r][d] \subseteq truth'.tokens[r][d] /\ memory'.peak[r][d] <= truth'.peak[r][d]
    BY <1>m, <1>u, <2>1
  <2>4. \A d \in Days : memory'.allPeak[d] <= truth'.allPeak[d]
    BY <1>m, <1>u, <2>2
  <2>5. \A d \in Days : memory'.allTokens[d] \subseteq AllSeen(d)'
    BY <1>m
  <2> QED BY <2>3, <2>4, <2>5, <1>f DEF MemoryIsTrue
<1>3. /\ \A i \in 1..MaxTicks : ticks'[i] # NoTick => TickIsTrue(ticks[i])' /\ ticks'[i].query # "none"
      /\ RowsAreTrue(stored)'
  <2>1. PICK rows : rows = stored /\ rows = stored'
    BY <1>u
  <2> QED BY <1>u, <1>t, <2>1, TruthKept
<1>4. Total(open)' <= truth'.hour[day'] /\ \A d \in Days : d > day' => truth'.hour[d] = 0
  BY <1>o, <1>t, <1>u DEF IInv, NothingInvented
<1>5. NothingInvented'
  BY <1>1, <1>2, <1>3, <1>4 DEF NothingInvented
<1>6. ASSUME NEW d \in Days, d \notin lost'
      PROVE  d \notin lost /\ ~(memory.allPeak[d] > 0) /\ Forgotten(d)
  <2>1. d \notin lost /\ ~(memory.allPeak[d] > 0)
    BY <1>6, <1>u
  <2>2. memory.allPeak[d] = 0
    BY <2>1, <1>t, Counted
  <2> QED BY <2>1, <2>2, <1>t DEF MemoryIsTrue
<1>7. KeptInMemory'
  <2> SUFFICES ASSUME NEW d \in Days, d >= day, d \notin lost' PROVE Remembered(d)'
    BY <1>u DEF KeptInMemory
  <2>1. Forgotten(d) /\ Remembered(d)
    BY <1>6, <1>d DEF IInv, KeptInMemory
  <2>2. /\ \A r \in Rooms : truth.tokens[r][d] = {} /\ truth.peak[r][d] = 0
        /\ AllSeen(d) = {} /\ truth.allPeak[d] = 0
    BY <2>1 DEF Forgotten, Remembered
  <2>3. AllSeen(d)' = AllSeen(d)
    BY <1>u DEF AllSeen
  <2>4. /\ \A r \in Rooms : memory'.tokens[r][d] = truth'.tokens[r][d] /\ memory'.peak[r][d] = truth'.peak[r][d]
        /\ memory'.allTokens[d] = AllSeen(d)' /\ memory'.allPeak[d] = truth'.allPeak[d]
    BY <2>2, <2>3, <1>m, <1>u
  <2> QED BY <2>4 DEF Remembered
<1>8. ClosedDays'
  <2> SUFFICES ASSUME NEW d \in Days, d < day, d \notin lost' PROVE Complete(d)'
    BY <1>f, <1>u DEF ClosedDays
  <2>1. Complete(d)
    <3>1. CASE d < lastDate
      BY <3>1, <1>6 DEF IInv, ClosedDays
    <3>2. CASE ~(d < lastDate)
      <4>1. d >= lastDate
        BY <3>2, <1>d
      <4>2. Remembered(d)
        BY <4>1, <1>6 DEF IInv, KeptInMemory
      <4>3. PICK rows : rows = stored
        OBVIOUS
      <4>4. Saved(rows, d)
        BY <1>6, <1>t, <4>3, NothingToSave
      <4>5. /\ \A r \in Rooms :
                 /\ rows.daily[r][d] = [peak |-> truth.peak[r][d], tokens |-> TokensSeen(r, d)]
                 /\ rows.alltime[r].peak >= rows.daily[r][d].peak
                 /\ rows.alltime[r].tokens >= rows.daily[r][d].tokens
            /\ rows.global[d] = [peak |-> truth.allPeak[d], tokens |-> Cardinality(AllSeen(d))]
        BY <1>t, <4>2, <4>3, <4>4, SavedIsComplete
      <4> QED BY <4>3, <4>5 DEF Complete, TokensSeen, AllSeen
    <3> QED BY <3>1, <3>2
  <2> QED BY <2>1, <1>u DEF Complete
<1>9. \A i \in 1..MaxTicks : ClosesDay(ticks[i], stored, lost)'
  BY <1>u DEF ClosesDay, NoTick
<1> QED BY <1>5, <1>7, <1>8, <1>9, <1>u DEF IInv

LEMMA InitIInv == Init => IInv
<1> SUFFICES ASSUME Init PROVE IInv
  OBVIOUS
<1> DEFINE none == [peak |-> 0, tokens |-> 0]
<1>i. /\ day = 1 /\ lastDate = 1 /\ open = [r \in Rooms |-> 0] /\ memory = Nothing
      /\ ticks = [i \in 1..MaxTicks |-> NoTick]
      /\ stored = [daily |-> PerRoomDay(none), alltime |-> [r \in Rooms |-> none],
                   global |-> PerDay(none), hourly |-> PerDay(0)]
      /\ truth = [tokens |-> PerRoomDay({}), peak |-> PerRoomDay(0), allPeak |-> PerDay(0),
                  hour |-> PerDay(0)]
      /\ lost = {} /\ connects = 0 /\ faults = 0
  BY DEF Init
<1>0. 0 \in Count /\ {} \in SUBSET Tokens /\ none \in PeakRow /\ none.peak = 0 /\ none.tokens = 0
  BY Bounds DEF PeakRow
<1> HIDE DEF none
<1>m. /\ memory \in Memory
      /\ \A r \in Rooms, d \in Days : memory.tokens[r][d] = {} /\ memory.peak[r][d] = 0
      /\ \A d \in Days : memory.allTokens[d] = {} /\ memory.allPeak[d] = 0
  BY <1>i, <1>0 DEF Nothing, PerRoomDay, PerDay, Memory
<1>h. /\ truth \in Truth
      /\ \A r \in Rooms, d \in Days : truth.tokens[r][d] = {} /\ truth.peak[r][d] = 0
      /\ \A d \in Days : truth.allPeak[d] = 0 /\ truth.hour[d] = 0
  BY <1>i, <1>0 DEF PerRoomDay, PerDay, Truth
<1>s. /\ stored \in Tables
      /\ \A r \in Rooms, d \in Days : stored.daily[r][d] = none
      /\ \A d \in Days : stored.global[d] = none /\ stored.hourly[d] = 0
  BY <1>i, <1>0 DEF PerRoomDay, PerDay, Tables
<1>o. Total(open) = 0
  BY <1>i, NoSockets
<1>a. \A d \in Days : AllSeen(d) = {}
  BY <1>h DEF AllSeen
<1>1. Types
  <2>1. open \in [Rooms -> Count] /\ ticks \in [1..MaxTicks -> Tick \cup {NoTick}]
    BY <1>i, <1>0
  <2>2. faults \in 0..MaxFaults /\ lost \subseteq Days /\ Total(open) <= MaxSockets
    BY <1>i, <1>o, Bounds
  <2> QED BY <1>i, <1>m, <1>h, <1>s, <2>1, <2>2, Bounds DEF Types
<1>2. MemoryIsTrue
  BY <1>m, <1>h DEF MemoryIsTrue, Forgotten
<1>3. RowsAreTrue(stored)
  <2>1. Cardinality({}) = 0
    BY FS_EmptySet
  <2>2. ASSUME NEW r \in Rooms, NEW d \in Days
        PROVE  /\ stored.daily[r][d].peak <= truth.peak[r][d]
               /\ stored.daily[r][d].tokens <= TokensSeen(r, d)
    <3>1. stored.daily[r][d].peak = 0 /\ stored.daily[r][d].tokens = 0
      BY <1>s, <1>0
    <3>2. truth.peak[r][d] = 0 /\ TokensSeen(r, d) = 0
      BY <1>h, <2>1 DEF TokensSeen
    <3> QED BY <3>1, <3>2
  <2>3. ASSUME NEW d \in Days
        PROVE  /\ stored.global[d].peak <= truth.allPeak[d]
               /\ stored.global[d].tokens <= Cardinality(AllSeen(d))
               /\ stored.hourly[d] <= truth.hour[d]
    BY <1>s, <1>h, <1>a, <1>0, <2>1
  <2> QED BY <1>s, <2>2, <2>3 DEF RowsAreTrue
<1>4. Total(open) <= truth.hour[day] /\ \A d \in Days : d > day => truth.hour[d] = 0
  BY <1>i, <1>o, <1>h, Bounds
<1>5. NothingInvented
  BY <1>1, <1>2, <1>3, <1>4, <1>i DEF NothingInvented
<1>6. KeptInMemory
  BY <1>m, <1>h, <1>a DEF KeptInMemory, Remembered
<1>7. ClosedDays
  BY <1>i, Bounds DEF ClosedDays, Days
<1>8. \A i \in 1..MaxTicks : ClosesDay(ticks[i], stored, lost)
  BY <1>i DEF ClosesDay, NoTick
<1>9. day \in {lastDate, lastDate + 1}
  BY <1>i
<1> QED BY <1>5, <1>6, <1>7, <1>8, <1>9 DEF IInv

LEMMA StutterIInv ==
    ASSUME IInv, UNCHANGED vars
    PROVE  IInv'
<1>u. UNCHANGED <<day, open, memory, lastDate, ticks, stored, truth, lost, faults>>
  BY DEF vars
<1>1. Types' /\ (Total(open)' <= truth'.hour[day'] /\ \A d \in Days : d > day' => truth'.hour[d] = 0)
  BY <1>u DEF IInv, NothingInvented, Types, Total
<1>2. MemoryIsTrue' /\ KeptInMemory' /\ ClosedDays'
  BY <1>u DEF IInv, NothingInvented, MemoryIsTrue, KeptInMemory, ClosedDays, Remembered, Forgotten,
              Complete, AllSeen
<1>3. ASSUME NEW i \in 1..MaxTicks, ticks'[i] # NoTick
      PROVE  TickIsTrue(ticks[i])' /\ ticks'[i].query # "none"
  <2>1. PICK t : t = ticks[i] /\ t = ticks'[i]
    BY <1>u
  <2>2. TickIsTrue(t) /\ t.query # "none"
    BY <1>3, <2>1 DEF IInv, NothingInvented
  <2> QED BY <1>u, <2>1, <2>2, TruthKept
<1>4. RowsAreTrue(stored)'
  <2>1. PICK rows : rows = stored /\ rows = stored'
    BY <1>u
  <2> QED BY <1>u, <2>1, TruthKept DEF IInv, NothingInvented
<1>5. \A i \in 1..MaxTicks : ClosesDay(ticks[i], stored, lost)'
  BY <1>u DEF IInv, ClosesDay, RoomSafe, GlobalSafe, Has, Carries
<1> QED BY <1>1, <1>2, <1>3, <1>4, <1>5, <1>u DEF IInv, NothingInvented

LEMMA NextIInv == IInv /\ [Next]_vars => IInv'
<1> SUFFICES ASSUME IInv, [Next]_vars PROVE IInv'
  OBVIOUS
<1>1. ASSUME NEW r \in Rooms, NEW k \in TokensOf[r], Connect(r, k) PROVE IInv'
  BY <1>1, ConnectIInv
<1>2. ASSUME NEW r \in Rooms, Disconnect(r) PROVE IInv'
  BY <1>2, DisconnectIInv
<1>3. CASE NextDay
  BY <1>3, NextDayIInv
<1>4. CASE Restart
  BY <1>4, RestartIInv
<1>5. ASSUME NEW i \in 1..MaxTicks, StartTick(i) PROVE IInv'
  BY <1>5, StartTickIInv
<1>6. ASSUME NEW i \in 1..MaxTicks, Answer(i) PROVE IInv'
  BY <1>6, AnswerIInv
<1>7. ASSUME NEW i \in 1..MaxTicks, Fail(i) PROVE IInv'
  BY <1>7, FailIInv
<1>8. CASE UNCHANGED vars
  BY <1>8, StutterIInv
<1> QED BY <1>1, <1>2, <1>3, <1>4, <1>5, <1>6, <1>7, <1>8 DEF Next

-----------------------------------------------------------------------------
(* What follows *)

THEOREM AlwaysIInv == Spec => []IInv
BY InitIInv, NextIInv, PTL DEF Spec

LEMMA IInvCloses == IInv => ClosedDaysAreComplete
<1> SUFFICES ASSUME IInv PROVE ClosedDaysAreComplete
  OBVIOUS
<1>1. Types
  BY DEF IInv, NothingInvented
<1>2. TypeOK
  <2>1. \A i \in 1..MaxTicks : ticks[i] \in Tick \cup {NoTick}
    BY <1>1 DEF Types
  <2>2. \A t \in Tick \cup {NoTick} : t.query \in {"none", "daily", "alltime", "global"}
    BY DEF Tick, NoTick
  <2> QED BY <1>1, <2>1, <2>2 DEF Types, TypeOK, Memory
<1> QED BY <1>2 DEF IInv, ClosedDays, ClosedDaysAreComplete

(* Once the cron has turned the page on a day, memory holds nothing of it and, unless *)
(* a restart, a query that failed in the midnight flush or a second midnight tick     *)
(* took something away, its rows are exactly what happened, whatever ticks overlapped *)
(* it (analyticsCron.ts:101-105).                                                     *)
THEOREM ClosedDaysStayComplete == Spec => []ClosedDaysAreComplete
BY AlwaysIInv, IInvCloses, PTL

LEMMA MarkCases ==
    ASSUME NEW m \in Marks
    PROVE  \/ \E r \in Rooms, d \in Days : m = <<"peak", r, d>> \/ m = <<"tokens", r, d>>
           \/ \E d \in Days : m = <<"peak of all", d>> \/ m = <<"tokens of all", d>> \/ m = <<"hour", d>>
<1>1. CASE m \in {"peak", "tokens"} \X Rooms \X Days
  <2>1. PICK x \in {"peak", "tokens"}, r \in Rooms, d \in Days : m = <<x, r, d>>
    BY <1>1
  <2> QED BY <2>1
<1>2. CASE m \in {"peak of all", "tokens of all", "hour"} \X Days
  <2>1. PICK names : names = {"peak of all", "tokens of all", "hour"}
    OBVIOUS
  <2>2. m \in names \X Days
    BY <1>2, <2>1
  <2>3. PICK x \in names, d \in Days : m = <<x, d>>
    BY <2>2
  <2> QED BY <2>1, <2>3
<1> QED BY <1>1, <1>2 DEF Marks

\* More happens, and nothing is written.
LEMMA GrowthIsARise ==
    ASSUME Types, Types', TruthGrows, UNCHANGED stored
    PROVE  HW!Rise
<1>1. ASSUME NEW m \in Marks PROVE Reached(m) <= Reached(m)'
  <2>1. ASSUME NEW r \in Rooms, NEW d \in Days, m = <<"peak", r, d>> PROVE Reached(m) <= Reached(m)'
    <3>1. Reached(m) = truth.peak[r][d] /\ Reached(m)' = truth'.peak[r][d]
      BY <2>1 DEF Reached
    <3> QED BY <3>1 DEF TruthGrows
  <2>2. ASSUME NEW r \in Rooms, NEW d \in Days, m = <<"tokens", r, d>> PROVE Reached(m) <= Reached(m)'
    <3>1. Reached(m) = TokensSeen(r, d) /\ Reached(m)' = TokensSeen(r, d)'
      BY <2>2 DEF Reached, TokensSeen
    <3> QED BY <3>1, GrowthCounts
  <2>3. ASSUME NEW d \in Days, m = <<"peak of all", d>> PROVE Reached(m) <= Reached(m)'
    <3>1. Reached(m) = truth.allPeak[d] /\ Reached(m)' = truth'.allPeak[d]
      BY <2>3 DEF Reached
    <3> QED BY <3>1 DEF TruthGrows
  <2>4. ASSUME NEW d \in Days, m = <<"tokens of all", d>> PROVE Reached(m) <= Reached(m)'
    <3>1. Reached(m) = Cardinality(AllSeen(d)) /\ Reached(m)' = Cardinality(AllSeen(d)')
      BY <2>4 DEF Reached, AllSeen
    <3> QED BY <3>1, GrowthCounts
  <2>5. ASSUME NEW d \in Days, m = <<"hour", d>> PROVE Reached(m) <= Reached(m)'
    <3>1. Reached(m) = truth.hour[d] /\ Reached(m)' = truth'.hour[d]
      BY <2>5 DEF Reached
    <3> QED BY <3>1 DEF TruthGrows
  <2> QED BY <2>1, <2>2, <2>3, <2>4, <2>5, MarkCases
<1>2. \A m \in Marks : Told(m)' = Told(m)
  BY DEF Told
<1> QED BY <1>1, <1>2 DEF HW!Rise, HW!Rises

\* Rows rise towards what happened.
LEMMA WritingIsAReport ==
    ASSUME Types, Types', UNCHANGED truth, RowsRise(stored, stored'), RowsAreTrue(stored)'
    PROVE  HW!Report
<1>1. ASSUME NEW m \in Marks PROVE Told(m) <= Told(m)' /\ Told(m)' <= Reached(m)
  <2>1. ASSUME NEW r \in Rooms, NEW d \in Days, m = <<"peak", r, d>>
        PROVE  Told(m) <= Told(m)' /\ Told(m)' <= Reached(m)
    <3>1. /\ Told(m) = stored.daily[r][d].peak /\ Told(m)' = stored'.daily[r][d].peak
          /\ Reached(m) = truth.peak[r][d]
      BY <2>1 DEF Told, Reached
    <3>2. /\ stored.daily[r][d].peak <= stored'.daily[r][d].peak
          /\ stored'.daily[r][d].peak <= truth'.peak[r][d]
      BY DEF RowsRise, RowsAreTrue
    <3> QED BY <3>1, <3>2
  <2>2. ASSUME NEW r \in Rooms, NEW d \in Days, m = <<"tokens", r, d>>
        PROVE  Told(m) <= Told(m)' /\ Told(m)' <= Reached(m)
    <3>1. /\ Told(m) = stored.daily[r][d].tokens /\ Told(m)' = stored'.daily[r][d].tokens
          /\ Reached(m) = Cardinality(truth.tokens[r][d])
      BY <2>2 DEF Told, Reached
    <3>2. /\ stored.daily[r][d].tokens <= stored'.daily[r][d].tokens
          /\ stored'.daily[r][d].tokens <= Cardinality(truth'.tokens[r][d])
      BY DEF RowsRise, RowsAreTrue, TokensSeen
    <3> QED BY <3>1, <3>2
  <2>3. ASSUME NEW d \in Days, m = <<"peak of all", d>>
        PROVE  Told(m) <= Told(m)' /\ Told(m)' <= Reached(m)
    <3>1. /\ Told(m) = stored.global[d].peak /\ Told(m)' = stored'.global[d].peak
          /\ Reached(m) = truth.allPeak[d]
      BY <2>3 DEF Told, Reached
    <3>2. stored.global[d].peak <= stored'.global[d].peak /\ stored'.global[d].peak <= truth'.allPeak[d]
      BY DEF RowsRise, RowsAreTrue
    <3> QED BY <3>1, <3>2
  <2>4. ASSUME NEW d \in Days, m = <<"tokens of all", d>>
        PROVE  Told(m) <= Told(m)' /\ Told(m)' <= Reached(m)
    <3>1. /\ Told(m) = stored.global[d].tokens /\ Told(m)' = stored'.global[d].tokens
          /\ Reached(m) = Cardinality(AllSeen(d))
      BY <2>4 DEF Told, Reached, AllSeen
    <3>2. /\ stored.global[d].tokens <= stored'.global[d].tokens
          /\ stored'.global[d].tokens <= Cardinality(AllSeen(d)')
      BY DEF RowsRise, RowsAreTrue, AllSeen
    <3>3. AllSeen(d)' = AllSeen(d)
      BY DEF AllSeen
    <3> QED BY <3>1, <3>2, <3>3
  <2>5. ASSUME NEW d \in Days, m = <<"hour", d>>
        PROVE  Told(m) <= Told(m)' /\ Told(m)' <= Reached(m)
    <3>1. /\ Told(m) = stored.hourly[d] /\ Told(m)' = stored'.hourly[d] /\ Reached(m) = truth.hour[d]
      BY <2>5 DEF Told, Reached
    <3>2. stored.hourly[d] <= stored'.hourly[d] /\ stored'.hourly[d] <= truth'.hour[d]
      BY DEF RowsRise, RowsAreTrue
    <3> QED BY <3>1, <3>2
  <2> QED BY <2>1, <2>2, <2>3, <2>4, <2>5, MarkCases
<1>2. \A m \in Marks : Reached(m)' = Reached(m)
  BY DEF Reached
<1> QED BY <1>1, <1>2 DEF HW!Report, HW!Rises

LEMMA StepsAreMarks == IInv /\ IInv' /\ [Next]_vars => [HW!Next]_(HW!vars)
<1> SUFFICES ASSUME IInv, IInv', [Next]_vars PROVE HW!Next \/ UNCHANGED HW!vars
  OBVIOUS
<1>t. Types /\ Types' /\ RowsAreTrue(stored)'
  BY DEF IInv, NothingInvented
<1>k. ASSUME UNCHANGED <<stored, truth>> PROVE UNCHANGED HW!vars
  <2>1. \A m \in Marks : Reached(m)' = Reached(m) /\ Told(m)' = Told(m)
    BY <1>k DEF Reached, Told
  <2> QED BY <2>1 DEF HW!vars
<1>1. ASSUME NEW r \in Rooms, NEW k \in TokensOf[r], Connect(r, k) PROVE HW!Next
  <2>1. TruthGrows /\ UNCHANGED stored
    BY <1>1, ConnectIInv DEF Connect
  <2> QED BY <2>1, <1>t, GrowthIsARise DEF HW!Next
<1>2. ASSUME NEW r \in Rooms, Disconnect(r) PROVE UNCHANGED HW!vars
  BY <1>2, <1>k DEF Disconnect
<1>3. CASE NextDay
  <2>1. TruthGrows /\ UNCHANGED stored
    BY <1>3, NextDayIInv DEF NextDay
  <2> QED BY <2>1, <1>t, GrowthIsARise DEF HW!Next
<1>4. CASE Restart
  BY <1>4, <1>k DEF Restart
<1>5. ASSUME NEW i \in 1..MaxTicks, StartTick(i) \/ Answer(i) \/ Fail(i) PROVE HW!Next
  <2>1. UNCHANGED truth /\ RowsRise(stored, stored')
    BY <1>5, StartTickIInv, AnswerIInv, FailIInv
  <2> QED BY <2>1, <1>t, WritingIsAReport DEF HW!Next
<1>6. CASE UNCHANGED vars
  BY <1>6, <1>k DEF vars
<1> QED BY <1>1, <1>2, <1>3, <1>4, <1>5, <1>6 DEF Next

LEMMA InitIsMarks == Init => HW!Init
<1> SUFFICES ASSUME Init PROVE HW!Init
  OBVIOUS
<1>1. /\ \A r \in Rooms, d \in Days :
           /\ truth.tokens[r][d] = {} /\ truth.peak[r][d] = 0
           /\ stored.daily[r][d] = [peak |-> 0, tokens |-> 0]
      /\ \A d \in Days : /\ truth.allPeak[d] = 0 /\ truth.hour[d] = 0
                         /\ stored.global[d] = [peak |-> 0, tokens |-> 0] /\ stored.hourly[d] = 0
  BY DEF Init, PerRoomDay, PerDay
<1>2. Cardinality({}) = 0
  BY FS_EmptySet
<1>3. /\ \A r \in Rooms, d \in Days : TokensSeen(r, d) = 0
      /\ \A d \in Days : Cardinality(AllSeen(d)) = 0
  <2>1. \A d \in Days : AllSeen(d) = {}
    BY <1>1 DEF AllSeen
  <2> QED BY <1>1, <1>2, <2>1 DEF TokensSeen
<1>4. ASSUME NEW m \in Marks PROVE Reached(m) = 0 /\ Told(m) = 0
  <2>1. ASSUME NEW r \in Rooms, NEW d \in Days, m = <<"peak", r, d>>
        PROVE  Reached(m) = 0 /\ Told(m) = 0
    BY <2>1, <1>1 DEF Reached, Told
  <2>2. ASSUME NEW r \in Rooms, NEW d \in Days, m = <<"tokens", r, d>>
        PROVE  Reached(m) = 0 /\ Told(m) = 0
    BY <2>2, <1>1, <1>3 DEF Reached, Told, TokensSeen
  <2>3. ASSUME NEW d \in Days, m = <<"peak of all", d>> PROVE Reached(m) = 0 /\ Told(m) = 0
    <3>1. Reached(m) = truth.allPeak[d] /\ Told(m) = stored.global[d].peak
      BY <2>3 DEF Reached, Told
    <3> QED BY <3>1, <1>1
  <2>4. ASSUME NEW d \in Days, m = <<"tokens of all", d>> PROVE Reached(m) = 0 /\ Told(m) = 0
    <3>1. Reached(m) = Cardinality(AllSeen(d)) /\ Told(m) = stored.global[d].tokens
      BY <2>4 DEF Reached, Told, AllSeen
    <3> QED BY <3>1, <1>1, <1>3
  <2>5. ASSUME NEW d \in Days, m = <<"hour", d>> PROVE Reached(m) = 0 /\ Told(m) = 0
    BY <2>5, <1>1 DEF Reached, Told
  <2> QED BY <2>1, <2>2, <2>3, <2>4, <2>5, MarkCases
<1> QED BY <1>4 DEF HW!Init

(* The rows of a room and day, of the server's day and of its hours are high-water    *)
(* marks of what happened: every step of the cron, however ticks overlap, repeat,     *)
(* fail or are cut off by a restart, raises a row towards what was reached and never  *)
(* over it, and no step lowers one (GREATEST in flushConcurrencyStats,                *)
(* flushGlobalConcurrencyStats and flushHourlyConnections).                           *)
THEOREM RowsStayHighWaterMarks == Spec => RowsAreHighWaterMarks
BY AlwaysIInv, InitIsMarks, StepsAreMarks, PTL DEF Spec, RowsAreHighWaterMarks, HW!Spec

=============================================================================
