------------------------------ MODULE RoomProofs ------------------------------
(***************************************************************************)
(* The rows of a room for every catalogue, every supply of ids and every   *)
(* import.                                                                 *)
(*                                                                         *)
(* First handlers that run alone.  IInv is their inductive invariant, of   *)
(* new rooms and of rooms from before multi-chain support alike; a lemma   *)
(* for each action shows that it is preserved, and the theorems read the   *)
(* properties off.  Numbered adds what only rooms the current server       *)
(* creates can promise.                                                    *)
(*                                                                         *)
(* Then handlers interleaved at their awaits, for any number of requests.  *)
(* What survives every interleaving is less: Rows, not IInv.  It is kept   *)
(* by every single statement, whatever its request read before, because    *)
(* the foreign keys and the lock on the rooms row are evaluated when the   *)
(* statement runs.                                                         *)
(***************************************************************************)
EXTENDS RoomInterleaved, TLAPS

IInv ==
    /\ TypeOK
    /\ HomeHasChain
    /\ RowsNameLiveChains
    /\ ConnectionsHaveChains
    /\ DeletedRoomKeepsNothing

\* The part of it that a single statement of a handler keeps, whatever others
\* run before and after it.
Rows == TypeOK /\ RowsNameLiveChains /\ DeletedRoomKeepsNothing

LEMMA LiveFacts ==
    ASSUME TypeOK, NEW c \in ChainId
    PROVE  /\ c \in Live <=> source[c] # None
           /\ c \in Live => source[c] \in Zone
BY DEF TypeOK, Live

-----------------------------------------------------------------------------
LEMMA EmptyIInv == Empty => IInv
<1> SUFFICES ASSUME Empty PROVE IInv
  OBVIOUS
<1> USE ConstantsOK DEF Empty
<1>1. TypeOK
  BY DEF TypeOK
<1>2. Live = {}
  BY DEF Live
<1>3. HomeHasChain /\ ConnectionsHaveChains
  BY <1>2 DEF HomeHasChain, ConnectionsHaveChains
<1>4. RowsNameLiveChains
  BY DEF RowsNameLiveChains
<1>5. DeletedRoomKeepsNothing
  BY DEF DeletedRoomKeepsNothing
<1> QED
  BY <1>1, <1>3, <1>4, <1>5 DEF IInv

LEMMA LegacyIInv == LegacyInit => IInv
<1> SUFFICES ASSUME LegacyInit PROVE IInv
  OBVIOUS
<1> USE ConstantsOK DEF LegacyInit
<1>1. TypeOK
  BY DEF TypeOK, Connection
<1>2. RowsNameLiveChains
  <2>1. \A k \in conns : k.chain = None
    OBVIOUS
  <2> QED BY <2>1 DEF RowsNameLiveChains
<1>3. HomeHasChain /\ ConnectionsHaveChains /\ DeletedRoomKeepsNothing
  BY DEF HomeHasChain, ConnectionsHaveChains, DeletedRoomKeepsNothing
<1> QED
  BY <1>1, <1>2, <1>3 DEF IInv

LEMMA CreateRoomIInv ==
    ASSUME Rows, NEW z \in Zone, NEW c \in ChainId, CreateRoom(z, c)
    PROVE  IInv'
<1> USE ConstantsOK DEF CreateRoom
<1>e. Empty
  BY DEF Rows, DeletedRoomKeepsNothing
<1>1. TypeOK'
  BY DEF Rows, TypeOK
<1>l. Live' = {c}
  BY <1>e DEF Live, Empty
<1>2. DeletedRoomKeepsNothing'
  BY DEF DeletedRoomKeepsNothing
<1>3. HomeHasChain'
  BY <1>l, <1>e DEF HomeHasChain, Empty
<1>5. RowsNameLiveChains' /\ ConnectionsHaveChains'
  BY <1>l, <1>e DEF RowsNameLiveChains, ConnectionsHaveChains, Empty
<1> QED
  BY <1>1, <1>2, <1>3, <1>5 DEF IInv

LEMMA DeleteRoomIInv ==
    ASSUME DeleteRoom
    PROVE  IInv'
BY ConstantsOK DEF DeleteRoom, Empty, IInv, TypeOK, HomeHasChain, RowsNameLiveChains,
       ConnectionsHaveChains, DeletedRoomKeepsNothing, Live

LEMMA ResetRows ==
    ASSUME Rows, Reset
    PROVE  Rows' /\ Live' = Live
<1> USE ConstantsOK
<1>0. PICK owner \in [Zone -> ChainId] :
        /\ \A z \in Zone : IsSource(z) => source[owner[z]] = z
        /\ chainOf' = [z \in Zone |-> IF IsSource(z) THEN owner[z]
                                      ELSE IF z = home THEN chainOf[z]
                                      ELSE Absent]
  BY DEF Reset
<1>1. TypeOK'
  BY <1>0 DEF Reset, Rows, TypeOK
<1>l. Live' = Live
  BY DEF Reset, Live
<1>3. RowsNameLiveChains'
  <2>1. SUFFICES ASSUME NEW z \in Zone, chainOf'[z] \in ChainId
                 PROVE  chainOf'[z] \in Live
    BY <1>l DEF RowsNameLiveChains, Reset
  <2>2. CASE IsSource(z)
    BY <2>1, <2>2, <1>0 DEF Live, Rows, TypeOK
  <2>3. CASE ~IsSource(z)
    BY <2>1, <2>3, <1>0 DEF Rows, RowsNameLiveChains
  <2> QED BY <2>2, <2>3
<1>4. DeletedRoomKeepsNothing'
  BY DEF Reset, DeletedRoomKeepsNothing
<1> QED
  BY <1>1, <1>l, <1>3, <1>4 DEF Rows

LEMMA ResetIInv ==
    ASSUME IInv, Reset
    PROVE  IInv'
<1>1. Rows' /\ Live' = Live
  BY ResetRows DEF IInv, Rows
<1>2. HomeHasChain'
  BY <1>1 DEF Reset, IInv, HomeHasChain
<1>3. ConnectionsHaveChains'
  BY DEF Reset, ConnectionsHaveChains
<1> QED
  BY <1>1, <1>2, <1>3 DEF IInv, Rows

LEMMA ImportIInv ==
    ASSUME NEW p \in Imports, Import(p)
    PROVE  IInv'
<1> USE ConstantsOK
<1>p. /\ p.sources \in Seq(Zone) /\ p.links \subseteq Zone \X Zone /\ p.placed \subseteq Zone
      /\ p.history \subseteq Zone
      /\ 1 \in 1..Len(p.sources) /\ Len(p.sources) \in Nat /\ p.sources[1] \in Zone
      /\ \A i \in 1..Len(p.sources) : p.sources[i] \in Zone
  <2>1. p \in ImportBody /\ p.sources # <<>>
    BY ImportsOK
  <2> QED BY <2>1 DEF ImportBody
<1>c. PICK claim \in [Zone -> 1..Len(p.sources)] :
        \E slot \in [ChainId -> 0..Len(p.sources)] :
          /\ Numbers(p, slot)
          /\ number' = slot
          /\ source' = [c \in ChainId |-> IF slot[c] = 0 THEN None ELSE p.sources[slot[c]]]
          /\ \E owner \in [Zone -> ChainId], id \in [p.links -> ConnId] :
             /\ \A z \in Zone : slot[owner[z]] = claim[z]
             /\ \A l, m \in p.links : id[l] = id[m] => l = m
             /\ chainOf' = [z \in Zone |-> IF z \in p.placed THEN owner[z] ELSE Absent]
             /\ conns' = ImportedConnections(p, id, owner)
  BY Zenon DEF Import
<1>0. PICK slot \in [ChainId -> 0..Len(p.sources)] :
        /\ Numbers(p, slot)
        /\ number' = slot
        /\ source' = [c \in ChainId |-> IF slot[c] = 0 THEN None ELSE p.sources[slot[c]]]
        /\ \E owner \in [Zone -> ChainId], id \in [p.links -> ConnId] :
             /\ \A z \in Zone : slot[owner[z]] = claim[z]
             /\ \A l, m \in p.links : id[l] = id[m] => l = m
             /\ chainOf' = [z \in Zone |-> IF z \in p.placed THEN owner[z] ELSE Absent]
             /\ conns' = ImportedConnections(p, id, owner)
  BY <1>c
<1>1. PICK owner \in [Zone -> ChainId], id \in [p.links -> ConnId] :
        /\ \A z \in Zone : slot[owner[z]] = claim[z]
        /\ chainOf' = [z \in Zone |-> IF z \in p.placed THEN owner[z] ELSE Absent]
        /\ conns' = ImportedConnections(p, id, owner)
  BY <1>0
<1>h. home' = p.sources[1] /\ memory' = p.history \cap Roads /\ migrated' = TRUE
  BY DEF Import
<1>2. TypeOK'
  <2>1. home' \in Zone /\ migrated' \in BOOLEAN /\ memory' \subseteq Zone
    BY <1>p, <1>h
  <2>2. source' \in [ChainId -> Zone \cup {None}] /\ number' \in [ChainId -> Nat]
    BY <1>p, <1>0
  <2>3. chainOf' \in [Zone -> ChainId \cup {None, Absent}]
    BY <1>1
  <2>4. conns' \subseteq Connection
    BY <1>p, <1>1 DEF ImportedConnections, Connection
  <2> QED BY <2>1, <2>2, <2>3, <2>4 DEF TypeOK
<1>l. \A c \in ChainId : c \in Live' <=> slot[c] # 0
  <2> TAKE c \in ChainId
  <2>1. source'[c] = IF slot[c] = 0 THEN None ELSE p.sources[slot[c]]
    BY <1>0
  <2>2. slot[c] # 0 => p.sources[slot[c]] \in Zone
    BY <1>p, <1>0
  <2> QED BY <2>1, <2>2 DEF Live
<1>o. \A z \in Zone : owner[z] \in Live'
  BY <1>1, <1>l, <1>p
<1>3. HomeHasChain'
  <2>1. PICK c \in ChainId : slot[c] = 1
    BY <1>0, <1>p DEF Numbers
  <2>2. c \in Live'
    BY <2>1, <1>l
  <2>3. source'[c] = p.sources[1]
    BY <2>1, <1>0
  <2> QED BY <2>2, <2>3, <1>h DEF HomeHasChain
<1>5. RowsNameLiveChains'
  BY <1>1, <1>o, <1>p DEF RowsNameLiveChains, ImportedConnections
<1>6. ConnectionsHaveChains'
  BY <1>1, <1>p DEF ConnectionsHaveChains, ImportedConnections
<1>7. DeletedRoomKeepsNothing'
  BY <1>h, <1>p DEF DeletedRoomKeepsNothing
<1> QED
  BY <1>2, <1>3, <1>5, <1>6, <1>7 DEF IInv

LEMMA MigrateIInv ==
    ASSUME IInv, NEW c \in ChainId, Migrate(c)
    PROVE  IInv'
<1> USE ConstantsOK DEF Migrate
<1>1. TypeOK'
  <2>1. conns' \subseteq Connection
    BY DEF Adopted, Connection, IInv, TypeOK
  <2> QED BY <2>1 DEF IInv, TypeOK
<1>l. Live' = Live \cup {c}
  BY DEF Live, IInv, TypeOK
<1>2. HomeHasChain'
  BY <1>l DEF HomeHasChain, IInv, TypeOK
<1>k. \A k \in conns' : k.chain = c \/ \E l \in conns : k.chain = l.chain /\ l.chain # None
  BY DEF Adopted, IInv, TypeOK, Connection
<1>3. RowsNameLiveChains'
  <2>1. \A z \in Zone : chainOf'[z] \in {chainOf[z], c}
    OBVIOUS
  <2> QED BY <2>1, <1>k, <1>l DEF RowsNameLiveChains, IInv
<1>4. ConnectionsHaveChains' /\ DeletedRoomKeepsNothing'
  BY <1>k DEF ConnectionsHaveChains, DeletedRoomKeepsNothing
<1> QED
  BY <1>1, <1>2, <1>3, <1>4 DEF IInv

-----------------------------------------------------------------------------
\* The actions that leave the room and its chains alone owe only what they do
\* to the nodes, the connections and the history.
LEMMA SameChains ==
    ASSUME IInv, home # None, UNCHANGED <<home, migrated, source, number>>,
           TypeOK', RowsNameLiveChains', ConnectionsHaveChains'
    PROVE  IInv'
<1>1. Live' = Live
  BY DEF Live
<1>2. HomeHasChain'
  BY <1>1 DEF IInv, HomeHasChain
<1>3. DeletedRoomKeepsNothing'
  BY DEF IInv, DeletedRoomKeepsNothing
<1> QED
  BY <1>2, <1>3 DEF IInv

\* ... and when they only take rows away, or sever none, nothing at all.
LEMMA FewerRows ==
    ASSUME IInv, home # None, UNCHANGED <<home, migrated, source, number>>,
           chainOf' \in [Zone -> ChainId \cup {None, Absent}],
           \A z \in Zone : chainOf'[z] \in {chainOf[z], None, Absent},
           conns' \subseteq conns, memory' \subseteq Zone
    PROVE  IInv'
<1> USE ConstantsOK
<1>l. Live' = Live
  BY DEF Live
<1>1. TypeOK'
  BY DEF IInv, TypeOK
<1>2. RowsNameLiveChains'
  BY <1>l DEF IInv, RowsNameLiveChains
<1>3. ConnectionsHaveChains'
  BY DEF IInv, ConnectionsHaveChains
<1> QED
  BY <1>1, <1>2, <1>3, SameChains

LEMMA UpdateNodePositionsIInv ==
    ASSUME IInv, NEW S \in SUBSET Zone, UpdateNodePositions(S)
    PROVE  IInv'
<1> USE ConstantsOK DEF UpdateNodePositions, Remember
<1>1. chainOf' \in [Zone -> ChainId \cup {None, Absent}]
  BY DEF IInv, TypeOK
<1>2. \A z \in Zone : chainOf'[z] \in {chainOf[z], None, Absent}
  OBVIOUS
<1>3. memory' \subseteq Zone
  BY DEF IInv, TypeOK
<1> QED
  BY <1>1, <1>2, <1>3, FewerRows

LEMMA RotateZoneIInv ==
    ASSUME IInv, NEW z \in Zone, RotateZone(z)
    PROVE  IInv'
BY FewerRows DEF RotateZone, Remember, IInv, TypeOK

LEMMA DeleteNodeIInv ==
    ASSUME IInv, NEW z \in Zone, DeleteNode(z)
    PROVE  IInv'
BY FewerRows DEF DeleteNode, Unplace, IInv, TypeOK

LEMMA WipeMemoryIInv ==
    ASSUME IInv, WipeMemory
    PROVE  IInv'
BY FewerRows DEF WipeMemory, IInv, TypeOK

LEMMA DeleteMemoryIInv ==
    ASSUME IInv, NEW z \in Zone, DeleteMemory(z)
    PROVE  IInv'
<1>1. CASE home # None
  BY <1>1, FewerRows DEF DeleteMemory, IInv, TypeOK
<1>2. CASE home = None
  <2>1. Empty'
    BY <1>2 DEF DeleteMemory, IInv, DeletedRoomKeepsNothing, Empty
  <2> QED BY <2>1, EmptyIInv, PTL
<1> QED BY <1>1, <1>2

-----------------------------------------------------------------------------
LEMMA CreateConnectionIInv ==
    ASSUME IInv, NEW f \in Zone, NEW t \in Zone, NEW place \in BOOLEAN, NEW i \in ConnId,
           CreateConnection(f, t, place, i)
    PROVE  IInv'
<1> USE ConstantsOK DEF CreateConnection, MayConnect, Remember
<1>l. Live' = Live
  BY DEF Live
<1>1. TypeOK'
  <2>1. conns' \subseteq Connection
    BY DEF IInv, TypeOK, Connection
  <2>2. chainOf' \in [Zone -> ChainId \cup {None, Absent}]
    BY DEF IInv, TypeOK
  <2>3. memory' \subseteq Zone
    BY DEF IInv, TypeOK
  <2> QED BY <2>1, <2>2, <2>3 DEF IInv, TypeOK
<1>f. chainOf[f] \in Live
  BY DEF IInv, RowsNameLiveChains
<1>2. RowsNameLiveChains'
  <2>1. \A z \in Zone : chainOf'[z] \in {chainOf[z], chainOf[f]}
    BY DEF IInv, TypeOK
  <2>2. \A k \in conns' : k \in conns \/ k.chain = chainOf[f]
    OBVIOUS
  <2> QED BY <2>1, <2>2, <1>f, <1>l DEF IInv, RowsNameLiveChains
<1>3. ConnectionsHaveChains'
  BY DEF IInv, ConnectionsHaveChains
<1> QED
  BY <1>1, <1>2, <1>3, SameChains

LEMMA BulkDeleteIInv ==
    ASSUME IInv, NEW I, BulkDelete(I)
    PROVE  IInv'
<1>1. home # None
  BY DEF BulkDelete, IInv, DeletedRoomKeepsNothing, Empty
<1> QED
  BY <1>1, FewerRows DEF BulkDelete, Unplace, IInv, TypeOK

LEMMA ExpireConnectionsIInv ==
    ASSUME IInv, NEW K \in SUBSET conns, ExpireConnections(K)
    PROVE  IInv'
<1>1. home # None
  BY DEF ExpireConnections, IInv, DeletedRoomKeepsNothing, Empty
<1> QED
  BY <1>1, FewerRows DEF ExpireConnections, IInv, TypeOK

-----------------------------------------------------------------------------
LEMMA AddChainIInv ==
    ASSUME IInv, NEW z \in Zone, NEW c \in ChainId, AddChain(z, c)
    PROVE  IInv'
<1> USE ConstantsOK
<1>n. PICK n \in 0..(MaxChainNumber - 1) :
        /\ \A d \in ChainId : number[d] <= n
        /\ number' = [number EXCEPT ![c] = n + 1]
  BY DEF AddChain, HighestNumber
<1>m. n \in Nat
  OBVIOUS
<1>1. TypeOK'
  BY <1>n, <1>m DEF AddChain, IInv, TypeOK
<1>l. Live' = Live \cup {c}
  BY DEF AddChain, Live, IInv, TypeOK
<1>c. c \notin Live
  BY DEF AddChain, Live
<1>2. HomeHasChain'
  BY <1>l, <1>c DEF AddChain, IInv, TypeOK, HomeHasChain
<1>4. RowsNameLiveChains'
  <2>1. \A y \in Zone : chainOf'[y] \in {chainOf[y], c}
    BY DEF AddChain, IInv, TypeOK
  <2> QED BY <2>1, <1>l DEF AddChain, IInv, RowsNameLiveChains
<1>5. ConnectionsHaveChains' /\ DeletedRoomKeepsNothing'
  BY DEF AddChain, IInv, ConnectionsHaveChains, DeletedRoomKeepsNothing
<1> QED
  BY <1>1, <1>2, <1>4, <1>5 DEF IInv

LEMMA RelocateIInv ==
    ASSUME IInv, NEW z \in Zone, NEW c \in ChainId, Relocate(c, z)
    PROVE  IInv'
<1> USE ConstantsOK
<1>1. TypeOK'
  BY DEF Relocate, NewHome, Unplace, IInv, TypeOK
<1>l. Live' = Live
  BY DEF Relocate, Live, IInv, TypeOK
<1>s. source'[c] = z /\ \A d \in ChainId \ {c} : source'[d] = source[d]
  BY DEF Relocate, IInv, TypeOK
<1>2. HomeHasChain'
  <2> SUFFICES ASSUME migrated PROVE \E d \in Live' : source'[d] = home'
    BY DEF Relocate, HomeHasChain
  <2>1. PICK d \in Live : source[d] = home
    BY DEF IInv, HomeHasChain
  <2>2. CASE source[c] = home
    BY <2>2, <1>l, <1>s DEF Relocate, NewHome
  <2>3. CASE source[c] # home
    <3>1. d # c /\ home' = home
      BY <2>1, <2>3 DEF Relocate, NewHome
    <3> QED BY <3>1, <2>1, <1>l, <1>s DEF Live
  <2> QED BY <2>2, <2>3
<1>4. RowsNameLiveChains'
  <2>1. \A y \in Zone : chainOf'[y] \in {chainOf[y], c, Absent}
    BY DEF Relocate, Unplace, IInv, TypeOK
  <2> QED BY <2>1, <1>l DEF Relocate, IInv, RowsNameLiveChains
<1>5. ConnectionsHaveChains'
  BY DEF Relocate, IInv, ConnectionsHaveChains
<1>6. DeletedRoomKeepsNothing'
  BY DEF Relocate, NewHome, IInv, TypeOK, DeletedRoomKeepsNothing
<1> QED
  BY <1>1, <1>2, <1>4, <1>5, <1>6 DEF IInv

LEMMA DeleteChainIInv ==
    ASSUME IInv, NEW c \in ChainId, DeleteChain(c)
    PROVE  IInv'
<1> USE ConstantsOK DEF DeleteChain, DeleteChainRows
<1>1. TypeOK'
  BY DEF IInv, TypeOK
<1>l. Live' = Live \ {c}
  BY DEF Live, IInv, TypeOK
<1>s. \A d \in Live' : source'[d] = source[d] /\ number'[d] = number[d]
  BY <1>l DEF Live, IInv, TypeOK
<1>2. HomeHasChain'
  BY <1>l, <1>s DEF IInv, HomeHasChain
<1>4. RowsNameLiveChains'
  <2>1. \A y \in Zone : chainOf'[y] \in {chainOf[y], None, Absent} \ {c}
    BY DEF Members, Severed
  <2>2. \A k \in conns' : k \in conns /\ k.chain # c
    BY DEF ChainConns
  <2> QED BY <2>1, <2>2, <1>l DEF IInv, RowsNameLiveChains
<1>5. ConnectionsHaveChains' /\ DeletedRoomKeepsNothing'
  BY DEF IInv, ConnectionsHaveChains, DeletedRoomKeepsNothing
<1> QED
  BY <1>1, <1>2, <1>4, <1>5 DEF IInv

-----------------------------------------------------------------------------
LEMMA StutterIInv ==
    ASSUME IInv, UNCHANGED vars
    PROVE  IInv'
<1>1. Live' = Live
  BY DEF vars, Live
<1> QED
  BY <1>1 DEF vars, IInv, TypeOK, HomeHasChain, RowsNameLiveChains,
     ConnectionsHaveChains, DeletedRoomKeepsNothing, Empty

LEMMA NextIInv == IInv /\ [Next]_vars => IInv'
<1> SUFFICES ASSUME IInv, [Next]_vars PROVE IInv'
  OBVIOUS
<1>1. CASE RoomStep
  BY <1>1, CreateRoomIInv, DeleteRoomIInv, MigrateIInv, ResetIInv, ImportIInv DEF RoomStep, IInv, Rows
<1>2. CASE ChainStep
  BY <1>2, AddChainIInv, RelocateIInv, DeleteChainIInv DEF ChainStep
<1>3. CASE NodeStep
  BY <1>3, UpdateNodePositionsIInv, RotateZoneIInv, DeleteNodeIInv DEF NodeStep
<1>4. CASE ConnectionStep
  BY <1>4, CreateConnectionIInv, BulkDeleteIInv, ExpireConnectionsIInv
  DEF ConnectionStep, WsCreateConnection, DeleteConnection
<1>5. CASE MemoryStep
  BY <1>5, WipeMemoryIInv, DeleteMemoryIInv DEF MemoryStep
<1>6. CASE UNCHANGED vars
  BY <1>6, StutterIInv
<1> QED
  BY <1>1, <1>2, <1>3, <1>4, <1>5, <1>6 DEF Next

\* The inductive invariant holds in every room, new or from before multi-chain
\* support, whatever requests follow, one at a time.
THEOREM UpgradedIInv == UpgradedSpec => []IInv
<1>1. Init \/ LegacyInit => IInv
  BY EmptyIInv, LegacyIInv DEF Init
<1> QED BY <1>1, NextIInv, PTL DEF UpgradedSpec

\* Rooms the current server creates are among them.
LEMMA SpecIsUpgraded == Spec => UpgradedSpec
BY DEF Spec, UpgradedSpec

\* The rows keep their types: no handler writes a chain id, a zone or NULL
\* where the column does not admit it.
THEOREM TypeCorrect == UpgradedSpec => []TypeOK
<1>1. IInv => TypeOK
  BY DEF IInv
<1> QED BY <1>1, UpgradedIInv, PTL

\* Once a room is migrated its home zone is always the source of a chain,
\* through every relocation, chain deletion and import.
THEOREM HomeAlwaysHasChain == UpgradedSpec => []HomeHasChain
<1>1. IInv => HomeHasChain
  BY DEF IInv
<1> QED BY <1>1, UpgradedIInv, PTL

\* No node and no connection ever names a chain that was deleted.
THEOREM NoRowNamesADeadChain == UpgradedSpec => []RowsNameLiveChains
<1>1. IInv => RowsNameLiveChains
  BY DEF IInv
<1> QED BY <1>1, UpgradedIInv, PTL

\* Every connection of a migrated room belongs to a chain.
THEOREM EveryConnectionHasAChain == UpgradedSpec => []ConnectionsHaveChains
<1>1. IInv => ConnectionsHaveChains
  BY DEF IInv
<1> QED BY <1>1, UpgradedIInv, PTL

\* A room that does not exist has no rows left in any table.
THEOREM DeletedRoomIsGone == UpgradedSpec => []DeletedRoomKeepsNothing
<1>1. IInv => DeletedRoomKeepsNothing
  BY DEF IInv
<1> QED BY <1>1, UpgradedIInv, PTL

-----------------------------------------------------------------------------
(* Chain numbers.  A room the current server creates is migrated from the  *)
(* start; without that the lazy migration, which always writes the number  *)
(* 1, could hand it out a second time.                                     *)
BornMigrated == home = None \/ migrated

Numbered == BornMigrated /\ NumbersDistinct

LEMMA AddChainNumbered ==
    ASSUME IInv, Numbered, NEW z \in Zone, NEW c \in ChainId, AddChain(z, c)
    PROVE  Numbered'
<1> USE ConstantsOK
<1>n. PICK n \in 0..(MaxChainNumber - 1) :
        /\ \A d \in ChainId : number[d] <= n
        /\ number' = [number EXCEPT ![c] = n + 1]
  BY DEF AddChain, HighestNumber
<1>m. n \in Nat
  OBVIOUS
<1>l. Live' = Live \cup {c}
  BY DEF AddChain, Live, IInv, TypeOK
<1>c. c \notin Live
  BY DEF AddChain, Live
<1>1. number'[c] = n + 1 /\ \A d \in Live : number'[d] = number[d] /\ number[d] <= n
  BY <1>n, <1>c DEF IInv, TypeOK, Live
<1>2. \A d \in Live : number[d] \in Nat
  BY DEF IInv, TypeOK, Live
<1>3. \A d \in Live : number'[d] # number'[c]
  BY <1>1, <1>2, <1>m
<1>4. \A d, e \in Live : number'[d] = number'[e] => d = e
  BY <1>1 DEF Numbered, NumbersDistinct
<1>5. NumbersDistinct'
  BY <1>l, <1>3, <1>4 DEF NumbersDistinct
<1> QED
  BY <1>5 DEF AddChain, Numbered, BornMigrated

LEMMA ImportNumbered ==
    ASSUME NEW p \in Imports, Import(p)
    PROVE  Numbered'
<1> USE ConstantsOK
<1>1. PICK slot \in [ChainId -> 0..Len(p.sources)] :
        /\ Numbers(p, slot)
        /\ number' = slot
        /\ source' = [c \in ChainId |-> IF slot[c] = 0 THEN None ELSE p.sources[slot[c]]]
  <2>1. PICK claim \in [Zone -> 1..Len(p.sources)] :
          \E slot \in [ChainId -> 0..Len(p.sources)] :
            /\ Numbers(p, slot)
            /\ number' = slot
            /\ source' = [c \in ChainId |-> IF slot[c] = 0 THEN None ELSE p.sources[slot[c]]]
    BY Zenon DEF Import
  <2> QED BY <2>1
<1>2. \A c \in Live' : slot[c] # 0
  BY <1>1 DEF Live
<1>3. NumbersDistinct'
  BY <1>1, <1>2 DEF Numbers, NumbersDistinct, Live
<1> QED
  BY <1>3 DEF Import, Numbered, BornMigrated

\* Elsewhere the chains that remain keep the numbers they had.
LEMMA NumbersKept ==
    ASSUME Numbered, migrated' = migrated, home' = None => home = None, home = None => home' = None,
           \A c \in Live' : c \in Live /\ number'[c] = number[c]
    PROVE  Numbered'
<1>1. NumbersDistinct'
  BY DEF Numbered, NumbersDistinct
<1> QED
  BY <1>1 DEF Numbered, BornMigrated

LEMMA SameNumbers ==
    ASSUME Numbered, UNCHANGED <<home, migrated, source, number>>
    PROVE  Numbered'
BY NumbersKept DEF Live

LEMMA ConnectionStepKeeps ==
    ASSUME ConnectionStep
    PROVE  UNCHANGED <<home, migrated, source, number>>
<1>1. ASSUME NEW f \in Zone, NEW t \in Zone, NEW place \in BOOLEAN, NEW i \in ConnId,
             CreateConnection(f, t, place, i) \/ WsCreateConnection(f, t, place, i)
      PROVE  UNCHANGED <<home, migrated, source, number>>
  <2>1. CASE CreateConnection(f, t, place, i)
    BY <2>1 DEF CreateConnection
  <2>2. CASE WsCreateConnection(f, t, place, i)
    BY <2>2 DEF WsCreateConnection, CreateConnection
  <2> QED BY <1>1, <2>1, <2>2
<1>2. ASSUME NEW I \in SUBSET ConnId, BulkDelete(I)
      PROVE  UNCHANGED <<home, migrated, source, number>>
  BY <1>2 DEF BulkDelete
<1>3. ASSUME NEW i \in ConnId, DeleteConnection(i)
      PROVE  UNCHANGED <<home, migrated, source, number>>
  BY <1>3 DEF DeleteConnection, BulkDelete
<1>4. ASSUME NEW K \in SUBSET conns, ExpireConnections(K)
      PROVE  UNCHANGED <<home, migrated, source, number>>
  BY <1>4 DEF ExpireConnections
<1> QED BY <1>1, <1>2, <1>3, <1>4 DEF ConnectionStep

LEMMA NextNumbered == IInv /\ Numbered /\ [Next]_vars => Numbered'
<1> SUFFICES ASSUME IInv, Numbered, [Next]_vars PROVE Numbered'
  OBVIOUS
<1> USE ConstantsOK
<1>1. ASSUME NEW z \in Zone, NEW c \in ChainId, CreateRoom(z, c) PROVE Numbered'
  <2>1. Empty
    BY <1>1 DEF CreateRoom, IInv, DeletedRoomKeepsNothing
  <2>2. Live' = {c}
    BY <1>1, <2>1 DEF CreateRoom, Empty, Live
  <2> QED BY <1>1, <2>2 DEF CreateRoom, Numbered, BornMigrated, NumbersDistinct
<1>2. CASE DeleteRoom
  BY <1>2 DEF DeleteRoom, Numbered, BornMigrated, NumbersDistinct, Live
<1>3. ASSUME NEW c \in ChainId, Migrate(c) PROVE FALSE
  BY <1>3 DEF Migrate, Numbered, BornMigrated
<1>4. CASE RoomStep
  BY <1>1, <1>2, <1>3, <1>4, ImportNumbered, SameNumbers DEF RoomStep, Reset
<1>5. ASSUME NEW z \in Zone, NEW c \in ChainId, Relocate(c, z) PROVE Numbered'
  <2>1. Live' = Live
    BY <1>5 DEF Relocate, Live, IInv, TypeOK
  <2>2. home # None /\ home' # None
    BY <1>5 DEF Relocate, NewHome
  <2> QED BY <1>5, <2>1, <2>2, NumbersKept DEF Relocate
<1>6. ASSUME NEW c \in ChainId, DeleteChain(c) PROVE Numbered'
  <2>1. Live' = Live \ {c}
    BY <1>6 DEF DeleteChain, DeleteChainRows, Live, IInv, TypeOK
  <2>2. \A d \in Live' : number'[d] = number[d]
    BY <1>6, <2>1 DEF DeleteChain, DeleteChainRows, Live, IInv, TypeOK
  <2> QED BY <1>6, <2>1, <2>2, NumbersKept DEF DeleteChain, DeleteChainRows
<1>7. CASE ChainStep
  BY <1>5, <1>6, <1>7, AddChainNumbered DEF ChainStep
<1>8. CASE NodeStep \/ MemoryStep
  BY <1>8, SameNumbers
  DEF NodeStep, UpdateNodePositions, RotateZone, DeleteNode, MemoryStep, WipeMemory, DeleteMemory
<1>9. CASE ConnectionStep
  BY <1>9, ConnectionStepKeeps, SameNumbers
<1>10. CASE UNCHANGED vars
  BY <1>10, SameNumbers DEF vars
<1> QED
  BY <1>4, <1>7, <1>8, <1>9, <1>10 DEF Next

\* MAX + 1 never hands out a chain_number that a chain of the room still has,
\* in the rooms the current server creates.
THEOREM ChainNumbersStayDistinct == Spec => []NumbersDistinct
<1>1. Init => Numbered
  BY DEF Init, Empty, Numbered, BornMigrated, NumbersDistinct, Live
<1>2. Numbered => NumbersDistinct
  BY DEF Numbered
<1>3. Spec => []Numbered
  BY <1>1, NextNumbered, UpgradedIInv, SpecIsUpgraded, PTL DEF Spec
<1> QED BY <1>2, <1>3, PTL

\* In a room from before multi-chain support the number 1 may be given twice,
\* and no other may.
LEMMA FirstKept ==
    ASSUME OnlyFirstShared, \A c \in Live' : c \in Live /\ number'[c] = number[c]
    PROVE  OnlyFirstShared'
BY DEF OnlyFirstShared

LEMMA AddChainFirst ==
    ASSUME IInv, OnlyFirstShared, NEW z \in Zone, NEW c \in ChainId, AddChain(z, c)
    PROVE  OnlyFirstShared'
<1> USE ConstantsOK
<1>n. PICK n \in 0..(MaxChainNumber - 1) :
        /\ \A d \in ChainId : number[d] <= n
        /\ number' = [number EXCEPT ![c] = n + 1]
  BY DEF AddChain, HighestNumber
<1>m. n \in Nat
  OBVIOUS
<1>l. Live' = Live \cup {c} /\ c \notin Live
  BY DEF AddChain, Live, IInv, TypeOK
<1>1. number'[c] = n + 1 /\ \A d \in Live : number'[d] = number[d] /\ number[d] <= n
  BY <1>n, <1>l DEF IInv, TypeOK, Live
<1>2. \A d \in Live : number[d] \in Nat
  BY DEF IInv, TypeOK, Live
<1>3. \A d \in Live : number'[d] # number'[c]
  BY <1>1, <1>2, <1>m
<1>4. \A d, e \in Live : number'[d] = number'[e] => d = e \/ number'[d] = 1
  BY <1>1 DEF OnlyFirstShared
<1> QED
  BY <1>l, <1>3, <1>4 DEF OnlyFirstShared

LEMMA NextFirst == IInv /\ OnlyFirstShared /\ [Next]_vars => OnlyFirstShared'
<1> SUFFICES ASSUME IInv, OnlyFirstShared, [Next]_vars PROVE OnlyFirstShared'
  OBVIOUS
<1> USE ConstantsOK
<1>1. ASSUME NEW z \in Zone, NEW c \in ChainId, CreateRoom(z, c) PROVE OnlyFirstShared'
  <2>1. Empty
    BY <1>1 DEF CreateRoom, IInv, DeletedRoomKeepsNothing
  <2>2. Live' = {c}
    BY <1>1, <2>1 DEF CreateRoom, Empty, Live
  <2> QED BY <2>2 DEF OnlyFirstShared
<1>2. CASE DeleteRoom
  BY <1>2 DEF DeleteRoom, OnlyFirstShared, Live
<1>3. ASSUME NEW c \in ChainId, Migrate(c) PROVE OnlyFirstShared'
  <2>1. Live' = Live \cup {c} /\ c \notin Live
    BY <1>3 DEF Migrate, Live, IInv, TypeOK
  <2>2. number'[c] = 1 /\ \A d \in Live : number'[d] = number[d]
    BY <1>3, <2>1 DEF Migrate, Live, IInv, TypeOK
  <2> QED BY <2>1, <2>2 DEF OnlyFirstShared
<1>4. CASE RoomStep
  <2>1. ASSUME NEW p \in Imports, Import(p) PROVE OnlyFirstShared'
    <3>1. NumbersDistinct'
      BY <2>1, ImportNumbered DEF Numbered
    <3> QED BY <3>1 DEF NumbersDistinct, OnlyFirstShared
  <2>2. CASE Reset
    BY <2>2, FirstKept DEF Reset, Live
  <2> QED BY <1>1, <1>2, <1>3, <1>4, <2>1, <2>2 DEF RoomStep
<1>5. ASSUME NEW z \in Zone, NEW c \in ChainId, Relocate(c, z) PROVE OnlyFirstShared'
  <2>1. Live' = Live
    BY <1>5 DEF Relocate, Live, IInv, TypeOK
  <2> QED BY <1>5, <2>1, FirstKept DEF Relocate
<1>6. ASSUME NEW c \in ChainId, DeleteChain(c) PROVE OnlyFirstShared'
  <2>1. Live' = Live \ {c}
    BY <1>6 DEF DeleteChain, DeleteChainRows, Live, IInv, TypeOK
  <2>2. \A d \in Live' : number'[d] = number[d]
    BY <1>6, <2>1 DEF DeleteChain, DeleteChainRows, Live, IInv, TypeOK
  <2> QED BY <2>1, <2>2, FirstKept
<1>7. CASE ChainStep
  BY <1>5, <1>6, <1>7, AddChainFirst DEF ChainStep
<1>8. ASSUME UNCHANGED <<source, number>> PROVE OnlyFirstShared'
  BY <1>8, FirstKept DEF Live
<1>9. CASE NodeStep \/ MemoryStep
  BY <1>8, <1>9
  DEF NodeStep, UpdateNodePositions, RotateZone, DeleteNode, MemoryStep, WipeMemory, DeleteMemory
<1>10. CASE ConnectionStep
  BY <1>8, <1>10, ConnectionStepKeeps
<1>11. CASE UNCHANGED vars
  BY <1>8, <1>11 DEF vars
<1> QED
  BY <1>4, <1>7, <1>9, <1>10, <1>11 DEF Next

\* In a room from before multi-chain support too, a chain_number other than 1
\* is never given to two chains: deletions, imports and the lazy migration leave
\* MAX + 1 above every number in use.
THEOREM OnlyTheFirstIsShared == UpgradedSpec => []OnlyFirstShared
<1>1. Init \/ LegacyInit => OnlyFirstShared
  BY DEF Init, Empty, LegacyInit, OnlyFirstShared, Live
<1> QED BY <1>1, NextFirst, UpgradedIInv, PTL DEF UpgradedSpec

-----------------------------------------------------------------------------
LEMMA RemovalStep ==
    ASSUME TypeOK, Removal,
           NEW z \in Protected, z \in Protected', chainOf[z] # Absent
    PROVE  chainOf'[z] # Absent
<1> USE ConstantsOK DEF Protected
<1>1. CASE Reset
  BY <1>1 DEF Reset
<1>2. ASSUME NEW c \in ChainId, DeleteChain(c) PROVE chainOf'[z] # Absent
  <2> USE <1>2 DEF DeleteChain, DeleteChainRows
  <2>1. z = home \/ \E d \in Live \ {c} : source[d] = z
    BY DEF IsSource, Live, TypeOK
  <2>2. z \notin RemovedNodes(c)
    BY <2>1 DEF RemovedNodes
  <2>3. chainOf[z] = c => z \in Severed(c)
    BY <2>1 DEF Severed, Members
  <2> QED BY <2>2, <2>3
<1>3. ASSUME NEW y \in Zone, DeleteNode(y) PROVE chainOf'[z] # Absent
  BY <1>3 DEF DeleteNode, Unplace
<1>4. ASSUME NEW I \in SUBSET ConnId, BulkDelete(I) PROVE chainOf'[z] # Absent
  BY <1>4 DEF BulkDelete, Unplace, Orphans
<1>5. ASSUME NEW K \in SUBSET conns, ExpireConnections(K) PROVE chainOf'[z] # Absent
  BY <1>5 DEF ExpireConnections
<1> QED
  BY <1>1, <1>2, <1>3, <1>4, <1>5 DEF Removal

\* No removal the server works out by itself takes away the node of the home
\* zone or of a chain that survives it.
THEOREM SourcesSurviveRemovals == UpgradedSpec => RemovalSparesSources
<1>1. TypeOK => ((\E z \in Protected \cap Protected' : chainOf[z] # Absent /\ chainOf'[z] = Absent)
                    => ~Removal)
  BY RemovalStep
<1> QED BY <1>1, TypeCorrect, PTL DEF RemovalSparesSources

LEMMA DeleteChainStep ==
    ASSUME NEW c \in Live, DeleteChain(c), NEW k \in conns, k \notin conns'
    PROVE  k.chain = c \/ Touches(k, Members(c) \ (Protected \ {source[c]}))
<1>1. k \in ChainConns(c)
  BY DEF DeleteChain, DeleteChainRows
<1>2. ChainZones(c) \subseteq Members(c) \ (Protected \ {source[c]})
  BY DEF ChainZones, Severed, Protected, IsSource
<1> QED
  BY <1>1, <1>2 DEF ChainConns, Touches

\* Deleting a chain leaves the connections of the other chains alone.
THEOREM DeletingAChainSparesOthers == UpgradedSpec => DeleteChainSparesOthers
<1>1. \A k \in conns \ conns', c \in Live :
          k.chain # c /\ ~Touches(k, Members(c) \ (Protected \ {source[c]}))
              => ~DeleteChain(c)
  BY DeleteChainStep
<1> QED BY <1>1, PTL DEF DeleteChainSparesOthers

LEMMA HistoryStep ==
    ASSUME IInv, Next
    PROVE  \/ memory \subseteq memory' \/ WipeMemory \/ DeleteRoom
           \/ (\E z \in Zone : DeleteMemory(z)) \/ (\E p \in Imports : Import(p))
<1>1. ASSUME NEW z \in Zone, NEW c \in ChainId, CreateRoom(z, c)
      PROVE  memory \subseteq memory'
  BY <1>1 DEF CreateRoom, IInv, DeletedRoomKeepsNothing, Empty
<1>2. CASE RoomStep
  BY <1>1, <1>2 DEF RoomStep, Migrate, Reset
<1>3. CASE ChainStep
  BY <1>3 DEF ChainStep, AddChain, Relocate, DeleteChain, DeleteChainRows
<1>4. CASE NodeStep
  BY <1>4 DEF NodeStep, UpdateNodePositions, RotateZone, DeleteNode, Remember
<1>5. CASE ConnectionStep
  <2>1. ASSUME NEW f \in Zone, NEW t \in Zone, NEW place \in BOOLEAN, NEW i \in ConnId,
               CreateConnection(f, t, place, i)
        PROVE  memory \subseteq memory'
    BY <2>1 DEF CreateConnection, MayConnect, Remember
  <2>2. ASSUME NEW I, BulkDelete(I) PROVE memory \subseteq memory'
    BY <2>2 DEF BulkDelete
  <2>3. ASSUME NEW K, ExpireConnections(K) PROVE memory \subseteq memory'
    BY <2>3 DEF ExpireConnections
  <2> QED
    BY <1>5, <2>1, <2>2, <2>3 DEF ConnectionStep, WsCreateConnection, DeleteConnection
<1>6. CASE MemoryStep
  BY <1>6 DEF MemoryStep
<1> QED
  BY <1>2, <1>3, <1>4, <1>5, <1>6 DEF Next

\* Map history only goes away through the memory endpoints, an import or the
\* deletion of the room.
THEOREM HistoryIsKept == UpgradedSpec => HistoryOutlivesEdits
<1>1. IInv /\ [Next]_vars =>
        [memory \subseteq memory' \/ WipeMemory \/ DeleteRoom
          \/ (\E z \in Zone : DeleteMemory(z)) \/ (\E p \in Imports : Import(p))]_vars
  BY HistoryStep
<1> QED BY <1>1, UpgradedIInv, PTL DEF HistoryOutlivesEdits, UpgradedSpec

-----------------------------------------------------------------------------
(* Handlers interleaved at their awaits *)

\* A save still finds the room it has locked, and the chains it has read.
SavesHold ==
    \A r \in Request : At(r, "save") =>
        /\ RoomExists
        /\ \A z \in Zone : job[r].chains[z] \in ChainId => ChainExists(job[r].chains[z])

InterleavedIInv == Rows /\ job \in [Request -> Job] /\ SavesHold

\* A request whose next statement is known keeps what that statement needs.
LEMMA JobKinds ==
    ASSUME NEW j \in Job
    PROVE  /\ j.at \in {"create: read target", "create: place", "create: remember",
                        "create: connect"} => j \in CreateJob
           /\ j.at \in {"disconnect: delete", "disconnect: find orphans",
                        "disconnect: unplace"} => j \in DisconnectJob
           /\ j.at \in {"node: read sources", "node: unplace"} => j \in NodeJob
           /\ j.at \in {"chain: read number", "chain: insert"} => j \in ChainJob
           /\ j.at \in {"relocate: read chain", "relocate: read node", "relocate: read zones",
                        "relocate: move"} => j \in RelocateJob
           /\ j.at \in {"unchain: read chain", "unchain: delete"} => j \in UnchainJob
           /\ j.at = "save" => j \in SaveJob
           /\ j.at = "save: remember" => j \in RememberJob
           /\ j.at = "migrate" => j \in MigrateJob
<1>1. CASE j = Idle
  BY <1>1 DEF Idle
<1>2. CASE j \in CreateJob
  BY <1>2 DEF CreateJob
<1>3. CASE j \in DisconnectJob
  BY <1>3 DEF DisconnectJob
<1>4. CASE j \in NodeJob
  BY <1>4 DEF NodeJob
<1>5. CASE j \in ChainJob
  BY <1>5 DEF ChainJob
<1>6. CASE j \in RelocateJob
  BY <1>6 DEF RelocateJob
<1>7. CASE j \in UnchainJob
  BY <1>7 DEF UnchainJob
<1>8. CASE j \in SaveJob
  BY <1>8 DEF SaveJob
<1>9. CASE j \in RememberJob
  BY <1>9 DEF RememberJob
<1>10. CASE j \in MigrateJob
  BY <1>10 DEF MigrateJob
<1> QED
  BY <1>1, <1>2, <1>3, <1>4, <1>5, <1>6, <1>7, <1>8, <1>9, <1>10 DEF Job

LEMMA IdleIsAJob == Idle \in Job /\ Idle.at # "save"
BY DEF Job, Idle

-----------------------------------------------------------------------------
(* What a statement owes: the rows, the kind of the job it leaves, and to  *)
(* the saves in progress the room and its chains.                          *)

LEMMA SavesKept ==
    ASSUME SavesHold, home # None => home' # None,
           \A c \in ChainId : source[c] # None => source'[c] # None,
           \A r \in Request : job'[r].at = "save" => job'[r] = job[r]
    PROVE  SavesHold'
BY DEF SavesHold, At, RoomExists, ChainExists

LEMMA Write ==
    ASSUME InterleavedIInv, NEW r \in Request, NEW j \in Job, j.at # "save", Becomes(r, j),
           Rows', RoomUnlocked \/ UNCHANGED <<home, source>>
    PROVE  InterleavedIInv'
<1>1. job' \in [Request -> Job]
  BY DEF InterleavedIInv, Becomes
<1>2. \A q \in Request : job'[q].at = "save" => job'[q] = job[q]
  BY DEF InterleavedIInv, Becomes
<1>3. SavesHold'
  <2>1. CASE RoomUnlocked
    BY <2>1, <1>2 DEF RoomUnlocked, SavesHold, At
  <2>2. CASE UNCHANGED <<home, source>>
    BY <2>2, <1>2, SavesKept DEF InterleavedIInv
  <2> QED BY <2>1, <2>2
<1> QED
  BY <1>1, <1>3 DEF InterleavedIInv

LEMMA RowsStutter ==
    ASSUME Rows, UNCHANGED vars
    PROVE  Rows'
<1>1. Live' = Live
  BY DEF vars, Live
<1>2. TypeOK' /\ RowsNameLiveChains'
  BY <1>1 DEF vars, Rows, TypeOK, RowsNameLiveChains
<1>3. DeletedRoomKeepsNothing'
  BY DEF vars, Rows, DeletedRoomKeepsNothing, Empty
<1> QED
  BY <1>2, <1>3 DEF Rows

LEMMA Read ==
    ASSUME InterleavedIInv, NEW r \in Request, NEW j \in Job, j.at # "save", Becomes(r, j),
           UNCHANGED vars
    PROVE  InterleavedIInv'
<1>1. Rows' /\ UNCHANGED <<home, source>>
  BY RowsStutter DEF InterleavedIInv, vars
<1> QED BY <1>1, Write

LEMMA Stop ==
    ASSUME InterleavedIInv, NEW r \in Request, Stops(r)
    PROVE  InterleavedIInv'
BY IdleIsAJob, Read DEF Stops

\* A statement that only takes nodes and connections away, from whatever room.
LEMMA RowsTaken ==
    ASSUME Rows, UNCHANGED <<home, migrated, source, number, memory>>,
           chainOf' \in [Zone -> ChainId \cup {None, Absent}],
           \A z \in Zone : chainOf'[z] \in {chainOf[z], Absent},
           conns' \subseteq conns
    PROVE  Rows'
<1> USE ConstantsOK
<1>l. Live' = Live
  BY DEF Live
<1>1. TypeOK' /\ RowsNameLiveChains'
  BY <1>l DEF Rows, TypeOK, RowsNameLiveChains
<1>2. DeletedRoomKeepsNothing'
  <2> SUFFICES ASSUME home = None PROVE Empty'
    BY DEF DeletedRoomKeepsNothing
  <2>1. Empty
    BY DEF Rows, DeletedRoomKeepsNothing
  <2>2. chainOf' = [z \in Zone |-> Absent]
    BY <2>1 DEF Empty
  <2> QED BY <2>1, <2>2 DEF Empty
<1> QED
  BY <1>1, <1>2 DEF Rows

\* A statement on the nodes, connections and history of a room that exists and
\* leaves its chains alone.
LEMMA RowsWritten ==
    ASSUME Rows, RoomExists, UNCHANGED <<home, migrated, source, number>>,
           chainOf' \in [Zone -> ChainId \cup {None, Absent}],
           \A z \in Zone : chainOf'[z] \in ChainId => chainOf'[z] \in Live,
           conns' \subseteq Connection,
           \A k \in conns' : k.chain # None => k.chain \in Live,
           memory' \subseteq Zone
    PROVE  Rows'
<1>l. Live' = Live
  BY DEF Live
<1>1. TypeOK' /\ RowsNameLiveChains'
  BY <1>l DEF Rows, TypeOK, RowsNameLiveChains
<1>2. DeletedRoomKeepsNothing'
  BY DEF RoomExists, DeletedRoomKeepsNothing
<1> QED
  BY <1>1, <1>2 DEF Rows

-----------------------------------------------------------------------------
(* POST .../connections and create_connection *)

LEMMA CreateReadsFromIInv ==
    ASSUME InterleavedIInv, NEW r \in Request, NEW f \in Zone, NEW t \in Zone,
           NEW place \in BOOLEAN, CreateReadsFrom(r, f, t, place)
    PROVE  InterleavedIInv'
<1>j. PICK j : j = [at |-> "create: read target", from |-> f, to |-> t,
                    place |-> place, chain |-> chainOf[f]]
  OBVIOUS
<1>1. j \in Job /\ j.at # "save"
  BY <1>j DEF CreateReadsFrom, Job, CreateJob
<1>2. Becomes(r, j) /\ UNCHANGED vars
  BY <1>j DEF CreateReadsFrom, Begins
<1> QED BY <1>1, <1>2, Read

LEMMA CreateJobAt ==
    ASSUME NEW j \in CreateJob, NEW place \in {"create: place", "create: remember", "create: connect"}
    PROVE  [j EXCEPT !.at = place] \in Job /\ [j EXCEPT !.at = place].at # "save"
BY DEF CreateJob, Job

LEMMA CreateReadsToIInv ==
    ASSUME InterleavedIInv, NEW r \in Request, CreateReadsTo(r)
    PROVE  InterleavedIInv'
<1>1. job[r] \in CreateJob
  BY JobKinds DEF InterleavedIInv, CreateReadsTo, At
<1>2. CASE Stops(r)
  BY <1>2, Stop
<1>3. ASSUME NEW place \in {"create: place", "create: connect"}, Reads(r, place)
      PROVE  InterleavedIInv'
  <2>j. PICK j : j = [job[r] EXCEPT !.at = place]
    OBVIOUS
  <2>1. j \in Job /\ j.at # "save"
    BY <1>1, <2>j, CreateJobAt
  <2>2. Becomes(r, j) /\ UNCHANGED vars
    BY <1>3, <2>j DEF Reads, Goes
  <2> QED BY <2>1, <2>2, Read
<1> QED
  BY <1>2, <1>3 DEF CreateReadsTo

LEMMA CreatePlacesIInv ==
    ASSUME InterleavedIInv, NEW r \in Request, CreatePlaces(r)
    PROVE  InterleavedIInv'
<1> USE ConstantsOK
<1>1. job[r] \in CreateJob
  BY JobKinds DEF InterleavedIInv, CreatePlaces, At
<1>2. CASE Stops(r)
  BY <1>2, Stop
<1>3. CASE /\ chainOf[job[r].to] = Absent => RoomExists
           /\ chainOf[job[r].to] \in {Absent, None} => ChainExists(job[r].chain)
           /\ chainOf' = Placed(job[r])
           /\ Goes(r, "create: remember")
           /\ UNCHANGED <<home, migrated, source, number, conns, memory, used, served>>
  <2>t. job[r].to \in Zone /\ job[r].chain \in ChainId
    BY <1>1 DEF CreateJob
  <2>e. RoomExists
    BY <1>3, <2>t DEF InterleavedIInv, Rows, DeletedRoomKeepsNothing, Empty, RoomExists
  <2>1. chainOf' \in [Zone -> ChainId \cup {None, Absent}]
    BY <1>3, <2>t DEF Placed, InterleavedIInv, Rows, TypeOK
  <2>2. \A z \in Zone : chainOf'[z] = chainOf[z] \/ (chainOf'[z] = job[r].chain /\ ChainExists(job[r].chain))
    BY <1>3, <2>t DEF Placed, InterleavedIInv, Rows, TypeOK
  <2>3. \A z \in Zone : chainOf'[z] \in ChainId => chainOf'[z] \in Live
    BY <2>2, <2>t DEF ChainExists, Live, InterleavedIInv, Rows, RowsNameLiveChains
  <2>4. Rows'
    BY <1>3, <2>e, <2>1, <2>3, RowsWritten DEF InterleavedIInv, Rows, TypeOK, RowsNameLiveChains
  <2>j. PICK j : j = [job[r] EXCEPT !.at = "create: remember"]
    OBVIOUS
  <2>5. j \in Job /\ j.at # "save"
    BY <1>1, <2>j, CreateJobAt
  <2>6. Becomes(r, j) /\ UNCHANGED <<home, source>>
    BY <1>3, <2>j DEF Goes
  <2> QED BY <2>4, <2>5, <2>6, Write
<1> QED
  BY <1>2, <1>3 DEF CreatePlaces

LEMMA CreateRemembersIInv ==
    ASSUME InterleavedIInv, NEW r \in Request, CreateRemembers(r)
    PROVE  InterleavedIInv'
<1> USE ConstantsOK
<1>1. job[r] \in CreateJob
  BY JobKinds DEF InterleavedIInv, CreateRemembers, At
<1>2. CASE Stops(r)
  BY <1>2, Stop
<1>3. CASE Remembered(job[r]) /\ Goes(r, "create: connect")
  <2>1. memory' \subseteq Zone
    BY <1>3 DEF Remembered, Remember, InterleavedIInv, Rows, TypeOK
  <2>2. Rows'
    BY <1>3, <2>1, RowsWritten DEF Remembered, InterleavedIInv, Rows, TypeOK, RowsNameLiveChains
  <2>j. PICK j : j = [job[r] EXCEPT !.at = "create: connect"]
    OBVIOUS
  <2>3. j \in Job /\ j.at # "save"
    BY <1>1, <2>j, CreateJobAt
  <2>4. Becomes(r, j) /\ UNCHANGED <<home, source>>
    BY <1>3, <2>j DEF Goes, Remembered
  <2> QED BY <2>2, <2>3, <2>4, Write
<1> QED
  BY <1>2, <1>3 DEF CreateRemembers

LEMMA CreateConnectsIInv ==
    ASSUME InterleavedIInv, NEW r \in Request, NEW i \in ConnId, CreateConnects(r, i)
    PROVE  InterleavedIInv'
<1> USE ConstantsOK
<1>1. job[r] \in CreateJob
  BY JobKinds DEF InterleavedIInv, CreateConnects, At
<1>2. CASE Stops(r)
  BY <1>2, Stop
<1>3. CASE /\ Connected(job[r], i)
           /\ Becomes(r, Idle)
           /\ UNCHANGED <<home, migrated, source, number, chainOf, memory, served>>
  <2>t. job[r].from \in Zone /\ job[r].to \in Zone /\ job[r].chain \in ChainId
    BY <1>1 DEF CreateJob
  <2>c. job[r].chain \in Live
    BY <1>3, <2>t DEF Connected, ChainExists, Live
  <2>1. conns' \subseteq Connection
    BY <1>3, <2>t DEF Connected, Connection, InterleavedIInv, Rows, TypeOK
  <2>2. \A k \in conns' : k \in conns \/ k.chain = job[r].chain
    BY <1>3 DEF Connected
  <2>3. \A k \in conns' : k.chain # None => k.chain \in Live
    BY <2>2, <2>c DEF InterleavedIInv, Rows, RowsNameLiveChains
  <2>4. Rows'
    BY <1>3, <2>1, <2>3, RowsWritten
    DEF Connected, InterleavedIInv, Rows, TypeOK, RowsNameLiveChains
  <2> QED BY <1>3, <2>4, IdleIsAJob, Write
<1> QED
  BY <1>2, <1>3 DEF CreateConnects

-----------------------------------------------------------------------------
(* DELETE .../connections/:connId and DELETE .../nodes/:zoneId *)

LEMMA DisconnectReadsIInv ==
    ASSUME InterleavedIInv, NEW r \in Request, NEW k \in conns, DisconnectReads(r, k)
    PROVE  InterleavedIInv'
<1>j. PICK j : j = [at |-> "disconnect: delete", conn |-> k, zones |-> {}]
  OBVIOUS
<1>1. j \in Job /\ j.at # "save"
  BY <1>j DEF Job, DisconnectJob, InterleavedIInv, Rows, TypeOK
<1>2. Becomes(r, j) /\ UNCHANGED vars
  BY <1>j DEF DisconnectReads, Begins
<1> QED BY <1>1, <1>2, Read

LEMMA DisconnectDeletesIInv ==
    ASSUME InterleavedIInv, NEW r \in Request, DisconnectDeletes(r)
    PROVE  InterleavedIInv'
<1>1. job[r] \in DisconnectJob
  BY JobKinds DEF InterleavedIInv, DisconnectDeletes, At
<1>2. Rows'
  BY RowsTaken DEF DisconnectDeletes, InterleavedIInv, Rows, TypeOK
<1>j. PICK j : j = [job[r] EXCEPT !.at = "disconnect: find orphans"]
  OBVIOUS
<1>3. j \in Job /\ j.at # "save"
  BY <1>1, <1>j DEF DisconnectJob, Job
<1>4. Becomes(r, j) /\ UNCHANGED <<home, source>>
  BY <1>j DEF DisconnectDeletes, Goes
<1> QED BY <1>2, <1>3, <1>4, Write

LEMMA DisconnectFindsOrphansIInv ==
    ASSUME InterleavedIInv, NEW r \in Request, DisconnectFindsOrphans(r)
    PROVE  InterleavedIInv'
<1>1. job[r] \in DisconnectJob
  BY JobKinds DEF InterleavedIInv, DisconnectFindsOrphans, At
<1>2. PICK orphans \in SUBSET Zone :
        /\ Becomes(r, IF orphans = {} THEN Idle
                      ELSE [job[r] EXCEPT !.at = "disconnect: unplace", !.zones = orphans])
        /\ UNCHANGED vars
  <2>1. PICK O : O = {z \in {job[r].conn.from, job[r].conn.to} \ Protected :
                        \A k \in conns : ~Touches(k, {z})}
    OBVIOUS
  <2>2. O \in SUBSET Zone
    BY <1>1, <2>1 DEF DisconnectJob, Connection
  <2> QED BY <2>1, <2>2 DEF DisconnectFindsOrphans
<1>j. PICK j : j = [job[r] EXCEPT !.at = "disconnect: unplace", !.zones = orphans]
  OBVIOUS
<1>3. j \in Job /\ j.at # "save"
  BY <1>1, <1>j DEF DisconnectJob, Job
<1> QED BY <1>2, <1>j, <1>3, IdleIsAJob, Read

LEMMA UnplacesRows ==
    ASSUME Rows, NEW S, chainOf' = Unplace(S),
           UNCHANGED <<home, migrated, source, number, conns, memory>>
    PROVE  Rows'
BY RowsTaken DEF Unplace, Rows, TypeOK

LEMMA DisconnectUnplacesIInv ==
    ASSUME InterleavedIInv, NEW r \in Request, DisconnectUnplaces(r)
    PROVE  InterleavedIInv'
<1>1. Rows'
  BY UnplacesRows DEF DisconnectUnplaces, InterleavedIInv
<1> QED BY <1>1, IdleIsAJob, Write DEF DisconnectUnplaces

LEMMA NodeReadsHomeIInv ==
    ASSUME InterleavedIInv, NEW r \in Request, NEW z \in Zone, NodeReadsHome(r, z)
    PROVE  InterleavedIInv'
<1>j. PICK j : j = [at |-> "node: read sources", zone |-> z]
  OBVIOUS
<1>1. j \in Job /\ j.at # "save"
  BY <1>j DEF Job, NodeJob
<1>2. Becomes(r, j) /\ UNCHANGED vars
  BY <1>j DEF NodeReadsHome, Begins
<1> QED BY <1>1, <1>2, Read

LEMMA NodeReadsSourcesIInv ==
    ASSUME InterleavedIInv, NEW r \in Request, NodeReadsSources(r)
    PROVE  InterleavedIInv'
<1>1. job[r] \in NodeJob
  BY JobKinds DEF InterleavedIInv, NodeReadsSources, At
<1>2. CASE Stops(r)
  BY <1>2, Stop
<1>3. CASE Reads(r, "node: unplace")
  <2>j. PICK j : j = [job[r] EXCEPT !.at = "node: unplace"]
    OBVIOUS
  <2>1. j \in Job /\ j.at # "save"
    BY <1>1, <2>j DEF NodeJob, Job
  <2>2. Becomes(r, j) /\ UNCHANGED vars
    BY <1>3, <2>j DEF Reads, Goes
  <2> QED BY <2>1, <2>2, Read
<1> QED
  BY <1>2, <1>3 DEF NodeReadsSources

LEMMA NodeUnplacesIInv ==
    ASSUME InterleavedIInv, NEW r \in Request, NodeUnplaces(r)
    PROVE  InterleavedIInv'
<1>1. Rows'
  BY UnplacesRows DEF NodeUnplaces, InterleavedIInv
<1> QED BY <1>1, IdleIsAJob, Write DEF NodeUnplaces

-----------------------------------------------------------------------------
(* POST .../chains *)

LEMMA ChainReadsNodeIInv ==
    ASSUME InterleavedIInv, NEW r \in Request, NEW z \in Zone, ChainReadsNode(r, z)
    PROVE  InterleavedIInv'
<1>j. PICK j : j = [at |-> "chain: read number", zone |-> z,
                    isNew |-> chainOf[z] = Absent, number |-> 0]
  OBVIOUS
<1>1. j \in Job /\ j.at # "save"
  BY <1>j DEF Job, ChainJob
<1>2. Becomes(r, j) /\ UNCHANGED vars
  BY <1>j DEF ChainReadsNode, Begins
<1> QED BY <1>1, <1>2, Read

LEMMA ChainReadsNumberIInv ==
    ASSUME InterleavedIInv, NEW r \in Request, ChainReadsNumber(r)
    PROVE  InterleavedIInv'
<1>1. job[r] \in ChainJob
  BY JobKinds DEF InterleavedIInv, ChainReadsNumber, At
<1>2. PICK n \in 0..(MaxChainNumber - 1) :
        Becomes(r, [job[r] EXCEPT !.at = "chain: insert", !.number = n + 1])
  BY DEF ChainReadsNumber
<1>3. n + 1 \in Nat
  BY ConstantsOK
<1>j. PICK j : j = [job[r] EXCEPT !.at = "chain: insert", !.number = n + 1]
  OBVIOUS
<1>4. j \in Job /\ j.at # "save"
  BY <1>1, <1>3, <1>j DEF ChainJob, Job
<1>5. Becomes(r, j) /\ UNCHANGED vars
  BY <1>2, <1>j DEF ChainReadsNumber
<1> QED BY <1>4, <1>5, Read

LEMMA ChainInsertsIInv ==
    ASSUME InterleavedIInv, NEW r \in Request, NEW c \in ChainId, ChainInserts(r, c)
    PROVE  InterleavedIInv'
<1> USE ConstantsOK
<1>1. job[r] \in ChainJob
  BY JobKinds DEF InterleavedIInv, ChainInserts, At
<1>t. job[r].zone \in Zone /\ job[r].number \in Nat
  BY <1>1 DEF ChainJob
<1>u. RoomUnlocked
  BY DEF ChainInserts
<1>2. CASE Stops(r)
  BY <1>2, Stop
<1>3. CASE /\ RoomExists
           /\ source' = [source EXCEPT ![c] = job[r].zone]
           /\ number' = [number EXCEPT ![c] = job[r].number]
           /\ chainOf' = Tagged(job[r], c)
           /\ memory' = IF job[r].isNew THEN memory \cup {job[r].zone} ELSE memory
           /\ Becomes(r, Idle)
           /\ UNCHANGED <<home, migrated, conns, served>>
  <2>1. \A z \in Zone : chainOf'[z] \in {chainOf[z], c}
    BY <1>3, <1>t DEF Tagged, InterleavedIInv, Rows, TypeOK
  <2>2. chainOf' \in [Zone -> ChainId \cup {None, Absent}]
    BY <1>3, <1>t DEF Tagged, InterleavedIInv, Rows, TypeOK
  <2>3. TypeOK'
    BY <1>3, <1>t, <2>2 DEF InterleavedIInv, Rows, TypeOK
  <2>4. Live' = Live \cup {c}
    BY <1>3, <1>t DEF Live, InterleavedIInv, Rows, TypeOK
  <2>5. RowsNameLiveChains'
    BY <1>3, <2>1, <2>4 DEF InterleavedIInv, Rows, RowsNameLiveChains
  <2>6. DeletedRoomKeepsNothing'
    BY <1>3 DEF RoomExists, DeletedRoomKeepsNothing
  <2>7. Rows'
    BY <2>3, <2>5, <2>6 DEF Rows
  <2> QED BY <1>3, <2>7, <1>u, IdleIsAJob, Write
<1> QED
  BY <1>2, <1>3 DEF ChainInserts

-----------------------------------------------------------------------------
(* POST .../chains/:chainId/relocate *)

LEMMA RelocateReadsHomeIInv ==
    ASSUME InterleavedIInv, NEW r \in Request, NEW c \in ChainId, NEW z \in Zone,
           RelocateReadsHome(r, c, z)
    PROVE  InterleavedIInv'
<1>j. PICK j : j = [at |-> "relocate: read chain", chain |-> c, to |-> z, home |-> home,
                    source |-> None, zones |-> {}]
  OBVIOUS
<1>h. home \in Zone
  BY DEF RelocateReadsHome, RoomExists, InterleavedIInv, Rows, TypeOK
<1>1. j \in Job /\ j.at # "save"
  BY <1>j, <1>h DEF Job, RelocateJob
<1>2. Becomes(r, j) /\ UNCHANGED vars
  BY <1>j DEF RelocateReadsHome, Begins
<1> QED BY <1>1, <1>2, Read

LEMMA RelocateReadsChainIInv ==
    ASSUME InterleavedIInv, NEW r \in Request, RelocateReadsChain(r)
    PROVE  InterleavedIInv'
<1>1. job[r] \in RelocateJob
  BY JobKinds DEF InterleavedIInv, RelocateReadsChain, At
<1>2. CASE Stops(r)
  BY <1>2, Stop
<1>3. CASE /\ Becomes(r, [job[r] EXCEPT !.at = "relocate: read node",
                                        !.source = source[job[r].chain]])
           /\ UNCHANGED <<vars, used, served>>
  <2>j. PICK j : j = [job[r] EXCEPT !.at = "relocate: read node",
                                    !.source = source[job[r].chain]]
    OBVIOUS
  <2>s. source[job[r].chain] \in Zone \cup {None}
    BY <1>1 DEF RelocateJob, InterleavedIInv, Rows, TypeOK
  <2>1. j \in Job /\ j.at # "save"
    BY <1>1, <2>j, <2>s DEF RelocateJob, Job
  <2> QED BY <1>3, <2>j, <2>1, Read
<1> QED
  BY <1>2, <1>3 DEF RelocateReadsChain

LEMMA RelocateReadsNodeIInv ==
    ASSUME InterleavedIInv, NEW r \in Request, RelocateReadsNode(r)
    PROVE  InterleavedIInv'
<1>1. job[r] \in RelocateJob
  BY JobKinds DEF InterleavedIInv, RelocateReadsNode, At
<1>2. CASE Stops(r)
  BY <1>2, Stop
<1>3. CASE Reads(r, "relocate: read zones")
  <2>j. PICK j : j = [job[r] EXCEPT !.at = "relocate: read zones"]
    OBVIOUS
  <2>1. j \in Job /\ j.at # "save"
    BY <1>1, <2>j DEF RelocateJob, Job
  <2>2. Becomes(r, j) /\ UNCHANGED vars
    BY <1>3, <2>j DEF Reads, Goes
  <2> QED BY <2>1, <2>2, Read
<1> QED
  BY <1>2, <1>3 DEF RelocateReadsNode

LEMMA RelocateReadsZonesIInv ==
    ASSUME InterleavedIInv, NEW r \in Request, RelocateReadsZones(r)
    PROVE  InterleavedIInv'
<1>1. job[r] \in RelocateJob
  BY JobKinds DEF InterleavedIInv, RelocateReadsZones, At
<1>s. PICK S : S = MovedZones(job[r])
  OBVIOUS
<1>t. S \subseteq Zone \cup {None}
  BY <1>1, <1>s DEF RelocateJob, MovedZones, Members, Ends
<1>j. PICK j : j = [job[r] EXCEPT !.at = "relocate: move", !.zones = S]
  OBVIOUS
<1>2. j \in Job /\ j.at # "save"
  BY <1>1, <1>t, <1>j DEF RelocateJob, Job
<1>3. Becomes(r, j) /\ UNCHANGED vars
  BY <1>s, <1>j DEF RelocateReadsZones
<1> QED BY <1>2, <1>3, Read

LEMMA RelocateMovesIInv ==
    ASSUME InterleavedIInv, NEW r \in Request, RelocateMoves(r)
    PROVE  InterleavedIInv'
<1> USE ConstantsOK
<1>1. job[r] \in RelocateJob
  BY JobKinds DEF InterleavedIInv, RelocateMoves, At
<1>t. job[r].chain \in ChainId /\ job[r].to \in Zone
  BY <1>1 DEF RelocateJob
<1>u. RoomUnlocked
  BY DEF RelocateMoves
<1>2. CASE Stops(r)
  BY <1>2, Stop
<1>3. CASE /\ RoomExists /\ ChainExists(job[r].chain)
           /\ conns' = {k \in conns : k.chain # job[r].chain /\ ~Touches(k, job[r].zones)}
           /\ chainOf' = [Unplace(job[r].zones) EXCEPT ![job[r].to] = job[r].chain]
           /\ memory' = memory \cup {job[r].to}
           /\ source' = [source EXCEPT ![job[r].chain] = job[r].to]
           /\ home' = IF job[r].source = job[r].home THEN job[r].to ELSE home
           /\ Becomes(r, Idle)
           /\ UNCHANGED <<migrated, number, used, served>>
  <2>1. \A z \in Zone : chainOf'[z] \in {chainOf[z], Absent, job[r].chain}
    BY <1>3, <1>t DEF Unplace
  <2>2. chainOf' \in [Zone -> ChainId \cup {None, Absent}]
    BY <1>3, <1>t DEF Unplace, InterleavedIInv, Rows, TypeOK
  <2>3. home' \in Zone
    BY <1>3, <1>t DEF RoomExists, InterleavedIInv, Rows, TypeOK
  <2>4. TypeOK'
    BY <1>3, <1>t, <2>2, <2>3 DEF InterleavedIInv, Rows, TypeOK
  <2>5. Live' = Live /\ job[r].chain \in Live
    BY <1>3, <1>t DEF Live, ChainExists, InterleavedIInv, Rows, TypeOK
  <2>6. RowsNameLiveChains'
    BY <1>3, <2>1, <2>5 DEF InterleavedIInv, Rows, RowsNameLiveChains
  <2>7. DeletedRoomKeepsNothing'
    BY <2>3 DEF DeletedRoomKeepsNothing
  <2>8. Rows'
    BY <2>4, <2>6, <2>7 DEF Rows
  <2> QED BY <1>3, <2>8, <1>u, IdleIsAJob, Write
<1> QED
  BY <1>2, <1>3 DEF RelocateMoves

-----------------------------------------------------------------------------
(* DELETE .../chains/:chainId *)

LEMMA UnchainReadsHomeIInv ==
    ASSUME InterleavedIInv, NEW r \in Request, NEW c \in ChainId, UnchainReadsHome(r, c)
    PROVE  InterleavedIInv'
<1>j. PICK j : j = [at |-> "unchain: read chain", chain |-> c, home |-> home, source |-> None]
  OBVIOUS
<1>h. home \in Zone
  BY DEF UnchainReadsHome, RoomExists, InterleavedIInv, Rows, TypeOK
<1>1. j \in Job /\ j.at # "save"
  BY <1>j, <1>h DEF Job, UnchainJob
<1>2. Becomes(r, j) /\ UNCHANGED vars
  BY <1>j DEF UnchainReadsHome, Begins
<1> QED BY <1>1, <1>2, Read

LEMMA UnchainReadsChainIInv ==
    ASSUME InterleavedIInv, NEW r \in Request, UnchainReadsChain(r)
    PROVE  InterleavedIInv'
<1>1. job[r] \in UnchainJob
  BY JobKinds DEF InterleavedIInv, UnchainReadsChain, At
<1>2. CASE Stops(r)
  BY <1>2, Stop
<1>3. CASE /\ Becomes(r, [job[r] EXCEPT !.at = "unchain: delete",
                                        !.source = source[job[r].chain]])
           /\ UNCHANGED <<vars, used, served>>
  <2>j. PICK j : j = [job[r] EXCEPT !.at = "unchain: delete", !.source = source[job[r].chain]]
    OBVIOUS
  <2>s. source[job[r].chain] \in Zone \cup {None}
    BY <1>1 DEF UnchainJob, InterleavedIInv, Rows, TypeOK
  <2>1. j \in Job /\ j.at # "save"
    BY <1>1, <2>j, <2>s DEF UnchainJob, Job
  <2> QED BY <1>3, <2>j, <2>1, Read
<1> QED
  BY <1>2, <1>3 DEF UnchainReadsChain

\* The statement leaves no row with the chain's id, even when the chain or the
\* whole room went before it runs and whatever source its handler has read.
LEMMA SweepRowsRows ==
    ASSUME Rows, NEW c \in ChainId, NEW s, SweepRows(c, s)
    PROVE  Rows'
<1> USE ConstantsOK DEF SweepRows
<1>1. TypeOK'
  BY DEF Rows, TypeOK
<1>l. Live' = Live \ {c}
  BY DEF Live, Rows, TypeOK
<1>2. RowsNameLiveChains'
  <2>1. \A y \in Zone : chainOf'[y] \in {chainOf[y], None, Absent} \ {c}
    BY DEF Members, Severed
  <2>2. \A k \in conns' : k \in conns /\ k.chain # c
    BY DEF ChainConns
  <2> QED BY <2>1, <2>2, <1>l DEF Rows, RowsNameLiveChains
<1>3. DeletedRoomKeepsNothing'
  <2> SUFFICES ASSUME home = None PROVE Empty'
    BY DEF DeletedRoomKeepsNothing
  <2>1. Empty
    BY DEF Rows, DeletedRoomKeepsNothing
  <2>2. \A y \in Zone : y \notin SweptNodes(c, s) /\ y \notin Severed(c)
    BY <2>1 DEF Empty, SweptNodes, Severed, Members
  <2>3. chainOf' = [z \in Zone |-> Absent]
    BY <2>1, <2>2 DEF Empty
  <2>4. source' = [d \in ChainId |-> None] /\ number' = [d \in ChainId |-> 0] /\ conns' = {}
    BY <2>1 DEF Empty
  <2> QED BY <2>1, <2>3, <2>4 DEF Empty
<1> QED
  BY <1>1, <1>2, <1>3 DEF Rows

LEMMA UnchainDeletesIInv ==
    ASSUME InterleavedIInv, NEW r \in Request, UnchainDeletes(r)
    PROVE  InterleavedIInv'
<1>1. job[r] \in UnchainJob
  BY JobKinds DEF InterleavedIInv, UnchainDeletes, At
<1>2. PICK c, s : c = job[r].chain /\ s = job[r].source
  OBVIOUS
<1>3. c \in ChainId
  BY <1>1, <1>2 DEF UnchainJob
<1>4. SweepRows(c, s) /\ RoomUnlocked
  BY <1>2 DEF UnchainDeletes, Sweeps
<1>5. Rows'
  BY <1>3, <1>4, SweepRowsRows DEF InterleavedIInv
<1> QED BY <1>4, <1>5, IdleIsAJob, Write DEF UnchainDeletes

-----------------------------------------------------------------------------
(* update_node_positions *)

LEMMA SaveLocksIInv ==
    ASSUME InterleavedIInv, NEW r \in Request, NEW S \in Saves, SaveLocks(r, S)
    PROVE  InterleavedIInv'
<1>j. PICK j : j = [at |-> "save", zones |-> S, chains |-> chainOf]
  OBVIOUS
<1>1. j \in Job /\ j.chains = chainOf
  BY <1>j, SavesOK DEF Job, SaveJob, InterleavedIInv, Rows, TypeOK
<1>2. job' = [job EXCEPT ![r] = j] /\ UNCHANGED vars /\ RoomExists
  BY <1>j DEF SaveLocks, Begins, Becomes
<1>3. Rows'
  BY <1>2, RowsStutter DEF InterleavedIInv
<1>4. job' \in [Request -> Job]
  BY <1>1, <1>2 DEF InterleavedIInv
<1>5. \A z \in Zone : chainOf[z] \in ChainId => ChainExists(chainOf[z])
  BY DEF ChainExists, Live, InterleavedIInv, Rows, RowsNameLiveChains
<1>6. SavesHold'
  BY <1>1, <1>2, <1>5 DEF SavesHold, At, RoomExists, ChainExists, vars, InterleavedIInv
<1> QED
  BY <1>3, <1>4, <1>6 DEF InterleavedIInv

LEMMA SaveReplacesIInv ==
    ASSUME InterleavedIInv, NEW r \in Request, SaveReplaces(r)
    PROVE  InterleavedIInv'
<1> USE ConstantsOK
<1>1. job[r] \in SaveJob
  BY JobKinds DEF InterleavedIInv, SaveReplaces, At
<1>t. job[r].zones \subseteq Zone /\ job[r].chains \in [Zone -> ChainId \cup {None, Absent}]
  BY <1>1 DEF SaveJob
<1>2. CASE Stops(r)
  BY <1>2, Stop
<1>3. CASE ~Stops(r)
  <2>k. PICK kept : kept = [z \in Zone |-> IF z \notin job[r].zones THEN Absent
                                ELSE IF job[r].chains[z] = Absent THEN None ELSE job[r].chains[z]]
    OBVIOUS
  <2>1. /\ \A z \in Zone : kept[z] \in ChainId => ChainExists(kept[z])
        /\ chainOf' = kept
        /\ Becomes(r, [at |-> "save: remember", zones |-> job[r].zones \cap Roads])
        /\ UNCHANGED <<home, migrated, source, number, conns, memory, used, served>>
    BY <1>3, <2>k DEF SaveReplaces
  <2>2. kept \in [Zone -> ChainId \cup {None, Absent}]
    BY <1>t, <2>k
  <2>3. \A z \in Zone : chainOf'[z] \in ChainId => chainOf'[z] \in Live
    BY <2>1 DEF ChainExists, Live
  <2>e. RoomExists
    BY DEF SaveReplaces, InterleavedIInv, SavesHold
  <2>4. Rows'
    BY <2>1, <2>2, <2>3, <2>e, RowsWritten DEF InterleavedIInv, Rows, TypeOK, RowsNameLiveChains
  <2>j. PICK j : j = [at |-> "save: remember", zones |-> job[r].zones \cap Roads]
    OBVIOUS
  <2>5. j \in Job /\ j.at # "save"
    BY <1>t, <2>j DEF RememberJob, Job
  <2> QED BY <2>1, <2>4, <2>j, <2>5, Write
<1> QED
  BY <1>2, <1>3

LEMMA SaveRemembersIInv ==
    ASSUME InterleavedIInv, NEW r \in Request, SaveRemembers(r)
    PROVE  InterleavedIInv'
<1> USE ConstantsOK
<1>1. job[r] \in RememberJob
  BY JobKinds DEF InterleavedIInv, SaveRemembers, At
<1>2. CASE Stops(r)
  BY <1>2, Stop
<1>3. ASSUME NEW z \in job[r].zones, RoomExists, memory' = Remember({z}),
             Becomes(r, [job[r] EXCEPT !.zones = @ \ {z}]),
             UNCHANGED <<home, migrated, source, number, chainOf, conns, used, served>>
      PROVE  InterleavedIInv'
  <2>1. memory' \subseteq Zone
    BY <1>3 DEF Remember, InterleavedIInv, Rows, TypeOK
  <2>2. Rows'
    BY <1>3, <2>1, RowsWritten DEF InterleavedIInv, Rows, TypeOK, RowsNameLiveChains
  <2>j. PICK j : j = [job[r] EXCEPT !.zones = job[r].zones \ {z}]
    OBVIOUS
  <2>3. j \in Job /\ j.at # "save"
    BY <1>1, <2>j DEF RememberJob, Job
  <2>4. Becomes(r, j) /\ UNCHANGED <<home, source>>
    BY <1>3, <2>j
  <2> QED BY <2>2, <2>3, <2>4, Write
<1> QED
  BY <1>2, <1>3 DEF SaveRemembers

-----------------------------------------------------------------------------
(* The lazy migration of the handshake *)

LEMMA MigrateReadsIInv ==
    ASSUME InterleavedIInv, NEW r \in Request, MigrateReads(r)
    PROVE  InterleavedIInv'
<1>j. PICK j : j = [at |-> "migrate", home |-> home]
  OBVIOUS
<1>h. home \in Zone
  BY DEF MigrateReads, RoomExists, InterleavedIInv, Rows, TypeOK
<1>1. j \in Job /\ j.at # "save"
  BY <1>j, <1>h DEF Job, MigrateJob
<1>2. Becomes(r, j) /\ UNCHANGED vars
  BY <1>j DEF MigrateReads, Begins
<1> QED BY <1>1, <1>2, Read

LEMMA MigrateWritesIInv ==
    ASSUME InterleavedIInv, NEW r \in Request, NEW c \in ChainId, MigrateWrites(r, c)
    PROVE  InterleavedIInv'
<1> USE ConstantsOK
<1>1. job[r] \in MigrateJob
  BY JobKinds DEF InterleavedIInv, MigrateWrites, At
<1>t. job[r].home \in Zone
  BY <1>1 DEF MigrateJob
<1>u. RoomUnlocked
  BY DEF MigrateWrites
<1>2. CASE Stops(r)
  BY <1>2, Stop
<1>3. CASE /\ RoomExists
           /\ source' = [source EXCEPT ![c] = job[r].home]
           /\ number' = [number EXCEPT ![c] = 1]
           /\ conns' = Adopted(c)
           /\ chainOf' = [z \in Zone |-> IF chainOf[z] = None THEN c ELSE chainOf[z]]
           /\ migrated' = TRUE
           /\ Becomes(r, Idle)
           /\ UNCHANGED <<home, memory, served>>
  <2>1. conns' \subseteq Connection
    BY <1>3 DEF Adopted, Connection, InterleavedIInv, Rows, TypeOK
  <2>2. TypeOK'
    BY <1>3, <1>t, <2>1 DEF InterleavedIInv, Rows, TypeOK
  <2>3. Live' = Live \cup {c}
    BY <1>3, <1>t DEF Live, InterleavedIInv, Rows, TypeOK
  <2>4. \A z \in Zone : chainOf'[z] \in {chainOf[z], c}
    BY <1>3
  <2>5. \A k \in conns' : k.chain = c \/ \E l \in conns : k.chain = l.chain /\ l.chain # None
    BY <1>3 DEF Adopted, InterleavedIInv, Rows, TypeOK, Connection
  <2>6. RowsNameLiveChains'
    BY <2>3, <2>4, <2>5 DEF InterleavedIInv, Rows, RowsNameLiveChains
  <2>7. DeletedRoomKeepsNothing'
    BY <1>3 DEF RoomExists, DeletedRoomKeepsNothing
  <2>8. Rows'
    BY <2>2, <2>6, <2>7 DEF Rows
  <2> QED BY <1>3, <2>8, <1>u, IdleIsAJob, Write
<1> QED
  BY <1>2, <1>3 DEF MigrateWrites

-----------------------------------------------------------------------------
(* Handlers that are one step *)

LEMMA WholeKept ==
    ASSUME InterleavedIInv, UNCHANGED job, Rows',
           RoomUnlocked \/ home = None \/ UNCHANGED <<home, source>>
    PROVE  InterleavedIInv'
<1>1. SavesHold'
  <2>1. CASE RoomUnlocked
    BY <2>1 DEF RoomUnlocked, SavesHold, At
  <2>2. CASE home = None
    BY <2>2 DEF InterleavedIInv, SavesHold, At, RoomExists
  <2>3. CASE UNCHANGED <<home, source>>
    BY <2>3, SavesKept DEF InterleavedIInv
  <2> QED BY <2>1, <2>2, <2>3
<1> QED
  BY <1>1 DEF InterleavedIInv

LEMMA WholeIInv ==
    ASSUME InterleavedIInv, WholeStep
    PROVE  InterleavedIInv'
<1>r. Rows
  BY DEF InterleavedIInv
<1>1. ASSUME NEW z \in Zone, NEW c \in ChainId, CreateWhole(z, c) PROVE InterleavedIInv'
  <2>1. CreateRoom(z, c) /\ UNCHANGED job
    BY <1>1 DEF CreateWhole, Whole
  <2>2. Rows'
    BY <1>r, <2>1, CreateRoomIInv DEF IInv, Rows
  <2>3. home = None
    BY <2>1 DEF CreateRoom
  <2> QED BY <2>1, <2>2, <2>3, WholeKept
<1>2. CASE DeleteWhole
  <2>1. DeleteRoom /\ UNCHANGED job /\ RoomUnlocked
    BY <1>2 DEF DeleteWhole, Whole
  <2>2. Rows'
    BY <2>1, DeleteRoomIInv DEF IInv, Rows
  <2> QED BY <2>1, <2>2, WholeKept
<1>3. CASE ResetWhole
  <2>1. Reset /\ UNCHANGED job /\ RoomUnlocked
    BY <1>3 DEF ResetWhole, Whole
  <2> QED BY <1>r, <2>1, ResetRows, WholeKept
<1>4. ASSUME NEW p \in Imports, ImportWhole(p) PROVE InterleavedIInv'
  <2>1. Import(p) /\ UNCHANGED job /\ RoomUnlocked
    BY <1>4 DEF ImportWhole, Whole
  <2>2. Rows'
    BY <2>1, ImportIInv DEF IInv, Rows
  <2> QED BY <2>1, <2>2, WholeKept
<1>5. ASSUME NEW I, BulkWhole(I) PROVE InterleavedIInv'
  <2>1. BulkDelete(I) /\ UNCHANGED job
    BY <1>5 DEF BulkWhole, Whole
  <2>2. Rows'
    BY <1>r, <2>1, RowsTaken DEF BulkDelete, Unplace, Rows, TypeOK
  <2>3. UNCHANGED <<home, source>>
    BY <2>1 DEF BulkDelete
  <2> QED BY <2>1, <2>2, <2>3, WholeKept
<1>6. ASSUME NEW K, ExpireWhole(K) PROVE InterleavedIInv'
  <2>1. ExpireConnections(K) /\ UNCHANGED job
    BY <1>6 DEF ExpireWhole, Whole
  <2>2. Rows'
    BY <1>r, <2>1, RowsTaken DEF ExpireConnections, Rows, TypeOK
  <2>3. UNCHANGED <<home, source>>
    BY <2>1 DEF ExpireConnections
  <2> QED BY <2>1, <2>2, <2>3, WholeKept
<1> QED
  BY <1>1, <1>2, <1>3, <1>4, <1>5, <1>6 DEF WholeStep

-----------------------------------------------------------------------------
LEMMA InitInterleavedIInv == InitInterleaved => InterleavedIInv
<1> SUFFICES ASSUME InitInterleaved PROVE InterleavedIInv
  OBVIOUS
<1> USE ConstantsOK
<1>1. PICK s \in Rooms :
        /\ home = s.home
        /\ migrated = s.migrated
        /\ source = s.source
        /\ number = s.number
        /\ chainOf = s.chainOf
        /\ conns = s.conns
        /\ memory = s.memory
  BY DEF InitInterleaved
<1>2. s \in RoomState
  BY RoomsOK
<1>3. TypeOK /\ home # None
  BY <1>1, <1>2 DEF RoomState, TypeOK
<1>4. RowsNameLiveChains
  <2>1. \A z \in Zone : chainOf[z] \in ChainId => source[chainOf[z]] # None
    BY <1>1, RoomsOK
  <2>2. \A k \in conns : k.chain # None => source[k.chain] # None
    BY <1>1, RoomsOK
  <2>3. \A k \in conns : k.chain # None => k.chain \in ChainId
    BY <1>3 DEF TypeOK, Connection
  <2> QED BY <2>1, <2>2, <2>3 DEF RowsNameLiveChains, Live
<1>5. Rows
  BY <1>3, <1>4 DEF Rows, DeletedRoomKeepsNothing
<1>6. job \in [Request -> Job] /\ \A r \in Request : job[r].at # "save"
  BY IdleIsAJob DEF InitInterleaved
<1> QED
  BY <1>5, <1>6 DEF InterleavedIInv, SavesHold, At

LEMMA NextInterleavedIInv ==
    InterleavedIInv /\ [NextInterleaved]_allVars => InterleavedIInv'
<1> SUFFICES ASSUME InterleavedIInv, [NextInterleaved]_allVars PROVE InterleavedIInv'
  OBVIOUS
<1>1. ASSUME NEW r \in Request, CreateStep(r) PROVE InterleavedIInv'
  BY <1>1, CreateReadsFromIInv, CreateReadsToIInv, CreatePlacesIInv, CreateRemembersIInv,
     CreateConnectsIInv DEF CreateStep
<1>2. ASSUME NEW r \in Request, RemoveStep(r) PROVE InterleavedIInv'
  BY <1>2, DisconnectReadsIInv, DisconnectDeletesIInv, DisconnectFindsOrphansIInv,
     DisconnectUnplacesIInv, NodeReadsHomeIInv, NodeReadsSourcesIInv, NodeUnplacesIInv
  DEF RemoveStep
<1>3. ASSUME NEW r \in Request, ChainJobStep(r) PROVE InterleavedIInv'
  BY <1>3, ChainReadsNodeIInv, ChainReadsNumberIInv, ChainInsertsIInv, RelocateReadsHomeIInv,
     RelocateReadsChainIInv, RelocateReadsNodeIInv, RelocateReadsZonesIInv, RelocateMovesIInv,
     UnchainReadsHomeIInv, UnchainReadsChainIInv, UnchainDeletesIInv
  DEF ChainJobStep
<1>4. ASSUME NEW r \in Request, SaveStep(r) PROVE InterleavedIInv'
  BY <1>4, SaveLocksIInv, SaveReplacesIInv, SaveRemembersIInv DEF SaveStep
<1>5. ASSUME NEW r \in Request, MigrateStep(r) PROVE InterleavedIInv'
  BY <1>5, MigrateReadsIInv, MigrateWritesIInv DEF MigrateStep
<1>6. CASE WholeStep
  BY <1>6, WholeIInv
<1>7. CASE UNCHANGED allVars
  <2>1. Rows' /\ UNCHANGED <<home, source, job>>
    BY <1>7, RowsStutter DEF allVars, vars, InterleavedIInv
  <2> QED BY <2>1, WholeKept
<1> QED
  BY <1>1, <1>2, <1>3, <1>4, <1>5, <1>6, <1>7 DEF NextInterleaved

\* The inductive invariant holds however the statements of any number of
\* requests fall between one another.
THEOREM AlwaysInterleavedIInv == SpecInterleaved => []InterleavedIInv
BY InitInterleavedIInv, NextInterleavedIInv, PTL DEF SpecInterleaved

\* The rows keep their types, and what a request has read has the type of what
\* it will write.
THEOREM InterleavedTypeCorrect == SpecInterleaved => []InterleavedTypeOK
<1>1. InterleavedIInv => InterleavedTypeOK
  BY DEF InterleavedIInv, Rows, InterleavedTypeOK
<1> QED BY <1>1, AlwaysInterleavedIInv, PTL

\* No node and no connection names a chain that is gone, although handlers act
\* on chains they have read some statements before: a deletion of the chain in
\* between makes their own statement fail or find nothing.
THEOREM RowsAlwaysNameLiveChains == SpecInterleaved => []RowsNameLiveChains
<1>1. InterleavedIInv => RowsNameLiveChains
  BY DEF InterleavedIInv, Rows
<1> QED BY <1>1, AlwaysInterleavedIInv, PTL

\* A request that goes on after its room was deleted leaves nothing behind.
THEOREM DeletedRoomStaysGone == SpecInterleaved => []DeletedRoomKeepsNothing
<1>1. InterleavedIInv => DeletedRoomKeepsNothing
  BY DEF InterleavedIInv, Rows
<1> QED BY <1>1, AlwaysInterleavedIInv, PTL

\* Between the lock of a save and its inserts no chain it has read goes away,
\* so the foreign key never refuses a client's map.
THEOREM SavesKeepTheirChains == SpecInterleaved => []SavesFindTheirChains
<1>1. InterleavedIInv => SavesFindTheirChains
  BY DEF InterleavedIInv, SavesHold, SavesFindTheirChains
<1> QED BY <1>1, AlwaysInterleavedIInv, PTL
=============================================================================
