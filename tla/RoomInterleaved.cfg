SPECIFICATION SpecInterleaved
CONSTANTS
    z1 = z1
    z2 = z2
    z3 = z3
    c1 = c1
    c2 = c2
    c3 = c3
    k1 = k1
    k2 = k2
    Zone = {z1, z2, z3}
    Roads = {z2, z3}
    ChainId = {c1, c2, c3}
    ConnId = {k1, k2}
    None = None
    Absent = Absent
    Imports <- OneImport
    MaxChainNumber = 4
    Request = {r1, r2}
    Rooms <- SmallRooms
    Saves <- SomeSaves
    MaxServed = 3
SYMMETRY Requests
CHECK_DEADLOCK FALSE
INVARIANTS
    RowsNameLiveChains
    DeletedRoomKeepsNothing
    SavesFindTheirChains
