SPECIFICATION UpgradedSpec
CONSTANTS
    z1 = z1
    z2 = z2
    z3 = z3
    Zone = {z1, z2}
    Roads = {z2}
    ChainId = {c1, c2}
    ConnId = {k1, k2}
    None = None
    Absent = Absent
    Imports <- SmallImports
    MaxChainNumber = 3
SYMMETRY Ids
INVARIANTS
    HomeHasChain
    OnlyFirstShared
    ConnectionsHaveChains
PROPERTIES
    RemovalSparesSources
    DeleteChainSparesOthers
    HistoryOutlivesEdits
