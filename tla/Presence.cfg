SPECIFICATION FairPresenceSpec
CONSTANTS
    s1 = s1
    s2 = s2
    r1 = r1
    r2 = r2
    Socket = {s1, s2}
    Room = {r1, r2}
    RoomOf <- OneAndOne
INVARIANTS
    HeartbeatIffSockets
    RegistryExact
PROPERTIES
    SilentAreDropped
    AuthenticatesOrCloses
