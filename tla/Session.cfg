SPECIFICATION FairSpec
CONSTANTS
  Rooms = {r1}
  Sockets = {s1, s2}
  NoRoom = NoRoom
  NoSocket = NoSocket
  NoToken = NoToken
  MaxQueue = 1
  MaxFaults = 1
  MaxEdits = 1
INVARIANTS
  Supervised
  SyncedIsInSync
PROPERTIES
  HalfOpenNoticed
  BackInSync
CHECK_DEADLOCK FALSE
