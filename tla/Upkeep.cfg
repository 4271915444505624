SPECIFICATION FairUpkeepSpec
CONSTANTS
  r1 = r1
  r2 = r2
  Rooms = {r1, r2}
  AbortedGrace = 0
  AbandonedGrace = 1
  MaxClock = 3
  MaxTracked = 2
  MaxFaults = 1
INVARIANTS
  CountersAddUp
PROPERTY
  IdleRoomsGo
CHECK_DEADLOCK FALSE
