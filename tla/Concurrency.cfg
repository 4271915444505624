SPECIFICATION FairSpec
CONSTANTS
  r1 = r1
  r2 = r2
  k1 = k1
  k2 = k2
  Rooms <- MCRooms
  TokensOf <- MCTokensOf
  MaxDay = 2
  MaxSockets = 2
  MaxTicks = 2
  MaxConnects = 2
  MaxFaults = 1
INVARIANTS
  ClosedDaysAreComplete
PROPERTIES
  RowsAreHighWaterMarks
  EventuallyComplete
CHECK_DEADLOCK FALSE
