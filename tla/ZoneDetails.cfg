CONSTANTS
  alice = alice
  bob = bob
  Members <- MCMembers
  Noters <- MCNoters
  Arrangers <- MCArrangers
  Shapes <- MCShapes
  MaxTimes <- MCMaxTimes
  RedsTime = 1
  Typed <- MCTyped
  Known <- MCKnown
  Switches <- MCSwitches
  Spots <- MCSpots
  MaxClock = 2
  MaxEdits = 2
  MaxUp = 1
  MaxDown = 1
  MaxBacks = 1
SPECIFICATION Spec
INVARIANTS NotesMakeSense HistoryKeepsUp ContradictionsHeal
PROPERTIES WritesAreTurnedShapes
CHECK_DEADLOCK FALSE
