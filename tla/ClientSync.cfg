SPECIFICATION Spec
CONSTANTS
  Clients = {ann, bob}
  Zones = {home, far, deep}
  Home = home
  ConnIds = {1}
  MaxEdits = 3
  MaxUp = 1
  Imports <- SmallImports
SYMMETRY Symmetry
CHECK_DEADLOCK FALSE
INVARIANTS KnowsEveryNode SameMap
