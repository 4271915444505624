SPECIFICATION Spec
CONSTANTS
  c1 = c1
  c2 = c2
  Clients = {c1, c2}
  Zones = {"a", "b", "c"}
  Sources = {"a", "b"}
  ChainOf <- MCChainOf
  FirstMap <- MCFirstMap
  Spare <- MCSpare
  None = None
  MaxEdits = 1
  MaxGestures = 3
SYMMETRY Symmetry
INVARIANTS
  RouteStands
  SameRoute
  RouteJoinsItsEnds
CHECK_DEADLOCK FALSE
