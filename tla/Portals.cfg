SPECIFICATION Spec
CONSTANTS
  First = ann
  Second = bob
  Members = {ann, bob}
  Zones = {road, track, city}
  Home = road
  Roads = {road, track}
  Portals = {p, q}
  MaxConns = 3
  MaxGestures = 4
  Cost <- Gestures
SYMMETRY Symmetry
CHECK_DEADLOCK FALSE
INVARIANTS PortalsAgree LoopsWarned EndsAreThere
