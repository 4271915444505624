SPECIFICATION PathsSpec
CONSTANTS
  home = home
  a = a
  b = b
  c = c
  Zones <- MCZones
  Sources = {home}
  MaxConns = 4
SYMMETRY Symmetry
INVARIANTS
  RouteIsShortest
  ShownAliveIffReachable
  DeletionTakesTheBranch
