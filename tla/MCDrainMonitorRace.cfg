SPECIFICATION Spec
CONSTANTS
  c1 = c1
  c2 = c2
  Conns = {c1, c2}
  MaxConnections = 0
  CriticalRequests = 1
SYMMETRY Symmetry
INVARIANT DrainRefusesRequests
CHECK_DEADLOCK FALSE
