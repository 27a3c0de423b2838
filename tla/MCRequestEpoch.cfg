SPECIFICATION Spec
CONSTANTS
  p1 = p1
  Global = Global
  Ports <- MCPorts
  Keys <- MCKeys
  Tasks = {t1}
  MaxConfigs = 3
  MaxBalances = 2
  MaxFaults = 1
INVARIANTS
  ClassesNeverCoexist
  AdmittedPortsAreBound
  ScopedRouteIsAdmitted
PROPERTIES
  CurrentEpochAnswersExactly
  NoLostPublication
  BoundListenerIsAdmitted
