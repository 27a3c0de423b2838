SPECIFICATION Spec
CONSTANTS
  Roots = {r1, r2}
  Offered = {{r1}, {r1, r2}}
  Conns = {c1}
  Tasks = {t1, t2}
  NoBundle = NoBundle
  NoRoot = NoRoot
  NoConn = NoConn
  MaxGeneration = 2
PROPERTIES
  NoStreamOnWithdrawnTrust
  ImplementsTrustGate
  FenceLifts
  RetiredTransportsClose
