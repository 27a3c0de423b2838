SPECIFICATION Spec
CONSTANTS
    Tasks = {t1, t2}
    Bounded = {t1}
    Sockets = {s1, s2}
    Ports = {1, 2}
    Policy <- MCPolicy
    MaxGeneration = 3
    MaxRetries = 1
    MaxClones = 2
INVARIANTS
    CountsAreExact
    CapHeld
    StrictestLaneGoverns
PROPERTIES
    RetiredLaneDrains
