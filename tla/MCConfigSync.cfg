SPECIFICATION Spec
CONSTANTS
    CPCount = 2
    Keys <- MCKeys
    KeyOf <- MCKeyOf
    ValueOf <- MCValueOf
    MaxWrites = 2
    Invalid = {}
    Bad <- MCBad
    Refusals <- MCRefusals
    Skew <- MCAccurate
    Tolerance = 1
    IdleClock = 2
    QueueCap = 1
    MaxFaults = 1
    Mortal = {}
INVARIANTS
    TypeOK
    AppliedWasPublished
    QuiescentStreamIsCurrent
PROPERTIES
    FailoverKeepsCommittedWrites
    Converges
CHECK_DEADLOCK FALSE
