SPECIFICATION Spec
CONSTANTS
    CPCount = 2
    Keys <- MCKeys
    KeyOf <- MCOneKey
    ValueOf <- MCOneValue
    MaxWrites = 1
    Invalid = {}
    Bad = {}
    Refusals <- MCNoRefusals
    Skew <- MCFast
    Tolerance = 2
    IdleClock = 4
    QueueCap = 1
    MaxFaults = 1
    Mortal = {1}
PROPERTY
    FenceEndsWithTime
CHECK_DEADLOCK FALSE
