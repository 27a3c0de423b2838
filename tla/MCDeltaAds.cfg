SPECIFICATION Spec
CONSTANTS
    r1 = r1
    r2 = r2
    v1 = v1
    v2 = v2
    Absent = Absent
    Star = Star
    Names = {r1, r2}
    Configs <- MCConfigs
    NoStream = NoStream
    Streams = {s1, s2}
    Subscriptions <- MCSubscriptions
    ChannelCap = 1
    MaxPublishes = 1
    MaxNacks = 1
    MaxChanges = 1
    MaxLosses = 1
    MaxNonce = 9
INVARIANTS
    TypeOK
    AcksAreAttributed
PROPERTIES
    ReconnectRepairs
    ClientConverges
