SPECIFICATION SafeSpec
CONSTANTS
    r1 = r1
    r2 = r2
    v1 = v1
    v2 = v2
    Absent = Absent
    Star = Star
    Names = {r1, r2}
    Configs <- MCConfigs
    NoStream = NoStream
    Streams = {s1, s2}
    Subscriptions <- MCSubscriptions
    ChannelCap = 2
    MaxPublishes = 2
    MaxNacks = 0
    MaxChanges = 0
    MaxLosses = 0
    MaxNonce = 6
INVARIANT
    AcknowledgedIsHeld
