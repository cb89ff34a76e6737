SPECIFICATION Spec
CONSTANTS
    s1 = s1
    s2 = s2
    c1 = c1
    c2 = c2
    p = p
    Keys = {s1, s2, c1, c2}
    Abouts = {s1, s2, p}
    Garbled = Garbled
    None = None
    Readable <- MCReadable
    MaxAttempts = 2
    LongestList = 1
    MaxPartial = 1
INVARIANTS TypeOK PrintedChannelsExist
PROPERTY SearchEnds
