SPECIFICATION SinkFairSpec
CONSTANTS
    s1 = s1
    s2 = s2
    c1 = c1
    c2 = c2
    c3 = c3
    p = p
    Keys = {s1, s2, c1, c2, c3}
    Abouts = {s1, s2, p}
    Garbled = Garbled
    None = None
    Schedule <- MCSchedule
    MaxLost = 2
INVARIANTS CompleteLists
PROPERTIES ImplementsLists ListsKeepComing
