SPECIFICATION Spec
CONSTANTS
    m1 = m1
    c1 = c1
    c2 = c2
    NoConf = NoConf
    rec1 = rec1
    notes1 = notes1
    notes2 = notes2
    Meeting <- OneMeeting
    Conf <- TwoConfs
    MeetingOf <- MeetingOfTwo
    Suppressed <- None
    Artifact <- ThreeFiles
    ConfOf <- TwoAndOne
    KindOf <- KindOfThree
    Linked = {rec1}
    EntryTTL = 2
    StateTTL = 1
    Horizon = 1
    MaxTime = 2
    MaxFaults = 0
INVARIANT NoOrphanedEntry
