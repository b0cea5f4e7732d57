SPECIFICATION FairSpec
CONSTANTS
    c1 = c1
    c2 = c2
    c3 = c3
    i1 = i1
    NoInstance = NoInstance
    Conf <- TwoConferences
    Instance <- OneEvent
    InstStart <- OneEventStart
    InstEnd <- OneEventEnd
    CalendarSync = TRUE
    Cooldown = 2
    Grace = 1
    Retention = 2
    MatchWindow = 2
    StateTTL = 9
    Horizon = 3
    MaxTime = 4
    FaultKinds = {"google", "calendar", "post", "kvread", "kvstate", "kvsub", "crash"}
    MaxFaults = 1
PROPERTIES EveryConferenceSettled EveryPostEnds
