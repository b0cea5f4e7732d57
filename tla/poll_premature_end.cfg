SPECIFICATION Spec
CONSTANTS
    c1 = c1
    c2 = c2
    c3 = c3
    i1 = i1
    NoInstance = NoInstance
    Conf <- TwoConferences
    Instance <- OneEvent
    InstStart <- OneEventStart
    InstEnd <- OneEventEnd
    CalendarSync = TRUE
    Cooldown = 2
    Grace = 1
    Retention = 2
    MatchWindow = 2
    StateTTL = 9
    Horizon = 5
    MaxTime = 7
    FaultKinds = {"kvread"}
    MaxFaults = 1
SYMMETRY Symmetry2
PROPERTIES EndedOnlyWhenOver
