SPECIFICATION Spec
CONSTANTS
    c1 = c1
    c2 = c2
    c3 = c3
    i1 = i1
    NoInstance = NoInstance
    Conf <- TwoConferences
    Instance <- OneEvent
    InstStart <- OneEventStart
    InstEnd <- OneEventEnd
    CalendarSync = TRUE
    Cooldown = 2
    Grace = 1
    Retention = 1
    MatchWindow = 2
    StateTTL = 3
    Horizon = 3
    MaxTime = 6
    FaultKinds = {"google", "calendar", "post", "kvread", "kvstate", "kvsub", "crash"}
    MaxFaults = 2
SYMMETRY Symmetry2
INVARIANTS TypeOK NoConferenceLost TrackedUntilExpired SuppressionJustified
           DuplicatesHaveFailures EventDuplicatesHaveFailures
