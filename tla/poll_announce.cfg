SPECIFICATION Spec
CONSTANTS
    c1 = c1
    c2 = c2
    c3 = c3
    i1 = i1
    NoInstance = NoInstance
    Conf <- ThreeConferences
    Instance <- LateEvent
    InstStart <- LateEventStart
    InstEnd <- LateEventEnd
    CalendarSync = TRUE
    Cooldown = 2
    Grace = 1
    Retention = 1
    MatchWindow = 1
    StateTTL = 9
    Horizon = 4
    MaxTime = 6
    FaultKinds = {"google", "post"}
    MaxFaults = 1
SYMMETRY Symmetry3
INVARIANTS OnePostPerConference OnePostPerInstance
PROPERTIES EndedOnlyWhenOver CooldownOnStoredEnds
