SPECIFICATION FairSpec
CONSTANTS
    n1 = n1
    n2 = n2
    Node <- TwoNodes
    Config <- Settings
    FirstConfig <- TooFast
    MaxPollers = 2
    MaxChanges = 1
    MaxPollNow = 1
    MaxFaults = 1
    NoHolder = NoHolder
    Orphaned = Orphaned
INVARIANTS TypeOK NoPollerLeaks PollerFollowsConfig OneCycleAtATime
PROPERTIES PollingGoesOn SwitchedOffIsQuiet
CHECK_DEADLOCK FALSE
