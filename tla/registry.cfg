SPECIFICATION FairSpec
CONSTANTS
    s1 = s1
    s2 = s2
    a = a
    b = b
    u1 = u1
    u2 = u2
    p1 = p1
    p2 = p2
    NoChannel = NoChannel
    NoSubscription = NoSubscription
    Space <- OneSpace
    Channel <- TwoChannels
    User <- TwoUsers
    Caller <- TwoCallers
    MaxCommands = 3
    MaxFaults = 1
INVARIANTS TypeOK KeysAgree
PROPERTIES ImplementsOwnership EverySubscriptionPolled
