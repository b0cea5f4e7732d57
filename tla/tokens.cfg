SPECIFICATION FairSpec
CONSTANTS
    h1 = h1
    h2 = h2
    f1 = f1
    k1 = k1
    k2 = k2
    Requester <- OneRequester
    Browser <- OneBrowser
    Poller = poller
    Flow <- OneFlow
    Key <- TwoKeys
    FirstKey = k1
    NoToken = NoToken
    NoFlow = NoFlow
    MaxGrants = 2
    MaxRequests = 2
    MaxConfigs = 1
    MaxFaults = 1
INVARIANTS TypeOK ConnectionUsable NoticesHaveFailures
PROPERTIES GoodTokenKept UnreadableTokenGoes ExpiringTokenRefreshed
