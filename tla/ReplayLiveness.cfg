SPECIFICATION FairSpec
CONSTANTS
    w1 = w1  w2 = w2  e1 = e1  e2 = e2  k1 = k1  k2 = k2
    Workers = {w1, w2}
    Endpoints = {e1}
    Requests = {1, 2}
    Asks <- OverlapAsks
    CandidateLimit = 1
    MaxLive = 1
    MaxClock = 1
    MaxAborts = 1
    None = None
PROPERTIES
    EventuallyReplayed
