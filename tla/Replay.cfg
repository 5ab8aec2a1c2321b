SPECIFICATION Spec
CONSTANTS
    w1 = w1  w2 = w2  e1 = e1  e2 = e2  k1 = k1  k2 = k2
    Workers = {w1, w2}
    Endpoints = {e1, e2}
    Requests = {1, 2}
    Asks <- RepeatAsks
    CandidateLimit = 20
    MaxLive = 2
    MaxClock = 2
    MaxAborts = 1
    None = None
SYMMETRY WorkerSymmetry
INVARIANTS
    ReplayTypeOK
    OneReplayPerKey
    ReplayedOnceInOrder
    ReplayIsComplete
    NoPendingDuplicated
