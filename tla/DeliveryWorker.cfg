SPECIFICATION Spec
CONSTANTS
    w1 = w1  w2 = w2  e1 = e1  e2 = e2  t1 = t1  t2 = t2
    live1 = live1  live2 = live2  live3 = live3  replay = replay
    Workers = {w1, w2}
    Tenants = {t1}
    Endpoints = {e1}
    TenantOf <- OneTenantOf
    Deliveries = {1, 2, 3}
    EndpointOf <- MixEndpointOf
    Batches = {live1, live2, replay}
    BatchOf <- MixBatchOf
    LiveBatches = {live1, live2}
    MaxAttempts = 2
    CandidateLimit = 20
    ClaimStall = FALSE
    MaxLapses = 1
    MaxAborts = 1
    MaxPauses = 1
    None = None
    Orphan = Orphan
SYMMETRY WorkerSymmetry
INVARIANTS
    OneInFlight
    StrictOrder
    HistoryAgrees
    FailedAtCeiling
    HaltedIsQuiescent
PROPERTIES
    TerminalIsFinal
    ImplementsQueue
