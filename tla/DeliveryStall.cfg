SPECIFICATION Spec
CONSTANTS
    w1 = w1  w2 = w2  e1 = e1  e2 = e2  t1 = t1  t2 = t2
    live1 = live1  live2 = live2  live3 = live3  replay = replay
    Workers = {w1, w2}
    Tenants = {t1, t2}
    Endpoints = {e1, e2}
    TenantOf <- TwoTenantOf
    Deliveries = {1, 2, 3}
    EndpointOf <- TwoEndpointOf
    Batches = {live1, live2, live3}
    BatchOf <- TwoBatchOf
    LiveBatches = {live1, live2, live3}
    MaxAttempts = 1
    CandidateLimit = 2
    ClaimStall = TRUE
    MaxLapses = 2
    MaxAborts = 0
    MaxPauses = 0
    None = None
    Orphan = Orphan
SYMMETRY WorkerSymmetry
INVARIANTS
    SucceededIsWitnessed
PROPERTIES
    AnswersAreKept
