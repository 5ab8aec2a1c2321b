SPECIFICATION FairSpec
CONSTANTS
    w1 = w1  w2 = w2  e1 = e1  e2 = e2  t1 = t1  t2 = t2
    live1 = live1  live2 = live2  live3 = live3  replay = replay
    Workers = {w1, w2}
    Tenants = {t1}
    Endpoints = {e1}
    TenantOf <- OneTenantOf
    Deliveries = {1, 2}
    EndpointOf <- OneEndpointOf
    Batches = {live1, live2}
    BatchOf <- OneBatchOf
    LiveBatches = {live1, live2}
    MaxAttempts = 1
    CandidateLimit = 20
    ClaimStall = TRUE
    MaxLapses = 1
    MaxAborts = 0
    MaxPauses = 0
    None = None
    Orphan = Orphan
PROPERTIES
    Delivered
