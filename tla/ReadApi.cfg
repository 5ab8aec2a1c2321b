SPECIFICATION ReadSpec
CONSTANTS
    e1 = e1
    None = None
    Endpoints = {e1}
    Deliveries = {1, 2, 3}
    EndpointOf <- MCEndpointOf
    Batches = {1, 2, 3}
    BatchOf <- MCBatchOf
    LiveBatches = {1, 2}
    MaxAttempts = 2
    BatchAt <- MCBatchAt
    EventOf <- MCEventOf
    EventAt <- MCEventAt
    EventId <- MCEventId
    Millisecond = 4
    Limits = {0, 1}
    AttemptsShown = 2
    DeliveriesRated = 1
    MaxRecords = 3
INVARIANTS
    ResolvedShowsAnswer
    LiveSkipsAreTold
    HaltedShowsFailure
    InOrderOnce
    MissesOnlyTies
PROPERTIES
    BlockedWaits
