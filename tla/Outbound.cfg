SPECIFICATION FairSpec
CONSTANTS
    None = None
    Name = Name
    Urls <- MCUrls
    Answers <- MCAnswers
    MaxLookup = 2
    ConnectTimeout = 1
    TotalTimeout = 2
    LeaseFloor = 1
    MaxBody = 2
    Chunks = {1, 2}
    MaxRotations = 2
    MaxClock = 5
INVARIANTS
    DialedIsPublic
    ConnectTimeoutIsConnect
    WithinLease
    HolderVerifies
PROPERTIES
    Settles
