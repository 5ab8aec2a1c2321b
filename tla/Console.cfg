SPECIFICATION FairSpec
CONSTANTS
    t1 = t1
    t2 = t2
    node = node
    go = go
    e1 = e1
    None = None
    Tenants = {t1}
    Backends = {node, go}
    Endpoints = {e1}
    Views = {"endpoints", "overview"}
    Followed = {"endpoints"}
    Actions = {"resume", "rotate", "replay", "register"}
    MaxClicks = 2
    MaxSurprises = 2
INVARIANTS
    ShownForBackend
    ReadYourWrites
    ActionsInOrder
PROPERTIES
    SecretKept
    EventuallyFresh
CHECK_DEADLOCK FALSE
