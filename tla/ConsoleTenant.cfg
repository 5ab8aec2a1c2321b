SPECIFICATION Spec
CONSTANTS
    t1 = t1
    t2 = t2
    node = node
    go = go
    e1 = e1
    None = None
    Tenants = {t1, t2}
    Backends = {node, go}
    Endpoints = {e1}
    Views = {"endpoints", "overview", "events", "event", "delivery"}
    Followed = {"endpoints", "endpoint-deliveries", "events", "event", "delivery"}
    Actions = {"resume"}
    MaxClicks = 3
    MaxSurprises = 1
INVARIANTS
    ShownForTenant
CHECK_DEADLOCK FALSE
