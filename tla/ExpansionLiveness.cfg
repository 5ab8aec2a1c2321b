SPECIFICATION FairSpec
CONSTANTS
    w1 = w1  w2 = w2  t1 = t1  t2 = t2  e1 = e1  e2 = e2
    k1 = k1  k2 = k2  order = order  user = user
    Workers = {w1, w2}
    Tenants = {t1, t2}
    Endpoints = {e1, e2}
    Types = {order, user}
    TenantOf <- TwoTenantOf
    Wants <- TwoWants
    Initially = {e1, e2}
    LockKey <- TwoLockKey
    Requests = {1, 2}
    Publishes <- TwoPublishes
    CandidateLimit = 20
    MaxAborts = 1
    None = None
PROPERTIES
    EventuallyExpanded
