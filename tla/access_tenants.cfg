\* Two nodes of a cluster with a tenant: one request at a time and a change, no
\* fault.
CONSTANTS
    n1 = n1
    n2 = n2
    p = p
    t1 = t1
    w1 = w1
    w2 = w2
    c1 = c1
    c2 = c2
    k1 = k1
    Nodes = {n1, n2}
    Home = n1
    Nowhere = Nowhere
    NoToken = NoToken
    Scopes = {p, t1}
    Platform = p
    Tokens = {k1}
    TenantOf <- OfTenant
    Changes = {w1}
    Calls = {c1}
    Modes <- TenantCluster
    Window = 1
    MaxStale = 1
    MaxTime = 3
    MaxFaults = 0
SPECIFICATION Spec
SYMMETRY Symm
INVARIANTS
    FreshAccess
CHECK_DEADLOCK FALSE
