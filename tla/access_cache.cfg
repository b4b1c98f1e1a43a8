\* A node of a cluster without tenants, or a single node with two of them; two
\* requests or watchers and one change over three ticks; two faults.
CONSTANTS
    n1 = n1
    n2 = n2
    p = p
    t1 = t1
    w1 = w1
    w2 = w2
    c1 = c1
    c2 = c2
    k1 = k1
    Nodes = {n1}
    Home = n1
    Nowhere = Nowhere
    NoToken = NoToken
    Scopes = {p, t1}
    Platform = p
    Tokens = {k1}
    TenantOf <- OfTenant
    Changes = {w1}
    Calls = {c1, c2}
    Modes <- OneCounterModes
    Window = 1
    MaxStale = 1
    MaxTime = 3
    MaxFaults = 2
SPECIFICATION Spec
SYMMETRY Symm
INVARIANTS
    TypeOK
    TagSound
    FreshAccess
    BoundedStaleness
CHECK_DEADLOCK FALSE
