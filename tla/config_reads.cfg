\* Two readers or watchers of one node, of the platform and of a tenant, in either
\* mode: in a cluster with a write over two ticks, while Redis may fail; alone with
\* two writes, one after the other.  The node restarts at any time.
CONSTANTS
    n1 = n1
    n2 = n2
    p = p
    t1 = t1
    w1 = w1
    w2 = w2
    c1 = c1
    c2 = c2
    Nodes = {n1}
    Nowhere = Nowhere
    Scopes = {"global"}
    MaxStale = 0
    Modes = {TRUE, FALSE}
    Serial = TRUE
    Faults = TRUE
    Tenants = {p, t1}
    Platform = p
    Writes = {w1, w2}
    Calls = {c1, c2}
    Ops = {"update"}
    MaxTime = 1
SPECIFICATION Spec
SYMMETRY CallSymm
CONSTRAINT Bounded
INVARIANTS
    TypeOK
    TagSound
    FreshRead
    BoundedStaleness
