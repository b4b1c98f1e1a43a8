\* Three nodes, every due step taken within Delay, with the smallest Lease that
\* satisfies RenewInterval + 3 * Delay < Lease.
CONSTANTS
    Nodes = {n1, n2, n3}
    Tokens = {t1, t2, t3, t4}
    NoToken = NoToken
    Lease = 6
    RenewInterval = 2
    Delay = 1
    Timely = TRUE
    MaxFaults = 2
SPECIFICATION Spec
SYMMETRY Symm
INVARIANTS
    TypeOK
    LeaderOwnsLease
    SinglePrimary
PROPERTIES
    OwnerOnlyTouchesLease
