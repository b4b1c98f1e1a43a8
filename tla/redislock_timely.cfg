\* INCR follows its SETNX within the lease.
CONSTANTS
    Clients = {c1, c2, c3}
    Tokens = {t1, t2, t3, t4}
    NoToken = NoToken
    Lease = 2
    Delay = 1
    Timely = TRUE
    MaxFence = 4
SPECIFICATION Spec
SYMMETRY Symm
INVARIANTS
    TypeOK
    FenceOrdersHolders
 
