\* Two nodes that may be paused for longer than the lease.
CONSTANTS
    Nodes = {n1, n2}
    Tokens = {t1, t2, t3}
    NoToken = NoToken
    Lease = 2
    RenewInterval = 1
    Delay = 0
    Timely = FALSE
    MaxFaults = 2
SPECIFICATION FairSpec
PROPERTIES
    StaleLeaderStepsDown
    LeaderEmerges
    StopCompletes
