\* Every operation but update, and two faults, on a master_only job that may stay idle for ever.
CONSTANTS
    n1 = n1
    n2 = n2
    Nowhere = Nowhere
    c1 = c1
    c2 = c2
    a1 = a1
    a2 = a2
    Nodes = {n1, n2}
    Calls = {c1, c2}
    Admins = {a1}
    Ops = {"create", "enable", "disable", "reset", "delete"}
    Settings <- MasterOnce
    MaxLogs = 2
    MaxFaults = 2
SPECIFICATION Spec
SYMMETRY Symm
INVARIANTS
    TypeOK
    QuotaRespected
    RowsMatchExecutions
CHECK_DEADLOCK FALSE
