\* Overlapping ticks on one node, while updates change the limit and the quota; the
\* job may stay idle for ever.
CONSTANTS
    n1 = n1
    n2 = n2
    Nowhere = Nowhere
    c1 = c1
    c2 = c2
    a1 = a1
    a2 = a2
    Nodes = {n1}
    Calls = {c1, c2}
    Admins = {a1}
    Ops = {"create", "update"}
    Settings <- Changing
    MaxLogs = 2
    MaxFaults = 1
SPECIFICATION FairSpec
INVARIANTS
    SlotsExact
PROPERTIES
    SlotFrees
CHECK_DEADLOCK FALSE
