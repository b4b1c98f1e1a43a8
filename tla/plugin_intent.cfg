\* Two requests at the same time, no faults.
CONSTANTS
    n1 = n1
    n2 = n2
    r1 = r1
    r2 = r2
    Nodes = {n1, n2}
    Requests = {r1, r2}
    Ops = {"install", "enable", "disable", "uninstall"}
    Elected = n1
    Nowhere = Nowhere
    Free = Free
    Orphan = Orphan
    Drifts = {FALSE}
    MaxRequests = 2
    MaxFaults = 0
SPECIFICATION FairSpec
PROPERTIES
    IntentKept
