\* Two nodes, one request at a time and two in all, one fault; a newer version is
\* staged when the plugin is installed.
CONSTANTS
    n1 = n1
    n2 = n2
    r1 = r1
    Nodes = {n1, n2}
    Requests = {r1}
    Ops = {"install", "enable", "disable", "uninstall", "upgrade"}
    Elected = n1
    Nowhere = Nowhere
    Free = Free
    Orphan = Orphan
    Drifts = {TRUE}
    MaxRequests = 2
    MaxFaults = 1
SPECIFICATION FairSpec
INVARIANTS
    TypeOK
    SideEffectsExclusive
    SchemaMatches
PROPERTIES
    ReconcilingEnds
    NodesConverge
    DesiredReached
