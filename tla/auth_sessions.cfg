\* One node; a user of the platform and of a tenant, with two tokens; two requests
\* at a time, four in all over two ticks; one fault; the session timeout changes
\* between two values.
CONSTANTS
    Nodes = {n1}
    Home = n1
    Nowhere = Nowhere
    NoToken = NoToken
    Tokens = {k1, k2}
    Tenants = {t0, t1}
    Platform = t0
    Calls = {c1, c2}
    Tickets = {r1}
    Timeouts = {1, 2}
    AccessTTL = 1
    RefreshTTL = 3
    TicketTTL = 1
    RowWindow = 0
    CallTime = 0
    Modes = {TRUE, FALSE}
    MaxTime = 2
    MaxBegun = 4
    MaxFaults = 1
SPECIFICATION MCSpec
SYMMETRY Symm
INVARIANTS
    TypeOK
    SingleNodeStaysOut
    RevokedStaysOut
    TicketOnce
    ActiveSessionKept
CHECK_DEADLOCK FALSE
