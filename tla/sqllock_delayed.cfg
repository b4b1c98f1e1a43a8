\* Statements run up to two ticks after their call read the clock.
CONSTANTS
    Clients = {c1, c2, c3}
    Holders = {h1, h2, h3, h4}
    NoHolder = NoHolder
    Lease = 4
    Delay = 2
    MaxTime = 8
SPECIFICATION Spec
SYMMETRY Symm
INVARIANTS
    TypeOK
PROPERTY Exclusive
CHECK_DEADLOCK FALSE
