\* One request, two makers, three sockets: quotes, reconnections and fills.
SPECIFICATION Spec
CONSTANTS
    Makers = {m1, m2}
    Connections = {c1, c2, c3}
    Rfqs = {r1}
    Waiters = {}
    None = None
    Prices = {1, 2}
    Floors = {0, 2}
    Quorums = {2}
    QuoteTimeouts = {1}
    Lifetimes = {1, 2}
    WaitTimeouts = {}
    Retention = 1
    MaxTime = 2
SYMMETRY RouterSymmetry
INVARIANTS
    NoStaleRegistration
    OneWinnerTold
PROPERTIES
    ImplementsAuction
CHECK_DEADLOCK FALSE
