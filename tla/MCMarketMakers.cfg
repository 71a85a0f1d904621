\* Router and makers together: one maker of each kind, losses and restarts.
SPECIFICATION MSpec
CONSTANTS
    Makers = {m1, m2}
    MockMakers = {m1}
    Connections = {c1, c2, c3}
    Rfqs = {r1}
    Waiters = {}
    None = None
    Prices = {1}
    Floors = {0}
    Quorums = {1}
    QuoteTimeouts = {0}
    Lifetimes = {1}
    WaitTimeouts = {}
    Retention = 0
    MaxTime = 1
    Funds = 1
INVARIANTS
    PaidAsAwarded
    QuotesCarryWallets
PROPERTIES
    FillsAttempted
CHECK_DEADLOCK FALSE
