\* The router's waits, the list of vaults, the operators' scripts.
SPECIFICATION WSpec
CONSTANTS
    Makers = {m1, m2}
    Connections = {c1, c2}
    Rfqs = {r1}
    Waiters = {w1}
    None = None
    Prices = {1}
    Floors = {0}
    Quorums = {2}
    QuoteTimeouts = {1}
    Lifetimes = {1}
    WaitTimeouts = {1, 2}
    Retention = 1
    MaxTime = 2
    VaultIds = {v1, v2}
    Owners = {u1}
    Loads = {1, 2}
    MaxTroubles = 2
    Processes = {p1}
    Operator = op
    OtherMakers = {m3}
    WhitelistSize = 2
    MaxOutstanding = 1
PROPERTIES
    WaitAnswered
    VaultsListed
    RerunsSetUp
CHECK_DEADLOCK FALSE
