\* Shares: two users deposit, send shares around and withdraw; no options.
SPECIFICATION SharesSpec
CONSTANTS
    Users = {u1, u2}
    MarketMakers = {}
    U64Max = 63
    VirtualOffset = 2
    BpsDenominator = 10000
    MaxYieldBps = 2000
    TimelockDuration = 2
    MaxMarketMakers = 1
    Amounts = {1, 2}
    Premiums = {0}
    Notionals = {}
    Donations = {1}
    InitialDurations = {0}
    InitialCaps = {8000}
    Durations = {}
    Caps = {}
    WalletSupply = 2
    UsdcSupply = 0
    MaxTime = 0
    MaxEpoch = 3
SYMMETRY UserSymmetry
INVARIANTS
    SharesAccounted
    RequestsHonourable
PROPERTIES
    ImplementsFund
CHECK_DEADLOCK FALSE
