\* A wallet that comes and goes on the pages of one vault, and one that cannot sign.
SPECIFICATION PSpec
CONSTANTS
    Users = {u1, u2}
    MarketMakers = {}
    U64Max = 63
    VirtualOffset = 2
    BpsDenominator = 10000
    MaxYieldBps = 2000
    TimelockDuration = 2
    MaxMarketMakers = 1
    Amounts = {1}
    Premiums = {}
    Notionals = {}
    Donations = {}
    InitialDurations = {0}
    InitialCaps = {8000}
    Durations = {}
    Caps = {}
    WalletSupply = 1
    UsdcSupply = 0
    MaxTime = 0
    MaxEpoch = 3
    None = None
    Signing = {u1}
    Fetches = {1, 2}
    ScanDepth = 2
    MaxFaults = 1
    MaxSwitches = 2
INVARIANTS
    CacheKeepsOwn
    ClaimsHaveRequests
PROPERTIES
    WindowPays
CHECK_DEADLOCK FALSE
