\* The premium cap on settlements does not hold for their sum.
SPECIFICATION SSpec
CONSTANTS
    Users = {u1}
    MarketMakers = {mm}
    U64Max = 63
    VirtualOffset = 2
    BpsDenominator = 10000
    MaxYieldBps = 2000
    TimelockDuration = 2
    MaxMarketMakers = 1
    Amounts = {2}
    Premiums = {1}
    Notionals = {2}
    Donations = {}
    InitialDurations = {0}
    InitialCaps = {10000}
    Durations = {}
    Caps = {}
    WalletSupply = 2
    UsdcSupply = 3
    MaxTime = 0
    MaxEpoch = 2
INVARIANTS
    SettlementsWithinPremium
CHECK_DEADLOCK FALSE
