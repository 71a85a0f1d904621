\* Two procedures at once, another vault in their rolls, a maker that fills, calls
\* that fail.  No settlement is in the money at one price, so nothing is lost with
\* an empty whitelist.
SPECIFICATION KeeperSpec
CONSTANTS
    Users = {u1}
    MarketMakers = {mm, kw}
    U64Max = 1000
    VirtualOffset = 2
    BpsDenominator = 10
    MaxYieldBps = 5
    TimelockDuration = 2
    MaxMarketMakers = 0
    Amounts = {10}
    Premiums = {}
    Notionals = {}
    Donations = {}
    InitialDurations = {2}
    InitialCaps = {8}
    Durations = {}
    Caps = {}
    WalletSupply = 10
    UsdcSupply = 1
    MaxTime = 4
    MaxEpoch = 3
    Tasks = {t1, t2}
    Makers = {mm}
    KeeperWallet = kw
    Nobody = Nobody
    NoStats = NoStats
    IsDemo = FALSE
    Spots = {10}
    PremiumRates = {2}
    MaxOverbid = 0
    StrikeDeltaBps = 1
    FloorBps = 8
    MinRoll = 2
    FallbackDuration = 2
    SettleSlack = 0
    SettleTime = 1
    OtherVaults = 1
    MaxRestarts = 0
    MaxOwed = 1
SYMMETRY TaskSymmetry
PROPERTIES
    CreditsOwnEpoch
CHECK_DEADLOCK FALSE
