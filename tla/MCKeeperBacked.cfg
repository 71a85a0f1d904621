\* One procedure; rolls with and without a fill.
SPECIFICATION KeeperSpec
CONSTANTS
    Users = {u1}
    MarketMakers = {mm, kw}
    U64Max = 1000
    VirtualOffset = 2
    BpsDenominator = 10
    MaxYieldBps = 5
    TimelockDuration = 2
    MaxMarketMakers = 2
    Amounts = {10}
    Premiums = {}
    Notionals = {}
    Donations = {}
    InitialDurations = {2}
    InitialCaps = {8}
    Durations = {}
    Caps = {}
    WalletSupply = 10
    UsdcSupply = 6
    MaxTime = 4
    MaxEpoch = 2
    Tasks = {t1}
    Makers = {mm}
    KeeperWallet = kw
    Nobody = Nobody
    NoStats = NoStats
    IsDemo = FALSE
    Spots = {10, 20}
    PremiumRates = {2}
    MaxOverbid = 0
    StrikeDeltaBps = 1
    FloorBps = 8
    MinRoll = 2
    FallbackDuration = 2
    SettleSlack = 0
    SettleTime = 1
    OtherVaults = 0
    MaxRestarts = 1
    MaxOwed = 2
INVARIANTS
    CreditBacked
CHECK_DEADLOCK FALSE
