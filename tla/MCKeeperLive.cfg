\* One procedure, failures and a restart, under fairness.
\* The yield recorded is too high exactly when the premium was collected as well.
SPECIFICATION FairKeeperSpec
CONSTANTS
    Users = {u1}
    MarketMakers = {kw}
    U64Max = 1000
    VirtualOffset = 2
    BpsDenominator = 10
    MaxYieldBps = 5
    TimelockDuration = 2
    MaxMarketMakers = 2
    Amounts = {10}
    Premiums = {}
    Notionals = {}
    Donations = {}
    InitialDurations = {1}
    InitialCaps = {8}
    Durations = {}
    Caps = {}
    WalletSupply = 10
    UsdcSupply = 4
    MaxTime = 3
    MaxEpoch = 2
    Tasks = {t1}
    Makers = {}
    KeeperWallet = kw
    Nobody = Nobody
    NoStats = NoStats
    IsDemo = FALSE
    Spots = {10, 20}
    PremiumRates = {4}
    MaxOverbid = 0
    StrikeDeltaBps = 1
    FloorBps = 8
    MinRoll = 2
    FallbackDuration = 2
    SettleSlack = 0
    SettleTime = 0
    OtherVaults = 0
    MaxRestarts = 1
    MaxOwed = 2
INVARIANTS
    CollectedOnlyIfRecorded
PROPERTIES
    EpochsEnd
CHECK_DEADLOCK FALSE
