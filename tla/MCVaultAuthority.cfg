\* Epochs with exposure, premiums and settlements; and changes of the parameters.
SPECIFICATION ASpec
CONSTANTS
    Users = {u1}
    MarketMakers = {mm}
    U64Max = 9
    VirtualOffset = 2
    BpsDenominator = 10000
    MaxYieldBps = 5000
    TimelockDuration = 2
    MaxMarketMakers = 1
    Amounts = {2, 4}
    Premiums = {0, 2}
    Notionals = {4}
    Donations = {}
    InitialDurations = {0}
    InitialCaps = {10000}
    Durations = {1}
    Caps = {5000, 10000}
    WalletSupply = 6
    UsdcSupply = 2
    MaxTime = 5
    MaxEpoch = 3
    LastPremiumTime = 1
    OnlyDeposit = 4
INVARIANTS
    TypeOK
    AssetsBacked
PROPERTIES
    WithdrawalLeavesPremium
    TimelockRespected
CHECK_DEADLOCK FALSE
