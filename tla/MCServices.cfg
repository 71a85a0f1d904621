CONSTANTS
    None = None
    MaxTime = 6
    Clients = {c1}
    Tiers = {"public"}
    Window = 2
    MaxRequests = 2
    ViolationThreshold = 2
    BlockDurations = {2}
    CountBound = 3
    MaxServed = 5
    Mints = {m1}
    Callers = {v1, v2}
    CacheTimeout = 0
    Sources = {s1, s2}
    MaxEvents = 3
    CountThreshold = 2
    BurstThreshold = 1
    BurstWindow = 1
    StackDepth = 4
    MaxLogged = 6
    Sockets = {k1, k2}
    Rfqs = {r1}
    Quotes = {q1, q2}
    WithWallet = {q1}
    Executions = {x1, x2}
    MaxReconnectAttempts = 3
    Wallets = {w1}
    Fetches = {f1, f2}
    FirstLimit = 2
    NextLimit = 1
    MaxTxs = 3
    Assets = {"both", "yahoo"}
    Feeds <- MCFeeds
    Intervals = {1, 2, 3, 4}
    Requests = {1, 2, 3}
    Users = {u1}
    MaxUses = 2
    Cooldown = 2
    Calls = {1, 2}
    CacheKeys = {"mint-1D"}
    CacheTtl <- MCCacheTtl
    NvdaTtl = 1
    TokenLife = 2
    TokenBuffer = 1
    Prices = {0, 1, 2}
    Amounts = {0, 2}
    Dollar = 3
    CandleInterval = 2
    Lookback = 5
    AskedAt = 6
    MaxTrades = 3
    LogPrices = {0, 1, 2}
    Confidences = {0, 5}
    Lookback30 = 1
    DayLength = 1
    MinPoints = 6
    IdealPoints = 8
    BatchSize = 1
    MaxRows = 3
    MaxDaily = 3
    LogCapacity = 3
    FirstEvents = 2
    ShownCapacity = 2
    Refreshes = {f1, f2}
    MaxRecorded = 4
    Views = {e1, e2}
    Second = 2
    Minute = 2
    Hour = 4
    Day = 16
    AlignHours = 2
    DemoPeriod = 2
    ProdPeriod = 3
    RollTimes = {0, 6, 8}
    Durations = {0, 1}
    FirstMoment = 11
    Options <- MCOptions
    Terms <- MCTerms
    Value <- MCValue
    GuessScale <- MCGuessScale
    TopVol = 600
    LowVol = 0
    HighVol = 500
    Tolerance = 1
    Iterations = 12
    FewIterations = 10
    SampleSizes = {1, 12, 70}
    StdDevs = {2, 45, 500}
    MarketPrices <- MCMarketPrices
SPECIFICATION Spec
INVARIANTS
    CountsCoverEvents
    FillProcessed
    NothingPassedOver
    TimersCanStop
    CooldownKept
    OnlyMarkedStale
    CandlesFaithful
    EstimateSound
    EventsShown
    CountdownsAgree
    ImpliedVolFound
PROPERTIES
    LimitsKept
    BanSeen
    Reconnects
CHECK_DEADLOCK FALSE
