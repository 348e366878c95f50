SPECIFICATION Spec
CONSTANTS
    MaxClock = 3
    MaxFaults = 1
    MaxCrashes = 1
    Horizons = {1, 2}
    MinSamples = 1
    EvalPerCycle = 1
    Levels <- MCLevels
    FreshSymbols = 1
    MaxRows = 2
    AlertCooldown = 2
    Symbols = {btc, eth}
    Views <- MCViews
    Accuracies = {"good"}
    Equities = {8, 12}
    StartingCash = 10
    DayLength = 1
    SessionAge = 1
    TargetDays = 2
    DayCycles = 2
    MaxCount = 4
    Watchlist = {btc, eth}
    Minute = 2
    Bars = 2
    Retained = 3
    Ttl = 1
    MaxAge = 2
    Horizon = 1
    LastTick = 3
    MaxClaims = 1
    Regimes = {"CALM", "CHOPPY"}
    Stated = {55, 75}
    MemoryRows = 2
    CalibrationRows = 3
    RegimeMinSamples = 2
    RegimeFloor = 50
    CalibrationMin = 2
    ConfidenceFloor = 50
INVARIANTS
    TypeOK
    SettledOutcomeIsFinal
    CriticalConditionHeard
    DrawdownFromBestOnRecord
    NoDayLostSilently
    UptimeNotOverstated
PROPERTIES
    SettledPredictionsStay
    EveryPredictionSettled
    JudgedByFinalClose
    GatesReopen
