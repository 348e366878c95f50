SPECIFICATION Spec
CONSTANTS
    RiskPerTrade = 15
    MaxPositionPct = 30
    MaxDailyLoss = 8
    MaxWeeklyLoss = 12
    MaxOpenPositions = 2
    LossCooldownBars = 2
    StartingCash = 40
    FeePct = 10
    BaseSlippage = 0
    ImpactSlippage = 1
    Depth = 12
    Weights <- MCWeights
    ActionThreshold = 15
    MinConfidence = 35
    EntryOffset = 1
    StopMult = 2
    TargetMult = 3
    MacroRiskBlock = 3
    MaxHoldBars = 2
    Candles <- MCCandles
    Units = {1, 2}
    Views <- MCViews
    Alarms <- MCAlarms
    BarsPerDay = 2
    DaysPerWeek = 2
    MaxBars = 8
INVARIANTS
    BooksBalance
    TradesExplainCash
    TradeIsHeld
PROPERTIES
    NoEntryInCooldown
    NoEntryPastLimits
    LabelledWinsArePaid
