SPECIFICATION FairSpec
CONSTANTS
    Symbols = {btc}
    MaxDbFaults = 0
    MaxOpen = 1
    MaxHold = 2
    LossCooldown = 1
    AbortThreshold = 2
    MaxTrades = 1
PROPERTIES
    EveryPositionTimesOut
