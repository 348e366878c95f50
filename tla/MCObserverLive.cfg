SPECIFICATION FairSpec
CONSTANTS
    Symbols = {btc, eth}
    MaxDbFaults = 1
    MaxOpen = 2
    MaxHold = 2
    LossCooldown = 1
    AbortThreshold = 2
    MaxTrades = 2
PROPERTIES
    TimeStopFires
    StopHonoured
