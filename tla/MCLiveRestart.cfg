SPECIFICATION LiveSpec
CONSTANTS
    Symbols = {btc, eth}
    MaxStake = 2
    Adapters = {"binance"}
    BucketsPerDay = 2
    MaxTime = 2
    MaxHeld = 4
    MaxPositions = 1
    LossCap = 2
    Losses = {0, 1}
    MaxLost = 1
    MaxRestarts = 1
    MaxFaults = 1
INVARIANT TrackedCanBeSold
