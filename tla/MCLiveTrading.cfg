SPECIFICATION LiveSpec
CONSTANTS
    Symbols = {btc, eth}
    MaxStake = 2
    Adapters = {"mock", "binance"}
    BucketsPerDay = 2
    MaxTime = 3
    MaxHeld = 4
    MaxPositions = 1
    LossCap = 2
    Losses = {0, 1, 2}
    MaxLost = 1
    MaxRestarts = 2
    MaxFaults = 1
SYMMETRY SymbolSymmetry
INVARIANTS
    OneStakePerBucket
    NeverAheadOfVenue
    LotsMirrorVenue
    LotLimit
    LedgerBacked
    ViewsAgree
PROPERTIES
    CapStopsEntries
