SPECIFICATION Spec
CONSTANTS
    Symbols = {btc, eth, sol}
    MaxDbFaults = 2
    MaxOpen = 2
    MaxHold = 1
    LossCooldown = 1
    AbortThreshold = 2
    MaxTrades = 4
SYMMETRY SymbolSymmetry
INVARIANTS
    TypeOK
    OneOpenRowPerSymbol
    OpenRowsManaged
    PositionLimit
    NoPhantomPosition
PROPERTIES
    ClosedRowsFinal
    ImplementsLedger
