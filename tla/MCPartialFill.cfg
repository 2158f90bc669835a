SPECIFICATION LiveSpec
CONSTANTS
    Orders <- MCOrders
    Strategies <- MCStrategies
    StrategyOf <- MCStrategyOf
    LimitRows <- MCLimitRows
    SignalRows <- MCSignalRows
    DedupRows <- MCDedupRows
    MinTradable <- MCMinTradable
    Tolerance <- MCTolerance
    Workers = {w1, w2}
    Amount = 2
    MaxAttempts = 2
    BatchSize = 1
    MaxFaults = 0
    None = None
PROPERTIES
    PartialFillIsNotFailure
CONSTRAINT
    OneRow
