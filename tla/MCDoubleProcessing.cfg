SPECIFICATION Spec
CONSTANTS
    Orders <- MCOrders
    Strategies <- MCStrategies
    StrategyOf <- MCStrategyOf
    Workers = {w1, w2}
    MaxAttempts = 2
    BatchSize = 2
    MaxFaults = 0
    None = None
INVARIANTS
    NoDoubleProcessing
