SPECIFICATION FairSpec
CONSTANTS
    Orders <- MCOrders
    Strategies <- MCStrategies
    StrategyOf <- MCStrategyOf
    Workers = {w1, w2}
    MaxAttempts = 2
    BatchSize = 2
    MaxFaults = 2
    None = None
INVARIANTS
    TypeOK
    AttemptsWithinLimit
    OneDispatcherPerClaim
    FirstClaimsInOrder
PROPERTIES
    SettledForGood
    KeepsPromise
    EventuallySettled
