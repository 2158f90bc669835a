\* As MCTrading.cfg.
CONSTANTS
    Sides = {long, short}
    Workers = {w1}
    Loops = {l1}
    Exchanges <- MCExchanges
    MaxSize = 2
    MaxTrades = 2
    Processes = {p1}
    Types <- MCTypes
    Configs <- MCConfigs
    Tf = 1
    KeyLife = 2
    MaxTriggered = 1
    MaxEntries = 2
    MaxQueued = 1
    MaxFaults = 1
    Prices = {1, 2, 3, 4}
    BacktestConfigs <- MCBacktestConfigs
    MtfPrices = {1, 2, 3}
    MtfConfigs <- MCMtfConfigs
    MaxBacklog = 3
SPECIFICATION TradingSpec
INVARIANT TrailingWaits
CHECK_DEADLOCK FALSE
