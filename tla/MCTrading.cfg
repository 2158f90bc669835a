\* Two threads beside the exchange; one process that may restart; candles of
\* four prices (three on a path), each kind of exit in some configuration.
CONSTANTS
    Sides = {long, short}
    Workers = {w1}
    Loops = {l1}
    Exchanges <- MCExchanges
    MaxSize = 2
    MaxTrades = 2
    Processes = {p1}
    Types <- MCTypes
    Configs <- MCConfigs
    Tf = 1
    KeyLife = 2
    MaxTriggered = 1
    MaxEntries = 2
    MaxQueued = 1
    MaxFaults = 1
    Prices = {1, 2, 3, 4}
    BacktestConfigs <- MCBacktestConfigs
    MtfPrices = {1, 2, 3}
    MtfConfigs <- MCMtfConfigs
    MaxBacklog = 3
SPECIFICATION TradingSpec
INVARIANTS LedgerTypeOK BooksBalance SignalTypeOK OncePerLife OneDirection
    BacktestTypeOK TradesReplay SurvivorsAreSafe MtfTypeOK MtfTradesReplay
PROPERTIES SelfHeals StopLossFlattens
CHECK_DEADLOCK FALSE
