----------------------------- MODULE MCTrading -----------------------------
(***************************************************************************)
(* A strategy, live and in a backtest: what its loop does to its orders    *)
(* (SignalEngine), what becomes of its position rows (PositionLedger), and *)
(* two simulators (Backtest, BacktestMtf).  The four share no variable, so *)
(* a behaviour moves one of them, chosen at the start, and leaves the      *)
(* others alone.                                                           *)
(***************************************************************************)
EXTENDS PositionLedger, SignalEngine, Backtest, BacktestMtf

VARIABLE focus      \* the part that moves

(***************************************************************************)
(* An exchange whose units are coins, one whose units are hundredths of a  *)
(* coin, one whose symbols are not understood, one that is skipped.        *)
(***************************************************************************)
Exchange(on, units) == [client |-> on, coin |-> units]
MCExchanges == {Exchange("mapped", 1), Exchange("mapped", 100),
                Exchange("unmapped", 1), Exchange("skipped", 1)}

Type(act, on) == [act |-> act, side |-> on]
MCTypes == {Type("open", "long"), Type("open", "short"),
            Type("close", "long"), Type("reduce", "long")}

Config(mode, bot, direction) ==
    [mode |-> mode, bot |-> bot, direction |-> direction]
MCConfigs == {Config("signal", FALSE, "both"), Config("signal", TRUE, "both"),
              Config("live", TRUE, "both"), Config("live", FALSE, "long")}

(***************************************************************************)
(* Settings of a backtest: a base, and one variation per kind of exit,     *)
(* scaling rule and way to open.                                           *)
(***************************************************************************)
Reversing ==
    [timing |-> "open", both |-> TRUE, sides |-> Directions, adds |-> FALSE,
     stop |-> 1, profit |-> 1, trailing |-> FALSE, trail |-> 0,
     activation |-> 0, liquidation |-> 2,
     rules |-> {"trendAdd", "dcaAdd"}, step |-> 1, times |-> 1,
     excess |-> {}]
MCBacktestConfigs ==
    {Reversing,
     [Reversing EXCEPT !.timing = "close", !.both = FALSE, !.adds = TRUE,
        !.stop = 2, !.profit = 0, !.trailing = TRUE, !.trail = 1,
        !.activation = 1, !.liquidation = 1, !.rules = {}],
     [Reversing EXCEPT !.both = FALSE, !.sides = {"short"}, !.stop = 0,
        !.profit = 2, !.trailing = TRUE, !.trail = 1,
        !.rules = {"dcaAdd", "trendReduce"}, !.times = 0],
     [Reversing EXCEPT !.stop = 0, !.profit = 0, !.rules = {"adverseReduce"}],
     [Reversing EXCEPT !.profit = 0, !.rules = Reducing,
        !.excess = {"trendReduce"}],
     [Reversing EXCEPT !.both = FALSE, !.adds = TRUE, !.profit = 2,
        !.rules = {"trendReduce"}, !.times = 0, !.excess = {"trendReduce"}]}

Stops == [both |-> TRUE, stop |-> 1, profit |-> 1, trailing |-> FALSE,
          trail |-> 0, activation |-> 0]
MCMtfConfigs ==
    {Stops,
     [Stops EXCEPT !.both = FALSE, !.stop = 2, !.profit = 2,
        !.trailing = TRUE, !.trail = 1],
     [Stops EXCEPT !.stop = 0, !.profit = 0, !.trailing = TRUE, !.trail = 1,
        !.activation = 1],
     [Stops EXCEPT !.both = FALSE, !.stop = 0]}

simulators  == <<backtestVars, mtfVars>>
tradingVars == <<ledgerVars, signalVars, simulators, focus>>

(***************************************************************************)
(* A part that does not move begins in one of its initial states.          *)
(***************************************************************************)
SomeOf(S) == CHOOSE x \in S : TRUE
AtRest ==
    /\ focus # "ledger" => exchange = SomeOf(Exchanges)
    /\ focus # "signal" => config = SomeOf(Configs)
    /\ focus # "backtest" =>
          settings = SomeOf(BacktestConfigs) /\ candle.open = SomeOf(Prices)
    /\ focus # "mtf" =>
          mtfConfig = SomeOf(MtfConfigs) /\ openPrice = SomeOf(MtfPrices)

TradingInit ==
    /\ LedgerInit /\ SignalInit /\ BacktestInit /\ MtfInit
    /\ focus \in {"ledger", "signal", "backtest", "mtf"}
    /\ AtRest

TradingNext ==
    /\ UNCHANGED focus
    /\ \/ /\ focus = "ledger" /\ LedgerNext
          /\ UNCHANGED <<signalVars, simulators>>
       \/ /\ focus = "signal" /\ SignalNext
          /\ UNCHANGED <<ledgerVars, simulators>>
       \/ /\ focus = "backtest" /\ BacktestNext
          /\ UNCHANGED <<ledgerVars, signalVars, mtfVars>>
       \/ /\ focus = "mtf" /\ MtfNext
          /\ UNCHANGED <<ledgerVars, signalVars, backtestVars>>

(***************************************************************************)
(* LedgerFairness and SignalFairness, for the part that moves.             *)
(***************************************************************************)
InLedger(A) == focus = "ledger" /\ A
InSignal(A) == focus = "signal" /\ A

TradingSpec ==
    /\ TradingInit /\ [][TradingNext]_tradingVars
    /\ \A w \in Workers :
          /\ WF_ledgerVars(InLedger(Answer(w)))
          /\ WF_ledgerVars(InLedger(Book(w)))
          /\ WF_ledgerVars(InLedger(ReadRows(w)))
          /\ SF_ledgerVars(InLedger(AskExchange(w)))
    /\ \A l \in Loops :
          WF_ledgerVars(InLedger(TrackBestPrice(l) \/ EndTick(l)))
    /\ \A t \in Threads :
          /\ WF_ledgerVars(InLedger(Ask(t)))
          /\ WF_ledgerVars(InLedger(Reconcile(t)))
    /\ \A p \in Processes : WF_signalVars(InSignal(Loop(p)))
    /\ \A t \in Types : WF_signalVars(InSignal(ExecuteOrder(t)))
    /\ WF_signalVars(InSignal(CandleCloses))
    /\ WF_signalVars(InSignal(TimePasses))
=============================================================================
