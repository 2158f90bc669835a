------------------------------ MODULE Backtest ------------------------------
(***************************************************************************)
(* The single-timeframe simulator (_simulate_trading and                   *)
(* _simulate_trading_new_format, services/backtest.py): the one that       *)
(* backtests a strategy, and an indicator unless it is left to polars.     *)
(*                                                                         *)
(* It walks over the candles once.  On each candle it asks, in this order: *)
(* is the account wiped out, is a forced exit due, is there a signal to    *)
(* close, does a scaling rule fire, is there a signal to add, is there a   *)
(* signal to open, and has the liquidation price been touched.  pc is the  *)
(* next of these questions.  The close of a candle is any of its prices,   *)
(* and the signals, computed before from code of the user, are any.        *)
(***************************************************************************)
EXTENDS TradeRecord

CONSTANTS
    Prices,             \* bound: the prices that occur, consecutive
    BacktestConfigs     \* the settings to choose from

Adding   == {"trendAdd", "dcaAdd"}
Reducing == {"trendReduce", "adverseReduce"}
Rules    == Adding \cup Reducing

(***************************************************************************)
(* Settings: when a signal is executed ("open" of the next candle, or      *)
(* "close" of its own), whether buy and sell signals reverse the position  *)
(* (_both_mode), the directions traded, whether the indicator gives        *)
(* signals to add, the distances of the exits and of the liquidation, the  *)
(* scaling rules with the distance and the number of times they fire, and  *)
(* those that reduce by more than the position: their sizePct is above 1,  *)
(* which nothing caps.                                                     *)
(***************************************************************************)
ASSUME BacktestAssumption ==
    /\ Prices \subseteq Nat
    /\ BacktestConfigs \subseteq
          [timing : {"open", "close"}, both : BOOLEAN,
           sides : SUBSET Directions, adds : BOOLEAN,
           stop : Nat, profit : Nat, trailing : BOOLEAN, trail : Nat,
           activation : Nat, liquidation : Nat \ {0},
           rules : SUBSET Rules, step : Nat \ {0}, times : Nat,
           excess : SUBSET Reducing]

Bars == {c \in [open : Prices, high : Prices, low : Prices] :
               c.low <= c.open /\ c.open <= c.high}

VARIABLES
    settings,   \* the configuration of the backtest
    step,       \* the next question
    candle,     \* the candle being looked at
    signals,    \* the signals to open and to close that it executes
    side,       \* position_type, or "none"
    turned,     \* position is positive while position_type is short, below
    entry,      \* entry_price, the average, while there is a position
    best,       \* highest_since_entry of a long, lowest_ of a short
    fired,      \* how often each scaling rule has fired
    anchor,     \* the price each scaling rule measures from
    funds,      \* what is left of the capital
    ruined,     \* is_liquidated
    added,      \* the average has moved on this candle
    book        \* what a reader of the trades takes the position to be

positionVars == <<side, turned, entry, best, anchor>>
accountVars  == <<funds, ruined, book>>
backtestVars == <<settings, step, candle, signals, positionVars, fired,
                  added, accountVars>>

Steps == {"next", "risk", "signals", "trendAdd", "dcaAdd", "trendReduce",
          "adverseReduce", "add", "enter", "fresh", "safety", "done"}
Quiet == [opens |-> {}, closes |-> {}]

(***************************************************************************)
(* A reduction of a short by more than it has, which is not clamped as     *)
(* that of a long is, leaves shares bought while position_type still says  *)
(* short.  turned says whose liquidation price applies: still that of the  *)
(* short, or that of a long since a signal has added to the shares.  The   *)
(* sign of position decides in most places, position_type in others.       *)
(***************************************************************************)
Sign == IF turned = "no" THEN side ELSE "long"

BacktestTypeOK ==
    /\ settings \in BacktestConfigs /\ step \in Steps
    /\ candle \in Bars
    /\ signals \in [opens : SUBSET Directions, closes : SUBSET Directions]
    /\ side \in Directions \cup {"none"}
    /\ entry \in Int /\ best \in Int /\ anchor \in [Rules -> Int]
    /\ fired \in [Rules -> Nat]
    /\ funds \in Funds /\ ruined \in BOOLEAN /\ added \in BOOLEAN
    /\ book \in Books
    /\ turned \in {"no", "short", "long"}
    /\ turned # "no" => side = "short" /\ book = "overdrawn"
    /\ (ruined \/ step = "done") => side = "none"
    /\ settings.times > 0 =>
          \A r \in Rules : fired[r] <= settings.times

Nowhere == [r \in Rules |-> 0]

BacktestInit ==
    /\ settings \in BacktestConfigs
    /\ step = "next"
    /\ candle \in {c \in Bars : c.low = c.high}
    /\ signals = Quiet
    /\ side = "none" /\ turned = "no" /\ entry = 0 /\ best = 0
    /\ fired = Nowhere /\ anchor = Nowhere
    /\ funds = "enough" /\ ruined = FALSE
    /\ added = FALSE /\ book = "flat"

-----------------------------------------------------------------------------
(***************************************************************************)
(* What the actions are made of.                                           *)
(***************************************************************************)

\* The worst and the best price of a candle for a position.
Worst(c) == IF side = "long" THEN c.low ELSE c.high
Peak(c)  == IF side = "long" THEN c.high ELSE c.low
GainAt(price) == Gain(side, entry, price)

\* The price that is d further in favour of the position.
Further(price, d) == IF side = "long" THEN price + d ELSE price - d

(***************************************************************************)
(* Nothing is left of the position.  What it leaves behind in the          *)
(* extremes and anchors is overwritten when the next one is opened.        *)
(***************************************************************************)
Flatten ==
    /\ side' = "none" /\ turned' = "no"
    /\ entry' = 0 /\ best' = 0 /\ anchor' = Nowhere

(***************************************************************************)
(* A position is left by a trade of that type: a short that costs more     *)
(* than there is ends in a liquidation, a long may leave a debt.           *)
(***************************************************************************)
LeaveBy(type, left) ==
    /\ Flatten
    /\ IF Sign = "short" /\ left = "none"
       THEN /\ ruined' = TRUE
            /\ book' = Replay(book, Liquidation(Sign))
       ELSE /\ UNCHANGED ruined
            /\ book' = Replay(book, Deal(type, Sign, TRUE))
    /\ funds' = left

Liquidate ==
    /\ Flatten
    /\ ruined' = TRUE /\ funds' = "none"
    /\ book' = Replay(book, Liquidation(side))

Goto(s) == step' = s

-----------------------------------------------------------------------------
(***************************************************************************)
(* The beginning of a candle.                                              *)
(***************************************************************************)
NextCandle ==
    /\ step = "next" /\ ~ruined
    /\ side # "none" \/ funds = "enough"
    /\ candle' \in Bars
    /\ best' = IF side = "none" THEN best
               ELSE IF GainAt(Peak(candle')) > GainAt(best)
                    THEN Peak(candle') ELSE best
    /\ added' = FALSE
    /\ Goto("risk")
    /\ UNCHANGED <<settings, signals, side, turned, entry, anchor, fired,
                   accountVars>>

\* Without a position and with too little to open one.
WipedOut ==
    /\ step = "next" /\ ~ruined
    /\ side = "none" /\ funds # "enough"
    /\ ruined' = TRUE /\ funds' = "none"
    /\ book' = Replay(book, Liquidation("flat"))
    /\ UNCHANGED <<settings, step, candle, signals, positionVars, fired, added>>

(***************************************************************************)
(* The forced exits, the stop first.  The activation of a trailing stop is *)
(* what the configuration says: the value taken from the fixed profit is   *)
(* overwritten before it is used.  Sign and position_type must agree.      *)
(***************************************************************************)
Due == IF side = "none" \/ turned # "no" THEN "none"
       ELSE DueExit(settings, settings.activation, GainAt(best),
                    GainAt(Worst(candle)), GainAt(Peak(candle)))

ForcedExit ==
    /\ step = "risk" /\ Due # "none"
    /\ \E left \in Funds : LeaveBy(Due, left)
    /\ fired' = Nowhere
    /\ Goto("next")
    /\ UNCHANGED <<settings, candle, signals, added>>

(***************************************************************************)
(* Buy and sell signals that reverse the position give no signals to       *)
(* close; a direction that is not traded gives no signals at all.          *)
(***************************************************************************)
NoForcedExit ==
    /\ step = "risk" /\ Due = "none"
    /\ \E opens \in SUBSET settings.sides, closes \in SUBSET settings.sides :
          /\ settings.both => closes = {}
          /\ signals' = [opens |-> opens, closes |-> closes]
    /\ Goto("signals")
    /\ UNCHANGED <<settings, candle, positionVars, fired, added, accountVars>>

-----------------------------------------------------------------------------
(***************************************************************************)
(* A signal to close.                                                      *)
(***************************************************************************)
MainSignal == signals.opens # {} \/ signals.closes # {}

\* Scaling is barred on a candle with such a signal.
AfterClose ==
    IF ~MainSignal /\ side # "none" /\ funds = "enough"
    THEN "trendAdd" ELSE "enter"

CloseOnSignal ==
    /\ step = "signals" /\ Sign \in signals.closes
    /\ \E left \in Funds :
          IF left = "enough" \/ (Sign = "short" /\ left = "none")
          THEN /\ LeaveBy("close", left)
               /\ Goto(IF left = "none" THEN "next" ELSE "enter")
          ELSE /\ Flatten
               /\ ruined' = TRUE /\ funds' = "none"
               /\ book' = Replay(Replay(book, Deal("close", Sign, TRUE)),
                                 Liquidation("flat"))
               /\ Goto("enter")
    /\ fired' = Nowhere
    /\ UNCHANGED <<settings, candle, signals, added>>

NoSignalToClose ==
    /\ step = "signals" /\ Sign \notin signals.closes
    /\ Goto(AfterClose)
    /\ UNCHANGED <<settings, candle, signals, positionVars, fired, added,
                   accountVars>>

-----------------------------------------------------------------------------
(***************************************************************************)
(* The scaling rules, each measured from its anchor: two add to the        *)
(* position, two reduce it, each when the price moves for it or against    *)
(* it.  Adding on both sides is barred: the trend wins.                    *)
(***************************************************************************)
Enabled(rule) ==
    /\ rule \in settings.rules
    /\ rule = "dcaAdd" => "trendAdd" \notin settings.rules

WithGain == {"trendAdd", "trendReduce"}

Trigger(rule) ==
    Further(anchor[rule],
            IF rule \in WithGain THEN settings.step ELSE -settings.step)

Reached(rule) ==
    IF rule \in WithGain
    THEN GainAt(Peak(candle)) >= GainAt(Trigger(rule))
    ELSE GainAt(Worst(candle)) <= GainAt(Trigger(rule))

\* Bug variant of Fires: the limit is compared off by one.
FiresOnceMore(rule) ==
    /\ side # "none" /\ turned = "no" /\ Enabled(rule) /\ Reached(rule)
    /\ settings.times = 0 \/ fired[rule] <= settings.times

Fires(rule) ==
    /\ side # "none" /\ turned = "no" /\ Enabled(rule) /\ Reached(rule)
    /\ settings.times = 0 \/ fired[rule] < settings.times

\* The rules are asked in this order.
Following(rule) ==
    CASE rule = "trendAdd" -> "dcaAdd"
      [] rule = "dcaAdd" -> "trendReduce"
      [] rule = "trendReduce" -> "adverseReduce"
      [] OTHER -> "add"

Between(p, q) == {n \in Prices : (p <= n /\ n <= q) \/ (q <= n /\ n <= p)}

\* More of the position at that price: the average lies in between.
AddAt(price) ==
    /\ entry' \in Between(entry, price)
    /\ funds' \in Funds
    /\ added' = TRUE
    /\ book' = Replay(book, Deal("add", Sign, FALSE))
    /\ turned' = IF turned = "no" THEN "no" ELSE "long"
    /\ UNCHANGED <<side, best, ruined>>

(***************************************************************************)
(* A part of the position is closed, or all of it.  Then the numbers of    *)
(* times stay as they are, unlike after any other exit.  Taking out more   *)
(* than there is ends a long, and turns a short.                           *)
(***************************************************************************)
Reduce(rule, ends) ==
    LET type == IF rule \in settings.excess THEN "excess" ELSE "reduce"
    IN  /\ funds' \in Funds
        /\ book' = Replay(book, Deal(type, side, ends))
        /\ IF ends THEN Flatten
           ELSE /\ anchor' = [anchor EXCEPT ![rule] = Trigger(rule)]
                /\ turned' = IF type = "excess" THEN "short" ELSE "no"
                /\ UNCHANGED <<side, entry, best>>
        /\ UNCHANGED <<added, ruined>>

\* A rule without a limit is not counted: nobody looks at the number.
Counted == IF settings.times = 0 THEN 0 ELSE 1

Scale(rule) ==
    /\ step = rule /\ Fires(rule)
    /\ IF rule \in Adding
       THEN /\ AddAt(Trigger(rule))
            /\ anchor' = [anchor EXCEPT ![rule] = Trigger(rule)]
       ELSE \E ends \in BOOLEAN :
               /\ rule \in settings.excess => ends = (side = "long")
               /\ Reduce(rule, ends)
    /\ fired' = [fired EXCEPT ![rule] = @ + Counted]
    /\ Goto(Following(rule))
    /\ UNCHANGED <<settings, candle, signals>>

NoScaling(rule) ==
    /\ step = rule /\ ~Fires(rule)
    /\ Goto(Following(rule))
    /\ UNCHANGED <<settings, candle, signals, positionVars, fired, added,
                   accountVars>>

(***************************************************************************)
(* A signal to add, at the close or at a price of the indicator.  Nothing  *)
(* else looks at it, so whether there is one is decided here.              *)
(***************************************************************************)
AddOnSignal ==
    /\ step = "add"
    /\ settings.adds /\ Sign \in settings.sides /\ funds = "enough"
    /\ \E price \in Prices : AddAt(price)
    /\ Goto("enter")
    /\ UNCHANGED <<settings, candle, signals, anchor, fired>>

NoSignalToAdd ==
    /\ step = "add"
    /\ Goto("enter")
    /\ UNCHANGED <<settings, candle, signals, positionVars, fired, added,
                   accountVars>>

-----------------------------------------------------------------------------
(***************************************************************************)
(* A signal to open.                                                       *)
(***************************************************************************)

\* Bug variant of MayOpen: the position held is not asked for.
OpenAnyway(s) == s \in signals.opens /\ funds = "enough"

MayOpen(s) ==
    /\ s \in signals.opens /\ funds = "enough"
    /\ side = "none" \/ (settings.both /\ Sign = Other(s))

Opening == IF MayOpen("long") THEN "long"
           ELSE IF MayOpen("short") THEN "short" ELSE "none"

EntryPrices == IF settings.timing = "open" THEN {candle.open} ELSE Prices

\* The opposite position is closed first, at the open of the candle.
Reverses == settings.both /\ Sign = Other(Opening)
Reversed == IF Reverses THEN Replay(book, Deal("close", Sign, TRUE))
            ELSE book

(***************************************************************************)
(* When the reversal leaves too little, the account is wiped out without a *)
(* trade that says so.                                                     *)
(***************************************************************************)
ReversalRuins ==
    /\ step = "enter" /\ Opening # "none" /\ Reverses
    /\ Flatten
    /\ ruined' = TRUE /\ funds' = "none"
    /\ book' = Reversed
    /\ fired' = Nowhere
    /\ Goto("next")
    /\ UNCHANGED <<settings, candle, signals, added>>

Open ==
    /\ step = "enter" /\ Opening # "none"
    /\ \E price \in EntryPrices :
          /\ entry' = price /\ best' = price
          /\ anchor' = [r \in Rules |-> price]
    /\ side' = Opening /\ turned' = "no"
    /\ funds' \in Funds
    /\ book' = Replay(Reversed, Deal("open", Opening, FALSE))
    /\ fired' = IF Reverses THEN Nowhere ELSE fired
    /\ Goto("fresh")
    /\ UNCHANGED <<settings, candle, signals, added, ruined>>

NoSignalToOpen ==
    /\ step = "enter" /\ Opening = "none"
    /\ Goto("safety")
    /\ UNCHANGED <<settings, candle, signals, positionVars, fired, added,
                   accountVars>>

(***************************************************************************)
(* The rest of the candle may stop or liquidate the new position at once,  *)
(* whichever price comes first.                                            *)
(***************************************************************************)
\* Bug variant of HitsLiquidation: the price itself does not count.
StrictlyBeyond == GainAt(Worst(candle)) < -settings.liquidation

HitsLiquidation == GainAt(Worst(candle)) <= -settings.liquidation
HitsStop == settings.stop > 0 /\ GainAt(Worst(candle)) <= -settings.stop

FreshLiquidation ==
    HitsLiquidation /\ (HitsStop => settings.stop >= settings.liquidation)

FreshExit ==
    /\ step = "fresh" /\ (HitsLiquidation \/ HitsStop)
    /\ IF FreshLiquidation THEN Liquidate
       ELSE /\ Flatten
            /\ funds' \in Funds
            /\ ruined' = (funds' = "none")
            /\ book' = Replay(book, Deal("stop", side, TRUE))
    /\ Goto("next")
    /\ UNCHANGED <<settings, candle, signals, fired, added>>

Unhurt ==
    /\ step = "fresh" /\ ~HitsLiquidation /\ ~HitsStop
    /\ Goto("safety")
    /\ UNCHANGED <<settings, candle, signals, positionVars, fired, added,
                   accountVars>>

-----------------------------------------------------------------------------
(***************************************************************************)
(* The safety net: the liquidation price was touched.  For shares that     *)
(* turned, position_type asks for the worst price of a short, and after an *)
(* addition compares it with the liquidation price of a long.  A stop      *)
(* price given with a signal to close comes first; only shares that turned *)
(* are still there after a signal to close, the one for shorts.            *)
(***************************************************************************)
Touched ==
    /\ side # "none"
    /\ IF turned = "long" THEN GainAt(Worst(candle)) <= settings.liquidation
       ELSE HitsLiquidation

SafetyNet ==
    /\ step = "safety" /\ Touched
    /\ \/ Liquidate
       \/ /\ side \in signals.closes
          /\ Flatten
          /\ funds' \in Funds /\ UNCHANGED ruined
          /\ book' = Replay(book, Deal("stop", side, TRUE))
    /\ Goto("next") /\ signals' = Quiet
    /\ UNCHANGED <<settings, candle, fired, added>>

EndOfCandle ==
    /\ step = "safety" /\ ~Touched
    /\ Goto("next") /\ signals' = Quiet
    /\ UNCHANGED <<settings, candle, positionVars, fired, added, accountVars>>

\* No candle is left, or none is looked at any more: what is open is closed.
EndOfData ==
    /\ step = "next"
    /\ IF side = "none" THEN UNCHANGED <<positionVars, accountVars>>
       ELSE \E left \in Funds : LeaveBy("close", left)
    /\ Goto("done")
    /\ UNCHANGED <<settings, candle, signals, fired, added>>

BacktestNext ==
    \/ NextCandle \/ WipedOut \/ EndOfData
    \/ ForcedExit \/ NoForcedExit
    \/ CloseOnSignal \/ NoSignalToClose
    \/ \E rule \in Rules : Scale(rule) \/ NoScaling(rule)
    \/ AddOnSignal \/ NoSignalToAdd
    \/ ReversalRuins \/ Open \/ NoSignalToOpen
    \/ FreshExit \/ Unhurt
    \/ SafetyNet \/ EndOfCandle

BacktestSpec == BacktestInit /\ [][BacktestNext]_backtestVars

-----------------------------------------------------------------------------
(***************************************************************************)
(* The list of trades tells the truth: a reader who replays it finds, at   *)
(* every moment, the position the simulator has, never two positions, an   *)
(* exit of nothing or a trade after the liquidation.  Only a scaling rule  *)
(* that takes out more than there is makes it impossible to follow.        *)
(***************************************************************************)
TradesReplay ==
    IF book = "overdrawn" THEN settings.excess # {}
    ELSE IF side # "none" THEN book = side
    ELSE book = "flat" \/ (book = "over" /\ ruined)

(***************************************************************************)
(* A position that is still open when a candle is over could have survived *)
(* it: the candle touched neither its liquidation price nor, unless its    *)
(* average has moved meanwhile, its stop.  Whatever opened, reversed or    *)
(* scaled the position, one of four tests in different places of the loop  *)
(* has seen the whole candle.  Shares left by reducing a short by more     *)
(* than it has are the exception: no stop looks at them.                   *)
(***************************************************************************)
SurvivorsAreSafe ==
    LET loss == -GainAt(Worst(candle))
    IN  step = "next" /\ side # "none" /\ turned = "no" =>
            /\ loss < settings.liquidation
            /\ settings.stop > 0 /\ ~added => loss < settings.stop

(***************************************************************************)
(* "If activationPct is not provided, reuse takeProfitPct as the trailing  *)
(* activation threshold" (backtest.py, comment of the conflict rule): a    *)
(* trailing stop waits for the fixed profit.                               *)
(***************************************************************************)
TrailingWaits ==
    /\ step = "risk" /\ Due = "trailing"
    /\ settings.activation = 0 /\ settings.profit > 0
    => GainAt(best) >= settings.profit
=============================================================================
