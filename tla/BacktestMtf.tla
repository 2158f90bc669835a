---------------------------- MODULE BacktestMtf ----------------------------
(***************************************************************************)
(* The simulator that executes signals of one timeframe on the candles of  *)
(* a finer one (_simulate_trading_mtf, services/backtest.py).              *)
(*                                                                         *)
(* A signal comes into effect when its own candle is over and waits in a   *)
(* queue for the next execution candle.  Of the signals in effect one may  *)
(* be executed per candle; those that do not fit the position are dropped. *)
(* Each candle is then walked along the path its prices are thought to     *)
(* have taken, and on each price the forced exits come first.              *)
(***************************************************************************)
EXTENDS TradeRecord, Sequences, FiniteSets

CONSTANTS
    MtfPrices,      \* bound: the prices that occur
    MtfConfigs,     \* the settings to choose from
    MaxBacklog      \* bound: signals that wait at a time

MtfSignals == {"open_long", "close_long", "open_short", "close_short"}

ASSUME MtfAssumption ==
    /\ MtfPrices \subseteq Nat
    /\ MaxBacklog \in Nat
    /\ MtfConfigs \subseteq
          [both : BOOLEAN, stop : Nat, profit : Nat, trailing : BOOLEAN,
           trail : Nat, activation : Nat]

VARIABLES
    mtfConfig,  \* the settings of the backtest
    queue,      \* signals in effect and not looked at, in their order
    pending,    \* the signal this candle executes, or "none"
    openPrice,  \* the open of the candle
    path,       \* the prices of the candle still to come
    holds,      \* position_type, or "none"
    paid,       \* entry_price, while there is a position
    extreme,    \* the best price since entry
    capital,    \* what is left of it
    liquidated, \* is_liquidated
    record      \* what a reader of the trades takes the position to be

holding == <<holds, paid, extreme>>
account == <<capital, liquidated, record>>
mtfVars == <<mtfConfig, queue, pending, openPrice, path, holding, account>>

(***************************************************************************)
(* Between two candles no signal is pending: one that was chosen has been  *)
(* executed on its candle, or a forced exit at the open has withdrawn it.  *)
(***************************************************************************)
MtfTypeOK ==
    /\ mtfConfig \in MtfConfigs
    /\ queue \in Seq(MtfSignals) /\ pending \in MtfSignals \cup {"none"}
    /\ openPrice \in MtfPrices /\ path \in Seq(MtfPrices)
    /\ holds \in Directions \cup {"none"}
    /\ paid \in Int /\ extreme \in Int
    /\ capital \in Funds /\ liquidated \in BOOLEAN /\ record \in Books
    /\ path = <<>> => pending = "none"
    /\ liquidated => holds = "none"

MtfInit ==
    /\ mtfConfig \in MtfConfigs
    /\ queue = <<>> /\ pending = "none"
    /\ openPrice \in MtfPrices /\ path = <<>>
    /\ holds = "none" /\ paid = 0 /\ extreme = 0
    /\ capital = "enough" /\ liquidated = FALSE /\ record = "flat"

-----------------------------------------------------------------------------
(***************************************************************************)
(* The queue.  Buy and sell signals that reverse the position only ever    *)
(* open; the signals of one candle stand in a fixed order.                 *)
(***************************************************************************)
Emitted(set) ==
    LET IfIn(s) == IF s \in set THEN <<s>> ELSE <<>>
    IN  IfIn("open_long") \o IfIn("close_long") \o
        IfIn("open_short") \o IfIn("close_short")

Possible == IF mtfConfig.both THEN {"open_long", "open_short"} ELSE MtfSignals

Target(signal) == IF signal \in {"open_long", "close_long"}
                  THEN "long" ELSE "short"
Opens(signal)  == signal \in {"open_long", "open_short"}

\* Bug variant of CanExecute: an opening signal always can be executed.
CanAlways(signal) == Opens(signal) \/ holds = Target(signal)

CanExecute(signal) ==
    IF Opens(signal)
    THEN holds = "none" \/ (mtfConfig.both /\ holds = Other(Target(signal)))
    ELSE holds = Target(signal)

(***************************************************************************)
(* The first signal that can be executed, with those before it dropped.    *)
(***************************************************************************)
Executable(q) == {i \in DOMAIN q : CanExecute(q[i])}

ChooseSignal(q) ==
    \/ Executable(q) = {} /\ pending' = "none" /\ queue' = <<>>
    \/ \E first \in Executable(q) :
          /\ \A i \in Executable(q) : first <= i
          /\ pending' = q[first]
          /\ queue' = SubSeq(q, first + 1, Len(q))

(***************************************************************************)
(* A rising candle is thought to dip first, a falling one to rally first.  *)
(***************************************************************************)
InferCandlePath(open, high, low, close) ==
    IF close >= open THEN <<open, low, high, close>>
    ELSE <<open, high, low, close>>

NextBar ==
    /\ path = <<>> /\ ~liquidated
    /\ holds # "none" \/ capital = "enough"
    /\ \E new \in SUBSET Possible :
          /\ Len(queue) + Cardinality(new) <= MaxBacklog
          /\ ChooseSignal(queue \o Emitted(new))
    /\ \E open, high, low, close \in MtfPrices :
          /\ {open, close} \subseteq low..high
          /\ openPrice' = open
          /\ path' = InferCandlePath(open, high, low, close)
    /\ UNCHANGED <<mtfConfig, holding, account>>

\* Without a position and with too little to open one.
OutOfCapital ==
    /\ path = <<>> /\ ~liquidated
    /\ holds = "none" /\ capital # "enough"
    /\ liquidated' = TRUE /\ capital' = "none"
    /\ UNCHANGED <<mtfConfig, queue, pending, openPrice, path, holding, record>>

-----------------------------------------------------------------------------
(***************************************************************************)
(* The price moves to the next point of its path.                          *)
(***************************************************************************)
NoPosition == holds' = "none" /\ paid' = 0 /\ extreme' = 0

GainOf(price) == Gain(holds, paid, price)

Extreme(price) == IF GainOf(price) > GainOf(extreme) THEN price ELSE extreme

\* Without an activation of its own the trailing stop waits for the profit.
Activation == IF mtfConfig.activation = 0 THEN mtfConfig.profit
              ELSE mtfConfig.activation

DueAt(price) ==
    IF holds = "none" THEN "none"
    ELSE DueExit(mtfConfig, Activation, GainOf(Extreme(price)),
                 GainOf(price), GainOf(price))

(***************************************************************************)
(* The walk over this candle ends where nothing is left of the capital; a  *)
(* long may take a trailing stop or a profit and be left with a debt.      *)
(***************************************************************************)
Ruins(type, left) ==
    left = "none" /\ (type = "stop" \/ (type = "trailing" /\ holds = "short"))

ExitOnPath(price) ==
    /\ DueAt(price) # "none"
    /\ \E left \in Funds :
          /\ capital' = left
          /\ liquidated' = Ruins(DueAt(price), left)
          /\ record' = Replay(record,
                IF liquidated' /\ holds = "short" THEN Liquidation(holds)
                ELSE Deal(DueAt(price), holds, TRUE))
    /\ NoPosition
    /\ pending' = "none"
    /\ path' = IF liquidated' THEN <<>> ELSE Tail(path)
    /\ UNCHANGED <<mtfConfig, queue, openPrice>>

(***************************************************************************)
(* The pending signal, at a price equal to the open.  A reversal closes    *)
(* the opposite position first.                                            *)
(***************************************************************************)

\* Bug variant of Executes: the open itself is missed.
ExecutesLater(price) == pending # "none" /\ price # openPrice

Executes(price) == pending # "none" /\ price = openPrice

Reversal == holds = Other(Target(pending)) /\ Opens(pending)

Closed == IF holds = "none" THEN record
          ELSE Replay(record, Deal("close", holds, TRUE))

CloseByPending(price) ==
    /\ ~Opens(pending) \/ Reversal
    /\ \E left \in Funds :
          /\ Opens(pending) => left # "enough"
          /\ liquidated' = (left # "enough")
          /\ capital' = IF liquidated' THEN "none" ELSE left
    /\ record' = Closed
    /\ NoPosition
    /\ path' = IF liquidated' THEN <<>> ELSE Tail(path)

OpenByPending(price) ==
    /\ Opens(pending)
    /\ holds' = Target(pending) /\ paid' = price /\ extreme' = price
    /\ capital' \in Funds
    /\ record' = Replay(IF Reversal THEN Closed ELSE record,
                        Deal("open", Target(pending), FALSE))
    /\ path' = Tail(path)
    /\ UNCHANGED liquidated

ExecutePending(price) ==
    /\ DueAt(price) = "none" /\ Executes(price)
    /\ CloseByPending(price) \/ OpenByPending(price)
    /\ pending' = "none"
    /\ UNCHANGED <<mtfConfig, queue, openPrice>>

PassPrice(price) ==
    /\ DueAt(price) = "none" /\ ~Executes(price)
    /\ extreme' = IF holds = "none" THEN extreme ELSE Extreme(price)
    /\ path' = Tail(path)
    /\ UNCHANGED <<mtfConfig, queue, pending, openPrice, holds, paid, account>>

WalkPath ==
    /\ path # <<>>
    /\ \/ ExitOnPath(Head(path))
       \/ ExecutePending(Head(path))
       \/ PassPrice(Head(path))

MtfNext == NextBar \/ OutOfCapital \/ WalkPath

MtfSpec == MtfInit /\ [][MtfNext]_mtfVars

-----------------------------------------------------------------------------
(***************************************************************************)
(* The list of trades tells the truth: a reader who replays it finds the   *)
(* position the simulator has, whatever order signals, reversals and       *)
(* forced exits meet in on the path of a candle.                           *)
(***************************************************************************)
MtfTradesReplay ==
    IF holds # "none" THEN record = holds
    ELSE record = "flat" \/ (record = "over" /\ liquidated)
=============================================================================
