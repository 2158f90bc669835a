-------------------------- MODULE Backtest_proofs --------------------------
(***************************************************************************)
(* Proofs about Backtest and BacktestMtf for any prices, settings and      *)
(* number of candles.                                                      *)
(***************************************************************************)
EXTENDS Backtest, BacktestMtf, SequenceTheorems, TLAPS

USE BacktestAssumption, MtfAssumption

-----------------------------------------------------------------------------
(***************************************************************************)
(* What a reader makes of one trade.                                       *)
(***************************************************************************)
LEMMA ReplayOpen ==
    ASSUME NEW s \in Directions
    PROVE  Replay("flat", Deal("open", s, FALSE)) = s
  BY DEF Replay, Deal, Directions, Exits

LEMMA ReplayAdd ==
    ASSUME NEW s \in Directions
    PROVE  Replay(s, Deal("add", s, FALSE)) = s
  BY DEF Replay, Deal, Directions, Exits

LEMMA ReplayReduce ==
    ASSUME NEW s \in Directions, NEW ends \in BOOLEAN
    PROVE  Replay(s, Deal("reduce", s, ends)) = IF ends THEN "flat" ELSE s
  BY DEF Replay, Deal, Directions, Exits

LEMMA ReplayExit ==
    ASSUME NEW s \in Directions, NEW type \in Exits
    PROVE  Replay(s, Deal(type, s, TRUE)) = "flat"
  BY DEF Replay, Deal, Directions, Exits

\* Once more was taken out than there was, nothing makes sense any more.
LEMMA ReplayOverdrawn ==
    ASSUME NEW s \in Directions, NEW type
    PROVE  /\ Replay("overdrawn", Deal(type, s, TRUE)) = "overdrawn"
           /\ Replay("overdrawn", Deal(type, s, FALSE)) = "overdrawn"
  BY DEF Replay, Deal, Directions

\* An exit ends what the reader knows of, if it knows anything.
LEMMA ReplayEnd ==
    ASSUME NEW s \in Directions, NEW type \in Exits, NEW known,
           known = "overdrawn" \/ known = s
    PROVE  Replay(known, Deal(type, s, TRUE))
              = IF known = "overdrawn" THEN "overdrawn" ELSE "flat"
  BY ReplayExit, ReplayOverdrawn DEF Directions

LEMMA LiquidationOverdrawn ==
    ASSUME NEW s \in Directions \cup {"flat"}
    PROVE  Replay("overdrawn", Liquidation(s)) = "overdrawn"
  BY DEF Replay, Deal, Liquidation, Directions

LEMMA ReplayExcess ==
    ASSUME NEW s \in Directions, NEW ends \in BOOLEAN
    PROVE  Replay(s, Deal("excess", s, ends)) = "overdrawn"
  BY DEF Replay, Deal, Directions, Exits

LEMMA ReplayLiquidation ==
    ASSUME NEW s \in Directions \cup {"flat"}
    PROVE  Replay(s, Liquidation(s)) = "over"
  BY DEF Replay, Liquidation, Deal, Directions, Exits

-----------------------------------------------------------------------------
(***************************************************************************)
(* The single-timeframe simulator.  The inductive invariant adds that the  *)
(* account is never ruined with enough to trade, that a freshly opened     *)
(* position is one, and that between the forced exits and the end of a     *)
(* candle a position with its first average has passed its stop.           *)
(***************************************************************************)
RuinedIsPoor == ruined => funds # "enough"

FreshIsOpen == step = "fresh" => side # "none"

Tested == {"signals", "trendAdd", "dcaAdd", "trendReduce", "adverseReduce",
           "add", "enter", "safety"}

StopTested ==
    (/\ step \in Tested /\ side # "none" /\ turned = "no"
     /\ settings.stop > 0 /\ ~added)
        => -GainAt(Worst(candle)) < settings.stop

BacktestInv ==
    /\ BacktestTypeOK
    /\ RuinedIsPoor
    /\ FreshIsOpen
    /\ TradesReplay
    /\ StopTested
    /\ SurvivorsAreSafe

\* What the types say of the numbers.
LEMMA Numbers ==
    ASSUME BacktestTypeOK
    PROVE  /\ settings.stop \in Nat /\ settings.liquidation \in Nat
           /\ settings.times \in Nat /\ settings.step \in Nat
           /\ settings.both \in BOOLEAN
           /\ candle.open \in Prices /\ candle.low \in Prices /\ candle.high \in Prices
           /\ Worst(candle) \in Int /\ Peak(candle) \in Int
           /\ GainAt(Worst(candle)) \in Int
           /\ \A r \in Rules : Trigger(r) \in Int
           /\ Prices \subseteq Int
  <1>1. /\ settings.stop \in Nat /\ settings.liquidation \in Nat
        /\ settings.times \in Nat /\ settings.step \in Nat
        /\ settings.both \in BOOLEAN
    BY DEF BacktestTypeOK
  <1>2. candle.open \in Prices /\ candle.low \in Prices /\ candle.high \in Prices
    BY DEF BacktestTypeOK, Bars
  <1>3. Prices \subseteq Int
    OBVIOUS
  <1>4. Worst(candle) \in Int /\ Peak(candle) \in Int
    BY <1>2, <1>3 DEF Worst, Peak
  <1>5. GainAt(Worst(candle)) \in Int
    BY <1>4 DEF BacktestTypeOK, GainAt, Gain
  <1>6. \A r \in Rules : Trigger(r) \in Int
    BY <1>1 DEF BacktestTypeOK, Trigger, Further
  <1> QED
    BY <1>1, <1>2, <1>3, <1>4, <1>5, <1>6

LEMMA BacktestInitInv == BacktestInit => BacktestInv
  <1> SUFFICES ASSUME BacktestInit PROVE BacktestInv
    OBVIOUS
  <1>1. BacktestTypeOK
    <2>1. fired \in [Rules -> Nat] /\ anchor \in [Rules -> Int]
          /\ \A r \in Rules : fired[r] = 0
      BY DEF BacktestInit, Nowhere
    <2>2. settings.times \in Nat
      BY DEF BacktestInit
    <2>3. settings \in BacktestConfigs /\ candle \in Bars
          /\ signals \in [opens : SUBSET Directions, closes : SUBSET Directions]
      BY DEF BacktestInit, Quiet
    <2>4. /\ step \in Steps /\ side = "none" /\ turned = "no" /\ entry \in Int /\ best \in Int
          /\ funds \in Funds /\ book \in Books
      BY DEF BacktestInit, Steps, Funds, Books
    <2>5. ruined \in BOOLEAN /\ added \in BOOLEAN
      BY DEF BacktestInit
    <2> QED
      BY <2>1, <2>2, <2>3, <2>4, <2>5 DEF BacktestTypeOK
  <1> QED
    BY <1>1 DEF BacktestInit, BacktestInv, RuinedIsPoor, FreshIsOpen,
       TradesReplay, StopTested, SurvivorsAreSafe, Tested

\* Without a position there is nothing to be safe or tested.
LEMMA NoPositionIsSafe ==
    ASSUME side' = "none"
    PROVE  StopTested' /\ SurvivorsAreSafe'
  BY DEF StopTested, SurvivorsAreSafe

LEMMA Flattened ==
    ASSUME Flatten
    PROVE  /\ side' = "none" /\ turned' = "no"
           /\ entry' \in Int /\ best' \in Int /\ anchor' \in [Rules -> Int]
  BY DEF Flatten, Nowhere

\* While there is a position, the reader knows it or was lost before.
LEMMA PositionKnown ==
    ASSUME BacktestInv, side # "none"
    PROVE  /\ side \in Directions /\ Sign \in Directions /\ ~ruined
           /\ \/ book = "overdrawn" /\ settings.excess # {}
              \/ book = side /\ Sign = side /\ turned = "no"
  BY DEF BacktestInv, BacktestTypeOK, TradesReplay, Sign, Directions

\* The end of a position leaves the reader with none, or as lost as before.
LEMMA EndKnown ==
    ASSUME BacktestInv, side # "none", settings' = settings, side' = "none",
           \/ book' = "over" /\ ruined'
           \/ book' = "flat"
           \/ book' = "overdrawn" /\ book = "overdrawn"
    PROVE  TradesReplay' /\ book' \in Books
  BY PositionKnown DEF TradesReplay, Books, Directions

\* A position is left, and the reader learns of it.
LEMMA LeftBehind ==
    ASSUME BacktestInv, side # "none", NEW type \in Exits, NEW left \in Funds,
           LeaveBy(type, left), settings' = settings
    PROVE  /\ side' = "none" /\ turned' = "no" /\ entry' \in Int /\ best' \in Int
           /\ anchor' \in [Rules -> Int]
           /\ funds' \in Funds /\ ruined' \in BOOLEAN /\ book' \in Books
           /\ RuinedIsPoor' /\ TradesReplay'
  <1>1. /\ Sign \in Directions /\ ~ruined
        /\ book = "overdrawn" \/ book = Sign
    BY PositionKnown
  <1>a. \/ Replay(book, Liquidation(Sign)) = "over"
        \/ /\ book = "overdrawn"
           /\ Replay(book, Liquidation(Sign)) = "overdrawn"
    BY <1>1, ReplayLiquidation, LiquidationOverdrawn
  <1>b. Replay(book, Deal(type, Sign, TRUE))
           = IF book = "overdrawn" THEN "overdrawn" ELSE "flat"
    BY <1>1, ReplayEnd
  <1>3. /\ Flatten /\ funds' = left
        /\ \/ ruined' = TRUE /\ left = "none"
              /\ book' = Replay(book, Liquidation(Sign))
           \/ ruined' = ruined /\ book' = Replay(book, Deal(type, Sign, TRUE))
    BY DEF LeaveBy
  <1>4. /\ side' = "none" /\ turned' = "no" /\ entry' \in Int /\ best' \in Int
        /\ anchor' \in [Rules -> Int]
    BY <1>3, Flattened
  <1>5. TradesReplay' /\ book' \in Books
    BY <1>a, <1>b, <1>3, <1>4, EndKnown
  <1>6. ruined' \in BOOLEAN /\ RuinedIsPoor'
    <2>1. ruined = FALSE
      BY <1>1 DEF BacktestInv, BacktestTypeOK
    <2> QED
      BY <1>3, <2>1 DEF RuinedIsPoor
  <1> QED
    BY <1>3, <1>4, <1>5, <1>6

LEMMA Liquidated ==
    ASSUME BacktestInv, side # "none", Liquidate, settings' = settings
    PROVE  /\ side' = "none" /\ turned' = "no" /\ entry' \in Int /\ best' \in Int
           /\ anchor' \in [Rules -> Int]
           /\ funds' \in Funds /\ ruined' \in BOOLEAN /\ book' \in Books
           /\ RuinedIsPoor' /\ TradesReplay'
  <1>1. side \in Directions /\ (book = "overdrawn" \/ book = side)
    BY PositionKnown
  <1>2. \/ Replay(book, Liquidation(side)) = "over"
        \/ book = "overdrawn" /\ Replay(book, Liquidation(side)) = "overdrawn"
    BY <1>1, ReplayLiquidation, LiquidationOverdrawn
  <1>3. /\ Flatten /\ ruined' = TRUE /\ funds' = "none"
        /\ book' = Replay(book, Liquidation(side))
    BY DEF Liquidate
  <1>4. TradesReplay' /\ book' \in Books
    BY <1>2, <1>3, Flattened, EndKnown
  <1> QED
    BY <1>3, <1>4, Flattened DEF RuinedIsPoor, Funds

SignalSets == [opens : SUBSET Directions, closes : SUBSET Directions]

\* A step that asks a question and finds nothing to do.
LEMMA NothingToDo ==
    ASSUME BacktestInv, UNCHANGED <<settings, candle, positionVars, fired,
                                    added, accountVars>>,
           step' \in Tested, step # "done", signals' \in SignalSets,
           \/ step \in Tested \/ side = "none" \/ turned # "no"
           \/ ~(settings.stop > 0 /\ GainAt(Worst(candle)) <= -settings.stop)
    PROVE  BacktestInv'
  <1>1. BacktestTypeOK'
    BY DEF BacktestInv, BacktestTypeOK, positionVars, accountVars, Tested,
       Steps, SignalSets
  <1>2. RuinedIsPoor' /\ TradesReplay'
    BY DEF BacktestInv, RuinedIsPoor, TradesReplay, positionVars, accountVars
  <1>3. /\ settings.stop \in Nat /\ GainAt(Worst(candle)) \in Int
        /\ GainAt(Worst(candle))' = GainAt(Worst(candle))
        /\ settings' = settings /\ side' = side /\ added' = added
        /\ turned' = turned
    BY Numbers DEF BacktestInv, GainAt, Worst, positionVars
  <1>4. StopTested'
    BY <1>3 DEF BacktestInv, StopTested
  <1>5. SurvivorsAreSafe' /\ FreshIsOpen'
    BY DEF SurvivorsAreSafe, FreshIsOpen, Tested
  <1> QED
    BY <1>1, <1>2, <1>4, <1>5 DEF BacktestInv

LEMMA QuietStepInv ==
    ASSUME BacktestInv,
           \/ NoForcedExit \/ NoSignalToClose \/ NoSignalToAdd
           \/ NoSignalToOpen \/ Unhurt \/ \E rule \in Rules : NoScaling(rule)
    PROVE  BacktestInv'
  <1>1. signals \in SignalSets
    BY DEF BacktestInv, BacktestTypeOK, SignalSets
  <1>2. CASE NoForcedExit
    <2>1. settings.sides \subseteq Directions
      BY DEF BacktestInv, BacktestTypeOK
    <2>2. signals' \in SignalSets
      BY <1>2, <2>1 DEF NoForcedExit, SignalSets
    <2>3. side = "none" \/ turned # "no" \/
          ~(settings.stop > 0 /\ GainAt(Worst(candle)) <= -settings.stop)
      BY <1>2 DEF NoForcedExit, Due, DueExit
    <2>4. step = "risk" /\ step' = "signals"
      BY <1>2 DEF NoForcedExit, Goto
    <2> QED
      BY <1>2, <2>2, <2>3, <2>4, NothingToDo DEF NoForcedExit, Tested
  <1>3. CASE NoSignalToClose
    <2>1. step = "signals" /\ step' \in {"trendAdd", "enter"}
      BY <1>3 DEF NoSignalToClose, Goto, AfterClose
    <2> QED
      BY <1>1, <1>3, <2>1, NothingToDo DEF NoSignalToClose, Tested
  <1>4. CASE NoSignalToAdd \/ NoSignalToOpen
    <2>1. step \in {"add", "enter"} /\ step' \in {"enter", "safety"}
      BY <1>4 DEF NoSignalToAdd, NoSignalToOpen, Goto
    <2> QED
      BY <1>1, <1>4, <2>1, NothingToDo
         DEF NoSignalToAdd, NoSignalToOpen, Tested
  <1>5. CASE Unhurt
    <2>1. /\ step = "fresh" /\ step' = "safety"
          /\ ~(settings.stop > 0 /\ GainAt(Worst(candle)) <= -settings.stop)
      BY <1>5 DEF Unhurt, Goto, HitsStop
    <2> QED
      BY <1>1, <1>5, <2>1, NothingToDo DEF Unhurt, Tested
  <1>6. ASSUME NEW rule \in Rules, NoScaling(rule) PROVE BacktestInv'
    <2>1. step \in Tested /\ step # "done" /\ step' \in Tested
      BY <1>6 DEF NoScaling, Goto, Following, Tested, Rules, Adding, Reducing
    <2> QED
      BY <1>1, <1>6, <2>1, NothingToDo DEF NoScaling
  <1> QED
    BY <1>2, <1>3, <1>4, <1>5, <1>6

-----------------------------------------------------------------------------
(***************************************************************************)
(* Steps at whose end there is no position.                                *)
(***************************************************************************)
LEMMA OutOfPosition ==
    ASSUME BacktestInv, side' = "none", turned' = "no",
           entry' \in Int, best' \in Int,
           anchor' \in [Rules -> Int], funds' \in Funds, ruined' \in BOOLEAN,
           book' \in Books, RuinedIsPoor', TradesReplay',
           step' \in Steps \ {"fresh"},
           settings' = settings, candle' = candle, added' = added,
           fired' \in {fired, Nowhere}, signals' \in SignalSets
    PROVE  BacktestInv'
  <1>1. /\ Nowhere \in [Rules -> Nat] /\ settings.times \in Nat
        /\ \A r \in Rules : Nowhere[r] = 0
    BY Numbers DEF Nowhere, BacktestInv
  <1>2. /\ fired' \in [Rules -> Nat]
        /\ settings'.times > 0 => \A r \in Rules : fired'[r] <= settings'.times
    BY <1>1 DEF BacktestInv, BacktestTypeOK
  <1>3. BacktestTypeOK'
    BY <1>2 DEF BacktestInv, BacktestTypeOK, SignalSets
  <1>4. FreshIsOpen'
    BY DEF FreshIsOpen
  <1> QED
    BY <1>3, <1>4, NoPositionIsSafe DEF BacktestInv

LEMMA ForcedExitInv ==
    ASSUME BacktestInv, ForcedExit
    PROVE  BacktestInv'
  <1>1. side # "none" /\ Due \in Exits
    BY DEF ForcedExit, Due, DueExit, Exits
  <1>2. PICK left \in Funds : LeaveBy(Due, left)
    BY DEF ForcedExit
  <1>3. /\ settings' = settings /\ candle' = candle /\ added' = added
        /\ fired' = Nowhere /\ signals' = signals /\ step' \in Steps \ {"fresh"}
        /\ signals \in SignalSets
    BY DEF ForcedExit, Goto, Steps, BacktestInv, BacktestTypeOK, SignalSets
  <1> QED
    BY <1>1, <1>2, <1>3, LeftBehind, OutOfPosition

LEMMA CloseOnSignalInv ==
    ASSUME BacktestInv, CloseOnSignal
    PROVE  BacktestInv'
  <1>1. /\ side # "none" /\ Sign \in Directions
        /\ book = "overdrawn" \/ book = Sign
    <2>1. Sign \in Directions
      BY DEF CloseOnSignal, BacktestInv, BacktestTypeOK
    <2>2. side # "none"
      BY <2>1 DEF Sign, BacktestInv, BacktestTypeOK, Directions
    <2> QED
      BY <2>1, <2>2, PositionKnown
  <1>2. PICK left \in Funds :
           IF left = "enough" \/ (Sign = "short" /\ left = "none")
           THEN LeaveBy("close", left)
           ELSE /\ Flatten
                /\ ruined' = TRUE /\ funds' = "none"
                /\ book' = Replay(Replay(book, Deal("close", Sign, TRUE)),
                                  Liquidation("flat"))
    BY DEF CloseOnSignal
  <1>3. /\ settings' = settings /\ candle' = candle /\ added' = added
        /\ fired' = Nowhere /\ signals' = signals /\ step' \in Steps \ {"fresh"}
        /\ signals \in SignalSets
    BY DEF CloseOnSignal, Goto, Steps, BacktestInv, BacktestTypeOK, SignalSets
  <1>4. CASE LeaveBy("close", left)
    BY <1>1, <1>3, <1>4, LeftBehind, OutOfPosition DEF Exits
  <1>5. CASE /\ Flatten /\ ruined' = TRUE /\ funds' = "none"
             /\ book' = Replay(Replay(book, Deal("close", Sign, TRUE)),
                               Liquidation("flat"))
    <2>1. book' = "over" \/ (book' = "overdrawn" /\ book = "overdrawn")
      <3>1. Replay(book, Deal("close", Sign, TRUE))
               = IF book = "overdrawn" THEN "overdrawn" ELSE "flat"
        BY <1>1, ReplayEnd DEF Exits
      <3> QED
        BY <1>5, <3>1, ReplayLiquidation, LiquidationOverdrawn
    <2>2. TradesReplay' /\ book' \in Books
      BY <1>1, <1>3, <1>5, <2>1, Flattened, EndKnown
    <2>3. RuinedIsPoor' /\ funds' \in Funds
      BY <1>5 DEF RuinedIsPoor, Funds
    <2> QED
      BY <1>3, <1>5, <2>2, <2>3, Flattened, OutOfPosition
  <1> QED
    BY <1>2, <1>4, <1>5

LEMMA WipedOutInv ==
    ASSUME BacktestInv, WipedOut
    PROVE  BacktestInv'
  <1>1. book = "flat" \/ (book = "overdrawn" /\ settings.excess # {})
    BY DEF WipedOut, BacktestInv, TradesReplay
  <1>2. \/ book' = "over"
        \/ book' = "overdrawn" /\ settings.excess # {}
    BY <1>1, ReplayLiquidation, LiquidationOverdrawn DEF WipedOut
  <1>3. /\ side' = "none" /\ turned' = "no" /\ ruined' = TRUE /\ funds' = "none"
        /\ UNCHANGED <<settings, step, candle, signals, entry, best, anchor,
                       fired, added>>
    BY DEF WipedOut, positionVars, BacktestInv, BacktestTypeOK
  <1>4. RuinedIsPoor' /\ TradesReplay' /\ book' \in Books /\ funds' \in Funds
    BY <1>2, <1>3 DEF RuinedIsPoor, TradesReplay, Books, Funds
  <1> QED
    BY <1>3, <1>4, OutOfPosition
       DEF BacktestInv, BacktestTypeOK, SignalSets, WipedOut, Steps

\* What the reader knows after the opposite position was closed.
LEMMA ReversedKnown ==
    ASSUME BacktestInv, Opening \in Directions, Reverses
    PROVE  /\ side # "none"
           /\ Reversed = "flat" \/ (Reversed = "overdrawn" /\ book = "overdrawn")
  <1>1. Sign \in Directions /\ side # "none"
    BY DEF Reverses, Other, Sign, Directions, BacktestInv, BacktestTypeOK
  <1>2. book = "overdrawn" \/ (book = side /\ Sign = side)
    BY <1>1, PositionKnown
  <1>3. Reversed = Replay(book, Deal("close", Sign, TRUE))
    BY DEF Reversed
  <1> QED
    BY <1>1, <1>2, <1>3, ReplayEnd DEF Exits

LEMMA ReversalRuinsInv ==
    ASSUME BacktestInv, ReversalRuins
    PROVE  BacktestInv'
  <1>1. Opening \in Directions /\ Reverses
    BY DEF ReversalRuins, Opening, Directions
  <1>2. /\ settings' = settings /\ candle' = candle /\ added' = added
        /\ fired' = Nowhere /\ signals' = signals /\ step' \in Steps \ {"fresh"}
        /\ signals \in SignalSets /\ Flatten
        /\ book' = Reversed /\ ruined' = TRUE /\ funds' = "none"
    BY DEF ReversalRuins, Goto, Steps, BacktestInv, BacktestTypeOK, SignalSets
  <1>3. TradesReplay' /\ book' \in Books
    BY <1>1, <1>2, ReversedKnown, Flattened, EndKnown
  <1>4. RuinedIsPoor' /\ funds' \in Funds
    BY <1>2 DEF RuinedIsPoor, Funds
  <1> QED
    BY <1>2, <1>3, <1>4, Flattened, OutOfPosition

LEMMA EndOfDataInv ==
    ASSUME BacktestInv, EndOfData
    PROVE  BacktestInv'
  <1>1. /\ settings' = settings /\ candle' = candle /\ added' = added
        /\ fired' = fired /\ signals' = signals /\ step' \in Steps \ {"fresh"}
        /\ signals \in SignalSets
    BY DEF EndOfData, Goto, Steps, BacktestInv, BacktestTypeOK, SignalSets
  <1>2. CASE side = "none"
    <2>1. UNCHANGED <<side, turned, entry, best, anchor, funds, ruined, book>>
      BY <1>2 DEF EndOfData, positionVars, accountVars
    <2>2. RuinedIsPoor' /\ TradesReplay'
      BY <1>1, <2>1 DEF BacktestInv, RuinedIsPoor, TradesReplay
    <2> QED
      BY <1>1, <1>2, <2>1, <2>2, OutOfPosition DEF BacktestInv, BacktestTypeOK
  <1>3. CASE side # "none"
    <2>1. PICK left \in Funds : LeaveBy("close", left)
      BY <1>3 DEF EndOfData
    <2> QED
      BY <1>1, <1>3, <2>1, LeftBehind, OutOfPosition DEF Exits
  <1> QED
    BY <1>2, <1>3

\* A stop at the trade of the position's type, whatever is left.
LEMMA Stopped ==
    ASSUME BacktestInv, side # "none", Flatten, settings' = settings,
           book' = Replay(book, Deal("stop", side, TRUE))
    PROVE  TradesReplay' /\ book' \in Books
  <1>1. side \in Directions /\ (book = "overdrawn" \/ book = side)
    BY PositionKnown
  <1>2. book' = "flat" \/ (book' = "overdrawn" /\ book = "overdrawn")
    BY <1>1, ReplayEnd DEF Exits
  <1> QED
    BY <1>2, Flattened, EndKnown

LEMMA SafetyNetInv ==
    ASSUME BacktestInv, SafetyNet
    PROVE  BacktestInv'
  <1>1. /\ settings' = settings /\ candle' = candle /\ added' = added
        /\ fired' = fired /\ signals' \in SignalSets /\ step' \in Steps \ {"fresh"}
        /\ side # "none"
    BY DEF SafetyNet, Touched, Goto, Steps, SignalSets, Quiet
  <1>2. CASE Liquidate
    BY <1>1, <1>2, Liquidated, OutOfPosition
  <1>3. CASE /\ Flatten /\ funds' \in Funds /\ UNCHANGED ruined
             /\ book' = Replay(book, Deal("stop", side, TRUE))
    <2>1. TradesReplay' /\ book' \in Books
      BY <1>1, <1>3, Stopped
    <2>2. ruined' = FALSE
      BY <1>1, <1>3, PositionKnown DEF BacktestInv, BacktestTypeOK
    <2>3. RuinedIsPoor'
      BY <2>2 DEF RuinedIsPoor
    <2> QED
      BY <1>1, <1>3, <2>1, <2>2, <2>3, Flattened, OutOfPosition
  <1> QED
    BY <1>2, <1>3 DEF SafetyNet

LEMMA FreshExitInv ==
    ASSUME BacktestInv, FreshExit
    PROVE  BacktestInv'
  <1>0. side # "none"
    BY DEF FreshExit, BacktestInv, FreshIsOpen
  <1>1. /\ settings' = settings /\ candle' = candle /\ added' = added
        /\ fired' = fired /\ signals' = signals /\ step' \in Steps \ {"fresh"}
        /\ signals \in SignalSets
    BY DEF FreshExit, Goto, Steps, BacktestInv, BacktestTypeOK, SignalSets
  <1>2. CASE Liquidate
    BY <1>0, <1>1, <1>2, Liquidated, OutOfPosition
  <1>3. CASE /\ Flatten /\ funds' \in Funds /\ ruined' = (funds' = "none")
             /\ book' = Replay(book, Deal("stop", side, TRUE))
    <2>3. RuinedIsPoor' /\ TradesReplay' /\ book' \in Books
      BY <1>0, <1>1, <1>3, Stopped DEF RuinedIsPoor
    <2>4. ruined' \in BOOLEAN
      BY <1>3
    <2> QED
      BY <1>1, <1>3, <2>3, <2>4, Flattened, OutOfPosition
  <1> QED
    BY <1>2, <1>3 DEF FreshExit

-----------------------------------------------------------------------------
(***************************************************************************)
(* Steps at whose end there may be a position.                             *)
(***************************************************************************)
LEMMA NextCandleInv ==
    ASSUME BacktestInv, NextCandle
    PROVE  BacktestInv'
  <1>1. /\ step' = "risk" /\ candle' \in Bars /\ added' = FALSE
        /\ UNCHANGED <<settings, signals, side, turned, entry, anchor, fired,
                       funds, ruined, book>>
    BY DEF NextCandle, Goto, accountVars
  <1>2. best' \in Int
    <2>1. candle'.high \in Prices /\ candle'.low \in Prices /\ Prices \subseteq Int
      BY <1>1 DEF Bars
    <2>2. candle'.high \in Int /\ candle'.low \in Int
      BY <2>1
    <2> QED
      BY <2>2 DEF NextCandle, Peak, BacktestInv, BacktestTypeOK
  <1>3. BacktestTypeOK'
    BY <1>1, <1>2 DEF BacktestInv, BacktestTypeOK, Steps
  <1>4. RuinedIsPoor' /\ TradesReplay'
    BY <1>1 DEF BacktestInv, RuinedIsPoor, TradesReplay
  <1>5. StopTested' /\ SurvivorsAreSafe' /\ FreshIsOpen'
    BY <1>1 DEF StopTested, Tested, SurvivorsAreSafe, FreshIsOpen
  <1> QED
    BY <1>3, <1>4, <1>5 DEF BacktestInv

LEMMA EndOfCandleInv ==
    ASSUME BacktestInv, EndOfCandle
    PROVE  BacktestInv'
  <1>1. /\ step = "safety" /\ step' = "next" /\ signals' = Quiet
        /\ ~Touched
        /\ UNCHANGED <<settings, candle, side, turned, entry, best, anchor,
                       fired, added, funds, ruined, book>>
    BY DEF EndOfCandle, Goto, positionVars, accountVars
  <1>2. BacktestTypeOK'
    BY <1>1 DEF BacktestInv, BacktestTypeOK, Steps, Quiet
  <1>3. RuinedIsPoor' /\ TradesReplay' /\ StopTested' /\ FreshIsOpen'
    BY <1>1 DEF BacktestInv, RuinedIsPoor, TradesReplay, StopTested, Tested,
       FreshIsOpen
  <1>4. SurvivorsAreSafe'
    <2>1. GainAt(Worst(candle))' = GainAt(Worst(candle))
      BY <1>1 DEF GainAt, Worst
    <2>2. /\ GainAt(Worst(candle)) \in Int
          /\ settings.liquidation \in Nat /\ settings.stop \in Nat
      BY Numbers DEF BacktestInv
    <2> SUFFICES ASSUME side # "none", turned = "no"
                 PROVE  /\ -GainAt(Worst(candle)) < settings.liquidation
                        /\ settings.stop > 0 /\ ~added
                              => -GainAt(Worst(candle)) < settings.stop
      BY <1>1, <2>1 DEF SurvivorsAreSafe
    <2>3. -GainAt(Worst(candle)) < settings.liquidation
      BY <1>1, <2>2 DEF Touched, HitsLiquidation
    <2>4. settings.stop > 0 /\ ~added => -GainAt(Worst(candle)) < settings.stop
      BY <1>1 DEF BacktestInv, StopTested, Tested
    <2> QED
      BY <2>3, <2>4
  <1> QED
    BY <1>2, <1>3, <1>4 DEF BacktestInv

\* More of a position: the average moves, and the reader learns of it.
LEMMA MoreOfIt ==
    ASSUME BacktestInv, side # "none", NEW price \in Int, AddAt(price)
    PROVE  /\ side' = side /\ best' = best /\ ruined' = ruined /\ book' = book
           /\ entry' \in Int /\ funds' \in Funds /\ added' = TRUE
           /\ turned' = IF turned = "no" THEN "no" ELSE "long"
  <1>1. /\ Sign \in Directions
        /\ book = "overdrawn" \/ (book = side /\ Sign = side)
    BY PositionKnown
  <1>2. book' = book
    BY <1>1, ReplayAdd, ReplayOverdrawn DEF AddAt
  <1>3. entry' \in Int
    BY DEF AddAt, Between
  <1> QED
    BY <1>2, <1>3 DEF AddAt

\* After an addition the invariant holds wherever the candle goes on.
LEMMA AddedInv ==
    ASSUME BacktestInv, side # "none", NEW price \in Int, AddAt(price),
           anchor' \in [Rules -> Int], fired' \in [Rules -> Nat],
           settings.times > 0 => \A r \in Rules : fired'[r] <= settings.times,
           step' \in Tested, UNCHANGED <<settings, candle, signals>>
    PROVE  BacktestInv'
  <1>1. /\ side' = side /\ best' = best /\ ruined' = ruined /\ book' = book
        /\ entry' \in Int /\ funds' \in Funds /\ added' = TRUE
        /\ turned' = IF turned = "no" THEN "no" ELSE "long"
    BY MoreOfIt
  <1>2. ~ruined /\ step' \in Steps \ {"done", "next", "fresh"}
    BY PositionKnown DEF Tested, Steps
  <1>3. BacktestTypeOK'
    BY <1>1, <1>2 DEF BacktestInv, BacktestTypeOK
  <1>4. RuinedIsPoor' /\ TradesReplay'
    BY <1>1, <1>2 DEF BacktestInv, RuinedIsPoor, TradesReplay
  <1>5. StopTested' /\ SurvivorsAreSafe' /\ FreshIsOpen'
    BY <1>1, <1>2 DEF StopTested, SurvivorsAreSafe, FreshIsOpen
  <1> QED
    BY <1>3, <1>4, <1>5 DEF BacktestInv

LEMMA AddOnSignalInv ==
    ASSUME BacktestInv, AddOnSignal
    PROVE  BacktestInv'
  <1>1. side # "none"
    BY DEF AddOnSignal, Sign, BacktestInv, BacktestTypeOK, Directions
  <1>2. PICK price \in Prices : AddAt(price)
    BY DEF AddOnSignal
  <1>3. price \in Int
    BY <1>2
  <1>4. /\ step' \in Tested
        /\ UNCHANGED <<settings, candle, signals, anchor, fired>>
    BY DEF AddOnSignal, Goto, Tested
  <1> QED
    BY <1>1, <1>2, <1>3, <1>4, AddedInv DEF BacktestInv, BacktestTypeOK

LEMMA ScaleInv ==
    ASSUME BacktestInv, NEW rule \in Rules, Scale(rule)
    PROVE  BacktestInv'
  <1>1. /\ side # "none" /\ turned = "no"
        /\ settings.times = 0 \/ fired[rule] < settings.times
    BY DEF Scale, Fires
  <1>2. /\ side \in Directions /\ ~ruined
        /\ book = side \/ (book = "overdrawn" /\ settings.excess # {})
    BY <1>1, PositionKnown
  <1>3. /\ step \in Tested /\ step' \in Tested
        /\ step' \in Steps \ {"fresh", "done"}
        /\ UNCHANGED <<settings, candle, signals>>
    BY DEF Scale, Goto, Following, Tested, Steps, Rules, Adding, Reducing
  <1>4. /\ fired' \in [Rules -> Nat]
        /\ settings.times > 0 => \A r \in Rules : fired'[r] <= settings.times
    <2>1. /\ fired \in [Rules -> Nat] /\ settings.times \in Nat
          /\ settings.times > 0 => \A r \in Rules : fired[r] <= settings.times
          /\ fired' = [fired EXCEPT ![rule] = @ + Counted]
      BY Numbers DEF BacktestInv, BacktestTypeOK, Scale
    <2>2. Counted \in {0, 1}
      BY DEF Counted
    <2> QED
      BY <1>1, <2>1, <2>2
  <1>5. Trigger(rule) \in Int
    BY Numbers DEF BacktestInv
  <1>6. CASE /\ AddAt(Trigger(rule))
             /\ anchor' = [anchor EXCEPT ![rule] = Trigger(rule)]
    <2>1. anchor' \in [Rules -> Int]
      BY <1>5, <1>6 DEF BacktestInv, BacktestTypeOK
    <2> QED
      BY <1>1, <1>3, <1>4, <1>5, <1>6, <2>1, AddedInv
  <1>7. ASSUME NEW ends \in BOOLEAN, Reduce(rule, ends),
               rule \in settings.excess => ends = (side = "long")
        PROVE  BacktestInv'
    <2>1. funds' \in Funds /\ added' = added /\ ruined' = FALSE
      BY <1>2, <1>7 DEF Reduce, BacktestInv, BacktestTypeOK
    <2>2. \/ book' = "overdrawn" /\ settings.excess # {}
          \/ /\ rule \notin settings.excess
             /\ book' = IF ends THEN "flat" ELSE side
      <3>1. CASE book = "overdrawn"
        <4>1. settings.excess # {}
          BY <1>2, <3>1 DEF Directions
        <4> QED
          BY <1>2, <1>7, <3>1, <4>1, ReplayOverdrawn DEF Reduce
      <3>2. CASE book = side /\ rule \in settings.excess
        BY <1>2, <1>7, <3>2, ReplayExcess DEF Reduce
      <3>3. CASE book = side /\ rule \notin settings.excess
        BY <1>2, <1>7, <3>3, ReplayReduce DEF Reduce
      <3>4. rule \in settings.excess => settings.excess # {}
        OBVIOUS
      <3> QED
        BY <1>2, <3>1, <3>2, <3>3, <3>4
    <2>3. RuinedIsPoor' /\ FreshIsOpen' /\ book' \in Books
      BY <1>2, <1>3, <2>1, <2>2 DEF RuinedIsPoor, FreshIsOpen, Books
    <2>4. CASE ends
      <3>1. side' = "none" /\ turned' = "no" /\ entry' \in Int /\ best' \in Int
            /\ anchor' \in [Rules -> Int]
        BY <1>7, <2>4, Flattened DEF Reduce
      <3>2. BacktestTypeOK'
        BY <1>3, <1>4, <2>1, <2>3, <3>1 DEF BacktestInv, BacktestTypeOK
      <3>3. TradesReplay'
        BY <1>3, <2>2, <2>4, <3>1 DEF TradesReplay
      <3> QED
        BY <2>3, <3>1, <3>2, <3>3, NoPositionIsSafe DEF BacktestInv
    <2>5. CASE ~ends
      <3>1. /\ anchor' = [anchor EXCEPT ![rule] = Trigger(rule)]
            /\ UNCHANGED <<side, entry, best>>
            /\ \/ turned' = "no"
               \/ /\ turned' = "short" /\ rule \in settings.excess
                  /\ side = "short"
        BY <1>2, <1>7, <2>5 DEF Reduce, Directions
      <3>2. turned' # "no" => book' = "overdrawn"
        BY <2>2, <3>1
      <3>3. BacktestTypeOK'
        BY <1>2, <1>3, <1>4, <1>5, <2>1, <2>3, <3>1, <3>2
           DEF BacktestInv, BacktestTypeOK
      <3>4. TradesReplay'
        BY <1>1, <1>2, <1>3, <2>2, <2>5, <3>1 DEF TradesReplay, Directions
      <3>5. StopTested' /\ SurvivorsAreSafe'
        BY <1>1, <1>3, <2>1, <3>1 DEF BacktestInv, StopTested,
           SurvivorsAreSafe, GainAt, Worst, Tested
      <3> QED
        BY <2>3, <3>3, <3>4, <3>5 DEF BacktestInv
    <2> QED
      BY <2>4, <2>5
  <1> QED
    BY <1>6, <1>7 DEF Scale

LEMMA OpenInv ==
    ASSUME BacktestInv, Open
    PROVE  BacktestInv'
  <1>1. PICK price \in EntryPrices :
           /\ entry' = price /\ best' = price
           /\ anchor' = [r \in Rules |-> price]
    BY DEF Open
  <1>2. price \in Int
    BY Numbers DEF EntryPrices, BacktestInv
  <1>3. /\ side' = Opening /\ turned' = "no" /\ funds' \in Funds /\ step' = "fresh"
        /\ book' = Replay(Reversed, Deal("open", Opening, FALSE))
        /\ fired' \in {fired, Nowhere}
        /\ UNCHANGED <<settings, candle, signals, added, ruined>>
    BY DEF Open, Goto
  <1>4. /\ Opening \in Directions /\ funds = "enough"
        /\ side = "none" \/ Reverses
    BY DEF Open, Opening, MayOpen, Directions, Reverses
  <1>5. ~ruined
    BY <1>4 DEF BacktestInv, RuinedIsPoor
  <1>6. \/ Reversed = "flat"
        \/ Reversed = "overdrawn" /\ settings.excess # {}
    <2>1. CASE Reverses
      BY <1>4, <2>1, ReversedKnown, PositionKnown DEF Directions
    <2>2. CASE side = "none" /\ ~Reverses
      BY <1>5, <2>2 DEF Reversed, BacktestInv, TradesReplay
    <2> QED
      BY <1>4, <2>1, <2>2
  <1>7. \/ book' = side'
        \/ book' = "overdrawn" /\ settings.excess # {}
    BY <1>3, <1>4, <1>6, ReplayOpen, ReplayOverdrawn
  <1>8. /\ fired' \in [Rules -> Nat]
        /\ settings.times > 0 => \A r \in Rules : fired'[r] <= settings.times
    <2>1. /\ fired \in [Rules -> Nat] /\ settings.times \in Nat
          /\ settings.times > 0 => \A r \in Rules : fired[r] <= settings.times
      BY Numbers DEF BacktestInv, BacktestTypeOK
    <2> QED
      BY <1>3, <2>1 DEF Nowhere
  <1>9. BacktestTypeOK'
    BY <1>1, <1>2, <1>3, <1>4, <1>5, <1>7, <1>8
       DEF BacktestInv, BacktestTypeOK, Steps, Books
  <1>10. RuinedIsPoor' /\ TradesReplay' /\ FreshIsOpen'
    BY <1>3, <1>4, <1>5, <1>7
       DEF RuinedIsPoor, TradesReplay, FreshIsOpen, Directions
  <1>11. StopTested' /\ SurvivorsAreSafe'
    BY <1>3 DEF StopTested, SurvivorsAreSafe, Tested
  <1> QED
    BY <1>9, <1>10, <1>11 DEF BacktestInv

LEMMA BacktestNextInv ==
    BacktestInv /\ [BacktestNext]_backtestVars => BacktestInv'
  <1> SUFFICES ASSUME BacktestInv, [BacktestNext]_backtestVars
               PROVE  BacktestInv'
    OBVIOUS
  <1>1. CASE UNCHANGED backtestVars
    BY <1>1 DEF backtestVars, positionVars, accountVars, BacktestInv,
       BacktestTypeOK, RuinedIsPoor, FreshIsOpen, TradesReplay, StopTested,
       SurvivorsAreSafe, GainAt, Worst
  <1>2. CASE BacktestNext
    BY <1>2, NextCandleInv, WipedOutInv, EndOfDataInv, ForcedExitInv,
       CloseOnSignalInv, ScaleInv, AddOnSignalInv, ReversalRuinsInv, OpenInv,
       FreshExitInv, SafetyNetInv, EndOfCandleInv, QuietStepInv
       DEF BacktestNext
  <1> QED
    BY <1>1, <1>2

LEMMA BacktestInvariant == BacktestSpec => []BacktestInv
  BY BacktestInitInv, BacktestNextInv, PTL DEF BacktestSpec

(***************************************************************************)
(* Types, and no scaling rule fires more often than its limit              *)
(* (_simulate_trading_new_format).                                         *)
(***************************************************************************)
THEOREM BacktestTyped == BacktestSpec => []BacktestTypeOK
  <1>1. BacktestInv => BacktestTypeOK
    BY DEF BacktestInv
  <1> QED
    BY <1>1, BacktestInvariant, PTL

(***************************************************************************)
(* A reader who replays the trades finds the position of the simulator,    *)
(* whatever the signals and prices, unless a scaling rule whose size is    *)
(* above 1 has taken out more than there was.                              *)
(***************************************************************************)
THEOREM TradesTellTheTruth == BacktestSpec => []TradesReplay
  <1>1. BacktestInv => TradesReplay
    BY DEF BacktestInv
  <1> QED
    BY <1>1, BacktestInvariant, PTL

(***************************************************************************)
(* No position outlives a candle that touched its liquidation price or,    *)
(* with its average unmoved, its stop, except for the shares left by       *)
(* reducing a short by more than it had.                                   *)
(***************************************************************************)
THEOREM SurvivorsSurvive == BacktestSpec => []SurvivorsAreSafe
  <1>1. BacktestInv => SurvivorsAreSafe
    BY DEF BacktestInv
  <1> QED
    BY <1>1, BacktestInvariant, PTL
-----------------------------------------------------------------------------
(***************************************************************************)
(* The simulator on finer candles.  The inductive invariant adds that a    *)
(* liquidated account is at the end of a candle, and that the signal       *)
(* chosen for a candle fits the position until it is executed: only a      *)
(* forced exit could change the position before, and it withdraws it.      *)
(***************************************************************************)
LiquidatedIsOver ==
    liquidated => holds = "none" /\ path = <<>>

PendingFits == pending # "none" => CanExecute(pending)

MtfTypes == /\ holds \in Directions \cup {"none"}
            /\ liquidated \in BOOLEAN
            /\ mtfConfig \in MtfConfigs

MtfInv == MtfTypes /\ LiquidatedIsOver /\ PendingFits /\ MtfTradesReplay

LEMMA MtfInitInv == MtfInit => MtfInv
  BY DEF MtfInit, MtfInv, MtfTypes, LiquidatedIsOver, PendingFits,
     MtfTradesReplay

\* The signal chosen for a candle fits.
LEMMA ChosenFits ==
    ASSUME NEW q, ChooseSignal(q)
    PROVE  pending' # "none" => CanExecute(pending')
  BY DEF ChooseSignal, Executable

LEMMA ExitOnPathInv ==
    ASSUME MtfInv, path # <<>>, NEW price, ExitOnPath(price)
    PROVE  MtfInv'
  <1>1. /\ DueAt(price) \in Exits /\ holds # "none"
    BY DEF ExitOnPath, DueAt, DueExit, Exits
  <1>2. holds \in Directions /\ record = holds
    BY <1>1 DEF MtfInv, MtfTypes, MtfTradesReplay
  <1>3. /\ Replay(record, Liquidation(holds)) = "over"
        /\ Replay(record, Deal(DueAt(price), holds, TRUE)) = "flat"
    BY <1>1, <1>2, ReplayLiquidation, ReplayExit
  <1>4. PICK left \in Funds :
           /\ liquidated' = Ruins(DueAt(price), left)
           /\ record' = Replay(record,
                IF liquidated' /\ holds = "short" THEN Liquidation(holds)
                ELSE Deal(DueAt(price), holds, TRUE))
    BY DEF ExitOnPath
  <1>5. liquidated' \in BOOLEAN
    BY <1>4 DEF Ruins
  <1>6. record' = "flat" \/ (record' = "over" /\ liquidated')
    BY <1>3, <1>4
  <1>7. /\ holds' = "none" /\ pending' = "none" /\ mtfConfig' = mtfConfig
        /\ liquidated' => path' = <<>>
    BY DEF ExitOnPath, NoPosition
  <1> QED
    BY <1>5, <1>6, <1>7 DEF MtfInv, MtfTypes, LiquidatedIsOver, PendingFits,
       MtfTradesReplay

LEMMA ExecutePendingInv ==
    ASSUME MtfInv, path # <<>>, NEW price, ExecutePending(price)
    PROVE  MtfInv'
  <1>1. /\ pending # "none" /\ CanExecute(pending) /\ ~liquidated
        /\ pending' = "none" /\ mtfConfig' = mtfConfig
    BY DEF ExecutePending, Executes, MtfInv, PendingFits, LiquidatedIsOver
  <1>2. CASE CloseByPending(price)
    <2>1. holds \in Directions /\ record = holds
      <3>1. holds = Target(pending) \/ holds = Other(Target(pending))
        BY <1>1, <1>2 DEF CloseByPending, Reversal, CanExecute
      <3> QED
        BY <3>1 DEF Target, Other, Directions, MtfInv, MtfTradesReplay
    <2>2. record' = "flat"
      <3>1. holds # "none" /\ record' = Replay(record, Deal("close", holds, TRUE))
        BY <1>2, <2>1 DEF CloseByPending, Closed, Directions
      <3> QED
        BY <2>1, <3>1, ReplayExit DEF Exits
    <2>3. PICK left \in Funds : liquidated' = (left # "enough")
      BY <1>2 DEF CloseByPending
    <2>4. liquidated' \in BOOLEAN
      BY <2>3
    <2>5. holds' = "none" /\ (liquidated' => path' = <<>>)
      BY <1>2 DEF CloseByPending, NoPosition
    <2> QED
      BY <1>1, <2>2, <2>4, <2>5 DEF MtfInv, MtfTypes, LiquidatedIsOver,
         PendingFits, MtfTradesReplay
  <1>3. CASE OpenByPending(price)
    <2>1. /\ Opens(pending) /\ holds' = Target(pending)
          /\ Target(pending) \in Directions
      BY <1>3 DEF OpenByPending, Target, Directions
    <2>2. (IF Reversal THEN Closed ELSE record) = "flat"
      <3>1. holds = "none" \/ holds = Other(Target(pending))
        BY <1>1, <2>1 DEF CanExecute
      <3>2. CASE holds = "none"
        <4>1. ~Reversal
          BY <3>2 DEF Reversal, Other
        <4> QED
          BY <1>1, <3>2, <4>1 DEF MtfInv, MtfTradesReplay
      <3>3. CASE holds = Other(Target(pending))
        <4>1. Reversal /\ holds \in Directions /\ holds # "none"
          BY <2>1, <3>3 DEF Reversal, Other, Directions
        <4>2. record = holds
          BY <4>1 DEF MtfInv, MtfTradesReplay
        <4> QED
          BY <4>1, <4>2, ReplayExit DEF Closed, Exits
      <3> QED
        BY <3>1, <3>2, <3>3
    <2>3. record' = holds'
      BY <1>3, <2>1, <2>2, ReplayOpen DEF OpenByPending
    <2>4. liquidated' = liquidated
      BY <1>3 DEF OpenByPending
    <2>5. ~liquidated'
      BY <1>1, <2>4
    <2>6. liquidated' \in BOOLEAN
      BY <2>4 DEF MtfInv, MtfTypes
    <2> QED
      BY <1>1, <2>1, <2>3, <2>5, <2>6 DEF MtfInv, MtfTypes, LiquidatedIsOver,
         PendingFits, MtfTradesReplay, Directions
  <1> QED
    BY <1>2, <1>3 DEF ExecutePending

LEMMA MtfNextInv == MtfInv /\ [MtfNext]_mtfVars => MtfInv'
  <1> SUFFICES ASSUME MtfInv, [MtfNext]_mtfVars
               PROVE  MtfInv'
    OBVIOUS
  <1>1. CASE UNCHANGED mtfVars
    BY <1>1 DEF mtfVars, holding, account, MtfInv, MtfTypes, LiquidatedIsOver,
       PendingFits, CanExecute, MtfTradesReplay
  <1>2. CASE NextBar
    <2>1. /\ ~liquidated /\ UNCHANGED <<mtfConfig, holds, liquidated, record>>
      BY <1>2 DEF NextBar, holding, account
    <2>2. PICK q : ChooseSignal(q)
      BY <1>2 DEF NextBar
    <2>3. pending' # "none" => CanExecute(pending')
      BY <2>2, ChosenFits
    <2>4. PendingFits'
      BY <2>1, <2>3 DEF PendingFits, CanExecute
    <2> QED
      BY <2>1, <2>4 DEF MtfInv, MtfTypes, LiquidatedIsOver, MtfTradesReplay
  <1>3. CASE OutOfCapital
    <2>1. /\ holds = "none" /\ path = <<>> /\ liquidated' = TRUE
          /\ UNCHANGED <<mtfConfig, pending, path, holds, record>>
      BY <1>3 DEF OutOfCapital, holding
    <2> QED
      BY <2>1 DEF MtfInv, MtfTypes, LiquidatedIsOver, PendingFits,
         CanExecute, MtfTradesReplay
  <1>4. ASSUME path # <<>>, PassPrice(Head(path))
        PROVE  MtfInv'
    <2>1. /\ ~liquidated
          /\ UNCHANGED <<mtfConfig, pending, holds, liquidated, record>>
      BY <1>4 DEF PassPrice, account, MtfInv, LiquidatedIsOver
    <2> QED
      BY <2>1 DEF MtfInv, MtfTypes, LiquidatedIsOver, PendingFits,
         CanExecute, MtfTradesReplay
  <1> QED
    BY <1>1, <1>2, <1>3, <1>4, ExitOnPathInv, ExecutePendingInv
       DEF MtfNext, WalkPath

(***************************************************************************)
(* A reader who replays the trades of the finer simulation finds its       *)
(* position, in whatever order signals, reversals and forced exits meet on *)
(* the path of a candle (_simulate_trading_mtf).                           *)
(***************************************************************************)
THEOREM MtfTradesTellTheTruth == MtfSpec => []MtfTradesReplay
  <1>1. MtfInv => MtfTradesReplay
    BY DEF MtfInv
  <1> QED
    BY <1>1, MtfInitInv, MtfNextInv, PTL DEF MtfSpec
(***************************************************************************)
(* The types.  No signal is pending at the end of a candle, because the    *)
(* open it waits for is still to come as long as it is pending.            *)
(***************************************************************************)
MtfShape ==
    /\ mtfConfig \in MtfConfigs
    /\ queue \in Seq(MtfSignals) /\ pending \in MtfSignals \cup {"none"}
    /\ openPrice \in MtfPrices /\ path \in Seq(MtfPrices)
    /\ holds \in Directions \cup {"none"}
    /\ paid \in Int /\ extreme \in Int
    /\ capital \in Funds /\ record \in Books

OpenToCome ==
    pending # "none" => \E i \in 1..Len(path) : path[i] = openPrice

MtfTypeInv == MtfInv /\ MtfShape /\ OpenToCome

LEMMA BooksClosed ==
    ASSUME NEW book1 \in Books, NEW type, NEW s \in Directions,
           NEW ends \in BOOLEAN
    PROVE  /\ Replay(book1, Deal(type, s, ends)) \in Books
           /\ Replay(book1, Liquidation(s)) \in Books
  BY DEF Books, Replay, Deal, Liquidation

LEMMA EmittedSeq ==
    ASSUME NEW set
    PROVE  Emitted(set) \in Seq(MtfSignals)
  <1> DEFINE IfIn(s) == IF s \in set THEN <<s>> ELSE <<>>
  <1>1. ASSUME NEW s \in MtfSignals PROVE IfIn(s) \in Seq(MtfSignals)
    OBVIOUS
  <1>2. /\ IfIn("open_long") \in Seq(MtfSignals)
        /\ IfIn("close_long") \in Seq(MtfSignals)
        /\ IfIn("open_short") \in Seq(MtfSignals)
        /\ IfIn("close_short") \in Seq(MtfSignals)
    BY <1>1 DEF MtfSignals
  <1> HIDE DEF IfIn
  <1>3. IfIn("open_long") \o IfIn("close_long") \o
        IfIn("open_short") \o IfIn("close_short") \in Seq(MtfSignals)
    BY <1>2
  <1> QED
    BY <1>3 DEF Emitted, IfIn

LEMMA ChosenTypes ==
    ASSUME NEW q \in Seq(MtfSignals), ChooseSignal(q)
    PROVE  queue' \in Seq(MtfSignals) /\ pending' \in MtfSignals \cup {"none"}
  <1>1. CASE pending' = "none" /\ queue' = <<>>
    BY <1>1
  <1>2. ASSUME NEW first \in Executable(q), pending' = q[first],
               queue' = SubSeq(q, first + 1, Len(q))
        PROVE  queue' \in Seq(MtfSignals) /\ pending' \in MtfSignals \cup {"none"}
    <2>1. first \in 1..Len(q) /\ q[first] \in MtfSignals
      BY DEF Executable
    <2>2. \A i \in first + 1 .. Len(q) : q[i] \in MtfSignals
      BY <2>1
    <2>3. SubSeq(q, first + 1, Len(q)) \in Seq(MtfSignals)
      BY <2>1, <2>2, SubSeqProperties
    <2> QED
      BY <1>2, <2>1, <2>3
  <1> QED
    BY <1>1, <1>2 DEF ChooseSignal

LEMMA NextBarTypes ==
    ASSUME MtfTypeInv, NextBar
    PROVE  MtfShape' /\ OpenToCome'
  <1>1. PICK new : ChooseSignal(queue \o Emitted(new))
    BY DEF NextBar
  <1>2. queue \o Emitted(new) \in Seq(MtfSignals)
    BY EmittedSeq, ConcatProperties DEF MtfTypeInv, MtfShape
  <1>3. queue' \in Seq(MtfSignals) /\ pending' \in MtfSignals \cup {"none"}
    BY <1>1, <1>2, ChosenTypes
  <1>4. PICK open \in MtfPrices, high \in MtfPrices, low \in MtfPrices,
             close \in MtfPrices :
           openPrice' = open /\ path' = InferCandlePath(open, high, low, close)
    BY DEF NextBar
  <1>5. /\ openPrice' \in MtfPrices /\ path' \in Seq(MtfPrices)
        /\ 1 \in 1..Len(path') /\ path'[1] = openPrice'
    BY <1>4 DEF InferCandlePath
  <1>6. UNCHANGED <<mtfConfig, holds, paid, extreme, capital, record>>
    BY DEF NextBar, holding, account
  <1>7. MtfShape'
    BY <1>3, <1>5, <1>6 DEF MtfTypeInv, MtfShape
  <1>8. OpenToCome'
    BY <1>5 DEF OpenToCome
  <1> QED
    BY <1>7, <1>8

LEMMA WalkPathTypes ==
    ASSUME MtfTypeInv, WalkPath
    PROVE  MtfShape' /\ OpenToCome'
  <1> DEFINE price == Head(path)
  <1>1. /\ path # <<>> /\ path \in Seq(MtfPrices)
        /\ price \in MtfPrices /\ price \in Int
        /\ Tail(path) \in Seq(MtfPrices)
    <2>1. path # <<>> /\ path \in Seq(MtfPrices)
      BY DEF WalkPath, MtfTypeInv, MtfShape
    <2>2. price \in MtfPrices /\ Tail(path) \in Seq(MtfPrices)
      BY <2>1, HeadTailProperties
    <2>3. \A n \in MtfPrices : n \in Int
      OBVIOUS
    <2> QED
      BY <2>1, <2>2, <2>3, Zenon
  <1>2. /\ mtfConfig' = mtfConfig /\ queue' = queue /\ openPrice' = openPrice
        /\ path' \in {<<>>, Tail(path)} /\ pending' \in {pending, "none"}
    BY DEF WalkPath, ExitOnPath, ExecutePending, CloseByPending,
       OpenByPending, PassPrice
  <1>a. path' \in Seq(MtfPrices)
    <2>1. <<>> \in Seq(MtfPrices)
      OBVIOUS
    <2> QED
      BY <1>1, <1>2, <2>1, Zenon
  <1>b. ASSUME pending' = "none" PROVE OpenToCome'
    BY <1>b DEF OpenToCome
  <1>c. /\ mtfConfig' \in MtfConfigs /\ queue' \in Seq(MtfSignals)
        /\ openPrice' \in MtfPrices /\ pending' \in MtfSignals \cup {"none"}
    BY <1>2 DEF MtfTypeInv, MtfShape
  <1>3. CASE ExitOnPath(price)
    <2>1. holds \in Directions
      BY <1>3 DEF ExitOnPath, DueAt, MtfTypeInv, MtfShape
    <2>2. record' \in Books
      BY <1>3, <2>1, BooksClosed DEF ExitOnPath, MtfTypeInv, MtfShape
    <2>3. /\ holds' = "none" /\ paid' = 0 /\ extreme' = 0
          /\ capital' \in Funds /\ pending' = "none"
      BY <1>3 DEF ExitOnPath, NoPosition
    <2> QED
      BY <1>a, <1>b, <1>c, <2>2, <2>3 DEF MtfShape
  <1>4. CASE ExecutePending(price)
    <2>1. pending' = "none"
      BY <1>4 DEF ExecutePending
    <2>2. Closed \in Books
      BY BooksClosed DEF Closed, MtfTypeInv, MtfShape
    <2>3. CASE CloseByPending(price)
      <3>1. /\ holds' = "none" /\ paid' = 0 /\ extreme' = 0
            /\ capital' \in Funds /\ record' \in Books
        BY <2>2, <2>3 DEF CloseByPending, NoPosition, Funds
      <3> QED
        BY <1>a, <1>b, <1>c, <2>1, <3>1 DEF MtfShape
    <2>4. CASE OpenByPending(price)
      <3>1. /\ holds' \in Directions /\ paid' \in Int /\ extreme' \in Int
            /\ capital' \in Funds
        BY <1>1, <2>4 DEF OpenByPending, Target, Directions
      <3>2. record' \in Books
        BY <2>2, <2>4, BooksClosed
           DEF OpenByPending, Target, Directions, MtfTypeInv, MtfShape
      <3> QED
        BY <1>a, <1>b, <1>c, <2>1, <3>1, <3>2 DEF MtfShape
    <2> QED
      BY <1>4, <2>3, <2>4 DEF ExecutePending
  <1>5. CASE PassPrice(price)
    <2>1. /\ UNCHANGED <<pending, holds, paid, capital, record>>
          /\ path' = Tail(path) /\ extreme' \in {price, extreme}
          /\ pending # "none" => price # openPrice
      BY <1>5 DEF PassPrice, account, Extreme, Executes
    <2>2. MtfShape'
      BY <1>1, <1>2, <2>1 DEF MtfTypeInv, MtfShape
    <2>3. OpenToCome'
      <3> SUFFICES ASSUME pending # "none"
                   PROVE  \E i \in 1..Len(path') : path'[i] = openPrice
        BY <1>2, <2>1 DEF OpenToCome
      <3>1. PICK i \in 1..Len(path) : path[i] = openPrice
        BY DEF MtfTypeInv, OpenToCome
      <3>2. i # 1
        BY <1>1, <2>1, <3>1
      <3>3. /\ Len(path') = Len(path) - 1
            /\ \A j \in 1..Len(path') : path'[j] = path[j + 1]
        BY <1>1, <2>1, HeadTailProperties
      <3>4. i - 1 \in 1..Len(path')
        BY <1>1, <3>1, <3>2, <3>3
      <3>5. path'[i - 1] = openPrice
        BY <3>1, <3>3, <3>4
      <3> QED
        BY <3>4, <3>5
    <2> QED
      BY <2>2, <2>3
  <1> QED
    BY <1>3, <1>4, <1>5 DEF WalkPath

LEMMA MtfNextTypes == MtfTypeInv /\ [MtfNext]_mtfVars => MtfTypeInv'
  <1> SUFFICES ASSUME MtfTypeInv, [MtfNext]_mtfVars
               PROVE  MtfShape' /\ OpenToCome'
    BY MtfNextInv DEF MtfTypeInv
  <1>1. CASE UNCHANGED mtfVars
    BY <1>1 DEF mtfVars, holding, account, MtfTypeInv, MtfShape, OpenToCome
  <1>2. CASE NextBar
    BY <1>2, NextBarTypes
  <1>3. CASE OutOfCapital
    <2>1. /\ capital' = "none"
          /\ UNCHANGED <<mtfConfig, queue, pending, openPrice, path, holds,
                         paid, extreme, record>>
      BY <1>3 DEF OutOfCapital, holding
    <2> QED
      BY <2>1 DEF MtfTypeInv, MtfShape, OpenToCome, Funds
  <1>4. CASE WalkPath
    BY <1>4, WalkPathTypes
  <1> QED
    BY <1>1, <1>2, <1>3, <1>4 DEF MtfNext

(***************************************************************************)
(* Types, and no signal waits beyond the candle that was to execute it     *)
(* (_simulate_trading_mtf).                                                *)
(***************************************************************************)
THEOREM MtfTyped == MtfSpec => []MtfTypeOK
  <1>1. MtfInit => MtfTypeInv
    <2>1. MtfInit => MtfShape
      BY DEF MtfInit, MtfShape, Funds, Books
    <2>2. MtfInit => OpenToCome
      BY DEF MtfInit, OpenToCome
    <2> QED
      BY <2>1, <2>2, MtfInitInv DEF MtfTypeInv
  <1>2. MtfTypeInv => MtfTypeOK
    <2> SUFFICES ASSUME MtfTypeInv PROVE MtfTypeOK
      OBVIOUS
    <2>1. path = <<>> => pending = "none"
      BY DEF MtfTypeInv, OpenToCome
    <2>2. liquidated \in BOOLEAN /\ (liquidated => holds = "none")
      BY DEF MtfTypeInv, MtfInv, MtfTypes, LiquidatedIsOver
    <2> QED
      BY <2>1, <2>2 DEF MtfTypeInv, MtfShape, MtfTypeOK
  <1> QED
    BY <1>1, <1>2, MtfNextTypes, PTL DEF MtfSpec
=============================================================================
