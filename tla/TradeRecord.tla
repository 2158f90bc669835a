---------------------------- MODULE TradeRecord ----------------------------
(***************************************************************************)
(* What two simulators of a backtest share (services/backtest.py): the     *)
(* list of trades they hand to the reader, and the forced exits.           *)
(*                                                                         *)
(* The reader of a backtest sees the list and nothing else, so the list    *)
(* must be one a real account could have produced.  Replay reads it, one   *)
(* trade after the other.  Prices are whole numbers, and a distance that   *)
(* the code computes as a percentage of a price is one of those numbers.   *)
(***************************************************************************)
EXTENDS Integers

Directions == {"long", "short"}
Other(side) == IF side = "long" THEN "short" ELSE "long"

(***************************************************************************)
(* Enough to trade, less than min_capital_to_trade, nothing or a debt.     *)
(* What profits and commissions do to the capital is not computed: a deal  *)
(* may leave any of the three.                                             *)
(***************************************************************************)
Funds == {"enough", "little", "none"}

(***************************************************************************)
(* A trade: "ends" says that nothing of the position is left.  An "excess" *)
(* is a reduction by more than there is.                                   *)
(***************************************************************************)
Deal(type, side, ends) == [type |-> type, side |-> side, ends |-> ends]
Liquidation(side) == Deal("liquidation", side, TRUE)
Exits == {"close", "stop", "trailing", "profit"}

(***************************************************************************)
(* The position after a trade, for a reader who knows the one before it:   *)
(* "wrong" when no account could have made that trade, and "overdrawn"     *)
(* for good once more was taken out of it than there was.                  *)
(***************************************************************************)
Replay(book, trade) ==
    CASE book = "overdrawn" -> "overdrawn"
      [] trade.type = "excess" /\ book = trade.side -> "overdrawn"
      [] trade.type = "open" /\ book = "flat" -> trade.side
      [] trade.type \in {"add", "reduce"} /\ book = trade.side ->
            IF trade.ends THEN "flat" ELSE book
      [] trade.type \in Exits /\ book = trade.side -> "flat"
      [] trade.type = "liquidation" /\ book = trade.side -> "over"
      [] OTHER -> "wrong"

Books == Directions \cup {"flat", "over", "overdrawn", "wrong"}

(***************************************************************************)
(* How far a price is in favour of a position.                             *)
(***************************************************************************)
Gain(side, entry, price) ==
    IF side = "long" THEN price - entry ELSE entry - price

(***************************************************************************)
(* The forced exit that is due: c holds the distances (0 for "not set"),   *)
(* peak is the best gain since entry, down and up the gains at the worst   *)
(* and at the best price that is looked at.  A stop comes before a         *)
(* trailing stop, and a fixed profit is only taken without one.            *)
(***************************************************************************)
DueExit(c, activation, peak, down, up) ==
    IF c.stop > 0 /\ down <= -c.stop THEN "stop"
    ELSE IF /\ c.trailing /\ c.trail > 0
            /\ activation = 0 \/ peak >= activation
            /\ down <= peak - c.trail THEN "trailing"
    ELSE IF ~c.trailing /\ c.profit > 0 /\ up >= c.profit THEN "profit"
    ELSE "none"
=============================================================================
