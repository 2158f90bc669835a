--------------------------- MODULE LiveExecution ---------------------------
(***************************************************************************)
(* What PendingOrderWorker does with a row it has claimed: _dispatch_one and *)
(* _execute_live_order on a REST exchange.                                  *)
(*                                                                          *)
(* PendingOrders leaves open how a dispatch ends.  Here it is taken apart:   *)
(* a limit order that may be refused, may be accepted without the worker     *)
(* learning of it, fills while the worker waits, is cancelled and followed   *)
(* by a market order for what is left; then the row is settled and the fill  *)
(* is booked in the local position.  The queue variables keep their names,   *)
(* so the queue of this module is PendingOrders itself.                      *)
(*                                                                          *)
(* Quantities are whole units.  Rows are opening orders: the clamping of a   *)
(* reduce-only amount to the held size is not modelled.                      *)
(***************************************************************************)
EXTENDS PendingOrders, Functions

CONSTANTS LimitRows,    \* rows with a maker order_mode: a limit order first
          SignalRows,   \* rows of strategies in signal mode: notify only
          DedupRows,    \* rows whose exchange refuses a client order id twice
          Amount,       \* quantity of a row
          MinTradable,  \* of a row: the rest below which the tail guard gives up
          Tolerance     \* of a row: 0.1% of its amount; such a rest is not cancelled

ASSUME RowsAssumption ==
    /\ LimitRows \subseteq Orders /\ SignalRows \subseteq Orders /\ DedupRows \subseteq Orders
    /\ LimitRows \intersect SignalRows = {}
ASSUME AmountAssumption      == Amount \in Nat \ {0}
ASSUME MinTradableAssumption == MinTradable \in [Orders -> Nat]
ASSUME ToleranceAssumption   == Tolerance \in [Orders -> Nat]
ASSUME WorkersAssumption     == IsFiniteSet(Workers)

\* One attempt at one row: a client order id is derived from the row and the
\* phase, an order on the exchange belongs to one attempt.
Tickets == Orders \X (1..MaxAttempts)

VARIABLES step,          \* where the worker is in its dispatch
          seen,          \* total_base: the fills it has seen
          remaining,     \* quantity it still wants
          booking,       \* the settled row whose fill it has yet to book
          placed,        \* exchange: tickets with an accepted limit / market order
          resting,       \* exchange: open quantity of the limit order
          filled,        \* exchange: filled quantity, limit and market apart
          booked,        \* quantity booked locally for each row
          astray         \* tickets whose limit order got out of hand (history)

worker   == <<step, seen, remaining, booking>>
exchange == <<placed, resting, filled>>
live     == <<worker, exchange, booked, astray>>
liveVars == <<vars, live>>

Phases == {"lmt", "mkt"}
Steps  == {"idle", "start", "wait", "cancel", "market", "confirm", "report", "book"}

LiveTypeOK ==
    /\ TypeOK
    /\ step      \in [Workers -> Steps]
    /\ seen      \in [Workers -> 0..Amount]
    /\ remaining \in [Workers -> 0..Amount]
    /\ booking   \in [Workers -> Orders \union {None}]
    /\ placed    \in [Phases -> SUBSET Tickets]
    /\ resting   \in [Tickets -> 0..Amount]
    /\ filled    \in [Phases -> [Tickets -> 0..Amount]]
    /\ booked    \in [Orders -> Nat]
    /\ astray    \in SUBSET Tickets

LiveInit ==
    /\ Init
    /\ step      = [w \in Workers |-> "idle"]
    /\ seen      = [w \in Workers |-> 0]
    /\ remaining = [w \in Workers |-> 0]
    /\ booking   = [w \in Workers |-> None]
    /\ placed    = [ph \in Phases |-> {}]
    /\ resting   = [t \in Tickets |-> 0]
    /\ filled    = [ph \in Phases |-> [t \in Tickets |-> 0]]
    /\ booked    = [o \in Orders |-> 0]
    /\ astray    = {}

-----------------------------------------------------------------------------
(* The exchange.                                                            *)

\* Bug variant of ClientOid: an id of its own for every attempt.
ClientOidPerAttempt(ph, t) == <<ph, t[1], t[2]>>

\* The client order id is made of the row and the phase, not of the attempt.
ClientOid(ph, t) == <<ph, t[1]>>

\* The exchange knows this client order id and takes no second order under it.
Refused(ph, t) ==
    /\ t[1] \in DedupRows
    /\ \E u \in placed[ph] : ClientOid(ph, u) = ClientOid(ph, t)

AcceptLimit(t) ==
    /\ ~Refused("lmt", t)
    /\ placed'  = [placed EXCEPT !["lmt"] = @ \union {t}]
    /\ resting' = [resting EXCEPT ![t] = Amount]
    /\ UNCHANGED filled

\* A market order fills at once, in full or as far as there is liquidity.
AcceptMarket(t, qty) ==
    /\ ~Refused("mkt", t)
    /\ placed' = [placed EXCEPT !["mkt"] = @ \union {t}]
    /\ \E q \in 0..qty : filled' = [filled EXCEPT !["mkt"][t] = q]
    /\ UNCHANGED resting

\* Somebody takes part of a resting limit order.
LimitFills(t) ==
    /\ resting[t] > 0
    /\ resting' = [resting EXCEPT ![t] = @ - 1]
    /\ filled'  = [filled EXCEPT !["lmt"][t] = @ + 1]
    /\ UNCHANGED <<vars, worker, placed, booked, astray>>

-----------------------------------------------------------------------------
(* A dispatch, step by step.                                                *)

Ticket(w) == <<cur[w], claim[w]>>

Go(w, s) == step' = [step EXCEPT ![w] = s]

\* The row is claimed; _dispatch_one starts with nothing seen.
ClaimLiveRow(w) ==
    /\ step[w] = "idle"
    /\ MarkProcessing(w)
    /\ Go(w, "start")
    /\ remaining' = [remaining EXCEPT ![w] = Amount]
    /\ UNCHANGED <<seen, booking, exchange, booked, astray>>

\* The dispatch returns, its locals are gone.
Return(w) ==
    /\ Go(w, "idle")
    /\ seen'      = [seen EXCEPT ![w] = 0]
    /\ remaining' = [remaining EXCEPT ![w] = 0]
    /\ booking'   = [booking EXCEPT ![w] = None]

\* The row fails: _mark_failed, or an exception out of it that ends the tick.
Fail(w) ==
    /\ Settle(w, "failed") \/ (SettleError(w) /\ EndTick(w))
    /\ Return(w)
    /\ UNCHANGED booked

\* A signal row is only notified.
NotifySignal(w) ==
    /\ step[w] = "start"
    /\ cur[w] \in SignalRows
    /\ \/ Settle(w, "sent")
       \/ Settle(w, "failed")
       \/ SettleError(w) /\ EndTick(w)
    /\ Return(w)
    /\ UNCHANGED <<exchange, booked, astray>>

\* The many checks before any order is placed.
Reject(w) ==
    /\ step[w] = "start"
    /\ cur[w] \notin SignalRows
    /\ Fail(w)
    /\ UNCHANGED <<exchange, astray>>

\* Phase 1 is skipped in market mode.
SkipLimitPhase(w) ==
    /\ step[w] = "start"
    /\ cur[w] \notin LimitRows \union SignalRows
    /\ Go(w, "market")
    /\ UNCHANGED <<vars, seen, remaining, booking, exchange, booked, astray>>

\* Phase 1.  Any exception falls back to a market order for the full amount,
\* also one that hides that the limit order was accepted.
PlaceLimit(w) ==
    /\ step[w] = "start"
    /\ cur[w] \in LimitRows
    /\ \/ AcceptLimit(Ticket(w)) /\ Go(w, "wait") /\ UNCHANGED astray
       \/ AcceptLimit(Ticket(w)) /\ Go(w, "market") /\ astray' = astray \union {Ticket(w)}
       \/ Go(w, "market") /\ UNCHANGED <<exchange, astray>>
    /\ UNCHANGED <<vars, seen, remaining, booking, booked>>

\* wait_for_fill answers with what it read last, at the first partial fill or at
\* the end of the wait, and with nothing if every query failed.  A rest too small
\* to be traded is neither cancelled nor chased; one within the tolerance is
\* chased by the market order and not cancelled.
SeeLimitFills(w) ==
    /\ step[w] = "wait"
    /\ \E q \in {0, filled["lmt"][Ticket(w)]} :
         LET rest == Amount - q
             tail == rest > 0 /\ rest < MinTradable[cur[w]]
         IN  /\ seen'      = [seen EXCEPT ![w] = q]
             /\ remaining' = [remaining EXCEPT ![w] = IF tail THEN 0 ELSE rest]
             /\ Go(w, IF tail \/ rest = 0 THEN "report"
                      ELSE IF rest <= Tolerance[cur[w]] THEN "market" ELSE "cancel")
    /\ UNCHANGED <<vars, booking, exchange, booked, astray>>

\* Bug variant of CancelLimit: the order is left alone once some of it filled.
CancelLimitUnfilledOnly(w) ==
    /\ step[w] = "cancel"
    /\ resting' = [resting EXCEPT ![Ticket(w)] = IF seen[w] = 0 THEN 0 ELSE @]
    /\ Go(w, "market")
    /\ UNCHANGED <<vars, seen, remaining, booking, placed, filled, booked, astray>>

\* The error of a failed cancel is swallowed.
CancelLimit(w) ==
    /\ step[w] = "cancel"
    /\ \/ resting' = [resting EXCEPT ![Ticket(w)] = 0] /\ UNCHANGED astray
       \/ astray' = astray \union {Ticket(w)} /\ UNCHANGED resting
    /\ Go(w, "market")
    /\ UNCHANGED <<vars, seen, remaining, booking, placed, filled, booked>>

\* Bug variants of PlaceMarket: the whole amount again, and a refusal taken for
\* an order that went through.
PlaceMarketFull(w) ==
    /\ step[w] = "market"
    /\ \/ AcceptMarket(Ticket(w), Amount) /\ Go(w, "confirm")
          /\ UNCHANGED <<vars, seen, remaining, booking, booked>>
       \/ Fail(w) /\ UNCHANGED exchange
    /\ UNCHANGED astray

PlaceMarketUnchecked(w) ==
    /\ step[w] = "market"
    /\ AcceptMarket(Ticket(w), remaining[w]) \/ UNCHANGED exchange
    /\ Go(w, "confirm")
    /\ UNCHANGED <<vars, seen, remaining, booking, booked, astray>>

\* Phase 2.  The exchange takes the order; or answers with an error, which is a
\* partial success if the limit phase saw a fill; or the call breaks off, and the
\* row fails whatever was seen.  An error may hide that the order was accepted.
PlaceMarket(w) ==
    /\ step[w] = "market"
    /\ \/ /\ AcceptMarket(Ticket(w), remaining[w])
          /\ Go(w, "confirm")
          /\ UNCHANGED <<vars, seen, remaining, booking, booked>>
       \/ /\ seen[w] > 0
          /\ AcceptMarket(Ticket(w), remaining[w]) \/ UNCHANGED exchange
          /\ Go(w, "report")
          /\ remaining' = [remaining EXCEPT ![w] = 0]
          /\ UNCHANGED <<vars, seen, booking, booked>>
       \/ /\ Fail(w)
          /\ AcceptMarket(Ticket(w), remaining[w]) \/ UNCHANGED exchange
    /\ UNCHANGED astray

\* Bug variant of SeeMarketFills: the limit fills are counted once more.
SeeMarketFillsTwice(w) ==
    /\ step[w] = "confirm"
    /\ \E q \in {0, filled["mkt"][Ticket(w)]} :
         seen' = [seen EXCEPT ![w] = 2 * @ + q]
    /\ Go(w, "report")
    /\ UNCHANGED <<vars, remaining, booking, exchange, booked, astray>>

SeeMarketFills(w) ==
    /\ step[w] = "confirm"
    /\ \E q \in {0, filled["mkt"][Ticket(w)]} : seen' = [seen EXCEPT ![w] = @ + q]
    /\ Go(w, "report")
    /\ UNCHANGED <<vars, remaining, booking, exchange, booked, astray>>

\* Bug variant of ReportSent: a row without a seen fill is put back to be retried.
ReportSentOrRetry(w) ==
    /\ step[w] = "report"
    /\ \/ seen[w] > 0 /\ Settle(w, "sent") /\ Go(w, "book")
       \/ seen[w] = 0 /\ Settle(w, "pending") /\ Go(w, "idle")
    /\ booking' = [booking EXCEPT ![w] = IF seen[w] > 0 THEN cur[w] ELSE None]
    /\ remaining' = [remaining EXCEPT ![w] = 0]
    /\ UNCHANGED <<seen, exchange, booked, astray>>

\* The row is marked sent first, and if that fails the worker goes on.  A fill it
\* did not see is assumed to be the whole amount.
ReportSent(w) ==
    /\ step[w] = "report"
    /\ Settle(w, "sent") \/ (SettleError(w) /\ NextRow(w, batch[w]))
    /\ Go(w, "book")
    /\ booking' = [booking EXCEPT ![w] = cur[w]]
    /\ seen'    = [seen EXCEPT ![w] = IF @ = 0 THEN Amount ELSE @]
    /\ remaining' = [remaining EXCEPT ![w] = 0]
    /\ UNCHANGED <<exchange, booked, astray>>

\* apply_fill_to_local_position and record_trade, best effort.
BookFill(w) ==
    /\ step[w] = "book"
    /\ booked' \in {booked, [booked EXCEPT ![booking[w]] = @ + seen[w]]}
    /\ Return(w)
    /\ UNCHANGED <<vars, exchange, astray>>

-----------------------------------------------------------------------------
(* The rest of the tick, and what goes wrong in it.                         *)

BetweenRows(w) ==
    /\ step[w] = "idle"
    /\ \/ RequeueStale(w) \/ SelectBatch(w) \/ SkipRow(w) \/ Restart(w)
       \/ FetchError(w) \/ ClaimError(w)
    /\ UNCHANGED live

\* The process dies with its dispatch; a limit order it had open stays open.
LiveCrash(w) ==
    /\ Crash(w)
    /\ Return(w)
    /\ astray'  = IF step[w] \in {"wait", "cancel"} THEN astray \union {Ticket(w)} ELSE astray
    /\ UNCHANGED <<exchange, booked>>

Enqueue(o) == EnqueuePendingOrder(o) /\ UNCHANGED live

LiveAge(o) == Age(o) /\ UNCHANGED live

Dispatch(w) ==
    \/ ClaimLiveRow(w) \/ NotifySignal(w) \/ Reject(w) \/ SkipLimitPhase(w)
    \/ PlaceLimit(w) \/ SeeLimitFills(w) \/ CancelLimit(w)
    \/ PlaceMarket(w) \/ SeeMarketFills(w) \/ ReportSent(w) \/ BookFill(w)

LiveNext ==
    \/ \E o \in Orders : Enqueue(o) \/ LiveAge(o)
    \/ \E t \in Tickets : LimitFills(t)
    \/ \E w \in Workers : BetweenRows(w) \/ Dispatch(w) \/ LiveCrash(w)

LiveSpec == LiveInit /\ [][LiveNext]_liveVars

-----------------------------------------------------------------------------
(* Properties.                                                              *)

\* What the exchange may still make of row o, or has: its open and filled
\* quantity over all attempts.
Exposure(o) ==
    SumFunction([a \in 1..MaxAttempts |->
        resting[<<o, a>>] + filled["lmt"][<<o, a>>] + filled["mkt"][<<o, a>>]])

\* However often a row is tried, by however many workers, and whatever answers
\* are lost, it exposes no more than its quantity per attempt, twice that if a
\* limit order comes first; and where the exchange refuses a repeated client
\* order id, retries add nothing, because the id does not depend on the attempt.
ExposureBounded ==
    \A o \in Orders :
        LET orders  == IF o \in SignalRows THEN 0 ELSE IF o \in LimitRows THEN 2 ELSE 1
            retries == IF o \in DedupRows /\ attempts[o] > 0 THEN 1 ELSE attempts[o]
        IN  Exposure(o) <= orders * retries * Amount

\* What the workers have yet to book for row o.
ToBook(o) == SumFunction([w \in Workers |-> IF booking[w] = o THEN seen[w] ELSE 0])

\* One attempt never books more than the row asked for, whichever of its two
\* orders filled and whether or not its fills were seen.
BookedWithinAttempts == \A o \in Orders : booked[o] + ToBook(o) <= attempts[o] * Amount

\* A live row is marked sent only if the exchange accepted an order for it.
SentWasAccepted ==
    \A o \in Orders \ SignalRows :
        status[o] = "sent" => \E ph \in Phases, a \in 1..MaxAttempts : <<o, a>> \in placed[ph]

\* The largest rest of a limit order that nobody cancels.
Leftover(o) ==
    IF MinTradable[o] > Tolerance[o] THEN MinTradable[o] - 1 ELSE Tolerance[o]

\* What stays open of a limit order after its dispatch is no more than the rest
\* that the tail guard or the tolerance lets be, unless an answer was lost, the
\* cancel failed or the worker died: although the worker decides by what it saw,
\* and the order fills on meanwhile.
NoForgottenLimit ==
    \A t \in Tickets :
        resting[t] > Leftover(t[1]) =>
            \/ t \in astray
            \/ \E w \in Workers : step[w] \in {"wait", "cancel"} /\ Ticket(w) = t

\* The queue seen by itself is PendingOrders: the theorems about it hold here.
RefinesQueue == Spec

\* What a comment of the market phase promises: a row of which the worker saw
\* fills in the limit phase is not failed as a whole.
PartialFillIsNotFailure ==
    [][\A w \in Workers, o \in Orders :
          ~ (Dispatching(w, o) /\ seen[w] > 0 /\ Settle(w, "failed"))]_liveVars
=============================================================================
