------------------------ MODULE LiveExecution_proofs ------------------------
(***************************************************************************)
(* Proofs about LiveExecution: its queue is PendingOrders, so the theorems    *)
(* about the queue hold of live dispatches; a row is marked sent only after   *)
(* the exchange accepted an order for it; quantities stay within the row's;   *)
(* and no limit order is left open unnoticed.                                *)
(***************************************************************************)
EXTENDS LiveExecution, PendingOrders_proofs, Sums

(* Refinement.  Each step of a dispatch settles its row, or leaves the queue  *)
(* alone.                                                                    *)
LEMMA DispatchRefines ==
    ASSUME NEW w \in Workers, Dispatch(w)
    PROVE  WorkerStep(w) \/ SettleError(w) \/ UNCHANGED vars
  <1> DEFINE Goal == WorkerStep(w) \/ SettleError(w) \/ UNCHANGED vars
  <1>1. ASSUME NEW outcome \in Settled, Settle(w, outcome) PROVE Goal
    BY <1>1 DEF WorkerStep
  <1>2. CASE ClaimLiveRow(w)
    BY <1>2 DEF ClaimLiveRow, WorkerStep
  <1>3. CASE Fail(w)
    BY <1>1, <1>3 DEF Fail, Settled
  <1>4. CASE NotifySignal(w) \/ Reject(w)
    BY <1>1, <1>3, <1>4 DEF NotifySignal, Reject, Settled
  <1>5. CASE SkipLimitPhase(w) \/ PlaceLimit(w) \/ SeeLimitFills(w) \/ CancelLimit(w)
    BY <1>5 DEF SkipLimitPhase, PlaceLimit, SeeLimitFills, CancelLimit
  <1>6. CASE PlaceMarket(w)
    BY <1>3, <1>6 DEF PlaceMarket
  <1>7. CASE SeeMarketFills(w) \/ BookFill(w)
    BY <1>7 DEF SeeMarketFills, BookFill
  <1>8. CASE ReportSent(w)
    BY <1>1, <1>8 DEF ReportSent, Settled
  <1> QED
    BY <1>2, <1>4, <1>5, <1>6, <1>7, <1>8 DEF Dispatch

LEMMA LiveStepRefines == [LiveNext]_liveVars => [Next]_vars
  <1> SUFFICES ASSUME [LiveNext]_liveVars PROVE [Next]_vars
    OBVIOUS
  <1>1. ASSUME NEW o \in Orders, Enqueue(o) \/ LiveAge(o) PROVE Next
    BY <1>1 DEF Enqueue, LiveAge, Next
  <1>2. ASSUME NEW t \in Tickets, LimitFills(t) PROVE UNCHANGED vars
    BY <1>2 DEF LimitFills
  <1>3. ASSUME NEW w \in Workers, Dispatch(w) PROVE [Next]_vars
    BY <1>3, DispatchRefines DEF Next, FaultStep
  <1>4. ASSUME NEW w \in Workers, BetweenRows(w) \/ LiveCrash(w) PROVE Next
    BY <1>4 DEF BetweenRows, LiveCrash, Next, WorkerStep, FaultStep
  <1>5. CASE UNCHANGED liveVars
    BY <1>5 DEF liveVars
  <1> QED
    BY <1>1, <1>2, <1>3, <1>4, <1>5 DEF LiveNext

\* A live worker drains the queue as PendingOrders says: the dispatch, which
\* talks to the exchange for as long as it likes, adds nothing to the queue's
\* behaviours.
THEOREM QueueRefined == LiveSpec => RefinesQueue
  <1>1. LiveInit => Init
    BY DEF LiveInit
  <1> QED
    BY <1>1, LiveStepRefines, PTL DEF LiveSpec, RefinesQueue, Spec

\* So no order is sent to an exchange in more than max_attempts dispatches.
THEOREM LiveAttemptsLimited == LiveSpec => []AttemptsWithinLimit
  BY QueueRefined, AttemptsLimited, PTL DEF RefinesQueue

-----------------------------------------------------------------------------
(* A row is marked sent only if the exchange accepted an order for it.        *)

Placed(t, ph) == t \in placed[ph]

\* What a worker's place in its dispatch says about its tickets.
StepJustified(w) ==
    /\ step[w] \notin {"idle", "book"} => pc[w] = "dispatch"
    /\ step[w] \in {"idle", "start"} => seen[w] = 0
    /\ step[w] \in {"wait", "cancel"} => Placed(Ticket(w), "lmt")
    /\ step[w] = "market" => seen[w] = 0 \/ Placed(Ticket(w), "lmt")
    /\ step[w] = "confirm" => Placed(Ticket(w), "mkt")
    /\ step[w] = "report" => Placed(Ticket(w), "lmt") \/ Placed(Ticket(w), "mkt")

\* Of the types only what the argument needs.
Shapes ==
    /\ step \in [Workers -> Steps]
    /\ seen = [w \in Workers |-> seen[w]]
    /\ placed \in [Phases -> SUBSET Tickets]

LiveInv ==
    /\ Shapes
    /\ \A w \in Workers : StepJustified(w)
    /\ SentWasAccepted

LEMMA LiveInitInv == LiveInit => LiveInv
  BY DEF LiveInit, Init, LiveInv, Shapes, StepJustified, SentWasAccepted, Steps

\* A worker that dispatches holds a ticket.
LEMMA DispatcherHasTicket ==
    ASSUME Inv, NEW w \in Workers, pc[w] = "dispatch"
    PROVE  cur[w] \in Orders /\ claim[w] \in 1..MaxAttempts /\ Ticket(w) \in Tickets
  <1>1. cur[w] \in Orders /\ claim[w] > 0 /\ claim[w] <= attempts[cur[w]]
    BY DEF Inv, DispatchersHoldClaims
  <1>2. attempts[cur[w]] <= MaxAttempts /\ attempts[cur[w]] \in Nat /\ claim[w] \in Nat
    BY <1>1 DEF Inv, TypeOK, AttemptsWithinLimit
  <1>3. claim[w] \in 1..MaxAttempts
    BY <1>1, <1>2, MaxAttemptsAssumption
  <1> QED
    BY <1>1, <1>3 DEF Ticket, Tickets

\* The exchange never forgets an order it accepted.
PlacedGrows == \A ph \in Phases : placed[ph] \subseteq placed'[ph]

LEMMA AcceptGrows ==
    ASSUME Shapes, NEW t \in Tickets, NEW ph \in Phases,
           placed' = [placed EXCEPT ![ph] = @ \union {t}]
    PROVE  /\ PlacedGrows
           /\ t \in placed'[ph]
           /\ placed' \in [Phases -> SUBSET Tickets]
  BY DEF Shapes, PlacedGrows

\* Nobody but worker w moves.
OthersRest(w) ==
    \A v \in Workers \ {w} :
        /\ step'[v] = step[v] /\ seen'[v] = seen[v]
        /\ pc'[v] = pc[v] /\ cur'[v] = cur[v] /\ claim'[v] = claim[v]

LEMMA RestJustified ==
    ASSUME LiveInv, PlacedGrows, NEW w \in Workers, OthersRest(w), StepJustified(w)'
    PROVE  \A v \in Workers : StepJustified(v)'
  <1> SUFFICES ASSUME NEW v \in Workers \ {w} PROVE StepJustified(v)'
    OBVIOUS
  <1>1. StepJustified(v) /\ Ticket(v)' = Ticket(v)
    BY DEF LiveInv, OthersRest, Ticket
  <1>2. \A ph \in Phases : Placed(Ticket(v), ph) => Placed(Ticket(v), ph)'
    BY <1>1 DEF PlacedGrows, Placed
  <1> QED
    BY <1>1, <1>2 DEF StepJustified, OthersRest, Phases

\* A step that newly sends at most row o, for which the exchange has an order.
LEMMA SentJustified ==
    ASSUME LiveInv, PlacedGrows,
           \A o \in Orders \ SignalRows :
               status'[o] = "sent" =>
                   \/ status[o] = "sent"
                   \/ \E ph \in Phases, a \in 1..MaxAttempts : <<o, a>> \in placed'[ph]
    PROVE  SentWasAccepted'
  BY DEF LiveInv, SentWasAccepted, PlacedGrows

\* The queue's own steps of worker w touch w only, and send no row but the one
\* the worker settles.
LEMMA QueueStepOfOne ==
    ASSUME Inv, NEW w \in Workers, WorkerStep(w) \/ FaultStep(w)
    PROVE  \A v \in Workers \ {w} : pc'[v] = pc[v] /\ cur'[v] = cur[v] /\ claim'[v] = claim[v]
  <1> USE DEF Inv, TypeOK, Release, NextRow, EndTick
  <1>1. CASE RequeueStale(w) \/ SelectBatch(w) \/ SkipRow(w) \/ Restart(w)
    BY <1>1 DEF RequeueStale, SelectBatch, SkipRow, Restart
  <1>2. CASE MarkProcessing(w)
    BY <1>2 DEF MarkProcessing
  <1>3. CASE \E outcome \in Settled : Settle(w, outcome)
    BY <1>3 DEF Settle
  <1>4. CASE FetchError(w) \/ ClaimError(w)
    BY <1>4 DEF FetchError, ClaimError
  <1>5. CASE SettleError(w) \/ Crash(w)
    BY <1>5 DEF SettleError, Crash
  <1> QED
    BY <1>1, <1>2, <1>3, <1>4, <1>5 DEF WorkerStep, FaultStep

\* Steps of the queue that send nothing.
NothingSent == \A o \in Orders : status'[o] = "sent" => status[o] = "sent"

LEMMA QueueSendsNothing ==
    ASSUME Inv, NEW w \in Workers,
           \/ RequeueStale(w) \/ SelectBatch(w) \/ MarkProcessing(w) \/ SkipRow(w) \/ Restart(w)
           \/ Settle(w, "failed") \/ FaultStep(w)
    PROVE  NothingSent
  <1> USE DEF Inv, TypeOK, NothingSent, table
  <1>1. CASE RequeueStale(w)
    BY <1>1 DEF RequeueStale
  <1>2. CASE SelectBatch(w) \/ SkipRow(w) \/ Restart(w)
    BY <1>2 DEF SelectBatch, SkipRow, Restart
  <1>3. CASE MarkProcessing(w)
    BY <1>3 DEF MarkProcessing, ClaimRow
  <1>4. CASE Settle(w, "failed")
    BY <1>4 DEF Settle, SettleRow
  <1>5. CASE ClaimError(w)
    BY <1>5 DEF ClaimError, ClaimRow
  <1>6. CASE FetchError(w) \/ SettleError(w) \/ Crash(w)
    BY <1>6 DEF FetchError, SettleError, Crash
  <1> QED
    BY <1>1, <1>2, <1>3, <1>4, <1>5, <1>6 DEF FaultStep

\* How a step of worker w re-establishes the invariant.
LEMMA StepOfOne ==
    ASSUME LiveInv, NEW w \in Workers, Shapes', PlacedGrows, OthersRest(w), StepJustified(w)',
           \/ NothingSent
           \/ \E o \in Orders :
                 /\ \A p \in Orders \ {o} : status'[p] = status[p]
                 /\ \/ o \in SignalRows
                    \/ \E ph \in Phases, a \in 1..MaxAttempts : <<o, a>> \in placed'[ph]
    PROVE  LiveInv'
  <1>1. SentWasAccepted'
    BY SentJustified DEF NothingSent
  <1> QED
    BY <1>1, RestJustified DEF LiveInv

\* A dispatch that ends, by w or with it.
LEMMA ReturnJustified ==
    ASSUME Inv, LiveInv, NEW w \in Workers, Return(w), WorkerStep(w) \/ FaultStep(w)
    PROVE  OthersRest(w) /\ StepJustified(w)' /\ step' \in [Workers -> Steps]
           /\ seen' = [v \in Workers |-> seen'[v]]
  <1>1. /\ step' = [step EXCEPT ![w] = "idle"]
        /\ seen' = [seen EXCEPT ![w] = 0]
    BY DEF Return, Go
  <1>2. step \in [Workers -> Steps] /\ seen = [v \in Workers |-> seen[v]]
    BY DEF LiveInv, Shapes
  <1>3. step' \in [Workers -> Steps] /\ step'[w] = "idle"
        /\ \A v \in Workers \ {w} : step'[v] = step[v]
    BY <1>1, <1>2 DEF Steps
  <1>4. seen' = [v \in Workers |-> seen'[v]] /\ seen'[w] = 0
        /\ \A v \in Workers \ {w} : seen'[v] = seen[v]
    BY <1>1, <1>2
  <1>5. OthersRest(w)
    BY <1>3, <1>4, QueueStepOfOne DEF OthersRest
  <1> QED
    BY <1>3, <1>4, <1>5 DEF StepJustified

\* A step of the dispatch that leaves the queue alone.
LEMMA GoJustified ==
    ASSUME LiveInv, NEW w \in Workers, NEW s \in Steps, Go(w, s), UNCHANGED vars,
           NEW q, seen' = [seen EXCEPT ![w] = q],
           placed' \in [Phases -> SUBSET Tickets], PlacedGrows,
           s \notin {"idle", "book"} => pc[w] = "dispatch",
           s \in {"idle", "start"} => q = 0,
           s \in {"wait", "cancel"} => Ticket(w) \in placed'["lmt"],
           s = "market" => q = 0 \/ Ticket(w) \in placed'["lmt"],
           s = "confirm" => Ticket(w) \in placed'["mkt"],
           s = "report" => Ticket(w) \in placed'["lmt"] \/ Ticket(w) \in placed'["mkt"]
    PROVE  LiveInv'
  <1>1. step \in [Workers -> Steps] /\ seen = [v \in Workers |-> seen[v]]
    BY DEF LiveInv, Shapes
  <1>2. /\ step' \in [Workers -> Steps] /\ step'[w] = s
        /\ \A v \in Workers \ {w} : step'[v] = step[v]
    BY <1>1 DEF Go
  <1>3. /\ seen' = [v \in Workers |-> seen'[v]] /\ seen'[w] = q
        /\ \A v \in Workers \ {w} : seen'[v] = seen[v]
    BY <1>1
  <1>4. UNCHANGED <<status, pc, cur, claim>> /\ Ticket(w)' = Ticket(w)
    BY DEF vars, Ticket
  <1>5. StepJustified(w)'
    BY <1>2, <1>3, <1>4 DEF StepJustified, Placed
  <1>6. OthersRest(w) /\ NothingSent /\ Shapes'
    BY <1>2, <1>3, <1>4 DEF OthersRest, NothingSent, Shapes
  <1> QED
    BY <1>5, <1>6, StepOfOne

LEMMA DispatchKeepsLiveInv ==
    ASSUME Inv, LiveInv, NEW w \in Workers, Dispatch(w)
    PROVE  LiveInv'
  <1>0. Shapes /\ StepJustified(w) /\ step[w] \in Steps
    BY DEF LiveInv, Shapes
  <1>p. ASSUME UNCHANGED placed PROVE PlacedGrows /\ placed' \in [Phases -> SUBSET Tickets]
    BY <1>0, <1>p DEF PlacedGrows, Shapes
  <1>s. UNCHANGED seen => seen' = [seen EXCEPT ![w] = seen[w]]
    BY <1>0 DEF Shapes
  <1>l. AcceptLimit(Ticket(w)) /\ pc[w] = "dispatch" =>
            PlacedGrows /\ Ticket(w) \in placed'["lmt"] /\ placed' \in [Phases -> SUBSET Tickets]
    BY <1>0, AcceptGrows, DispatcherHasTicket DEF AcceptLimit, Phases
  <1>m. ASSUME NEW q, AcceptMarket(Ticket(w), q), pc[w] = "dispatch"
        PROVE PlacedGrows /\ Ticket(w) \in placed'["mkt"] /\ placed' \in [Phases -> SUBSET Tickets]
    BY <1>0, <1>m, AcceptGrows, DispatcherHasTicket DEF AcceptMarket, Phases
  \* A dispatch that sends nothing returns.
  <1>r. ASSUME Return(w), Settle(w, "failed") \/ SettleError(w),
               PlacedGrows, placed' \in [Phases -> SUBSET Tickets]
        PROVE  LiveInv'
    <2>1. WorkerStep(w) \/ FaultStep(w)
      BY <1>r DEF WorkerStep, FaultStep, Settled
    <2>2. NothingSent
      BY <1>r, QueueSendsNothing DEF FaultStep
    <2> QED
      BY <1>r, <2>1, <2>2, ReturnJustified, StepOfOne DEF Shapes
  <1>1. CASE ClaimLiveRow(w)
    <2>1. /\ step' = [step EXCEPT ![w] = "start"] /\ UNCHANGED <<seen, placed>>
          /\ MarkProcessing(w) /\ step[w] = "idle"
      BY <1>1 DEF ClaimLiveRow, Go, exchange
    <2>2. pc'[w] = "dispatch"
      BY <2>1 DEF MarkProcessing, Inv, TypeOK
    <2>3. Shapes' /\ step'[w] = "start" /\ seen'[w] = 0
      BY <1>0, <2>1 DEF Shapes, Steps, StepJustified
    <2>4. StepJustified(w)'
      BY <2>2, <2>3 DEF StepJustified
    <2>5. OthersRest(w)
      BY <1>0, <2>1, QueueStepOfOne DEF OthersRest, Shapes, WorkerStep
    <2> QED
      BY <1>p, <2>1, <2>3, <2>4, <2>5, QueueSendsNothing, StepOfOne
  <1>2. CASE NotifySignal(w)
    <2>1. Return(w) /\ UNCHANGED placed /\ cur[w] \in SignalRows
      BY <1>2 DEF NotifySignal, exchange
    <2>2. CASE Settle(w, "failed") \/ SettleError(w)
      BY <1>p, <1>r, <2>1, <2>2
    <2>3. CASE Settle(w, "sent")
      <3>1. cur[w] \in Orders /\ \A p \in Orders \ {cur[w]} : status'[p] = status[p]
        BY <2>3, DispatcherHasTicket DEF Settle, SettleRow, Inv, TypeOK
      <3>2. WorkerStep(w)
        BY <2>3 DEF WorkerStep, Settled
      <3> QED
        BY <1>p, <2>1, <3>1, <3>2, ReturnJustified, StepOfOne DEF Shapes
    <2> QED
      BY <1>2, <2>2, <2>3 DEF NotifySignal
  <1>3. CASE Reject(w)
    BY <1>p, <1>r, <1>3 DEF Reject, Fail, exchange
  <1>4. CASE SkipLimitPhase(w)
    <2>1. /\ step[w] = "start" /\ Go(w, "market") /\ UNCHANGED vars
          /\ UNCHANGED seen /\ UNCHANGED placed
      BY <1>4 DEF SkipLimitPhase, exchange
    <2> QED
      BY <1>0, <1>p, <1>s, <2>1, GoJustified DEF StepJustified, Steps
  <1>5. CASE PlaceLimit(w)
    <2>1. step[w] = "start" /\ UNCHANGED vars /\ UNCHANGED seen /\ pc[w] = "dispatch" /\ seen[w] = 0
      BY <1>0, <1>5 DEF PlaceLimit, StepJustified
    <2>2. CASE AcceptLimit(Ticket(w)) /\ Go(w, "wait")
      BY <1>l, <1>s, <2>1, <2>2, GoJustified DEF Steps
    <2>3. CASE AcceptLimit(Ticket(w)) /\ Go(w, "market")
      BY <1>l, <1>s, <2>1, <2>3, GoJustified DEF Steps
    <2>4. CASE Go(w, "market") /\ UNCHANGED placed
      BY <1>p, <1>s, <2>1, <2>4, GoJustified DEF Steps
    <2> QED
      BY <1>5, <2>2, <2>3, <2>4 DEF PlaceLimit, exchange
  <1>6. CASE SeeLimitFills(w)
    <2>1. /\ pc[w] = "dispatch" /\ Ticket(w) \in placed["lmt"]
          /\ UNCHANGED vars /\ UNCHANGED placed
      BY <1>0, <1>6 DEF SeeLimitFills, StepJustified, Placed, exchange
    <2>2. PICK q \in {0, filled["lmt"][Ticket(w)]} :
            /\ seen' = [seen EXCEPT ![w] = q]
            /\ \E x \in {"report", "market", "cancel"} : Go(w, x)
      BY <1>6, Zenon DEF SeeLimitFills
    <2>3. \A x \in {"report", "market", "cancel"} : Go(w, x) => LiveInv'
      BY <1>p, <2>1, <2>2, GoJustified DEF Steps
    <2> QED
      BY <2>2, <2>3
  <1>7. CASE CancelLimit(w)
    <2>1. /\ pc[w] = "dispatch" /\ Ticket(w) \in placed["lmt"] /\ Go(w, "market")
          /\ UNCHANGED vars /\ UNCHANGED seen /\ UNCHANGED placed
      BY <1>0, <1>7 DEF CancelLimit, StepJustified, Placed
    <2> QED
      BY <1>p, <1>s, <2>1, GoJustified DEF Steps
  <1>8. CASE PlaceMarket(w)
    <2>0. pc[w] = "dispatch" /\ (seen[w] = 0 \/ Ticket(w) \in placed["lmt"])
      BY <1>0, <1>8 DEF PlaceMarket, StepJustified, Placed
    <2>1. CASE /\ AcceptMarket(Ticket(w), remaining[w]) /\ Go(w, "confirm")
               /\ UNCHANGED vars /\ UNCHANGED seen
      BY <1>m, <1>s, <2>0, <2>1, GoJustified DEF Steps
    <2>2. CASE /\ seen[w] > 0 /\ Go(w, "report")
               /\ AcceptMarket(Ticket(w), remaining[w]) \/ UNCHANGED placed
               /\ UNCHANGED vars /\ UNCHANGED seen
      <3>1. Ticket(w) \in placed["lmt"]
        BY <2>0, <2>2, <1>0 DEF StepJustified
      <3>2. PlacedGrows /\ placed' \in [Phases -> SUBSET Tickets]
        BY <1>m, <1>p, <2>0, <2>2
      <3>3. Ticket(w) \in placed'["lmt"]
        BY <3>1, <3>2 DEF PlacedGrows, Phases
      <3> QED
        BY <1>s, <2>0, <2>2, <3>2, <3>3, GoJustified DEF Steps
    <2>3. CASE Fail(w) /\ (AcceptMarket(Ticket(w), remaining[w]) \/ UNCHANGED exchange)
      <3>1. PlacedGrows /\ placed' \in [Phases -> SUBSET Tickets]
        BY <1>m, <1>p, <2>0, <2>3 DEF exchange
      <3> QED
        BY <1>r, <2>3, <3>1 DEF Fail
    <2> QED
      BY <1>8, <2>1, <2>2, <2>3 DEF PlaceMarket, exchange
  <1>9. CASE SeeMarketFills(w)
    <2>1. /\ pc[w] = "dispatch" /\ Ticket(w) \in placed["mkt"] /\ Go(w, "report")
          /\ UNCHANGED vars /\ UNCHANGED placed
      BY <1>0, <1>9 DEF SeeMarketFills, StepJustified, Placed, exchange
    <2>2. PICK q : seen' = [seen EXCEPT ![w] = q]
      BY <1>9 DEF SeeMarketFills
    <2> QED
      BY <1>p, <2>1, <2>2, GoJustified DEF Steps
  <1>10. CASE ReportSent(w)
    <2>1. /\ pc[w] = "dispatch"
          /\ \E ph \in Phases : Ticket(w) \in placed[ph]
          /\ step' = [step EXCEPT ![w] = "book"] /\ UNCHANGED placed
          /\ Settle(w, "sent") \/ SettleError(w)
      BY <1>0, <1>10 DEF ReportSent, StepJustified, Placed, Phases, Go, exchange
    <2>2. PICK q : seen' = [seen EXCEPT ![w] = q]
      BY <1>10 DEF ReportSent
    <2>3. Shapes' /\ step'[w] = "book"
          /\ \A v \in Workers \ {w} : step'[v] = step[v] /\ seen'[v] = seen[v]
      BY <1>0, <1>p, <2>1, <2>2 DEF Shapes, Steps
    <2>4. StepJustified(w)'
      BY <2>3 DEF StepJustified
    <2>5. OthersRest(w)
      BY <2>1, <2>3, QueueStepOfOne DEF OthersRest, WorkerStep, FaultStep, Settled
    <2>6. CASE Settle(w, "sent")
      <3>1. /\ cur[w] \in Orders /\ \A p \in Orders \ {cur[w]} : status'[p] = status[p]
            /\ \E ph \in Phases, a \in 1..MaxAttempts : <<cur[w], a>> \in placed'[ph]
        BY <2>1, <2>6, DispatcherHasTicket DEF Settle, SettleRow, Inv, TypeOK, Ticket
      <3> QED
        BY <1>p, <2>1, <2>3, <2>4, <2>5, <3>1, StepOfOne
    <2>7. CASE SettleError(w)
      BY <1>p, <2>1, <2>3, <2>4, <2>5, <2>7, QueueSendsNothing, StepOfOne DEF FaultStep
    <2> QED
      BY <2>1, <2>6, <2>7
  <1>11. CASE BookFill(w)
    <2>1. /\ Go(w, "idle") /\ seen' = [seen EXCEPT ![w] = 0]
          /\ UNCHANGED vars /\ UNCHANGED placed
      BY <1>11 DEF BookFill, Return, exchange
    <2> QED
      BY <1>p, <2>1, GoJustified DEF Steps
  <1> QED
    BY <1>1, <1>2, <1>3, <1>4, <1>5, <1>6, <1>7, <1>8, <1>9, <1>10, <1>11 DEF Dispatch

LEMMA LiveInvStep == Inv /\ LiveInv /\ [LiveNext]_liveVars => LiveInv'
  <1> SUFFICES ASSUME Inv, LiveInv, [LiveNext]_liveVars PROVE LiveInv'
    OBVIOUS
  <1>u. ASSUME UNCHANGED <<step, seen, placed, pc, cur, claim>>, NothingSent PROVE LiveInv'
    <2>1. PlacedGrows /\ Shapes'
      BY <1>u DEF PlacedGrows, LiveInv, Shapes
    <2>2. \A w \in Workers : StepJustified(w)'
      BY <1>u DEF LiveInv, StepJustified, Placed, Ticket
    <2>3. SentWasAccepted'
      BY <1>u, <2>1, SentJustified DEF NothingSent
    <2> QED
      BY <2>1, <2>2, <2>3 DEF LiveInv
  <1>1. ASSUME NEW o \in Orders, Enqueue(o) \/ LiveAge(o) PROVE LiveInv'
    <2>1. UNCHANGED <<step, seen, placed, pc, cur, claim>>
      BY <1>1 DEF Enqueue, LiveAge, EnqueuePendingOrder, Age, live, worker, workers, exchange
    <2>2. NothingSent
      BY <1>1 DEF Enqueue, LiveAge, EnqueuePendingOrder, Age, NothingSent, Inv, TypeOK
    <2> QED
      BY <1>u, <2>1, <2>2
  <1>2. ASSUME NEW t \in Tickets, LimitFills(t) PROVE LiveInv'
    BY <1>2, <1>u DEF LimitFills, vars, worker, NothingSent
  <1>3. ASSUME NEW w \in Workers, Dispatch(w) PROVE LiveInv'
    BY <1>3, DispatchKeepsLiveInv
  <1>4. ASSUME NEW w \in Workers, BetweenRows(w) PROVE LiveInv'
    <2>1. step[w] = "idle" /\ UNCHANGED <<step, seen, placed>> /\ (WorkerStep(w) \/ FaultStep(w))
      BY <1>4 DEF BetweenRows, live, worker, exchange, WorkerStep, FaultStep
    <2>2. Shapes' /\ PlacedGrows
      BY <2>1 DEF LiveInv, Shapes, PlacedGrows
    <2>3. StepJustified(w)' /\ OthersRest(w)
      BY <2>1, QueueStepOfOne DEF LiveInv, StepJustified, OthersRest
    <2>4. NothingSent
      BY <1>4, QueueSendsNothing DEF BetweenRows, FaultStep
    <2> QED
      BY <2>2, <2>3, <2>4, StepOfOne
  <1>5. ASSUME NEW w \in Workers, LiveCrash(w) PROVE LiveInv'
    <2>1. Return(w) /\ Crash(w) /\ UNCHANGED placed
      BY <1>5 DEF LiveCrash, exchange
    <2>2. PlacedGrows /\ placed' \in [Phases -> SUBSET Tickets]
      BY <2>1 DEF LiveInv, Shapes, PlacedGrows
    <2>3. FaultStep(w) /\ NothingSent
      BY <2>1, QueueSendsNothing DEF FaultStep
    <2> QED
      BY <2>1, <2>2, <2>3, ReturnJustified, StepOfOne DEF Shapes
  <1>6. CASE UNCHANGED liveVars
    BY <1>6, <1>u DEF liveVars, vars, live, worker, exchange, NothingSent
  <1> QED
    BY <1>1, <1>2, <1>3, <1>4, <1>5, <1>6 DEF LiveNext

\* No row of a live strategy is marked sent without an order the exchange took,
\* however the two phases, refusals, lost answers and crashes combine.
THEOREM SentNeedsAcceptance == LiveSpec => []SentWasAccepted
  <1>1. LiveInv => SentWasAccepted
    BY DEF LiveInv
  <1>2. LiveSpec => []Inv
    BY QueueRefined, InvHolds, PTL DEF RefinesQueue
  <1> QED
    BY <1>1, <1>2, LiveInitInv, LiveInvStep, PTL DEF LiveSpec
-----------------------------------------------------------------------------
(* Quantities, and the limit orders left behind.                             *)

\* An order and what is left of it: open and filled quantity come out of the
\* row's, an attempt that was not made has neither.
TicketSound(t) ==
    /\ resting[t] + filled["lmt"][t] <= Amount
    /\ t \notin placed["lmt"] => resting[t] = 0 /\ filled["lmt"][t] = 0
    /\ t \in placed["lmt"] => t[2] <= attempts[t[1]]

\* A worker wants no more than the rest, of an order it is the first to place.
WorkerSound(w) ==
    /\ step[w] = "start" => Ticket(w) \notin placed["lmt"]
    /\ step[w] \in {"start", "cancel", "market"} => seen[w] + remaining[w] <= Amount
    /\ step[w] = "confirm" => seen[w] + filled["mkt"][Ticket(w)] <= Amount
    /\ step[w] = "book" => booking[w] \in Orders

LEMMA LeftoverIsNat == \A t \in Tickets : t[1] \in Orders /\ Leftover(t[1]) \in Nat
  BY MinTradableAssumption, ToleranceAssumption DEF Leftover, Tickets

QuantityInv ==
    /\ LiveTypeOK
    /\ \A t \in Tickets : TicketSound(t)
    /\ \A w \in Workers : WorkerSound(w)
    /\ NoForgottenLimit

LEMMA QuantityInit == LiveInit => QuantityInv
  <1> SUFFICES ASSUME LiveInit PROVE QuantityInv
    OBVIOUS
  <1>1. TypeOK
    BY InitInv DEF LiveInit, Inv
  <1>2. LiveTypeOK
    BY <1>1, AmountAssumption DEF LiveInit, LiveTypeOK, Steps
  <1>3. \A t \in Tickets : TicketSound(t)
    BY AmountAssumption DEF LiveInit, TicketSound, Phases
  <1>4. (\A w \in Workers : WorkerSound(w)) /\ NoForgottenLimit
    BY AmountAssumption, LeftoverIsNat DEF LiveInit, WorkerSound, NoForgottenLimit
  <1> QED
    BY <1>2, <1>3, <1>4 DEF QuantityInv

\* Two workers that dispatch hold different tickets.
LEMMA TicketsDiffer ==
    ASSUME Inv, NEW v \in Workers, NEW w \in Workers, v # w,
           pc[v] = "dispatch", pc[w] = "dispatch"
    PROVE  Ticket(v) # Ticket(w)
  <1>1. cur[w] \in Orders
    BY DispatcherHasTicket
  <1>2. cur[v] = cur[w] => claim[v] # claim[w]
    BY <1>1 DEF Inv, OneDispatcherPerClaim, Dispatching
  <1> QED
    BY <1>2 DEF Ticket

\* A worker outside the limit phase has left no limit order open by itself.
LEMMA OpenIsAstray ==
    ASSUME Inv, LiveInv, QuantityInv, NEW w \in Workers, pc[w] = "dispatch",
           step[w] \notin {"wait", "cancel"}, resting[Ticket(w)] > Leftover(cur[w])
    PROVE  Ticket(w) \in astray
  <1>1. Ticket(w) \in Tickets
    BY DispatcherHasTicket
  <1>2. ASSUME NEW v \in Workers, step[v] \in {"wait", "cancel"} PROVE Ticket(v) # Ticket(w)
    BY <1>2, TicketsDiffer DEF LiveInv, StepJustified
  <1> QED
    BY <1>1, <1>2 DEF QuantityInv, NoForgottenLimit, Ticket

\* Nothing happens to ticket t, except that it may get out of hand.
Kept(t) ==
    /\ resting'[t] = resting[t]
    /\ \A ph \in Phases : filled'[ph][t] = filled[ph][t]
    /\ t \in placed'["lmt"] <=> t \in placed["lmt"]
    /\ t \in astray => t \in astray'

\* Worker w, which dispatches ticket t, leaves it sound.
Handled(w, t) ==
    /\ TicketSound(t)'
    /\ resting'[t] > Leftover(t[1]) => t \in astray' \/ (step'[w] \in {"wait", "cancel"} /\ Ticket(w)' = t)

\* A step of worker w, as far as quantities go: types are kept, no other ticket
\* than the one w dispatches is touched, and w leaves that one and itself sound.
LEMMA QuantityStepOfOne ==
    ASSUME Inv, LiveInv, QuantityInv, LiveTypeOK', TableGrows, NEW w \in Workers, OthersRest(w),
           \A v \in Workers \ {w} : remaining'[v] = remaining[v] /\ booking'[v] = booking[v],
           \A t \in Tickets :
               IF pc[w] = "dispatch" /\ t = Ticket(w) THEN Handled(w, t) ELSE Kept(t),
           WorkerSound(w)'
    PROVE  QuantityInv'
  <1> DEFINE Own(t) == pc[w] = "dispatch" /\ t = Ticket(w)
  <1>k. ASSUME NEW t \in Tickets, ~Own(t) PROVE Kept(t)
    BY <1>k
  <1>h. ASSUME NEW t \in Tickets, Own(t) PROVE Handled(w, t)
    BY <1>h
  <1> HIDE DEF Own
  <1>1. ASSUME NEW t \in Tickets PROVE TicketSound(t)'
    <2>1. CASE ~Own(t)
      <3>1. /\ attempts[t[1]] \in Nat /\ attempts'[t[1]] \in Nat /\ t[2] \in Nat
            /\ attempts[t[1]] <= attempts'[t[1]]
        BY MaxAttemptsAssumption DEF Tickets, TableGrows, QuantityInv, LiveTypeOK, TypeOK
      <3>2. TicketSound(t) /\ Kept(t)
        BY <1>k, <2>1 DEF QuantityInv
      <3>3. "lmt" \in Phases
        BY DEF Phases
      <3> QED
        BY <3>1, <3>2, <3>3 DEF Kept, TicketSound
    <2> QED
      BY <1>h, <2>1 DEF Handled
  <1>2. ASSUME NEW v \in Workers PROVE WorkerSound(v)'
    <2>1. CASE v # w
      <3>1. /\ step'[v] = step[v] /\ seen'[v] = seen[v] /\ remaining'[v] = remaining[v]
            /\ booking'[v] = booking[v] /\ Ticket(v)' = Ticket(v)
        BY <2>1 DEF OthersRest, Ticket
      <3>2. WorkerSound(v) /\ StepJustified(v)
        BY DEF QuantityInv, LiveInv
      <3>3. CASE pc[v] = "dispatch"
        <4>1. Ticket(v) \in Tickets /\ ~Own(Ticket(v))
          BY <2>1, <3>3, DispatcherHasTicket, TicketsDiffer DEF Own
        <4>2. Kept(Ticket(v)) /\ "mkt" \in Phases
          BY <1>k, <4>1 DEF Phases
        <4> QED
          BY <3>1, <3>2, <4>2 DEF WorkerSound, Kept
      <3>4. CASE pc[v] # "dispatch"
        BY <3>1, <3>2, <3>4 DEF WorkerSound, StepJustified
      <3> QED
        BY <3>3, <3>4
    <2> QED
      BY <2>1
  <1>3. NoForgottenLimit'
    <2> SUFFICES ASSUME NEW t \in Tickets, resting'[t] > Leftover(t[1])
                 PROVE  \/ t \in astray'
                        \/ \E v \in Workers : step'[v] \in {"wait", "cancel"} /\ Ticket(v)' = t
      BY DEF NoForgottenLimit
    <2>1. CASE Own(t)
      BY <1>h, <2>1 DEF Handled
    <2>2. CASE ~Own(t)
      <3>1. Kept(t) /\ resting[t] > Leftover(t[1])
        BY <1>k, <2>2 DEF Kept
      <3>2. t \in astray \/ \E v \in Workers : step[v] \in {"wait", "cancel"} /\ Ticket(v) = t
        BY <3>1 DEF QuantityInv, NoForgottenLimit
      <3>3. ASSUME NEW v \in Workers, step[v] \in {"wait", "cancel"}, Ticket(v) = t
            PROVE  step'[v] = step[v] /\ Ticket(v)' = t
        <4>1. v # w
          BY <2>2, <3>3 DEF Own, LiveInv, StepJustified
        <4> QED
          BY <3>3, <4>1 DEF OthersRest, Ticket
      <3> QED
        BY <3>1, <3>2, <3>3 DEF Kept
    <2> QED
      BY <2>1, <2>2
  <1> QED
    BY <1>1, <1>2, <1>3 DEF QuantityInv

ExchangeTypeOK ==
    /\ placed  \in [Phases -> SUBSET Tickets]
    /\ resting \in [Tickets -> 0..Amount]
    /\ filled  \in [Phases -> [Tickets -> 0..Amount]]

LEMMA LimitAccepted ==
    ASSUME ExchangeTypeOK, NEW t \in Tickets, AcceptLimit(t), astray \subseteq astray'
    PROVE  /\ ExchangeTypeOK'
           /\ t \in placed'["lmt"] /\ resting'[t] = Amount /\ filled' = filled
           /\ \A u \in Tickets \ {t} : Kept(u)
  <1>1. Amount \in 0..Amount
    BY AmountAssumption
  <1>2. ExchangeTypeOK'
    BY <1>1 DEF ExchangeTypeOK, AcceptLimit
  <1>3. /\ t \in placed'["lmt"] /\ \A u \in Tickets \ {t} : u \in placed'["lmt"] <=> u \in placed["lmt"]
        /\ resting'[t] = Amount /\ \A u \in Tickets \ {t} : resting'[u] = resting[u]
    BY DEF ExchangeTypeOK, AcceptLimit, Phases
  <1> QED
    BY <1>2, <1>3 DEF AcceptLimit, Kept

LEMMA MarketAccepted ==
    ASSUME ExchangeTypeOK, NEW t \in Tickets, NEW qty \in 0..Amount, AcceptMarket(t, qty),
           astray \subseteq astray'
    PROVE  /\ ExchangeTypeOK'
           /\ placed'["lmt"] = placed["lmt"] /\ resting' = resting
           /\ filled'["lmt"] = filled["lmt"] /\ filled'["mkt"][t] \in 0..qty
           /\ \A u \in Tickets \ {t} : Kept(u)
  <1>1. PICK q \in 0..qty : filled' = [filled EXCEPT !["mkt"][t] = q]
    BY DEF AcceptMarket
  <1>2. q \in 0..Amount
    BY AmountAssumption
  <1>3. filled["mkt"] \in [Tickets -> 0..Amount] /\ filled["lmt"] \in [Tickets -> 0..Amount]
    BY DEF ExchangeTypeOK, Phases
  <1>4. filled' = [filled EXCEPT !["mkt"] = [filled["mkt"] EXCEPT ![t] = q]]
    BY <1>1
  <1>5. [filled["mkt"] EXCEPT ![t] = q] \in [Tickets -> 0..Amount]
    BY <1>2, <1>3
  <1>6. /\ filled' \in [Phases -> [Tickets -> 0..Amount]]
        /\ filled'["lmt"] = filled["lmt"] /\ filled'["mkt"] = [filled["mkt"] EXCEPT ![t] = q]
    BY <1>4, <1>5 DEF ExchangeTypeOK, Phases
  <1>7. filled'["mkt"][t] = q /\ \A u \in Tickets \ {t} : filled'["mkt"][u] = filled["mkt"][u]
    BY <1>3, <1>6
  <1>8. placed' \in [Phases -> SUBSET Tickets] /\ placed'["lmt"] = placed["lmt"] /\ resting' = resting
    BY DEF AcceptMarket, ExchangeTypeOK, Phases
  <1>9. ExchangeTypeOK'
    BY <1>6, <1>8 DEF ExchangeTypeOK
  <1> QED
    BY <1>6, <1>7, <1>8, <1>9 DEF Kept, Phases

LEMMA ExchangeRests ==
    ASSUME ExchangeTypeOK, UNCHANGED exchange, astray \subseteq astray'
    PROVE  ExchangeTypeOK' /\ \A t \in Tickets : Kept(t)
  BY DEF ExchangeTypeOK, exchange, Kept

\* A worker leaves its ticket t as it was, outside the limit phase.
LEMMA HandledAsIs ==
    ASSUME Inv, LiveInv, QuantityInv, TypeOK', TableGrows, NEW w \in Workers, pc[w] = "dispatch",
           NEW t, t = Ticket(w),
           resting'[t] = resting[t], filled'["lmt"][t] = filled["lmt"][t],
           placed'["lmt"] = placed["lmt"],
           (step[w] \notin {"wait", "cancel"} /\ astray \subseteq astray') \/ t \in astray'
    PROVE  Handled(w, t)
  <1>1. t \in Tickets /\ TicketSound(t)
    BY DispatcherHasTicket DEF QuantityInv
  <1>2. /\ attempts[t[1]] \in Nat /\ attempts'[t[1]] \in Nat /\ t[2] \in Nat
        /\ attempts[t[1]] <= attempts'[t[1]]
    BY <1>1, MaxAttemptsAssumption DEF Tickets, TableGrows, Inv, TypeOK
  <1>3. resting[t] > Leftover(t[1]) => t \in astray'
    BY OpenIsAstray DEF Ticket
  <1>4. TicketSound(t)'
    BY <1>1, <1>2 DEF TicketSound
  <1> QED
    BY <1>3, <1>4 DEF Handled

\* The dispatch of w goes on to step s, and the queue rests.
LEMMA DispatchGoesOn ==
    ASSUME Inv, LiveInv, QuantityInv, NEW w \in Workers, pc[w] = "dispatch",
           UNCHANGED <<vars, booking, booked>>,
           NEW s \in Steps \ {"idle", "start", "book"}, Go(w, s),
           NEW q \in 0..Amount, seen' = [seen EXCEPT ![w] = q],
           NEW r \in 0..Amount, remaining' = [remaining EXCEPT ![w] = r],
           s \in {"cancel", "market"} => q + r <= Amount,
           ExchangeTypeOK', astray' \in SUBSET Tickets,
           NEW t, t = Ticket(w), \A u \in Tickets \ {t} : Kept(u),
           resting'[t] + filled'["lmt"][t] <= Amount,
           t \notin placed'["lmt"] => resting'[t] = 0 /\ filled'["lmt"][t] = 0,
           resting'[t] > Leftover(t[1]) => t \in astray' \/ s \in {"wait", "cancel"},
           s = "confirm" => q + filled'["mkt"][t] <= Amount
    PROVE  QuantityInv'
  <1>1. /\ step \in [Workers -> Steps] /\ seen \in [Workers -> 0..Amount]
        /\ remaining \in [Workers -> 0..Amount]
    BY DEF QuantityInv, LiveTypeOK
  <1>2. /\ step'[w] = s /\ seen'[w] = q /\ remaining'[w] = r
        /\ \A v \in Workers \ {w} :
              step'[v] = step[v] /\ seen'[v] = seen[v] /\ remaining'[v] = remaining[v]
    BY <1>1 DEF Go
  <1>3. /\ step' \in [Workers -> Steps] /\ seen' \in [Workers -> 0..Amount]
        /\ remaining' \in [Workers -> 0..Amount]
    BY <1>1 DEF Go
  <1>4. UNCHANGED <<status, attempts, stale, pc, batch, cur, claim, faults>> /\ Ticket(w)' = t
    BY DEF vars, Ticket
  <1>5. LiveTypeOK'
    BY <1>3, <1>4 DEF QuantityInv, LiveTypeOK, TypeOK, ExchangeTypeOK
  <1>6. TableGrows
    BY <1>4 DEF TableGrows, Inv, TypeOK
  <1>7. t \in Tickets /\ t[2] <= attempts'[t[1]]
    <2>1. t \in Tickets /\ t[1] = cur[w] /\ t[2] = claim[w]
      BY DispatcherHasTicket DEF Ticket
    <2> QED
      BY <1>4, <2>1 DEF Inv, DispatchersHoldClaims
  <1>8. Handled(w, t)
    <2>1. TicketSound(t)'
      BY <1>7 DEF TicketSound
    <2> QED
      BY <1>2, <1>4, <2>1 DEF Handled
  <1>9. WorkerSound(w)'
    BY <1>2, <1>4 DEF WorkerSound
  <1>10. OthersRest(w)
    BY <1>2, <1>4 DEF OthersRest
  <1>11. \A u \in Tickets : IF pc[w] = "dispatch" /\ u = Ticket(w) THEN Handled(w, u) ELSE Kept(u)
    BY <1>8
  <1> QED
    BY <1>2, <1>5, <1>6, <1>9, <1>10, <1>11, QuantityStepOfOne

\* It goes on to the report.
LEMMA ReportsNext ==
    ASSUME Inv, LiveInv, QuantityInv, NEW w \in Workers, pc[w] = "dispatch",
           UNCHANGED <<vars, booking, booked>>, Go(w, "report"),
           NEW q \in 0..Amount, seen' = [seen EXCEPT ![w] = q],
           NEW r \in 0..Amount, remaining' = [remaining EXCEPT ![w] = r],
           ExchangeTypeOK', astray' \in SUBSET Tickets,
           NEW t, t = Ticket(w), \A u \in Tickets \ {t} : Kept(u),
           resting'[t] + filled'["lmt"][t] <= Amount,
           t \notin placed'["lmt"] => resting'[t] = 0 /\ filled'["lmt"][t] = 0,
           resting'[t] > Leftover(t[1]) => t \in astray'
    PROVE  QuantityInv'
  <1>1. "report" \in Steps \ {"idle", "start", "book"}
    BY DEF Steps
  <1> QED
    BY <1>1, DispatchGoesOn

\* What a queue step of a worker guarantees.
LEMMA QueueStepKeeps ==
    ASSUME Inv, NEW w \in Workers, WorkerStep(w) \/ FaultStep(w)
    PROVE  TypeOK' /\ TableGrows
  <1>1. Next
    BY DEF Next
  <1> QED
    BY <1>1, TypeStep, TableOnlyGrows DEF Inv

\* A dispatch ends with a step of the queue, or with its booking.
LEMMA DispatchReturns ==
    ASSUME Inv, LiveInv, QuantityInv, NEW w \in Workers, Return(w),
           (WorkerStep(w) \/ FaultStep(w)) \/ UNCHANGED vars,
           ExchangeTypeOK', booked' \in [Orders -> Nat], astray' \in SUBSET Tickets,
           \A t \in Tickets :
               IF pc[w] = "dispatch" /\ t = Ticket(w) THEN Handled(w, t) ELSE Kept(t)
    PROVE  QuantityInv'
  <1>1. /\ step \in [Workers -> Steps] /\ seen \in [Workers -> 0..Amount]
        /\ remaining \in [Workers -> 0..Amount] /\ booking \in [Workers -> Orders \union {None}]
    BY DEF QuantityInv, LiveTypeOK
  <1>2. /\ step' = [step EXCEPT ![w] = "idle"] /\ seen' = [seen EXCEPT ![w] = 0]
        /\ remaining' = [remaining EXCEPT ![w] = 0] /\ booking' = [booking EXCEPT ![w] = None]
    BY DEF Return, Go
  <1>3. 0 \in 0..Amount
    BY AmountAssumption
  <1>4. /\ step' \in [Workers -> Steps] /\ seen' \in [Workers -> 0..Amount]
        /\ remaining' \in [Workers -> 0..Amount] /\ booking' \in [Workers -> Orders \union {None}]
    BY <1>1, <1>2, <1>3 DEF Steps
  <1>5. /\ step'[w] = "idle"
        /\ \A v \in Workers \ {w} : /\ step'[v] = step[v] /\ seen'[v] = seen[v]
                                    /\ remaining'[v] = remaining[v] /\ booking'[v] = booking[v]
    BY <1>1, <1>2
  <1>6. TypeOK' /\ TableGrows
    <2>1. CASE UNCHANGED vars
      BY <2>1 DEF vars, Inv, TypeOK, TableGrows
    <2> QED
      BY <2>1, QueueStepKeeps
  <1>7. OthersRest(w)
    <2>1. CASE UNCHANGED vars
      BY <1>5, <2>1 DEF vars, OthersRest
    <2> QED
      BY <1>5, <2>1, QueueStepOfOne DEF OthersRest
  <1>8. WorkerSound(w)'
    BY <1>5 DEF WorkerSound
  <1>9. LiveTypeOK'
    BY <1>4, <1>6 DEF LiveTypeOK, ExchangeTypeOK
  <1> QED
    BY <1>5, <1>6, <1>7, <1>8, <1>9, QuantityStepOfOne

LEMMA DispatchKeepsQuantities ==
    ASSUME Inv, LiveInv, QuantityInv, NEW w \in Workers, Dispatch(w)
    PROVE  QuantityInv'
  <1>0. /\ LiveTypeOK /\ WorkerSound(w) /\ StepJustified(w) /\ ExchangeTypeOK
        /\ seen[w] \in 0..Amount /\ remaining[w] \in 0..Amount
    BY DEF QuantityInv, LiveTypeOK, LiveInv, ExchangeTypeOK
  <1> DEFINE t == Ticket(w)
  <1>t. ASSUME pc[w] = "dispatch"
        PROVE  /\ t \in Tickets /\ TicketSound(t)
               /\ resting[t] \in 0..Amount /\ filled["lmt"][t] \in 0..Amount
               /\ filled["mkt"][t] \in 0..Amount
    BY <1>t, <1>0, DispatcherHasTicket DEF QuantityInv, ExchangeTypeOK, Phases
  <1>s. UNCHANGED seen => seen' = [seen EXCEPT ![w] = seen[w]]
    BY <1>0 DEF LiveTypeOK
  <1>r. UNCHANGED remaining => remaining' = [remaining EXCEPT ![w] = remaining[w]]
    BY <1>0 DEF LiveTypeOK
  <1>n. Amount \in Nat /\ Amount \in 0..Amount /\ 0 \in 0..Amount
    BY AmountAssumption
  <1>o. ASSUME pc[w] = "dispatch", resting[t] > Leftover(t[1]), step[w] \notin {"wait", "cancel"} PROVE t \in astray
    BY <1>o, OpenIsAstray DEF Ticket
  \* A dispatch that returns from before the wait or after it.
  <1>x. ASSUME pc[w] = "dispatch", step[w] \notin {"wait", "cancel"}, Return(w),
               WorkerStep(w) \/ FaultStep(w), UNCHANGED <<booked, astray>>,
               UNCHANGED exchange \/ AcceptMarket(t, remaining[w])
        PROVE  QuantityInv'
    <2>1. TypeOK' /\ TableGrows
      BY <1>x, QueueStepKeeps
    <2>2. /\ ExchangeTypeOK' /\ \A u \in Tickets \ {t} : Kept(u)
          /\ placed'["lmt"] = placed["lmt"] /\ resting'[t] = resting[t]
          /\ filled'["lmt"][t] = filled["lmt"][t]
      <3>1. CASE UNCHANGED exchange
        BY <1>0, <3>1, <1>x, ExchangeRests DEF exchange
      <3>2. CASE AcceptMarket(t, remaining[w])
        BY <1>0, <1>t, <1>x, <3>2, MarketAccepted
      <3> QED
        BY <1>x, <3>1, <3>2
    <2>3. ASSUME NEW u, u = t PROVE Handled(w, u)
      BY <1>x, <2>1, <2>2, <2>3, HandledAsIs
    <2>4. ASSUME NEW u \in Tickets
          PROVE  IF pc[w] = "dispatch" /\ u = t THEN Handled(w, u) ELSE Kept(u)
      <3>1. CASE u = t
        BY <1>x, <2>3, <3>1
      <3>2. CASE u # t
        BY <2>2, <3>2
      <3> QED
        BY <3>1, <3>2
    <2>5. booked' \in [Orders -> Nat] /\ astray' \in SUBSET Tickets
      BY <1>0, <1>x DEF LiveTypeOK
    <2> QED
      BY <1>x, <2>2, <2>4, <2>5, DispatchReturns
  <1>1. CASE ClaimLiveRow(w)
    <2>1. /\ step' = [step EXCEPT ![w] = "start"] /\ remaining' = [remaining EXCEPT ![w] = Amount]
          /\ UNCHANGED <<seen, booking, exchange, booked, astray>>
          /\ MarkProcessing(w) /\ step[w] = "idle" /\ pc[w] = "claim"
      BY <1>1 DEF ClaimLiveRow, Go, MarkProcessing
    <2>2. WorkerStep(w) /\ TypeOK' /\ TableGrows
      BY <2>1, QueueStepKeeps DEF WorkerStep
    <2>3. ExchangeTypeOK' /\ \A u \in Tickets : Kept(u)
      BY <1>0, <2>1, ExchangeRests
    <2>4. /\ step' \in [Workers -> Steps] /\ step'[w] = "start"
          /\ remaining' \in [Workers -> 0..Amount] /\ remaining'[w] = Amount
          /\ \A v \in Workers \ {w} : step'[v] = step[v] /\ remaining'[v] = remaining[v]
      BY <1>0, <1>n, <2>1 DEF LiveTypeOK, Steps
    <2>5. LiveTypeOK'
      BY <1>0, <2>1, <2>2, <2>3, <2>4 DEF LiveTypeOK, ExchangeTypeOK
    <2>6. OthersRest(w)
      BY <2>1, <2>2, <2>4, QueueStepOfOne DEF OthersRest
    <2>7. Ticket(w)' \notin placed["lmt"]
      <3>1. PICK o \in Orders : /\ cur' = [cur EXCEPT ![w] = o]
                                /\ claim' = [claim EXCEPT ![w] = attempts[o] + 1]
        BY <2>1 DEF MarkProcessing
      <3>2. Ticket(w)' = <<o, attempts[o] + 1>> /\ attempts[o] \in Nat
        BY <3>1 DEF Ticket, Inv, TypeOK
      <3>3. ~(attempts[o] + 1 <= attempts[o])
        BY <3>2
      <3>4. ASSUME NEW u \in Tickets, u \in placed["lmt"] PROVE u # <<o, attempts[o] + 1>>
        BY <3>3, <3>4 DEF QuantityInv, TicketSound
      <3>5. placed["lmt"] \subseteq Tickets
        BY <1>0 DEF ExchangeTypeOK, Phases
      <3> QED
        BY <3>2, <3>4, <3>5
    <2>8. WorkerSound(w)'
      <3>1. seen'[w] = 0 /\ placed' = placed
        BY <1>0, <2>1 DEF StepJustified, exchange
      <3> QED
        BY <1>n, <2>4, <2>7, <3>1 DEF WorkerSound
    <2>9. \A v \in Workers \ {w} : remaining'[v] = remaining[v] /\ booking'[v] = booking[v]
      BY <2>1, <2>4
    <2>10. \A u \in Tickets : IF pc[w] = "dispatch" /\ u = Ticket(w) THEN Handled(w, u) ELSE Kept(u)
      BY <2>1, <2>3
    <2> QED
      BY <2>2, <2>5, <2>6, <2>8, <2>9, <2>10, QuantityStepOfOne
  <1>2. CASE NotifySignal(w) \/ Reject(w)
    <2>1. /\ Return(w) /\ UNCHANGED <<booked, astray>> /\ UNCHANGED exchange /\ step[w] = "start"
          /\ Settle(w, "sent") \/ Settle(w, "failed") \/ SettleError(w)
      BY <1>2 DEF NotifySignal, Reject, Fail
    <2>2. pc[w] = "dispatch" /\ (WorkerStep(w) \/ FaultStep(w))
      BY <1>0, <2>1 DEF StepJustified, WorkerStep, FaultStep, Settled
    <2> QED
      BY <1>x, <2>1, <2>2
  <1>3. CASE SkipLimitPhase(w)
    <2>1. /\ step[w] = "start" /\ Go(w, "market")
          /\ UNCHANGED <<vars, seen, remaining, booking, booked, astray>> /\ UNCHANGED exchange
      BY <1>3 DEF SkipLimitPhase
    <2>2. pc[w] = "dispatch" /\ seen[w] + remaining[w] <= Amount
      BY <1>0, <2>1 DEF StepJustified, WorkerSound
    <2>3. ExchangeTypeOK' /\ \A u \in Tickets : Kept(u)
      BY <1>0, <2>1, ExchangeRests
    <2>4. TicketSound(t) /\ (resting[t] > Leftover(t[1]) => t \in astray)
      BY <1>o, <1>t, <2>1, <2>2
    <2>5. /\ resting'[t] + filled'["lmt"][t] <= Amount
          /\ t \notin placed'["lmt"] => resting'[t] = 0 /\ filled'["lmt"][t] = 0
          /\ resting'[t] > Leftover(t[1]) => t \in astray'
      BY <2>1, <2>4 DEF TicketSound, exchange
    <2> QED
      BY <1>0, <1>r, <1>s, <2>1, <2>2, <2>3, <2>5, DispatchGoesOn DEF Steps, LiveTypeOK
  <1>4. CASE PlaceLimit(w)
    <2>1. /\ step[w] = "start" /\ UNCHANGED <<vars, seen, remaining, booking, booked>>
      BY <1>4 DEF PlaceLimit
    <2>2. pc[w] = "dispatch" /\ seen[w] + remaining[w] <= Amount /\ t \notin placed["lmt"]
      BY <1>0, <2>1 DEF StepJustified, WorkerSound
    <2>3. resting[t] = 0 /\ filled["lmt"][t] = 0 /\ t \in Tickets
      BY <1>t, <2>2 DEF TicketSound
    <2>4. ASSUME AcceptLimit(t), NEW s \in {"wait", "market"}, Go(w, s),
                 astray' \in SUBSET Tickets, astray \subseteq astray', s = "market" => t \in astray'
          PROVE  QuantityInv'
      <3>1. /\ ExchangeTypeOK' /\ t \in placed'["lmt"] /\ resting'[t] = Amount /\ filled' = filled
            /\ \A u \in Tickets \ {t} : Kept(u)
        BY <1>0, <2>3, <2>4, LimitAccepted
      <3>2. resting'[t] + filled'["lmt"][t] <= Amount
        BY <1>n, <2>3, <3>1
      <3> QED
        BY <1>0, <1>r, <1>s, <2>1, <2>2, <2>4, <3>1, <3>2, DispatchGoesOn DEF Steps
    <2>5. ASSUME UNCHANGED exchange, UNCHANGED astray, Go(w, "market") PROVE QuantityInv'
      <3>1. ExchangeTypeOK' /\ \A u \in Tickets : Kept(u)
        BY <1>0, <2>5, ExchangeRests
      <3>2. /\ resting'[t] = 0 /\ filled'["lmt"][t] = 0 /\ astray' \in SUBSET Tickets
            /\ ~(resting'[t] > Leftover(t[1]))
        BY <1>0, <1>t, <2>1, <2>3, <2>5, LeftoverIsNat DEF exchange, LiveTypeOK
      <3> QED
        BY <1>0, <1>n, <1>r, <1>s, <2>1, <2>2, <2>5, <3>1, <3>2, DispatchGoesOn DEF Steps
    <2>6. astray \in SUBSET Tickets
      BY <1>0 DEF LiveTypeOK
    <2>7. CASE AcceptLimit(t) /\ Go(w, "wait") /\ UNCHANGED astray
      BY <2>4, <2>6, <2>7
    <2>8. CASE AcceptLimit(t) /\ Go(w, "market") /\ astray' = astray \union {t}
      BY <2>3, <2>4, <2>6, <2>8
    <2> QED
      BY <1>4, <2>5, <2>7, <2>8 DEF PlaceLimit
  <1>5. CASE SeeLimitFills(w)
    <2>1. /\ step[w] = "wait" /\ UNCHANGED <<vars, booking, booked>> /\ UNCHANGED exchange
      BY <1>5 DEF SeeLimitFills
    <2>2. pc[w] = "dispatch"
      BY <1>0, <2>1 DEF StepJustified
    <2> DEFINE rest(q) == Amount - q
               tail(q) == rest(q) > 0 /\ rest(q) < MinTradable[cur[w]]
    <2>3. PICK q \in {0, filled["lmt"][t]} :
             /\ seen'      = [seen EXCEPT ![w] = q]
             /\ remaining' = [remaining EXCEPT ![w] = IF tail(q) THEN 0 ELSE rest(q)]
             /\ Go(w, IF tail(q) \/ rest(q) = 0 THEN "report"
                      ELSE IF rest(q) <= Tolerance[cur[w]] THEN "market" ELSE "cancel")
      BY <1>5 DEF SeeLimitFills
    <2>4. q \in 0..Amount /\ q <= filled["lmt"][t] /\ rest(q) \in 0..Amount /\ q + rest(q) <= Amount
      BY <1>n, <1>t, <2>2
    <2>5. UNCHANGED astray /\ astray' \in SUBSET Tickets
      BY <1>0, <1>5 DEF LiveTypeOK, SeeLimitFills
    <2>6. ExchangeTypeOK' /\ \A u \in Tickets : Kept(u)
      BY <1>0, <2>1, <2>5, ExchangeRests
    <2>7. /\ resting' = resting /\ filled' = filled /\ placed' = placed
          /\ TicketSound(t) /\ resting[t] \in Nat /\ filled["lmt"][t] \in Nat
      BY <1>n, <1>t, <2>1, <2>2 DEF exchange
    \* No more can be open than the worker believes.
    <2>8. resting'[t] <= rest(q)
      BY <1>n, <2>4, <2>7 DEF TicketSound
    <2>m. /\ cur[w] \in Orders /\ t[1] = cur[w] /\ MinTradable[cur[w]] \in Nat
          /\ Tolerance[cur[w]] \in Nat /\ Leftover(t[1]) \in Nat
      BY <1>t, <2>2, DispatcherHasTicket, LeftoverIsNat, MinTradableAssumption, ToleranceAssumption
         DEF Ticket
    <2>l. /\ MinTradable[cur[w]] - 1 <= Leftover(t[1]) /\ Tolerance[cur[w]] <= Leftover(t[1])
      BY <2>m DEF Leftover
    <2>r. rest(q) \in Nat
      BY <1>n, <2>4
    <2>t. tail(q) => rest(q) < MinTradable[cur[w]]
      OBVIOUS
    <2> HIDE DEF rest, tail
    <2>9. ASSUME NEW s \in {"report", "cancel", "market"}, Go(w, s),
                 NEW r \in 0..Amount, remaining' = [remaining EXCEPT ![w] = r],
                 s # "report" => q + r <= Amount,
                 s # "cancel" => resting'[t] <= Leftover(t[1])
          PROVE  QuantityInv'
      <3>1. s \in Steps \ {"idle", "start", "book"} /\ s # "confirm"
        BY DEF Steps
      <3>2. seen' = [seen EXCEPT ![w] = q] /\ q \in 0..Amount
        BY <2>3, <2>4
      <3>4. resting'[t] > Leftover(t[1]) => s = "cancel"
        BY <2>7, <2>9, <2>m
      <3> HIDE DEF t
      <3>3. /\ resting'[t] + filled'["lmt"][t] <= Amount
            /\ t \notin placed'["lmt"] => resting'[t] = 0 /\ filled'["lmt"][t] = 0
        BY <2>7 DEF TicketSound
      <3> QED
        BY <2>1, <2>2, <2>5, <2>6, <2>9, <3>1, <3>2, <3>3, <3>4, DispatchGoesOn DEF t
    <2>10. CASE tail(q)
      <3>1. resting'[t] <= Leftover(t[1])
        BY <2>7, <2>8, <2>10, <2>l, <2>m, <2>r, <2>t
      <3> QED
        BY <1>n, <2>3, <2>9, <2>10, <3>1
    <2>11. CASE ~tail(q) /\ rest(q) = 0
      <3>1. /\ Go(w, "report") /\ remaining' = [remaining EXCEPT ![w] = rest(q)]
            /\ resting'[t] <= Leftover(t[1])
        BY <2>3, <2>7, <2>8, <2>11, <2>m
      <3> QED
        BY <2>4, <2>9, <3>1
    <2>12. CASE ~tail(q) /\ rest(q) # 0 /\ rest(q) <= Tolerance[cur[w]]
      <3>1. /\ Go(w, "market") /\ remaining' = [remaining EXCEPT ![w] = rest(q)]
            /\ resting'[t] <= Leftover(t[1])
        BY <2>3, <2>7, <2>8, <2>12, <2>l, <2>m, <2>r
      <3> QED
        BY <2>4, <2>9, <3>1
    <2>13. CASE ~tail(q) /\ rest(q) # 0 /\ ~(rest(q) <= Tolerance[cur[w]])
      BY <2>3, <2>4, <2>9, <2>13
    <2> QED
      BY <2>10, <2>11, <2>12, <2>13
  <1>6. CASE CancelLimit(w)
    <2>1. /\ step[w] = "cancel" /\ Go(w, "market")
          /\ UNCHANGED <<vars, seen, remaining, booking, placed, filled, booked>>
      BY <1>6 DEF CancelLimit
    <2>2. pc[w] = "dispatch" /\ seen[w] + remaining[w] <= Amount
      BY <1>0, <2>1 DEF StepJustified, WorkerSound
    <2>3. /\ t \in Tickets /\ TicketSound(t) /\ resting[t] \in Nat /\ filled["lmt"][t] \in Nat
      BY <1>n, <1>t, <2>2
    <2>4. \/ resting' = [resting EXCEPT ![t] = 0] /\ UNCHANGED astray
          \/ astray' = astray \union {t} /\ UNCHANGED resting
      BY <1>6 DEF CancelLimit
    <2>5. /\ resting' \in [Tickets -> 0..Amount] /\ astray' \in SUBSET Tickets /\ astray \subseteq astray'
          /\ \A u \in Tickets \ {t} : resting'[u] = resting[u]
          /\ resting'[t] = 0 \/ (resting'[t] = resting[t] /\ t \in astray')
      BY <1>0, <1>n, <2>3, <2>4 DEF LiveTypeOK
    <2>6. ExchangeTypeOK' /\ \A u \in Tickets \ {t} : Kept(u)
      BY <1>0, <2>1, <2>5 DEF ExchangeTypeOK, Kept
    <2>7. /\ resting'[t] + filled'["lmt"][t] <= Amount
          /\ t \notin placed'["lmt"] => resting'[t] = 0 /\ filled'["lmt"][t] = 0
          /\ resting'[t] > Leftover(t[1]) => t \in astray'
      BY <1>n, <2>1, <2>3, <2>5, LeftoverIsNat DEF TicketSound
    <2> QED
      BY <1>0, <1>r, <1>s, <2>1, <2>2, <2>5, <2>6, <2>7, DispatchGoesOn DEF Steps
  <1>7. CASE PlaceMarket(w)
    <2>1. step[w] = "market" /\ UNCHANGED astray
      BY <1>7 DEF PlaceMarket
    <2>2. pc[w] = "dispatch" /\ seen[w] + remaining[w] <= Amount
      BY <1>0, <2>1 DEF StepJustified, WorkerSound
    <2>3. /\ t \in Tickets /\ TicketSound(t) /\ (resting[t] > Leftover(t[1]) => t \in astray')
          /\ astray' \in SUBSET Tickets
      BY <1>0, <1>o, <1>t, <2>1, <2>2 DEF LiveTypeOK
    <2>4. ASSUME AcceptMarket(t, remaining[w]) \/ UNCHANGED exchange
          PROVE  /\ ExchangeTypeOK' /\ \A u \in Tickets \ {t} : Kept(u)
                 /\ placed'["lmt"] = placed["lmt"] /\ resting' = resting
                 /\ filled'["lmt"] = filled["lmt"]
                 /\ AcceptMarket(t, remaining[w]) => filled'["mkt"][t] \in 0..remaining[w]
      <3>1. CASE AcceptMarket(t, remaining[w])
        BY <1>0, <2>1, <2>3, <3>1, MarketAccepted
      <3>2. CASE UNCHANGED exchange /\ ~AcceptMarket(t, remaining[w])
        BY <1>0, <2>1, <3>2, ExchangeRests DEF exchange
      <3> QED
        BY <2>4, <3>1, <3>2
    <2>5. ASSUME AcceptMarket(t, remaining[w]) \/ UNCHANGED exchange,
                 UNCHANGED <<vars, seen, booking, booked>>,
                 \/ Go(w, "confirm") /\ AcceptMarket(t, remaining[w]) /\ UNCHANGED remaining
                 \/ Go(w, "report") /\ remaining' = [remaining EXCEPT ![w] = 0]
          PROVE  QuantityInv'
      <3>1. /\ resting'[t] + filled'["lmt"][t] <= Amount
            /\ t \notin placed'["lmt"] => resting'[t] = 0 /\ filled'["lmt"][t] = 0
            /\ resting'[t] > Leftover(t[1]) => t \in astray'
        BY <2>3, <2>4, <2>5 DEF TicketSound
      <3>2. CASE Go(w, "confirm") /\ AcceptMarket(t, remaining[w]) /\ UNCHANGED remaining
        <4>1. seen[w] + filled'["mkt"][t] <= Amount
          <5>1. filled'["mkt"][t] \in 0..remaining[w]
            BY <2>4, <3>2
          <5> QED
            BY <1>0, <1>n, <2>2, <5>1
        <4> QED
          BY <1>0, <1>r, <1>s, <2>2, <2>3, <2>4, <2>5, <3>1, <3>2, <4>1, DispatchGoesOn DEF Steps
      <3>3. CASE Go(w, "report") /\ remaining' = [remaining EXCEPT ![w] = 0]
        <4>1. seen' = [seen EXCEPT ![w] = seen[w]] /\ seen[w] \in 0..Amount
          BY <1>0, <1>s, <2>5
        <4>2. ExchangeTypeOK' /\ \A u \in Tickets \ {t} : Kept(u)
          BY <2>4, <2>5
        <4> QED
          BY <1>n, <2>2, <2>3, <2>5, <3>1, <3>3, <4>1, <4>2, ReportsNext
      <3> QED
        BY <2>5, <3>2, <3>3
    <2>6. CASE Fail(w) /\ (AcceptMarket(t, remaining[w]) \/ UNCHANGED exchange)
      <3>1. Return(w) /\ UNCHANGED booked /\ (WorkerStep(w) \/ FaultStep(w))
        BY <2>6 DEF Fail, WorkerStep, FaultStep, Settled
      <3> QED
        BY <1>x, <2>1, <2>2, <2>6, <3>1
    <2> QED
      BY <1>7, <2>5, <2>6 DEF PlaceMarket
  <1>8. CASE SeeMarketFills(w)
    <2>1. /\ step[w] = "confirm" /\ Go(w, "report") /\ UNCHANGED exchange
          /\ UNCHANGED <<vars, remaining, booking, booked, astray>>
      BY <1>8 DEF SeeMarketFills
    <2>2. pc[w] = "dispatch" /\ seen[w] + filled["mkt"][t] <= Amount
      BY <1>0, <2>1 DEF StepJustified, WorkerSound
    <2>3. PICK q \in {0, filled["mkt"][t]} : seen' = [seen EXCEPT ![w] = seen[w] + q]
      BY <1>8 DEF SeeMarketFills
    <2>4. seen[w] + q \in 0..Amount
      BY <1>0, <1>n, <1>t, <2>2
    <2>5. ExchangeTypeOK' /\ (\A u \in Tickets : Kept(u)) /\ astray' \in SUBSET Tickets
      BY <1>0, <2>1, ExchangeRests DEF LiveTypeOK
    <2>6. TicketSound(t) /\ (resting[t] > Leftover(t[1]) => t \in astray)
      BY <1>o, <1>t, <2>1, <2>2
    <2>7. /\ resting'[t] + filled'["lmt"][t] <= Amount
          /\ t \notin placed'["lmt"] => resting'[t] = 0 /\ filled'["lmt"][t] = 0
          /\ resting'[t] > Leftover(t[1]) => t \in astray'
      BY <2>1, <2>6 DEF TicketSound, exchange
    <2>8. /\ seen' = [seen EXCEPT ![w] = seen[w] + q]
          /\ remaining' = [remaining EXCEPT ![w] = remaining[w]]
      BY <1>r, <2>1, <2>3
    <2> QED
      BY <1>0, <2>1, <2>2, <2>4, <2>5, <2>7, <2>8, ReportsNext
  <1>9. CASE ReportSent(w)
    <2>1. /\ step[w] = "report" /\ step' = [step EXCEPT ![w] = "book"]
          /\ booking' = [booking EXCEPT ![w] = cur[w]]
          /\ seen'    = [seen EXCEPT ![w] = IF @ = 0 THEN Amount ELSE @]
          /\ remaining' = [remaining EXCEPT ![w] = 0]
          /\ UNCHANGED <<booked, astray>> /\ UNCHANGED exchange
          /\ WorkerStep(w) \/ FaultStep(w)
      BY <1>9 DEF ReportSent, Go, WorkerStep, FaultStep, Settled
    <2>2. pc[w] = "dispatch" /\ cur[w] \in Orders
      BY <1>0, <2>1, DispatcherHasTicket DEF StepJustified
    <2>3. TypeOK' /\ TableGrows /\ ExchangeTypeOK' /\ \A u \in Tickets : Kept(u)
      BY <1>0, <2>1, ExchangeRests, QueueStepKeeps
    <2>4. /\ step' \in [Workers -> Steps] /\ seen' \in [Workers -> 0..Amount]
          /\ remaining' \in [Workers -> 0..Amount] /\ booking' \in [Workers -> Orders \union {None}]
          /\ step'[w] = "book" /\ booking'[w] \in Orders
          /\ \A v \in Workers \ {w} : /\ step'[v] = step[v] /\ seen'[v] = seen[v]
                                      /\ remaining'[v] = remaining[v] /\ booking'[v] = booking[v]
      BY <1>0, <1>n, <2>1, <2>2 DEF LiveTypeOK, Steps
    <2>5. LiveTypeOK'
      BY <1>0, <2>1, <2>3, <2>4 DEF LiveTypeOK, ExchangeTypeOK
    <2>6. OthersRest(w) /\ WorkerSound(w)'
      BY <2>1, <2>4, QueueStepOfOne DEF OthersRest, WorkerSound
    <2>7. ASSUME NEW u, u = t PROVE Handled(w, u)
      BY <2>1, <2>2, <2>3, <2>7, HandledAsIs DEF exchange
    <2>8. ASSUME NEW u \in Tickets
          PROVE  IF pc[w] = "dispatch" /\ u = Ticket(w) THEN Handled(w, u) ELSE Kept(u)
      <3>1. CASE u = t
        BY <2>2, <2>7, <3>1
      <3>2. CASE u # t
        BY <2>3, <3>2
      <3> QED
        BY <3>1, <3>2
    <2> QED
      BY <2>3, <2>4, <2>5, <2>6, <2>8, QuantityStepOfOne
  <1>10. CASE BookFill(w)
    <2>1. /\ step[w] = "book" /\ Return(w) /\ UNCHANGED <<vars, astray>> /\ UNCHANGED exchange
          /\ booked' \in {booked, [booked EXCEPT ![booking[w]] = @ + seen[w]]}
      BY <1>10 DEF BookFill
    <2>2. booked' \in [Orders -> Nat] /\ astray' \in SUBSET Tickets
      <3>1. booking[w] \in Orders /\ booked \in [Orders -> Nat] /\ seen[w] \in Nat
        BY <1>0, <1>n, <2>1 DEF WorkerSound, LiveTypeOK
      <3>2. booked[booking[w]] + seen[w] \in Nat
        BY <3>1
      <3> QED
        BY <1>0, <2>1, <3>1, <3>2 DEF LiveTypeOK
    <2>3. ExchangeTypeOK' /\ \A u \in Tickets : Kept(u)
      BY <1>0, <2>1, ExchangeRests
    <2>4. TypeOK' /\ TableGrows
      BY <2>1 DEF vars, Inv, TypeOK, TableGrows
    <2>5. ASSUME NEW u \in Tickets, pc[w] = "dispatch", u = t PROVE Handled(w, u)
      BY <2>1, <2>4, <2>5, HandledAsIs DEF exchange
    <2>6. ASSUME NEW u \in Tickets
          PROVE  IF pc[w] = "dispatch" /\ u = Ticket(w) THEN Handled(w, u) ELSE Kept(u)
      BY <2>3, <2>5
    <2> QED
      BY <2>1, <2>2, <2>3, <2>6, DispatchReturns
  <1> QED
    BY <1>1, <1>2, <1>3, <1>4, <1>5, <1>6, <1>7, <1>8, <1>9, <1>10 DEF Dispatch

LEMMA QuantityStep == Inv /\ LiveInv /\ QuantityInv /\ [LiveNext]_liveVars => QuantityInv'
  <1> SUFFICES ASSUME Inv, LiveInv, QuantityInv, [LiveNext]_liveVars PROVE QuantityInv'
    OBVIOUS
  <1>0. /\ LiveTypeOK /\ ExchangeTypeOK /\ TypeOK' /\ TableGrows
        /\ \A w \in Workers : WorkerSound(w) /\ StepJustified(w)
    BY LiveStepRefines, TypeStep, TableOnlyGrows
       DEF Inv, QuantityInv, LiveTypeOK, ExchangeTypeOK, LiveInv
  \* The queue moves, the workers keep their places and tickets.
  <1>q. ASSUME UNCHANGED live, UNCHANGED <<cur, claim>> PROVE QuantityInv'
    <2>1. LiveTypeOK'
      BY <1>0, <1>q DEF LiveTypeOK, live, worker, exchange
    <2>2. ASSUME NEW t \in Tickets PROVE TicketSound(t)'
      <3>1. /\ attempts[t[1]] \in Nat /\ attempts'[t[1]] \in Nat /\ t[2] \in Nat
            /\ attempts[t[1]] <= attempts'[t[1]]
        BY <1>0, MaxAttemptsAssumption DEF Tickets, TableGrows, LiveTypeOK, TypeOK
      <3> QED
        BY <1>q, <3>1 DEF QuantityInv, TicketSound, live, exchange
    <2>3. \A w \in Workers : WorkerSound(w)'
      BY <1>0, <1>q DEF WorkerSound, Ticket, live, worker, exchange
    <2>4. NoForgottenLimit'
      BY <1>q DEF QuantityInv, NoForgottenLimit, Ticket, live, worker, exchange
    <2> QED
      BY <2>1, <2>2, <2>3, <2>4 DEF QuantityInv
  <1>1. ASSUME NEW o \in Orders, Enqueue(o) \/ LiveAge(o) PROVE QuantityInv'
    BY <1>1, <1>q DEF Enqueue, LiveAge, EnqueuePendingOrder, Age, workers
  <1>2. ASSUME NEW t \in Tickets, LimitFills(t) PROVE QuantityInv'
    <2>1. /\ resting[t] > 0 /\ resting' = [resting EXCEPT ![t] = @ - 1]
          /\ filled' = [filled EXCEPT !["lmt"][t] = @ + 1]
          /\ UNCHANGED <<vars, worker, placed, booked, astray>>
      BY <1>2 DEF LimitFills
    <2>2. /\ resting[t] \in 0..Amount /\ filled["lmt"][t] \in 0..Amount /\ Amount \in Nat
          /\ TicketSound(t) /\ t \in placed["lmt"]
          /\ filled["lmt"] \in [Tickets -> 0..Amount] /\ filled["mkt"] \in [Tickets -> 0..Amount]
      BY <1>0, <2>1, AmountAssumption DEF QuantityInv, TicketSound, ExchangeTypeOK, Phases
    <2>3. resting[t] - 1 \in 0..Amount /\ filled["lmt"][t] + 1 \in 0..Amount
      BY <2>1, <2>2 DEF TicketSound
    <2>4. /\ resting' \in [Tickets -> 0..Amount] /\ resting'[t] = resting[t] - 1
          /\ \A u \in Tickets \ {t} : resting'[u] = resting[u]
      BY <1>0, <2>1, <2>3 DEF ExchangeTypeOK
    <2>5. filled' = [filled EXCEPT !["lmt"] = [filled["lmt"] EXCEPT ![t] = filled["lmt"][t] + 1]]
      BY <2>1
    <2>6. [filled["lmt"] EXCEPT ![t] = filled["lmt"][t] + 1] \in [Tickets -> 0..Amount]
      BY <2>2, <2>3
    <2>7. /\ filled' \in [Phases -> [Tickets -> 0..Amount]] /\ filled'["mkt"] = filled["mkt"]
          /\ filled'["lmt"] = [filled["lmt"] EXCEPT ![t] = filled["lmt"][t] + 1]
      BY <1>0, <2>5, <2>6 DEF ExchangeTypeOK, Phases
    <2>8. /\ filled'["lmt"][t] = filled["lmt"][t] + 1
          /\ \A u \in Tickets \ {t} : filled'["lmt"][u] = filled["lmt"][u]
      BY <2>2, <2>7
    <2>9. LiveTypeOK'
      BY <1>0, <2>1, <2>4, <2>7 DEF LiveTypeOK, worker
    <2>10. ASSUME NEW u \in Tickets PROVE TicketSound(u)'
      <3>1. TicketSound(u) /\ attempts' = attempts /\ placed' = placed
        BY <2>1 DEF QuantityInv, vars
      <3>2. CASE u = t
        BY <2>2, <2>4, <2>8, <3>1, <3>2 DEF TicketSound
      <3>3. CASE u # t
        BY <2>4, <2>8, <3>1, <3>3 DEF TicketSound
      <3> QED
        BY <3>2, <3>3
    <2>11. \A w \in Workers : WorkerSound(w)'
      BY <1>0, <2>1, <2>7 DEF WorkerSound, Ticket, worker, vars
    <2>12. \A u \in Tickets : resting'[u] > Leftover(u[1]) => resting[u] > Leftover(u[1])
      BY <2>2, <2>4, LeftoverIsNat
    <2>13. NoForgottenLimit'
      BY <2>1, <2>12 DEF QuantityInv, NoForgottenLimit, Ticket, worker, vars
    <2> QED
      BY <2>9, <2>10, <2>11, <2>13 DEF QuantityInv
  <1>3. ASSUME NEW w \in Workers, Dispatch(w) PROVE QuantityInv'
    BY <1>3, DispatchKeepsQuantities
  <1>4. ASSUME NEW w \in Workers, BetweenRows(w) PROVE QuantityInv'
    BY <1>4, <1>q DEF BetweenRows, RequeueStale, SelectBatch, SkipRow, Restart, FetchError, ClaimError
  <1>5. ASSUME NEW w \in Workers, LiveCrash(w) PROVE QuantityInv'
    <2>1. /\ Return(w) /\ FaultStep(w) /\ UNCHANGED booked /\ UNCHANGED exchange
          /\ astray' = IF step[w] \in {"wait", "cancel"} THEN astray \union {Ticket(w)} ELSE astray
      BY <1>5 DEF LiveCrash, FaultStep
    <2>2. step[w] \in {"wait", "cancel"} => pc[w] = "dispatch" /\ Ticket(w) \in Tickets
      BY <1>0, DispatcherHasTicket DEF StepJustified
    <2>3. astray \subseteq astray' /\ astray' \in SUBSET Tickets /\ booked' \in [Orders -> Nat]
      BY <1>0, <2>1, <2>2 DEF LiveTypeOK
    <2>4. ExchangeTypeOK' /\ \A u \in Tickets : Kept(u)
      BY <1>0, <2>1, <2>3, ExchangeRests
    <2>5. ASSUME NEW u \in Tickets, pc[w] = "dispatch", u = Ticket(w) PROVE Handled(w, u)
      BY <1>0, <2>1, <2>3, <2>5, HandledAsIs DEF exchange
    <2>6. ASSUME NEW u \in Tickets
          PROVE  IF pc[w] = "dispatch" /\ u = Ticket(w) THEN Handled(w, u) ELSE Kept(u)
      BY <2>4, <2>5
    <2> QED
      BY <2>1, <2>3, <2>4, <2>6, DispatchReturns
  <1>6. CASE UNCHANGED liveVars
    BY <1>6, <1>q DEF liveVars, vars
  <1> QED
    BY <1>1, <1>2, <1>3, <1>4, <1>5, <1>6 DEF LiveNext

LEMMA QuantityHolds == LiveSpec => []QuantityInv
  <1>1. LiveSpec => []Inv
    BY QueueRefined, InvHolds, PTL DEF RefinesQueue
  <1>2. LiveSpec => []LiveInv
    BY <1>1, LiveInitInv, LiveInvStep, PTL DEF LiveSpec
  <1> QED
    BY <1>1, <1>2, QuantityInit, QuantityStep, PTL DEF LiveSpec

\* In every quantity a live worker computes, and in every fill of the exchange,
\* a row counts at most its own amount, whatever the two phases saw of each other.
THEOREM LiveQuantitiesTyped == LiveSpec => []LiveTypeOK
  <1>1. QuantityInv => LiveTypeOK
    BY DEF QuantityInv
  <1> QED
    BY <1>1, QuantityHolds, PTL

\* A limit order that outlives its dispatch was left open by a lost answer, a
\* failed cancel, the tail guard or a crash.
THEOREM NoLimitForgotten == LiveSpec => []NoForgottenLimit
  <1>1. QuantityInv => NoForgottenLimit
    BY DEF QuantityInv
  <1> QED
    BY <1>1, QuantityHolds, PTL

-----------------------------------------------------------------------------
(* What is booked.  An attempt entitles its row to one amount.  The worker    *)
(* that dispatches it owes the row up to that much; once it has settled the   *)
(* row it owes what it is about to book, and then nothing.                    *)

Entitled(o) == attempts[o] * Amount

OwedBy(w, o) ==
    IF Dispatching(w, o) THEN Amount ELSE IF booking[w] = o THEN seen[w] ELSE 0

Owed(o) == [w \in Workers |-> OwedBy(w, o)]

\* A worker books after its dispatch, and has nothing to book at any other time.
BookingSound(w) ==
    /\ pc[w] = "dispatch" => step[w] \notin {"idle", "book"}
    /\ step[w] # "book" => booking[w] = None

BookingInv ==
    /\ \A w \in Workers : BookingSound(w)
    /\ \A o \in Orders : booked[o] + SumFunctionOnSet(Owed(o), Workers) <= Entitled(o)

LEMMA BookingInit == LiveInit => BookingInv
  <1> SUFFICES ASSUME LiveInit PROVE BookingInv
    OBVIOUS
  <1>1. \A w \in Workers : BookingSound(w)
    BY DEF LiveInit, Init, BookingSound
  <1>2. ASSUME NEW o \in Orders
        PROVE  booked[o] + SumFunctionOnSet(Owed(o), Workers) <= Entitled(o)
    <2>1. booked[o] = 0 /\ Entitled(o) = 0
      BY <1>2, AmountAssumption DEF LiveInit, Init, Entitled
    <2>2. \A w \in Workers : Owed(o)[w] = 0
      BY NoneAssumption DEF LiveInit, Init, Owed, OwedBy, Dispatching
    <2>3. SumFunctionOnSet(Owed(o), Workers) = 0
      BY <2>2, WorkersAssumption, SumOfZeros
    <2> QED
      BY <2>1, <2>3
  <1> QED
    BY <1>1, <1>2 DEF BookingInv

LEMMA OwedTyped ==
    ASSUME NEW o \in Orders, NEW w \in Workers
    PROVE  /\ LiveTypeOK => OwedBy(w, o) \in Nat
           /\ LiveTypeOK' => OwedBy(w, o)' \in Nat
  BY AmountAssumption DEF LiveTypeOK, OwedBy

LEMMA EntitledGrows ==
    ASSUME TypeOK, TypeOK', TableGrows, NEW o \in Orders
    PROVE  /\ Entitled(o) \in Nat /\ Entitled(o)' \in Nat /\ Entitled(o) <= Entitled(o)'
           /\ attempts'[o] = attempts[o] + 1 => Entitled(o)' = Entitled(o) + Amount
  <1>1. attempts[o] \in Nat /\ attempts'[o] \in Nat /\ attempts[o] <= attempts'[o] /\ Amount \in Nat
    BY AmountAssumption DEF TypeOK, TableGrows
  <1>2. \A a, b, k \in Nat :
          /\ a * k \in Nat /\ (a <= b => a * k <= b * k) /\ (b = a + 1 => b * k = a * k + k)
    OBVIOUS
  <1> QED
    BY <1>1, <1>2 DEF Entitled

\* A step of worker w, as far as bookings go: what w owes or has booked more than
\* before, the row is newly entitled to.
LEMMA BookingStepOfOne ==
    ASSUME LiveTypeOK, LiveTypeOK', TableGrows, BookingInv, NEW w \in Workers,
           \A v \in Workers \ {w} :
               UNCHANGED <<pc[v], cur[v], step[v], booking[v], seen[v]>>,
           BookingSound(w)',
           \A o \in Orders :
               booked'[o] + OwedBy(w, o)' + Entitled(o) <= booked[o] + OwedBy(w, o) + Entitled(o)'
    PROVE  BookingInv'
  <1>1. \A v \in Workers : BookingSound(v)'
    BY DEF BookingInv, BookingSound
  <1>2. ASSUME NEW o \in Orders
        PROVE  (booked[o] + SumFunctionOnSet(Owed(o), Workers) <= Entitled(o))'
    <2> DEFINE f == Owed(o)
               g == [v \in Workers |-> OwedBy(v, o)']
    <2>1. \A v \in Workers : f[v] \in Nat /\ g[v] \in Nat
      <3>1. \A v \in Workers : OwedBy(v, o) \in Nat /\ OwedBy(v, o)' \in Nat
        BY <1>2, OwedTyped
      <3> QED
        BY <3>1 DEF Owed
    <2>2. \A v \in Workers \ {w} : g[v] = f[v]
      BY DEF Owed, OwedBy, Dispatching
    <2>3. f[w] = OwedBy(w, o) /\ g[w] = OwedBy(w, o)' /\ Owed(o)' = g
      BY DEF Owed
    <2> HIDE DEF f, g
    <2>4. SumFunctionOnSet(g, Workers) + f[w] = SumFunctionOnSet(f, Workers) + g[w]
      BY <2>1, <2>2, WorkersAssumption, SumChange
    <2>5. SumFunctionOnSet(f, Workers) \in Nat /\ SumFunctionOnSet(g, Workers) \in Nat
      BY <2>1, WorkersAssumption, SumIsNatural
    <2>6. booked[o] + SumFunctionOnSet(f, Workers) <= Entitled(o)
      BY <1>2 DEF BookingInv, f
    <2>7. Entitled(o) \in Nat /\ Entitled(o)' \in Nat /\ booked[o] \in Nat /\ booked'[o] \in Nat
      BY <1>2, EntitledGrows DEF LiveTypeOK
    <2>8. booked'[o] + g[w] + Entitled(o) <= booked[o] + f[w] + Entitled(o)'
      BY <1>2, <2>3
    <2>9. f[w] \in Nat /\ g[w] \in Nat
      BY <2>1
    <2>10. booked'[o] + SumFunctionOnSet(g, Workers) <= Entitled(o)'
      BY <2>4, <2>5, <2>6, <2>7, <2>8, <2>9
    <2> QED
      BY <2>3, <2>10
  <1> QED
    BY <1>1, <1>2 DEF BookingInv

\* Nobody's debts change.
LEMMA DebtsRest ==
    ASSUME LiveTypeOK, LiveTypeOK', TableGrows, BookingInv, UNCHANGED <<worker, booked, pc, cur>>
    PROVE  BookingInv'
  <1>1. \A w \in Workers : BookingSound(w)'
    BY DEF BookingInv, BookingSound, worker
  <1>2. ASSUME NEW o \in Orders
        PROVE  (booked[o] + SumFunctionOnSet(Owed(o), Workers) <= Entitled(o))'
    <2>1. Owed(o)' = Owed(o) /\ booked'[o] = booked[o]
      BY DEF Owed, OwedBy, Dispatching, worker
    <2>2. \A w \in Workers : Owed(o)[w] \in Nat
      BY <1>2, OwedTyped DEF Owed
    <2>3. SumFunctionOnSet(Owed(o), Workers) \in Nat
      BY <2>2, WorkersAssumption, SumIsNatural
    <2>4. booked[o] + SumFunctionOnSet(Owed(o), Workers) <= Entitled(o)
      BY <1>2 DEF BookingInv
    <2>5. /\ Entitled(o) \in Nat /\ Entitled(o)' \in Nat /\ Entitled(o) <= Entitled(o)'
          /\ booked[o] \in Nat
      BY <1>2, EntitledGrows DEF LiveTypeOK
    <2> QED
      BY <2>1, <2>3, <2>4, <2>5
  <1> QED
    BY <1>1, <1>2 DEF BookingInv

\* Whoever settles its row, or fails to, has left its dispatch.
LEMMA SettledLeaves ==
    ASSUME Inv, NEW w \in Workers,
           Settle(w, "sent") \/ Settle(w, "failed") \/ SettleError(w)
    PROVE  pc'[w] # "dispatch" /\ (WorkerStep(w) \/ FaultStep(w))
  BY DEF Inv, TypeOK, Settle, SettleError, NextRow, EndTick, WorkerStep, FaultStep, Settled

\* A dispatch that returns owes nothing any more.
LEMMA ReturnKeepsBookings ==
    ASSUME Inv, LiveTypeOK, LiveTypeOK', TableGrows, BookingInv, NEW w \in Workers,
           Return(w), UNCHANGED booked, pc'[w] # "dispatch", WorkerStep(w) \/ FaultStep(w)
    PROVE  BookingInv'
  <1>1. /\ step'[w] = "idle" /\ booking'[w] = None
        /\ \A v \in Workers \ {w} : UNCHANGED <<step[v], booking[v], seen[v]>>
    BY DEF Return, Go, LiveTypeOK
  <1>2. BookingSound(w)'
    BY <1>1 DEF BookingSound
  <1>3. \A v \in Workers \ {w} : UNCHANGED <<pc[v], cur[v], step[v], booking[v], seen[v]>>
    BY <1>1, QueueStepOfOne
  <1>4. \A o \in Orders : OwedBy(w, o)' = 0 /\ OwedBy(w, o) \in Nat
    BY <1>1, NoneAssumption, OwedTyped DEF OwedBy, Dispatching
  <1>5. \A o \in Orders : /\ Entitled(o) \in Nat /\ Entitled(o)' \in Nat /\ booked[o] \in Nat
                          /\ Entitled(o) <= Entitled(o)'
    BY EntitledGrows DEF LiveTypeOK
  <1> QED
    BY <1>2, <1>3, <1>4, <1>5, BookingStepOfOne

LEMMA DispatchKeepsBookings ==
    ASSUME Inv, LiveInv, LiveTypeOK, LiveTypeOK', TableGrows, BookingInv,
           NEW w \in Workers, Dispatch(w)
    PROVE  BookingInv'
  <1>0. /\ BookingSound(w) /\ StepJustified(w) /\ Amount \in Nat /\ None \notin Orders
        /\ step \in [Workers -> Steps] /\ booking \in [Workers -> Orders \union {None}]
        /\ seen \in [Workers -> 0..Amount]
    BY AmountAssumption, NoneAssumption DEF BookingInv, LiveInv, LiveTypeOK
  <1>n. \A o \in Orders : /\ Entitled(o) \in Nat /\ Entitled(o)' \in Nat /\ booked[o] \in Nat
                          /\ Entitled(o) <= Entitled(o)'
                          /\ OwedBy(w, o) \in Nat
    BY OwedTyped, EntitledGrows DEF Inv, LiveTypeOK
  \* w stays in its dispatch: it owes what it owed.
  <1>g. ASSUME NEW s \in Steps \ {"idle", "book"}, Go(w, s), pc[w] = "dispatch",
               UNCHANGED <<vars, booking, booked>>,
               \A v \in Workers \ {w} : UNCHANGED seen[v]
        PROVE  BookingInv'
    <2>1. step'[w] = s /\ \A v \in Workers \ {w} : UNCHANGED step[v]
      BY <1>0, <1>g DEF Go
    <2>2. UNCHANGED <<pc, cur, booking, booked>> /\ booking[w] = None
      BY <1>0, <1>g DEF vars, BookingSound
    <2>3. BookingSound(w)'
      BY <2>1, <2>2 DEF BookingSound
    <2>4. \A o \in Orders : OwedBy(w, o)' = OwedBy(w, o)
      BY <1>0, <1>g, <2>2 DEF OwedBy, Dispatching
    <2>5. \A v \in Workers \ {w} : UNCHANGED <<pc[v], cur[v], step[v], booking[v], seen[v]>>
      BY <1>g, <2>1, <2>2
    <2> QED
      BY <1>n, <2>2, <2>3, <2>4, <2>5, BookingStepOfOne
  \* The dispatch returns: w owes nothing.
  <1>r. ASSUME Return(w), UNCHANGED booked, pc'[w] # "dispatch",
               WorkerStep(w) \/ FaultStep(w)
        PROVE  BookingInv'
    BY <1>r, ReturnKeepsBookings
  <1>1. CASE ClaimLiveRow(w)
    <2>1. /\ step[w] = "idle" /\ step' = [step EXCEPT ![w] = "start"] /\ MarkProcessing(w)
          /\ UNCHANGED <<seen, booking, booked>>
      BY <1>1 DEF ClaimLiveRow, Go
    <2>2. PICK p \in Orders : /\ attempts' = [attempts EXCEPT ![p] = @ + 1]
                              /\ cur' = [cur EXCEPT ![w] = p]
      BY <2>1 DEF MarkProcessing, ClaimRow
    <2>3. /\ attempts'[p] = attempts[p] + 1 /\ cur'[w] = p /\ pc'[w] = "dispatch"
          /\ step'[w] = "start" /\ booking'[w] = None /\ booking[w] = None
          /\ pc[w] # "dispatch"
      BY <1>0, <2>1, <2>2 DEF MarkProcessing, Inv, TypeOK, BookingSound
    <2>4. BookingSound(w)'
      BY <2>3 DEF BookingSound
    <2>5. \A v \in Workers \ {w} : UNCHANGED <<pc[v], cur[v], step[v], booking[v], seen[v]>>
      BY <1>0, <2>1, QueueStepOfOne DEF WorkerStep
    <2>6. \A o \in Orders : OwedBy(w, o) = 0 /\ OwedBy(w, o)' = IF o = p THEN Amount ELSE 0
      BY <1>0, <2>3 DEF OwedBy, Dispatching
    <2>7. Entitled(p)' = Entitled(p) + Amount
      BY <2>3, EntitledGrows DEF Inv, LiveTypeOK
    <2> QED
      BY <1>0, <1>n, <2>1, <2>4, <2>5, <2>6, <2>7, BookingStepOfOne
  <1>2. CASE NotifySignal(w)
    <2>1. Return(w) /\ UNCHANGED booked
      BY <1>2 DEF NotifySignal
    <2>2. Settle(w, "sent") \/ Settle(w, "failed") \/ SettleError(w)
      BY <1>2 DEF NotifySignal
    <2> QED
      BY <1>r, <2>1, <2>2, SettledLeaves
  <1>f. ASSUME Fail(w) PROVE BookingInv'
    <2>1. Return(w) /\ UNCHANGED booked /\ (Settle(w, "failed") \/ SettleError(w))
      BY <1>f DEF Fail
    <2> QED
      BY <1>r, <2>1, SettledLeaves
  <1>3. CASE Reject(w)
    BY <1>3, <1>f DEF Reject
  <1>4. CASE SkipLimitPhase(w)
    BY <1>0, <1>4, <1>g DEF SkipLimitPhase, StepJustified, Steps
  <1>5. CASE PlaceLimit(w)
    <2>1. pc[w] = "dispatch" /\ UNCHANGED <<vars, seen, booking, booked>>
      BY <1>0, <1>5 DEF PlaceLimit, StepJustified
    <2>2. \E s \in {"wait", "market"} : Go(w, s)
      BY <1>5 DEF PlaceLimit
    <2> QED
      BY <1>g, <2>1, <2>2 DEF Steps
  <1>6. CASE SeeLimitFills(w)
    <2>1. pc[w] = "dispatch" /\ UNCHANGED <<vars, booking, booked>>
      BY <1>0, <1>6 DEF SeeLimitFills, StepJustified
    <2>2. \E s \in {"report", "market", "cancel"} : Go(w, s)
      BY <1>6, Zenon DEF SeeLimitFills
    <2>3. \A v \in Workers \ {w} : UNCHANGED seen[v]
      BY <1>0, <1>6 DEF SeeLimitFills
    <2> QED
      BY <1>g, <2>1, <2>2, <2>3 DEF Steps
  <1>7. CASE CancelLimit(w)
    BY <1>0, <1>7, <1>g DEF CancelLimit, StepJustified, Steps
  <1>8. CASE PlaceMarket(w)
    <2>1. CASE /\ \E s \in {"confirm", "report"} : Go(w, s)
               /\ UNCHANGED <<vars, seen, booking, booked>>
      BY <1>0, <1>8, <1>g, <2>1 DEF PlaceMarket, StepJustified, Steps
    <2> QED
      BY <1>8, <1>f, <2>1 DEF PlaceMarket
  <1>9. CASE SeeMarketFills(w)
    <2>1. /\ pc[w] = "dispatch" /\ Go(w, "report") /\ UNCHANGED <<vars, booking, booked>>
          /\ \A v \in Workers \ {w} : UNCHANGED seen[v]
      BY <1>0, <1>9 DEF SeeMarketFills, StepJustified
    <2> QED
      BY <1>g, <2>1 DEF Steps
  <1>10. CASE ReportSent(w)
    <2>1. /\ step[w] = "report" /\ step' = [step EXCEPT ![w] = "book"]
          /\ booking' = [booking EXCEPT ![w] = cur[w]]
          /\ seen'    = [seen EXCEPT ![w] = IF @ = 0 THEN Amount ELSE @]
          /\ UNCHANGED booked
          /\ Settle(w, "sent") \/ SettleError(w)
      BY <1>10 DEF ReportSent, Go
    <2>2. pc[w] = "dispatch" /\ (WorkerStep(w) \/ FaultStep(w)) /\ pc'[w] # "dispatch"
      BY <1>0, <2>1, SettledLeaves DEF StepJustified
    <2>3. /\ step'[w] = "book" /\ booking'[w] = cur[w] /\ seen'[w] \in 0..Amount
          /\ booking[w] = None
      BY <1>0, <2>1, <2>2 DEF BookingSound, LiveTypeOK
    <2>4. BookingSound(w)'
      BY <2>2, <2>3 DEF BookingSound
    <2>5. \A v \in Workers \ {w} : UNCHANGED <<pc[v], cur[v], step[v], booking[v], seen[v]>>
      BY <1>0, <2>1, <2>2, QueueStepOfOne
    <2>6. \A o \in Orders : OwedBy(w, o) = (IF o = cur[w] THEN Amount ELSE 0)
                            /\ OwedBy(w, o)' = (IF o = cur[w] THEN seen'[w] ELSE 0)
      BY <1>0, <2>2, <2>3 DEF OwedBy, Dispatching
    <2>7. seen'[w] \in Nat /\ seen'[w] <= Amount
      BY <1>0, <2>3
    <2> QED
      BY <1>0, <1>n, <2>1, <2>4, <2>5, <2>6, <2>7, BookingStepOfOne
  <1>11. CASE BookFill(w)
    <2>1. /\ step[w] = "book" /\ step' = [step EXCEPT ![w] = "idle"]
          /\ seen' = [seen EXCEPT ![w] = 0] /\ booking' = [booking EXCEPT ![w] = None]
          /\ UNCHANGED <<pc, cur, attempts>>
          /\ booked' \in {booked, [booked EXCEPT ![booking[w]] = @ + seen[w]]}
      BY <1>11 DEF BookFill, Return, Go, vars
    <2>2. pc[w] # "dispatch" /\ step'[w] = "idle" /\ booking'[w] = None /\ seen[w] \in Nat
      BY <1>0, <2>1 DEF BookingSound
    <2>3. BookingSound(w)'
      BY <2>1, <2>2 DEF BookingSound
    <2>4. \A v \in Workers \ {w} : UNCHANGED <<pc[v], cur[v], step[v], booking[v], seen[v]>>
      BY <1>0, <2>1
    <2>5. \A o \in Orders : OwedBy(w, o) = (IF o = booking[w] THEN seen[w] ELSE 0)
                            /\ OwedBy(w, o)' = 0
      BY <1>0, <2>1, <2>2 DEF OwedBy, Dispatching
    <2>6. \A o \in Orders : booked'[o] = booked[o]
                            \/ (o = booking[w] /\ booked'[o] = booked[o] + seen[w])
      BY <2>1 DEF LiveTypeOK
    <2>7. \A o \in Orders : Entitled(o)' = Entitled(o)
      BY <2>1 DEF Entitled
    <2> QED
      BY <1>n, <2>2, <2>3, <2>4, <2>5, <2>6, <2>7, BookingStepOfOne
  <1> QED
    BY <1>1, <1>2, <1>3, <1>4, <1>5, <1>6, <1>7, <1>8, <1>9, <1>10, <1>11 DEF Dispatch

LEMMA BookingStep ==
    Inv /\ LiveInv /\ LiveTypeOK /\ LiveTypeOK' /\ BookingInv /\ [LiveNext]_liveVars => BookingInv'
  <1> SUFFICES ASSUME Inv, LiveInv, LiveTypeOK, LiveTypeOK', BookingInv, [LiveNext]_liveVars
               PROVE  BookingInv'
    OBVIOUS
  <1>0. TableGrows
    BY LiveStepRefines, TableOnlyGrows DEF Inv
  <1>1. ASSUME NEW o \in Orders, Enqueue(o) \/ LiveAge(o) PROVE BookingInv'
    BY <1>0, <1>1, DebtsRest DEF Enqueue, LiveAge, EnqueuePendingOrder, Age, workers, live
  <1>2. ASSUME NEW t \in Tickets, LimitFills(t) PROVE BookingInv'
    BY <1>0, <1>2, DebtsRest DEF LimitFills, vars
  <1>3. ASSUME NEW w \in Workers, Dispatch(w) PROVE BookingInv'
    BY <1>0, <1>3, DispatchKeepsBookings
  <1>4. ASSUME NEW w \in Workers, BetweenRows(w) PROVE BookingInv'
    <2>1. /\ step[w] = "idle" /\ UNCHANGED <<step, seen, booking, booked>>
          /\ WorkerStep(w) \/ FaultStep(w)
      BY <1>4 DEF BetweenRows, live, worker, WorkerStep, FaultStep
    <2>2. pc'[w] # "dispatch"
      BY <1>4 DEF BetweenRows, RequeueStale, SelectBatch, SkipRow, Restart, FetchError, ClaimError,
                  NextRow, EndTick, Inv, TypeOK
    <2>3. pc[w] # "dispatch" /\ booking[w] = None
      BY <2>1 DEF BookingInv, BookingSound
    <2>4. BookingSound(w)'
      BY <2>1, <2>2, <2>3 DEF BookingSound
    <2>5. \A v \in Workers \ {w} : UNCHANGED <<pc[v], cur[v], step[v], booking[v], seen[v]>>
      BY <2>1, QueueStepOfOne
    <2>6. \A o \in Orders : OwedBy(w, o) = 0 /\ OwedBy(w, o)' = 0
      BY <2>1, <2>2, <2>3, NoneAssumption DEF OwedBy, Dispatching
    <2>7. \A o \in Orders : /\ Entitled(o) \in Nat /\ Entitled(o)' \in Nat /\ booked[o] \in Nat
                            /\ Entitled(o) <= Entitled(o)'
      BY <1>0, EntitledGrows DEF LiveTypeOK
    <2> QED
      BY <1>0, <2>1, <2>4, <2>5, <2>6, <2>7, BookingStepOfOne
  <1>5. ASSUME NEW w \in Workers, LiveCrash(w) PROVE BookingInv'
    <2>1. Return(w) /\ UNCHANGED booked /\ FaultStep(w) /\ pc'[w] # "dispatch"
      BY <1>5 DEF LiveCrash, FaultStep, Crash, Inv, TypeOK
    <2> QED
      BY <1>0, <2>1, ReturnKeepsBookings
  <1>6. CASE UNCHANGED liveVars
    BY <1>0, <1>6, DebtsRest DEF liveVars, vars, live
  <1> QED
    BY <1>1, <1>2, <1>3, <1>4, <1>5, <1>6 DEF LiveNext

\* No attempt at a row makes the worker book more than the row asked for: not
\* when both its orders filled, not when its fills went unseen, and not when the
\* row is taken from it and settled twice.
THEOREM BookingsBounded == LiveSpec => []BookedWithinAttempts
  <1>1. LiveTypeOK /\ TypeOK /\ BookingInv => BookedWithinAttempts
    <2> SUFFICES ASSUME LiveTypeOK, BookingInv, NEW o \in Orders
                 PROVE  booked[o] + ToBook(o) <= attempts[o] * Amount
      BY DEF BookedWithinAttempts
    <2> DEFINE f == [w \in Workers |-> IF booking[w] = o THEN seen[w] ELSE 0]
               g == Owed(o)
    <2>1. \A w \in Workers : f[w] \in Nat /\ g[w] \in Nat /\ f[w] <= g[w]
      BY AmountAssumption DEF Owed, OwedBy, LiveTypeOK
    <2>2. ToBook(o) = SumFunctionOnSet(f, Workers)
      BY DEF ToBook, SumFunction
    <2>3. booked[o] + SumFunctionOnSet(g, Workers) <= attempts[o] * Amount
      BY DEF BookingInv, Entitled
    <2>4. booked[o] \in Nat /\ attempts[o] * Amount \in Nat
      <3>1. attempts[o] \in Nat /\ Amount \in Nat
        BY AmountAssumption DEF LiveTypeOK, TypeOK
      <3>2. \A a, k \in Nat : a * k \in Nat
        OBVIOUS
      <3> QED
        BY <3>1, <3>2 DEF LiveTypeOK
    <2> HIDE DEF f, g
    <2>5. /\ SumFunctionOnSet(f, Workers) \in Nat /\ SumFunctionOnSet(g, Workers) \in Nat
          /\ SumFunctionOnSet(f, Workers) <= SumFunctionOnSet(g, Workers)
      BY <2>1, WorkersAssumption, SumIsNatural, SumMonotone
    <2> QED
      BY <2>2, <2>3, <2>4, <2>5
  <1>2. LiveSpec => []Inv
    BY QueueRefined, InvHolds, PTL DEF RefinesQueue
  <1>3. LiveSpec => []LiveInv
    BY <1>2, LiveInitInv, LiveInvStep, PTL DEF LiveSpec
  <1>4. LiveSpec => []BookingInv
    BY <1>2, <1>3, LiveQuantitiesTyped, BookingInit, BookingStep, PTL DEF LiveSpec
  <1>5. Inv => TypeOK
    BY DEF Inv
  <1> QED
    BY <1>1, <1>2, <1>4, <1>5, LiveQuantitiesTyped, PTL

-----------------------------------------------------------------------------
(* What a row exposes.  An order on the exchange belongs to an attempt that    *)
(* was made, there is no limit order but for rows that want one and none at    *)
(* all for signal rows, and at most one per phase where ids are refused twice. *)

OrderSound(ph, t) ==
    /\ t[2] <= attempts[t[1]]
    /\ t[1] \notin SignalRows
    /\ ph = "lmt" => t[1] \in LimitRows
    /\ t[1] \in DedupRows => \A u \in placed[ph] : u[1] = t[1] => u = t

\* A worker that waits for, cancels or places an order does so for a live row.
HandlesLiveRow(w) == step[w] \in {"wait", "cancel", "market"} => cur[w] \notin SignalRows

OrdersInv ==
    /\ \A ph \in Phases : \A t \in placed[ph] : OrderSound(ph, t)
    /\ \A t \in Tickets : t \notin placed["mkt"] => filled["mkt"][t] = 0
    /\ \A w \in Workers : HandlesLiveRow(w)

LEMMA OrdersInit == LiveInit => OrdersInv
  BY DEF LiveInit, OrdersInv, Phases, HandlesLiveRow

\* The exchange takes no new order, and no market order fills.
LEMMA NoNewOrder ==
    ASSUME LiveTypeOK, TypeOK', TableGrows, OrdersInv, UNCHANGED placed, filled'["mkt"] = filled["mkt"],
           \A w \in Workers : HandlesLiveRow(w)'
    PROVE  OrdersInv'
  <1>1. ASSUME NEW ph \in Phases, NEW t \in placed[ph] PROVE OrderSound(ph, t)'
    <2>1. t \in Tickets /\ OrderSound(ph, t)
      BY DEF LiveTypeOK, OrdersInv
    <2>2. t[1] \in Orders /\ t[2] \in Nat
      BY <2>1, MaxAttemptsAssumption DEF Tickets
    <2>3. /\ attempts[t[1]] \in Nat /\ attempts'[t[1]] \in Nat
          /\ attempts[t[1]] <= attempts'[t[1]]
      BY <2>2 DEF TableGrows, LiveTypeOK, TypeOK
    <2> QED
      BY <2>1, <2>2, <2>3 DEF OrderSound
  <1> QED
    BY <1>1 DEF OrdersInv

\* The exchange takes an order for ticket t.
LEMMA NewOrder ==
    ASSUME LiveTypeOK, OrdersInv, UNCHANGED attempts, NEW ph \in Phases, NEW t \in Tickets,
           ~Refused(ph, t), placed' = [placed EXCEPT ![ph] = @ \union {t}],
           t[2] <= attempts[t[1]], t[1] \notin SignalRows, ph = "lmt" => t[1] \in LimitRows,
           filled'["mkt"] = filled["mkt"]
             \/ (ph = "mkt" /\ \A u \in Tickets \ {t} : filled'["mkt"][u] = filled["mkt"][u]),
           \A w \in Workers : HandlesLiveRow(w)'
    PROVE  OrdersInv'
  <1>1. /\ placed'[ph] = placed[ph] \union {t}
        /\ \A p \in Phases \ {ph} : placed'[p] = placed[p]
        /\ \A p \in Phases : placed[p] \subseteq placed'[p]
    BY DEF LiveTypeOK
  <1>2. t[1] \in DedupRows => \A u \in placed[ph] : u[1] # t[1]
    BY DEF Refused, ClientOid
  <1>3. ASSUME NEW p \in Phases, NEW u \in placed'[p] PROVE OrderSound(p, u)'
    <2>1. CASE p = ph /\ u = t
      BY <1>1, <1>2, <2>1 DEF OrderSound
    <2>2. CASE ~ (p = ph /\ u = t)
      <3>1. u \in placed[p] /\ OrderSound(p, u)
        BY <1>1, <2>2 DEF OrdersInv
      <3>2. u[1] \in DedupRows => \A v \in placed'[p] : v[1] = u[1] => v = u
        BY <1>1, <1>2, <3>1 DEF OrderSound
      <3> QED
        BY <3>1, <3>2 DEF OrderSound
    <2> QED
      BY <2>1, <2>2
  <1>4. ASSUME NEW u \in Tickets, u \notin placed'["mkt"] PROVE filled'["mkt"][u] = 0
    <2>1. u \notin placed["mkt"] /\ (ph = "mkt" => u # t)
      BY <1>1, <1>4 DEF Phases
    <2> QED
      BY <2>1 DEF OrdersInv
  <1> QED
    BY <1>3, <1>4 DEF OrdersInv

\* How a dispatch brings orders to the exchange.
LEMMA OrdersOfDispatch ==
    ASSUME NEW w \in Workers, Dispatch(w)
    PROVE  \/ UNCHANGED <<placed, filled>>
           \/ /\ AcceptLimit(Ticket(w)) /\ UNCHANGED attempts
              /\ step[w] = "start" /\ cur[w] \in LimitRows
           \/ /\ \E q \in {remaining[w]} : AcceptMarket(Ticket(w), q)
              /\ UNCHANGED attempts /\ step[w] = "market"
  <1>1. CASE ClaimLiveRow(w) \/ NotifySignal(w) \/ Reject(w) \/ SkipLimitPhase(w)
    BY <1>1 DEF ClaimLiveRow, NotifySignal, Reject, SkipLimitPhase, exchange
  <1>2. CASE PlaceLimit(w)
    BY <1>2 DEF PlaceLimit, exchange, vars
  <1>3. CASE SeeLimitFills(w) \/ CancelLimit(w) \/ SeeMarketFills(w) \/ ReportSent(w) \/ BookFill(w)
    BY <1>3 DEF SeeLimitFills, CancelLimit, SeeMarketFills, ReportSent, BookFill, exchange
  <1>4. CASE PlaceMarket(w)
    <2>1. step[w] = "market" /\ UNCHANGED attempts
      BY <1>4 DEF PlaceMarket, Fail, Settle, SettleRow, SettleError, vars, table
    <2>2. AcceptMarket(Ticket(w), remaining[w]) \/ UNCHANGED exchange
      BY <1>4 DEF PlaceMarket
    <2> QED
      BY <2>1, <2>2 DEF exchange
  <1> QED
    BY <1>1, <1>2, <1>3, <1>4 DEF Dispatch

\* A dispatch moves its own worker only.
LEMMA DispatchOfOne ==
    ASSUME Inv, LiveTypeOK, NEW w \in Workers, Dispatch(w)
    PROVE  \A v \in Workers \ {w} : UNCHANGED <<pc[v], cur[v], claim[v], step[v]>>
  <1>1. UNCHANGED vars \/ WorkerStep(w) \/ FaultStep(w)
    BY DispatchRefines DEF FaultStep
  <1>2. \A v \in Workers \ {w} : UNCHANGED <<pc[v], cur[v], claim[v]>>
    BY <1>1, QueueStepOfOne DEF vars
  <1>3. \E s \in Steps : step' = [step EXCEPT ![w] = s]
    BY DEF Dispatch, ClaimLiveRow, NotifySignal, Reject, Fail, SkipLimitPhase, PlaceLimit,
           SeeLimitFills, CancelLimit, PlaceMarket, SeeMarketFills, ReportSent, BookFill,
           Return, Go, Steps
  <1>4. \A v \in Workers \ {w} : UNCHANGED step[v]
    BY <1>3 DEF LiveTypeOK
  <1> QED
    BY <1>2, <1>4

LEMMA DispatchHandlesLiveRows ==
    ASSUME Inv, LiveTypeOK, OrdersInv, NEW w \in Workers, Dispatch(w)
    PROVE  \A v \in Workers : HandlesLiveRow(v)'
  <1>1. \A v \in Workers \ {w} : HandlesLiveRow(v)'
    BY DispatchOfOne DEF OrdersInv, HandlesLiveRow
  <1> SUFFICES HandlesLiveRow(w)'
    BY <1>1
  <1>0. HandlesLiveRow(w) /\ step \in [Workers -> Steps]
    BY DEF OrdersInv, LiveTypeOK
  \* It is not about an order, or goes on with the same row.
  <1>a. ASSUME NEW s \in Steps \ {"wait", "cancel", "market"}, Go(w, s) PROVE HandlesLiveRow(w)'
    BY <1>0, <1>a DEF Go, HandlesLiveRow
  <1>b. ASSUME UNCHANGED cur, cur[w] \notin SignalRows PROVE HandlesLiveRow(w)'
    BY <1>b DEF HandlesLiveRow
  <1>2. CASE ClaimLiveRow(w) \/ NotifySignal(w) \/ Reject(w) \/ BookFill(w)
    BY <1>2, <1>a DEF ClaimLiveRow, NotifySignal, Reject, Fail, BookFill, Return, Steps
  <1>3. CASE SeeMarketFills(w) \/ ReportSent(w)
    BY <1>3, <1>a DEF SeeMarketFills, ReportSent, Steps
  <1>4. CASE SkipLimitPhase(w) \/ PlaceLimit(w)
    BY <1>4, <1>b, RowsAssumption DEF SkipLimitPhase, PlaceLimit, vars
  <1>5. CASE SeeLimitFills(w) \/ CancelLimit(w)
    BY <1>0, <1>5, <1>b DEF SeeLimitFills, CancelLimit, vars, HandlesLiveRow
  <1>6. CASE PlaceMarket(w)
    BY <1>6, <1>a DEF PlaceMarket, Fail, Return, Steps
  <1> QED
    BY <1>2, <1>3, <1>4, <1>5, <1>6 DEF Dispatch

LEMMA OrdersStep ==
    Inv /\ LiveInv /\ LiveTypeOK /\ OrdersInv /\ [LiveNext]_liveVars => OrdersInv'
  <1> SUFFICES ASSUME Inv, LiveInv, LiveTypeOK, OrdersInv, [LiveNext]_liveVars PROVE OrdersInv'
    OBVIOUS
  <1>0. TypeOK' /\ TableGrows
    BY LiveStepRefines, TypeStep, TableOnlyGrows DEF Inv
  <1>r. ASSUME UNCHANGED <<placed, step, cur>>, filled'["mkt"] = filled["mkt"] PROVE OrdersInv'
    <2>1. \A w \in Workers : HandlesLiveRow(w)'
      BY <1>r DEF OrdersInv, HandlesLiveRow
    <2> QED
      BY <1>0, <1>r, <2>1, NoNewOrder
  <1>1. ASSUME NEW o \in Orders, Enqueue(o) \/ LiveAge(o) PROVE OrdersInv'
    BY <1>1, <1>r DEF Enqueue, LiveAge, EnqueuePendingOrder, Age, workers, live, worker, exchange
  <1>2. ASSUME NEW t \in Tickets, LimitFills(t) PROVE OrdersInv'
    <2>1. filled'["mkt"] = filled["mkt"] /\ UNCHANGED <<placed, step, cur>>
      BY <1>2 DEF LimitFills, vars, worker, LiveTypeOK, Phases
    <2> QED
      BY <1>r, <2>1
  <1>3. ASSUME NEW w \in Workers, Dispatch(w) PROVE OrdersInv'
    <2>1. \A v \in Workers : HandlesLiveRow(v)'
      BY <1>3, DispatchHandlesLiveRows
    <2>2. CASE UNCHANGED <<placed, filled>>
      BY <1>0, <2>1, <2>2, NoNewOrder
    \* The ticket of a dispatch is an attempt that was made.
    <2>t. ASSUME step[w] \in {"start", "market"}
          PROVE  /\ Ticket(w) \in Tickets /\ Ticket(w)[1] = cur[w]
                 /\ Ticket(w)[2] <= attempts[Ticket(w)[1]]
      <3>1. pc[w] = "dispatch"
        BY <2>t DEF LiveInv, StepJustified
      <3> QED
        BY <3>1, DispatcherHasTicket DEF Ticket, Inv, DispatchersHoldClaims
    <2>3. ASSUME NEW t, t = Ticket(w), AcceptLimit(t), UNCHANGED attempts,
                 step[w] = "start", cur[w] \in LimitRows
          PROVE  OrdersInv'
      <3>1. t \in Tickets /\ t[1] \in LimitRows /\ t[1] \notin SignalRows /\ t[2] <= attempts[t[1]]
        BY <2>3, <2>t, RowsAssumption
      <3>2. /\ ~Refused("lmt", t) /\ placed' = [placed EXCEPT !["lmt"] = @ \union {t}]
            /\ UNCHANGED filled /\ "lmt" \in Phases
        BY <2>3 DEF AcceptLimit, Phases
      <3> QED
        BY <2>1, <2>3, <3>1, <3>2, NewOrder
    <2>4. ASSUME NEW t, t = Ticket(w), NEW qty, AcceptMarket(t, qty), UNCHANGED attempts,
                 step[w] = "market"
          PROVE  OrdersInv'
      <3>1. t \in Tickets /\ t[1] \notin SignalRows /\ t[2] <= attempts[t[1]]
        BY <2>4, <2>t DEF OrdersInv, HandlesLiveRow
      <3>2. /\ ~Refused("mkt", t) /\ placed' = [placed EXCEPT !["mkt"] = @ \union {t}]
            /\ "mkt" \in Phases
        BY <2>4 DEF AcceptMarket, Phases
      <3>3. \A u \in Tickets \ {t} : filled'["mkt"][u] = filled["mkt"][u]
        BY <2>4 DEF AcceptMarket, LiveTypeOK, Phases
      <3> QED
        BY <2>1, <2>4, <3>1, <3>2, <3>3, NewOrder
    <2> QED
      BY <1>3, <2>2, <2>3, <2>4, OrdersOfDispatch
  <1>4. ASSUME NEW w \in Workers, BetweenRows(w) PROVE OrdersInv'
    BY <1>4, <1>r DEF BetweenRows, RequeueStale, SelectBatch, SkipRow, Restart, FetchError,
                      ClaimError, live, worker, exchange
  <1>5. ASSUME NEW w \in Workers, LiveCrash(w) PROVE OrdersInv'
    <2>1. FaultStep(w) /\ Return(w) /\ UNCHANGED exchange
      BY <1>5 DEF LiveCrash, FaultStep
    <2>2. /\ step'[w] = "idle"
          /\ \A v \in Workers \ {w} : UNCHANGED <<step[v], cur[v]>>
      BY <2>1, QueueStepOfOne DEF Return, Go, LiveTypeOK
    <2>3. \A v \in Workers : HandlesLiveRow(v)'
      BY <2>2 DEF OrdersInv, HandlesLiveRow
    <2> QED
      BY <1>0, <2>1, <2>3, NoNewOrder DEF exchange
  <1>6. CASE UNCHANGED liveVars
    BY <1>6, <1>r DEF liveVars, vars, live, worker, exchange
  <1> QED
    BY <1>1, <1>2, <1>3, <1>4, <1>5, <1>6 DEF LiveNext

\* How many attempts at a row the exchange may have taken orders for.
Retries(o) == IF o \in DedupRows /\ attempts[o] > 0 THEN 1 ELSE attempts[o]

PlacedAttempts(ph, o) == {a \in 1..MaxAttempts : <<o, a>> \in placed[ph]}

LEMMA AttemptsOfRow ==
    ASSUME Inv, OrdersInv, NEW o \in Orders, NEW ph \in Phases
    PROVE  /\ IsFiniteSet(PlacedAttempts(ph, o))
           /\ Cardinality(PlacedAttempts(ph, o)) \in Nat
           /\ Cardinality(PlacedAttempts(ph, o)) <= Retries(o)
           /\ Retries(o) \in Nat
           /\ o \in SignalRows \/ (ph = "lmt" /\ o \notin LimitRows)
                 => PlacedAttempts(ph, o) = {}
  <1> DEFINE R == PlacedAttempts(ph, o)
  <1>0. attempts[o] \in Nat /\ MaxAttempts \in Nat
    BY MaxAttemptsAssumption DEF Inv, TypeOK
  <1>1. \A a \in R : OrderSound(ph, <<o, a>>)
    BY DEF OrdersInv, PlacedAttempts
  <1>2. R \subseteq 1..attempts[o]
    <2>1. \A a \in R : a \in 1..MaxAttempts /\ a <= attempts[o]
      BY <1>1 DEF OrderSound, PlacedAttempts
    <2> QED
      BY <1>0, <2>1
  <1>3. IsFiniteSet(1..attempts[o]) /\ Cardinality(1..attempts[o]) = attempts[o]
    BY <1>0, FS_Interval
  <1>4. IsFiniteSet(R) /\ Cardinality(R) \in Nat /\ Cardinality(R) <= attempts[o]
    BY <1>2, <1>3, FS_Subset, FS_CardinalityType
  <1>5. ASSUME o \in DedupRows PROVE Cardinality(R) <= 1
    <2>1. \A a, b \in R : a = b
      <3> SUFFICES ASSUME NEW a \in R, NEW b \in R PROVE a = b
        OBVIOUS
      <3>1. <<o, a>> \in placed[ph] /\ OrderSound(ph, <<o, b>>)
        BY <1>1 DEF PlacedAttempts
      <3>2. <<o, a>> = <<o, b>>
        BY <1>5, <3>1 DEF OrderSound
      <3> QED
        BY <3>2
    <2>2. CASE R = {}
      BY <2>2, FS_EmptySet
    <2>3. CASE R # {}
      <3>1. PICK a \in R : R = {a}
        BY <2>1, <2>3
      <3> QED
        BY <3>1, FS_Singleton
    <2> QED
      BY <2>2, <2>3
  <1>6. o \in SignalRows \/ (ph = "lmt" /\ o \notin LimitRows) => R = {}
    BY <1>1 DEF OrderSound
  <1> QED
    BY <1>0, <1>4, <1>5, <1>6 DEF Retries

\* What the orders of one phase expose of a row.
LEMMA PhaseBounded ==
    ASSUME Inv, OrdersInv, NEW o \in Orders, NEW ph \in Phases, NEW f,
           \A a \in 1..MaxAttempts : f[a] \in 0..Amount,
           \A a \in 1..MaxAttempts : <<o, a>> \notin placed[ph] => f[a] = 0
    PROVE  /\ SumFunctionOnSet(f, 1..MaxAttempts) \in Nat
           /\ SumFunctionOnSet(f, 1..MaxAttempts) <= Retries(o) * Amount
           /\ o \in SignalRows \/ (ph = "lmt" /\ o \notin LimitRows)
                 => SumFunctionOnSet(f, 1..MaxAttempts) = 0
  <1> DEFINE R == PlacedAttempts(ph, o)
             A == 1..MaxAttempts
  <1>1. /\ IsFiniteSet(A) /\ Amount \in Nat /\ R \in SUBSET A
        /\ \A a \in A : f[a] \in Nat /\ f[a] \in 0..Amount
        /\ \A a \in A \ R : f[a] = 0
    BY MaxAttemptsAssumption, AmountAssumption, FS_Interval DEF PlacedAttempts
  <1>2. /\ IsFiniteSet(R) /\ Cardinality(R) \in Nat /\ Retries(o) \in Nat
        /\ Cardinality(R) <= Retries(o)
        /\ o \in SignalRows \/ (ph = "lmt" /\ o \notin LimitRows) => R = {}
    BY AttemptsOfRow
  <1> HIDE DEF R, A
  <1>3. SumFunctionOnSet(f, A) = SumFunctionOnSet(f, R)
    BY <1>1, SumSupport
  <1>4. SumFunctionOnSet(f, R) <= Cardinality(R) * Amount
    BY <1>1, <1>2, SumAtMost
  <1>5. \A c, r, k \in Nat : c * k \in Nat /\ r * k \in Nat /\ (c <= r => c * k <= r * k)
    OBVIOUS
  <1>6. SumFunctionOnSet(f, A) \in Nat
    BY <1>1, SumIsNatural
  <1>7. SumFunctionOnSet(f, A) <= Retries(o) * Amount
    BY <1>1, <1>2, <1>3, <1>4, <1>5, <1>6
  <1>8. R = {} => SumFunctionOnSet(f, A) = 0
    BY <1>3, SumOfEmpty
  <1> QED
    BY <1>2, <1>6, <1>7, <1>8 DEF A

LEMMA OrdersBoundExposure ==
    ASSUME Inv, QuantityInv, OrdersInv
    PROVE  ExposureBounded
  <1> SUFFICES ASSUME NEW o \in Orders
               PROVE  LET orders == IF o \in SignalRows THEN 0 ELSE IF o \in LimitRows THEN 2 ELSE 1
                      IN  Exposure(o) <= orders * Retries(o) * Amount
    BY DEF ExposureBounded, Retries
  <1> DEFINE A == 1..MaxAttempts
             L == [a \in A |-> resting[<<o, a>>] + filled["lmt"][<<o, a>>]]
             M == [a \in A |-> filled["mkt"][<<o, a>>]]
             H == [a \in A |-> resting[<<o, a>>] + filled["lmt"][<<o, a>>] + filled["mkt"][<<o, a>>]]
  <1>1. ASSUME NEW a \in A
        PROVE  /\ L[a] \in 0..Amount /\ M[a] \in 0..Amount /\ H[a] = L[a] + M[a]
               /\ <<o, a>> \notin placed["lmt"] => L[a] = 0
               /\ <<o, a>> \notin placed["mkt"] => M[a] = 0
    <2> DEFINE t == <<o, a>>
    <2>1. t \in Tickets
      BY <1>1 DEF Tickets
    <2>2. /\ resting[t] \in 0..Amount /\ filled["lmt"][t] \in 0..Amount
          /\ filled["mkt"][t] \in 0..Amount /\ TicketSound(t)
      BY <2>1 DEF QuantityInv, LiveTypeOK, Phases
    <2>3. t \notin placed["mkt"] => filled["mkt"][t] = 0
      BY <2>1 DEF OrdersInv
    <2>4. /\ L[a] = resting[t] + filled["lmt"][t] /\ M[a] = filled["mkt"][t]
          /\ H[a] = resting[t] + filled["lmt"][t] + filled["mkt"][t]
      BY <1>1
    <2> HIDE DEF t
    <2>5. Amount \in Nat
      BY AmountAssumption
    <2>6. L[a] \in 0..Amount /\ M[a] \in 0..Amount /\ H[a] = L[a] + M[a]
      BY <2>2, <2>4, <2>5 DEF TicketSound
    <2>7. (t \notin placed["lmt"] => L[a] = 0) /\ (t \notin placed["mkt"] => M[a] = 0)
      BY <2>2, <2>3, <2>4 DEF TicketSound
    <2> QED
      BY <2>6, <2>7 DEF t
  <1>2. Exposure(o) = SumFunctionOnSet(H, A)
    BY DEF Exposure, SumFunction
  <1>3. IsFiniteSet(A) /\ Amount \in Nat
    BY MaxAttemptsAssumption, AmountAssumption, FS_Interval
  <1> HIDE DEF L, M, H
  <1>4. "lmt" \in Phases /\ "mkt" \in Phases
    BY DEF Phases
  <1>5. /\ SumFunctionOnSet(L, A) \in Nat /\ SumFunctionOnSet(L, A) <= Retries(o) * Amount
        /\ o \in SignalRows \/ o \notin LimitRows => SumFunctionOnSet(L, A) = 0
    BY <1>1, <1>4, PhaseBounded
  <1>6. /\ SumFunctionOnSet(M, A) \in Nat /\ SumFunctionOnSet(M, A) <= Retries(o) * Amount
        /\ o \in SignalRows => SumFunctionOnSet(M, A) = 0
    BY <1>1, <1>4, PhaseBounded
  <1>7. SumFunctionOnSet(H, A) = SumFunctionOnSet(L, A) + SumFunctionOnSet(M, A)
    <2> HIDE DEF A
    <2>1. \A a \in A : L[a] \in 0..Amount /\ M[a] \in 0..Amount /\ H[a] = L[a] + M[a]
      BY <1>1
    <2>2. \A a \in A : L[a] \in Nat /\ M[a] \in Nat /\ H[a] = L[a] + M[a]
      BY <1>3, <2>1
    <2> QED
      BY <1>3, <2>2, SumOfSums
  <1>8. Retries(o) \in Nat
    BY <1>4, AttemptsOfRow
  <1>9. \A r, k \in Nat : /\ r * k \in Nat /\ 0 * r * k = 0 /\ 1 * r * k = r * k
                          /\ 2 * r * k = r * k + r * k
    OBVIOUS
  <1> QED
    BY <1>2, <1>3, <1>5, <1>6, <1>7, <1>8, <1>9

\* A row never exposes more than its quantity per attempt and order, and where
\* the exchange refuses a repeated client order id, not more for a retry: for any
\* number of workers, whatever answers are lost and whoever takes the row over.
THEOREM ExposureLimited == LiveSpec => []ExposureBounded
  <1>1. Inv /\ QuantityInv /\ OrdersInv => ExposureBounded
    BY OrdersBoundExposure
  <1>2. LiveSpec => []Inv
    BY QueueRefined, InvHolds, PTL DEF RefinesQueue
  <1>3. LiveSpec => []LiveInv
    BY <1>2, LiveInitInv, LiveInvStep, PTL DEF LiveSpec
  <1>4. LiveSpec => []OrdersInv
    BY <1>2, <1>3, LiveQuantitiesTyped, OrdersInit, OrdersStep, PTL DEF LiveSpec
  <1> QED
    BY <1>1, <1>2, <1>4, QuantityHolds, PTL

-----------------------------------------------------------------------------
(* What the queue keeps, it keeps with live dispatches too.                   *)
THEOREM LiveQueueKeepsPromise == LiveSpec => KeepsPromise /\ SettledForGood
  BY QueueRefined, QueueKeepsPromise, SettledStaysSettled, PTL DEF RefinesQueue

\* A live order whose dispatch never outlives the stale limit is processed by
\* one worker only, booked at most once, and exposes one attempt's orders.
THEOREM FreshRowsTradeOnce ==
    ASSUME NEW o \in Orders
    PROVE  LiveSpec /\ [](~stale[o]) =>
              [](/\ ProcessedOnce(o)
                 /\ booked[o] + ToBook(o) <= Amount
                 /\ Exposure(o) <= (IF o \in SignalRows THEN 0
                                    ELSE IF o \in LimitRows THEN 2 ELSE 1) * Amount)
  <1> DEFINE Count == IF o \in SignalRows THEN 0 ELSE IF o \in LimitRows THEN 2 ELSE 1
             Once == /\ ProcessedOnce(o)
                     /\ booked[o] + ToBook(o) <= Amount
                     /\ Exposure(o) <= Count * Amount
  <1>1. LiveSpec /\ [](~stale[o]) => [](ProcessedOnce(o) /\ attempts[o] <= 1)
    BY QueueRefined, FreshRowsProcessedOnce, PTL DEF RefinesQueue
  <1>2. /\ LiveTypeOK /\ TypeOK /\ BookedWithinAttempts /\ ExposureBounded
        /\ ProcessedOnce(o) /\ attempts[o] <= 1
        => Once
    <2> SUFFICES ASSUME LiveTypeOK, TypeOK, BookedWithinAttempts, ExposureBounded,
                        ProcessedOnce(o), attempts[o] <= 1
                 PROVE  Once
      OBVIOUS
    <2>1. attempts[o] \in {0, 1} /\ Amount \in Nat /\ booked[o] \in Nat
      <3>1. attempts[o] \in Nat
        BY DEF TypeOK
      <3>2. attempts[o] \in {0, 1}
        BY <3>1
      <3>3. Amount \in Nat /\ MaxAttempts \in Nat
        BY AmountAssumption, MaxAttemptsAssumption
      <3>4. booked[o] \in Nat
        BY DEF LiveTypeOK
      <3> QED
        BY <3>2, <3>3, <3>4
    <2>2. attempts[o] * Amount \in Nat /\ attempts[o] * Amount <= Amount
      BY <2>1
    <2>3. ToBook(o) \in Nat
      <3> DEFINE f == [w \in Workers |-> IF booking[w] = o THEN seen[w] ELSE 0]
      <3>1. \A w \in Workers : f[w] \in Nat
        BY <2>1 DEF LiveTypeOK
      <3>2. ToBook(o) = SumFunctionOnSet(f, Workers)
        BY DEF ToBook, SumFunction
      <3> HIDE DEF f
      <3> QED
        BY <3>1, <3>2, WorkersAssumption, SumIsNatural
    <2>4. booked[o] + ToBook(o) <= attempts[o] * Amount
      BY DEF BookedWithinAttempts
    <2>5. booked[o] + ToBook(o) <= Amount
      BY <2>1, <2>2, <2>3, <2>4
    <2>6. Exposure(o) <= Count * Retries(o) * Amount
      BY DEF ExposureBounded, Retries
    <2>7. Exposure(o) \in Nat
      <3> DEFINE h == [a \in 1..MaxAttempts |->
                          resting[<<o, a>>] + filled["lmt"][<<o, a>>] + filled["mkt"][<<o, a>>]]
      <3>1. \A a \in 1..MaxAttempts : h[a] \in Nat
        <4> SUFFICES ASSUME NEW a \in 1..MaxAttempts PROVE h[a] \in Nat
          OBVIOUS
        <4>1. <<o, a>> \in Tickets
          BY DEF Tickets
        <4>2. /\ resting[<<o, a>>] \in 0..Amount /\ filled["lmt"][<<o, a>>] \in 0..Amount
              /\ filled["mkt"][<<o, a>>] \in 0..Amount
          BY <4>1 DEF LiveTypeOK, Phases
        <4> QED
          BY <2>1, <4>2
      <3>2. IsFiniteSet(1..MaxAttempts)
        BY MaxAttemptsAssumption, FS_Interval
      <3>3. Exposure(o) = SumFunctionOnSet(h, 1..MaxAttempts)
        BY DEF Exposure, SumFunction
      <3> HIDE DEF h
      <3> QED
        BY <3>1, <3>2, <3>3, SumIsNatural
    <2>8. Retries(o) \in {0, 1}
      BY <2>1 DEF Retries
    <2>9. Count \in {0, 1, 2}
      OBVIOUS
    <2> HIDE DEF Count
    <2>10. Count * Retries(o) * Amount <= Count * Amount /\ Count * Retries(o) * Amount \in Nat
      <3>1. CASE Retries(o) = 0
        BY <2>1, <2>9, <3>1
      <3>2. CASE Retries(o) = 1
        BY <2>1, <2>9, <3>2
      <3> QED
        BY <2>8, <3>1, <3>2
    <2>11. Exposure(o) <= Count * Amount
      <3>1. Count * Amount \in Nat
        BY <2>1, <2>9
      <3> QED
        BY <2>6, <2>7, <2>10, <3>1
    <2> QED
      BY <2>5, <2>11
  <1>3. LiveSpec => []TypeOK
    BY QueueRefined, TypeCorrect, PTL DEF RefinesQueue
  <1> QED
    BY <1>1, <1>2, <1>3, LiveQuantitiesTyped, BookingsBounded, ExposureLimited, PTL
=============================================================================
