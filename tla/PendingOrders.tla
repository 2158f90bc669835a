--------------------------- MODULE PendingOrders ---------------------------
(***************************************************************************)
(* The pending_orders table and the workers that drain it                   *)
(* (services/pending_order_worker.py; rows are inserted by                  *)
(* TradingExecutor._enqueue_pending_order).                                 *)
(*                                                                          *)
(* Every server process runs one PendingOrderWorker thread against the same *)
(* table.  A tick requeues stale rows, selects a batch, and for each row of *)
(* the batch claims it with a conditional UPDATE, dispatches it and settles *)
(* it.  Each of these is a database transaction of its own, so the ticks of *)
(* two workers interleave between them.  How a dispatch ends is left open   *)
(* here; LiveExecution says what a live dispatch does.                      *)
(***************************************************************************)
EXTENDS Integers, FiniteSets

CONSTANTS Orders,       \* row ids, in the order the sequence hands them out
          Strategies,
          StrategyOf,   \* the strategy_id column of each row
          Workers,      \* one worker thread per server process
          MaxAttempts,  \* the max_attempts column
          BatchSize,    \* LIMIT of the select
          MaxFaults,    \* bound: crashes and database errors in a behaviour
          None

ASSUME OrdersAssumption      == Orders \subseteq Nat /\ IsFiniteSet(Orders)
ASSUME StrategyAssumption    == StrategyOf \in [Orders -> Strategies]
ASSUME MaxAttemptsAssumption == MaxAttempts \in Nat \ {0}
ASSUME BatchSizeAssumption   == BatchSize \in Nat \ {0}
ASSUME MaxFaultsAssumption   == MaxFaults \in Nat
ASSUME NoneAssumption        == None \notin Orders

VARIABLES status,    \* the status column; "absent" before the INSERT
          attempts,  \* the attempts column
          stale,     \* updated_at is older than PENDING_ORDER_STALE_SEC
          pc,        \* where each worker is in its tick
          batch,     \* rows it selected and has not yet tried to claim
          cur,       \* the row it is dispatching
          claim,     \* the value of attempts its own claim wrote (history)
          faults     \* crashes and database errors so far

table   == <<status, attempts, stale>>
workers == <<pc, batch, cur, claim>>
vars    == <<status, attempts, stale, pc, batch, cur, claim, faults>>

Settled  == {"sent", "failed"}
Statuses == {"absent", "pending", "processing"} \union Settled
Stages   == {"down", "requeue", "select", "claim", "dispatch"}

TypeOK ==
    /\ status   \in [Orders -> Statuses]
    /\ attempts \in [Orders -> Nat]
    /\ stale    \in [Orders -> BOOLEAN]
    /\ pc       \in [Workers -> Stages]
    /\ batch    \in [Workers -> SUBSET Orders]
    /\ cur      \in [Workers -> Orders \union {None}]
    /\ claim    \in [Workers -> Nat]
    /\ faults   \in 0..MaxFaults

Init ==
    /\ status   = [o \in Orders |-> "absent"]
    /\ attempts = [o \in Orders |-> 0]
    /\ stale    = [o \in Orders |-> FALSE]
    /\ pc       = [w \in Workers |-> "requeue"]
    /\ batch    = [w \in Workers |-> {}]
    /\ cur      = [w \in Workers |-> None]
    /\ claim    = [w \in Workers |-> 0]
    /\ faults   = 0

-----------------------------------------------------------------------------
(* Strategy threads and the clock.                                          *)

\* A strategy's own thread inserts its rows one after the other.
EnqueuePendingOrder(o) ==
    /\ status[o] = "absent"
    /\ \A p \in Orders : p < o /\ StrategyOf[p] = StrategyOf[o] => status[p] # "absent"
    /\ status' = [status EXCEPT ![o] = "pending"]
    /\ UNCHANGED <<attempts, stale, workers, faults>>

\* Nothing touches updated_at while a row is being dispatched, so any claim
\* that lasts longer than the stale limit ages, whether its worker lives or not.
Age(o) ==
    /\ status[o] = "processing" /\ ~stale[o]
    /\ stale' = [stale EXCEPT ![o] = TRUE]
    /\ UNCHANGED <<status, attempts, workers, faults>>

-----------------------------------------------------------------------------
(* One tick of a worker.                                                    *)

\* The loop sleeps and starts the next tick with nothing in hand.
EndTick(w) ==
    /\ pc'    = [pc EXCEPT ![w] = "requeue"]
    /\ batch' = [batch EXCEPT ![w] = {}]

\* Go on with the rest of the batch, or end the tick after its last row.
NextRow(w, rest) ==
    /\ pc'    = [pc EXCEPT ![w] = IF rest = {} THEN "requeue" ELSE "claim"]
    /\ batch' = [batch EXCEPT ![w] = rest]

\* The row the worker's loop over its batch is at.
AtRow(w, o) == o \in batch[w] /\ \A p \in batch[w] : o <= p

\* Bug variants of Reclaimable: the limit forgotten, and off by one.
ReclaimableUnbounded(o) == status[o] = "processing" /\ stale[o]
ReclaimableOffByOne(o)  == status[o] = "processing" /\ stale[o] /\ attempts[o] + 1 < MaxAttempts

Reclaimable(o) == status[o] = "processing" /\ stale[o] /\ attempts[o] < MaxAttempts

\* First transaction of _fetch_pending_orders.
RequeueStale(w) ==
    /\ pc[w] = "requeue"
    /\ status' = [o \in Orders |-> IF Reclaimable(o) THEN "pending" ELSE status[o]]
    /\ stale'  = [o \in Orders |-> stale[o] /\ ~Reclaimable(o)]
    /\ pc'     = [pc EXCEPT ![w] = "select"]
    /\ UNCHANGED <<attempts, batch, cur, claim, faults>>

Selectable == {o \in Orders : status[o] = "pending" /\ attempts[o] < MaxAttempts}

\* Bug variant of Page: newest rows first.
PageLatestFirst(rows) == {o \in rows : Cardinality({p \in rows : p > o}) < BatchSize}

\* ORDER BY priority DESC, id ASC LIMIT n; every row is inserted with priority 0.
Page(rows) == {o \in rows : Cardinality({p \in rows : p < o}) < BatchSize}

\* Second transaction of _fetch_pending_orders.
SelectBatch(w) ==
    /\ pc[w] = "select"
    /\ NextRow(w, Page(Selectable))
    /\ UNCHANGED <<table, cur, claim, faults>>

\* Bug variants of Claimable: failed rows retried, and no check of the status.
ClaimableFailed(o)    == status[o] \in {"pending", "failed"}
ClaimableUnchecked(o) == status[o] \in {"pending", "processing"}

\* The condition of the claiming UPDATE: it looks at the status only.
Claimable(o) == status[o] = "pending"

\* Bug variant of ClaimRow: the attempt is not counted.
ClaimRowUncounted(o) ==
    /\ status'   = [status EXCEPT ![o] = "processing"]
    /\ stale'    = [stale EXCEPT ![o] = FALSE]
    /\ UNCHANGED attempts

ClaimRow(o) ==
    /\ status'   = [status EXCEPT ![o] = "processing"]
    /\ attempts' = [attempts EXCEPT ![o] = @ + 1]
    /\ stale'    = [stale EXCEPT ![o] = FALSE]

\* _mark_processing changed one row: dispatch it.
MarkProcessing(w) ==
    /\ pc[w] = "claim"
    /\ \E o \in Orders :
         /\ AtRow(w, o)
         /\ Claimable(o)
         /\ ClaimRow(o)
         /\ cur'   = [cur EXCEPT ![w] = o]
         /\ claim' = [claim EXCEPT ![w] = attempts[o] + 1]
         /\ batch' = [batch EXCEPT ![w] = @ \ {o}]
    /\ pc' = [pc EXCEPT ![w] = "dispatch"]
    /\ UNCHANGED faults

\* _mark_processing changed no row: somebody else took it, try the next one.
SkipRow(w) ==
    /\ pc[w] = "claim"
    /\ \E o \in Orders : AtRow(w, o) /\ ~Claimable(o) /\ NextRow(w, batch[w] \ {o})
    /\ UNCHANGED <<table, cur, claim, faults>>

\* Bug variant of SettleRow: a failure parks the row as 'deferred'.
SettleRowDeferred(w, outcome) ==
    /\ status' = [status EXCEPT ![cur[w]] = IF outcome = "failed" THEN "deferred" ELSE outcome]
    /\ stale'  = [stale EXCEPT ![cur[w]] = FALSE]
    /\ UNCHANGED attempts

\* The row gets its final status, whatever its status is now, and the worker
\* goes on with its batch: _mark_sent and _mark_failed match the id only.
SettleRow(w, outcome) ==
    /\ status' = [status EXCEPT ![cur[w]] = outcome]
    /\ stale'  = [stale EXCEPT ![cur[w]] = FALSE]
    /\ UNCHANGED attempts

Release(w) ==
    /\ cur'   = [cur EXCEPT ![w] = None]
    /\ claim' = [claim EXCEPT ![w] = 0]

Settle(w, outcome) ==
    /\ pc[w] = "dispatch"
    /\ SettleRow(w, outcome)
    /\ Release(w)
    /\ NextRow(w, batch[w])
    /\ UNCHANGED faults

-----------------------------------------------------------------------------
(* What goes wrong: database errors the code swallows, and dead processes.   *)

Fault == faults < MaxFaults /\ faults' = faults + 1

\* _fetch_pending_orders caught an exception and returned no rows.
FetchError(w) ==
    /\ Fault
    /\ pc[w] \in {"requeue", "select"}
    /\ EndTick(w)
    /\ UNCHANGED <<table, cur, claim>>

\* _mark_processing caught an exception: the row is skipped, and the claim may
\* have been committed before the connection broke.
ClaimError(w) ==
    /\ Fault
    /\ pc[w] = "claim"
    /\ \E o \in Orders :
         /\ AtRow(w, o)
         /\ NextRow(w, batch[w] \ {o})
         /\ UNCHANGED table \/ (Claimable(o) /\ ClaimRow(o))
    /\ UNCHANGED <<cur, claim>>

\* The final status could not be written.  A lost _mark_sent of a live order is
\* logged and the batch goes on; a lost _mark_failed ends the tick.
SettleError(w) ==
    /\ Fault
    /\ pc[w] = "dispatch"
    /\ NextRow(w, batch[w]) \/ EndTick(w)
    /\ Release(w)
    /\ UNCHANGED table

\* The process dies; what it had in hand is gone, the table stays.
Crash(w) ==
    /\ Fault
    /\ pc[w] # "down"
    /\ pc'    = [pc EXCEPT ![w] = "down"]
    /\ batch' = [batch EXCEPT ![w] = {}]
    /\ Release(w)
    /\ UNCHANGED table

\* create_app starts a fresh worker.
Restart(w) ==
    /\ pc[w] = "down"
    /\ pc' = [pc EXCEPT ![w] = "requeue"]
    /\ UNCHANGED <<table, batch, cur, claim, faults>>

-----------------------------------------------------------------------------
WorkerStep(w) ==
    \/ RequeueStale(w)
    \/ SelectBatch(w)
    \/ MarkProcessing(w)
    \/ SkipRow(w)
    \/ \E outcome \in Settled : Settle(w, outcome)
    \/ Restart(w)

FaultStep(w) ==
    \/ FetchError(w)
    \/ ClaimError(w)
    \/ SettleError(w)
    \/ Crash(w)

Next ==
    \/ \E o \in Orders : EnqueuePendingOrder(o) \/ Age(o)
    \/ \E w \in Workers : WorkerStep(w) \/ FaultStep(w)

Spec == Init /\ [][Next]_vars

\* A worker thread that can step does, a dead process is started again, and time
\* passes.  Nothing makes a strategy emit an order or a fault happen.
Fairness ==
    /\ \A w \in Workers : WF_vars(WorkerStep(w))
    /\ \A o \in Orders : WF_vars(Age(o))

FairSpec == Spec /\ Fairness

-----------------------------------------------------------------------------
(* Properties.                                                              *)

Dispatching(w, o) == pc[w] = "dispatch" /\ cur[w] = o

\* No row is tried more than max_attempts times, although the claiming UPDATE
\* does not look at attempts: a batch selected long ago may be claimed now.
AttemptsWithinLimit == \A o \in Orders : attempts[o] <= MaxAttempts

\* Two workers never hold the same claim: when both dispatch one row, each has
\* used up an attempt of its own.
OneDispatcherPerClaim ==
    \A v, w \in Workers, o \in Orders :
        v # w /\ Dispatching(v, o) /\ Dispatching(w, o) => claim[v] # claim[w]

\* While nothing fails, the orders of a strategy are first claimed in the order
\* the strategy emitted them, whichever workers take them.
FirstClaimsInOrder ==
    faults = 0 =>
        \A o, p \in Orders :
            /\ p < o
            /\ StrategyOf[p] = StrategyOf[o]
            /\ attempts[o] > 0
            => attempts[p] > 0

\* A settled order is never dispatched anew: no later claim, requeue or late
\* answer of a slower worker brings it back or costs it another attempt.
SettledForGood ==
    [][\A o \in Orders : status[o] \in Settled =>
          status'[o] \in Settled /\ attempts'[o] = attempts[o]]_vars

\* The row is left in 'processing' after its last attempt: nothing reclaims it.
Stranded(o) ==
    /\ status[o] = "processing"
    /\ attempts[o] = MaxAttempts
    /\ \A w \in Workers : cur[w] # o

\* Every order is eventually sent or failed, or used its last attempt and was
\* abandoned in it.
EventuallySettled ==
    \A o \in Orders : status[o] = "pending" ~> status[o] \in Settled \/ Stranded(o)

\* The promise read off the table: pending and processing rows are open.
Promise == INSTANCE OrderPromise WITH
    phase <- [o \in Orders |-> CASE status[o] = "absent" -> "absent"
                                 [] status[o] \in Settled -> "closed"
                                 [] OTHER -> "open"],
    tries <- attempts

\* The table and its workers keep what the queue promises (OrderPromise).
KeepsPromise == Promise!Spec

\* What the comment of the claiming UPDATE promises: no two workers process one
\* order at the same time.
NoDoubleProcessing ==
    \A v, w \in Workers, o \in Orders :
        Dispatching(v, o) /\ Dispatching(w, o) => v = w
=============================================================================
