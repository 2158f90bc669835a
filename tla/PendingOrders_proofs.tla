------------------------ MODULE PendingOrders_proofs ------------------------
(***************************************************************************)
(* Proofs about PendingOrders for any set of orders, any number of workers   *)
(* and any limits.                                                           *)
(***************************************************************************)
EXTENDS PendingOrders, FiniteSetTheorems, TLAPS

(* The inductive invariant.                                                  *)

\* A row can only be claimed while it has attempts left.  The claiming UPDATE
\* does not look at attempts, so this is what keeps them within the limit.
PendingHasAttemptsLeft ==
    \A o \in Orders : status[o] = "pending" => attempts[o] < MaxAttempts

\* A row leaves 'pending' only through a claim, and none is claimed before it exists.
TakenRowsWereClaimed ==
    \A o \in Orders :
        /\ status[o] = "absent" => attempts[o] = 0
        /\ status[o] \in {"processing"} \union Settled => attempts[o] > 0

\* Workers hold rows of the table only.
BatchesAreRows ==
    \A w \in Workers : \A o \in batch[w] : status[o] # "absent"

\* A dispatching worker has a row, and an attempt of that row is its own.
DispatchersHoldClaims ==
    \A w \in Workers : pc[w] = "dispatch" =>
        /\ cur[w] \in Orders
        /\ status[cur[w]] # "absent"
        /\ claim[w] > 0
        /\ claim[w] <= attempts[cur[w]]

Inv ==
    /\ TypeOK
    /\ AttemptsWithinLimit
    /\ PendingHasAttemptsLeft
    /\ TakenRowsWereClaimed
    /\ BatchesAreRows
    /\ DispatchersHoldClaims
    /\ OneDispatcherPerClaim

USE OrdersAssumption, MaxAttemptsAssumption, MaxFaultsAssumption, NoneAssumption

LEMMA InitInv == Init => Inv
  BY DEF Init, Inv, TypeOK, AttemptsWithinLimit, PendingHasAttemptsLeft,
         TakenRowsWereClaimed, BatchesAreRows, DispatchersHoldClaims,
         OneDispatcherPerClaim, Dispatching, Statuses, Stages, Settled

(* Every step keeps the types.                                               *)
LEMMA TypeStep == TypeOK /\ [Next]_vars => TypeOK'
  <1> SUFFICES ASSUME TypeOK, [Next]_vars PROVE TypeOK'
    OBVIOUS
  <1> USE DEF TypeOK, Statuses, Stages, Settled, table, workers
  <1>1. ASSUME NEW o \in Orders, EnqueuePendingOrder(o) PROVE TypeOK'
    BY <1>1 DEF EnqueuePendingOrder
  <1>2. ASSUME NEW o \in Orders, Age(o) PROVE TypeOK'
    BY <1>2 DEF Age
  <1>3. ASSUME NEW w \in Workers, RequeueStale(w) PROVE TypeOK'
    BY <1>3 DEF RequeueStale, Reclaimable
  <1>4. ASSUME NEW w \in Workers, SelectBatch(w) PROVE TypeOK'
    BY <1>4 DEF SelectBatch, NextRow, Page, Selectable
  <1>5. ASSUME NEW w \in Workers, MarkProcessing(w) PROVE TypeOK'
    BY <1>5 DEF MarkProcessing, ClaimRow
  <1>6. ASSUME NEW w \in Workers, SkipRow(w) PROVE TypeOK'
    BY <1>6 DEF SkipRow, NextRow
  <1>7. ASSUME NEW w \in Workers, NEW outcome \in Settled, Settle(w, outcome) PROVE TypeOK'
    BY <1>7 DEF Settle, SettleRow, Release, NextRow
  <1>8. ASSUME NEW w \in Workers, Restart(w) PROVE TypeOK'
    BY <1>8 DEF Restart
  <1>9. ASSUME NEW w \in Workers, FetchError(w) PROVE TypeOK'
    BY <1>9 DEF FetchError, Fault, EndTick
  <1>10. ASSUME NEW w \in Workers, ClaimError(w) PROVE TypeOK'
    <2>1. PICK o \in Orders :
             /\ NextRow(w, batch[w] \ {o})
             /\ UNCHANGED table \/ (Claimable(o) /\ ClaimRow(o))
      BY <1>10 DEF ClaimError
    <2>2. /\ status'   \in [Orders -> Statuses]
          /\ attempts' \in [Orders -> Nat]
          /\ stale'    \in [Orders -> BOOLEAN]
      <3>1. CASE UNCHANGED table
        BY <3>1
      <3>2. CASE ClaimRow(o)
        BY <3>2 DEF ClaimRow
      <3> QED BY <2>1, <3>1, <3>2
    <2> QED BY <1>10, <2>1, <2>2 DEF ClaimError, Fault, NextRow
  <1>11. ASSUME NEW w \in Workers, SettleError(w) PROVE TypeOK'
    BY <1>11 DEF SettleError, Fault, NextRow, EndTick, Release
  <1>12. ASSUME NEW w \in Workers, Crash(w) PROVE TypeOK'
    BY <1>12 DEF Crash, Fault, Release
  <1>13. CASE UNCHANGED vars
    BY <1>13 DEF vars
  <1> QED
    BY <1>1, <1>2, <1>3, <1>4, <1>5, <1>6, <1>7, <1>8, <1>9, <1>10, <1>11, <1>12, <1>13
       DEF Next, WorkerStep, FaultStep

(* Every step keeps the rest of the invariant.  The row's own facts first:    *)
(* they depend on the table only.                                            *)
TableInv == AttemptsWithinLimit /\ PendingHasAttemptsLeft /\ TakenRowsWereClaimed

LEMMA ClaimKeepsTable ==
    ASSUME TypeOK, TableInv, NEW o \in Orders, Claimable(o), ClaimRow(o)
    PROVE  TableInv'
  BY DEF TypeOK, TableInv, AttemptsWithinLimit, PendingHasAttemptsLeft, TakenRowsWereClaimed,
         Claimable, ClaimRow, Settled

\* A settled row must have been claimed; the settling worker's claim says so.
LEMMA SettleKeepsTable ==
    ASSUME TypeOK, TableInv, DispatchersHoldClaims,
           NEW w \in Workers, pc[w] = "dispatch",
           NEW outcome \in Settled, SettleRow(w, outcome)
    PROVE  TableInv'
  <1>1. cur[w] \in Orders /\ attempts[cur[w]] > 0
    <2>1. cur[w] \in Orders /\ claim[w] > 0 /\ claim[w] <= attempts[cur[w]]
      BY DEF DispatchersHoldClaims
    <2>2. claim[w] \in Nat /\ attempts[cur[w]] \in Nat
      BY <2>1 DEF TypeOK
    <2> QED
      BY <2>1, <2>2
  <1> QED
    BY <1>1 DEF TypeOK, TableInv, AttemptsWithinLimit, PendingHasAttemptsLeft,
                TakenRowsWereClaimed, SettleRow, Settled

LEMMA TableStep == Inv /\ [Next]_vars => TableInv'
  <1> SUFFICES ASSUME Inv, [Next]_vars PROVE TableInv'
    OBVIOUS
  <1>0. TypeOK /\ TableInv /\ DispatchersHoldClaims
    BY DEF Inv, TableInv
  <1>u. ASSUME UNCHANGED table PROVE TableInv'
    BY <1>0, <1>u DEF table, TableInv, AttemptsWithinLimit, PendingHasAttemptsLeft,
                      TakenRowsWereClaimed
  <1>1. ASSUME NEW o \in Orders, EnqueuePendingOrder(o) PROVE TableInv'
    BY <1>0, <1>1 DEF EnqueuePendingOrder, TableInv, AttemptsWithinLimit,
                      PendingHasAttemptsLeft, TakenRowsWereClaimed, Settled, TypeOK
  <1>2. ASSUME NEW o \in Orders, Age(o) PROVE TableInv'
    BY <1>0, <1>2 DEF Age, TableInv, AttemptsWithinLimit, PendingHasAttemptsLeft,
                      TakenRowsWereClaimed
  <1>3. ASSUME NEW w \in Workers, RequeueStale(w) PROVE TableInv'
    BY <1>0, <1>3 DEF RequeueStale, Reclaimable, TableInv, AttemptsWithinLimit,
                      PendingHasAttemptsLeft, TakenRowsWereClaimed, Settled, TypeOK
  <1>4. ASSUME NEW w \in Workers, SelectBatch(w) PROVE TableInv'
    BY <1>4, <1>u DEF SelectBatch
  <1>5. ASSUME NEW w \in Workers, MarkProcessing(w) PROVE TableInv'
    BY <1>0, <1>5, ClaimKeepsTable DEF MarkProcessing
  <1>6. ASSUME NEW w \in Workers, SkipRow(w) PROVE TableInv'
    BY <1>6, <1>u DEF SkipRow
  <1>7. ASSUME NEW w \in Workers, NEW outcome \in Settled, Settle(w, outcome) PROVE TableInv'
    BY <1>0, <1>7, SettleKeepsTable DEF Settle
  <1>8. ASSUME NEW w \in Workers, Restart(w) PROVE TableInv'
    BY <1>8, <1>u DEF Restart
  <1>9. ASSUME NEW w \in Workers, FetchError(w) PROVE TableInv'
    BY <1>9, <1>u DEF FetchError
  <1>10. ASSUME NEW w \in Workers, ClaimError(w) PROVE TableInv'
    BY <1>0, <1>10, <1>u, ClaimKeepsTable DEF ClaimError
  <1>11. ASSUME NEW w \in Workers, SettleError(w) PROVE TableInv'
    BY <1>11, <1>u DEF SettleError
  <1>12. ASSUME NEW w \in Workers, Crash(w) PROVE TableInv'
    BY <1>12, <1>u DEF Crash
  <1>13. CASE UNCHANGED vars
    BY <1>13, <1>u DEF vars, table
  <1> QED
    BY <1>1, <1>2, <1>3, <1>4, <1>5, <1>6, <1>7, <1>8, <1>9, <1>10, <1>11, <1>12, <1>13
       DEF Next, WorkerStep, FaultStep

(* Rows are never deleted and attempts never taken back.                      *)
TableGrows ==
    \A o \in Orders :
        /\ status[o] # "absent" => status'[o] # "absent"
        /\ attempts[o] <= attempts'[o]

LEMMA TableOnlyGrows == TypeOK /\ [Next]_vars => TableGrows
  <1> SUFFICES ASSUME TypeOK, [Next]_vars PROVE TableGrows
    OBVIOUS
  <1> USE DEF TypeOK, TableGrows, table
  <1>u. ASSUME UNCHANGED table PROVE TableGrows
    BY <1>u
  <1>c. ASSUME NEW o \in Orders, ClaimRow(o) PROVE TableGrows
    BY <1>c DEF ClaimRow
  <1>1. ASSUME NEW o \in Orders, EnqueuePendingOrder(o) \/ Age(o) PROVE TableGrows
    BY <1>1 DEF EnqueuePendingOrder, Age
  <1>2. ASSUME NEW w \in Workers, RequeueStale(w) PROVE TableGrows
    BY <1>2 DEF RequeueStale
  <1>3. ASSUME NEW w \in Workers, MarkProcessing(w) \/ ClaimError(w) PROVE TableGrows
    BY <1>3, <1>c, <1>u DEF MarkProcessing, ClaimError
  <1>4. ASSUME NEW w \in Workers, NEW outcome \in Settled, Settle(w, outcome) PROVE TableGrows
    BY <1>4 DEF Settle, SettleRow, Settled
  <1>5. ASSUME NEW w \in Workers,
               \/ SelectBatch(w) \/ SkipRow(w) \/ Restart(w)
               \/ FetchError(w) \/ SettleError(w) \/ Crash(w)
        PROVE  TableGrows
    BY <1>5, <1>u DEF SelectBatch, SkipRow, Restart, FetchError, SettleError, Crash
  <1>6. CASE UNCHANGED vars
    BY <1>6, <1>u DEF vars
  <1> QED
    BY <1>1, <1>2, <1>3, <1>4, <1>5, <1>6 DEF Next, WorkerStep, FaultStep

(* A worker's batch: it shrinks, except when the worker selects a new one.    *)
LEMMA BatchShrinks ==
    ASSUME TypeOK, [Next]_vars, NEW w \in Workers
    PROVE  batch'[w] \subseteq batch[w] \/ SelectBatch(w)
  <1> USE DEF TypeOK, workers
  <1>1. ASSUME NEW o \in Orders, EnqueuePendingOrder(o) \/ Age(o)
        PROVE  batch'[w] \subseteq batch[w]
    BY <1>1 DEF EnqueuePendingOrder, Age
  <1>2. ASSUME NEW v \in Workers, \/ RequeueStale(v) \/ MarkProcessing(v) \/ SkipRow(v)
                                  \/ Restart(v) \/ Crash(v) \/ FetchError(v)
        PROVE  batch'[w] \subseteq batch[w]
    BY <1>2 DEF RequeueStale, MarkProcessing, SkipRow, Restart, Crash, FetchError,
                NextRow, EndTick
  <1>3. ASSUME NEW v \in Workers, SelectBatch(v)
        PROVE  batch'[w] \subseteq batch[w] \/ SelectBatch(w)
    BY <1>3 DEF SelectBatch, NextRow
  <1>4. ASSUME NEW v \in Workers, NEW outcome \in Settled, Settle(v, outcome)
        PROVE  batch'[w] \subseteq batch[w]
    BY <1>4 DEF Settle, NextRow
  <1>5. ASSUME NEW v \in Workers, ClaimError(v) \/ SettleError(v)
        PROVE  batch'[w] \subseteq batch[w]
    BY <1>5 DEF ClaimError, SettleError, NextRow, EndTick
  <1>6. CASE UNCHANGED vars
    BY <1>6 DEF vars
  <1> QED
    BY <1>1, <1>2, <1>3, <1>4, <1>5, <1>6 DEF Next, WorkerStep, FaultStep

LEMMA BatchStep == Inv /\ [Next]_vars => BatchesAreRows'
  <1> SUFFICES ASSUME Inv, [Next]_vars, NEW w \in Workers, NEW o \in batch'[w]
               PROVE  status'[o] # "absent"
    BY DEF BatchesAreRows
  <1>1. TypeOK /\ BatchesAreRows /\ TableGrows
    BY TableOnlyGrows DEF Inv
  <1>2. CASE o \in batch[w]
    BY <1>1, <1>2 DEF BatchesAreRows, TableGrows, TypeOK
  <1>3. CASE SelectBatch(w)
    <2>1. batch'[w] = Page(Selectable) /\ UNCHANGED status
      BY <1>1, <1>3 DEF SelectBatch, NextRow, TypeOK, table
    <2> QED
      BY <2>1 DEF Page, Selectable
  <1> QED
    BY <1>1, <1>2, <1>3, BatchShrinks

(* A worker's claim: it keeps it while it dispatches, or has just made it.    *)
LEMMA ClaimKept ==
    ASSUME TypeOK, [Next]_vars, NEW w \in Workers, pc'[w] = "dispatch"
    PROVE  \/ pc[w] = "dispatch" /\ cur'[w] = cur[w] /\ claim'[w] = claim[w]
           \/ MarkProcessing(w)
  <1> DEFINE Kept == pc[w] = "dispatch" /\ cur'[w] = cur[w] /\ claim'[w] = claim[w]
  <1> USE DEF TypeOK, workers
  <1>1. ASSUME NEW o \in Orders, EnqueuePendingOrder(o) \/ Age(o) PROVE Kept
    BY <1>1 DEF EnqueuePendingOrder, Age
  <1>2. ASSUME NEW v \in Workers, \/ RequeueStale(v) \/ SelectBatch(v) \/ SkipRow(v)
                                  \/ Restart(v) \/ FetchError(v) \/ ClaimError(v)
        PROVE  Kept
    BY <1>2 DEF RequeueStale, SelectBatch, SkipRow, Restart, FetchError, ClaimError,
                NextRow, EndTick
  <1>3. ASSUME NEW v \in Workers, MarkProcessing(v) PROVE Kept \/ MarkProcessing(w)
    BY <1>3 DEF MarkProcessing
  <1>4. ASSUME NEW v \in Workers, NEW outcome \in Settled, Settle(v, outcome) PROVE Kept
    BY <1>4 DEF Settle, Release, NextRow
  <1>5. ASSUME NEW v \in Workers, SettleError(v) \/ Crash(v) PROVE Kept
    BY <1>5 DEF SettleError, Crash, Release, NextRow, EndTick
  <1>6. CASE UNCHANGED vars
    BY <1>6 DEF vars
  <1> QED
    BY <1>1, <1>2, <1>3, <1>4, <1>5, <1>6 DEF Next, WorkerStep, FaultStep

(* What a worker holds right after it claimed a row.                          *)
LEMMA FreshClaim ==
    ASSUME TypeOK, NEW w \in Workers, MarkProcessing(w)
    PROVE  /\ cur'[w] \in Orders
           /\ status'[cur'[w]] = "processing"
           /\ attempts'[cur'[w]] = claim'[w]
           /\ claim'[w] = attempts[cur'[w]] + 1
           /\ \A v \in Workers \ {w} :
                 pc'[v] = pc[v] /\ cur'[v] = cur[v] /\ claim'[v] = claim[v]
  BY DEF TypeOK, MarkProcessing, ClaimRow

LEMMA DispatchStep == Inv /\ [Next]_vars => DispatchersHoldClaims'
  <1> SUFFICES ASSUME Inv, [Next]_vars, NEW w \in Workers, pc'[w] = "dispatch"
               PROVE  /\ cur'[w] \in Orders
                      /\ status'[cur'[w]] # "absent"
                      /\ claim'[w] > 0
                      /\ claim'[w] <= attempts'[cur'[w]]
    BY DEF DispatchersHoldClaims
  <1>1. TypeOK /\ TypeOK' /\ DispatchersHoldClaims /\ TableGrows
    BY TableOnlyGrows, TypeStep DEF Inv
  <1>2. CASE pc[w] = "dispatch" /\ cur'[w] = cur[w] /\ claim'[w] = claim[w]
    <2>1. /\ cur[w] \in Orders
          /\ status[cur[w]] # "absent"
          /\ claim[w] > 0
          /\ claim[w] <= attempts[cur[w]]
      BY <1>1, <1>2 DEF DispatchersHoldClaims
    <2>2. /\ status'[cur[w]] # "absent"
          /\ attempts[cur[w]] <= attempts'[cur[w]]
      BY <1>1, <2>1 DEF TableGrows
    <2>3. claim[w] \in Nat /\ attempts[cur[w]] \in Nat /\ attempts'[cur[w]] \in Nat
      BY <1>1, <2>1 DEF TypeOK
    <2> QED
      BY <1>2, <2>1, <2>2, <2>3
  <1>3. CASE MarkProcessing(w)
    <2>1. /\ cur'[w] \in Orders
          /\ status'[cur'[w]] = "processing"
          /\ attempts'[cur'[w]] = claim'[w]
          /\ claim'[w] = attempts[cur'[w]] + 1
      BY <1>1, <1>3, FreshClaim
    <2>2. attempts[cur'[w]] \in Nat /\ claim'[w] \in Nat
      BY <1>1, <2>1 DEF TypeOK
    <2> QED
      BY <2>1, <2>2
  <1> QED
    BY <1>1, <1>2, <1>3, ClaimKept

LEMMA MutexStep == Inv /\ [Next]_vars => OneDispatcherPerClaim'
  <1> SUFFICES ASSUME Inv, [Next]_vars,
                      NEW v \in Workers, NEW w \in Workers, NEW o \in Orders,
                      v # w, pc'[v] = "dispatch", pc'[w] = "dispatch",
                      cur'[v] = o, cur'[w] = o
               PROVE  claim'[v] # claim'[w]
    BY DEF OneDispatcherPerClaim, Dispatching
  <1>1. TypeOK /\ DispatchersHoldClaims /\ OneDispatcherPerClaim
    BY DEF Inv
  <1>2. \A x \in {v, w}, y \in {v, w} : x # y /\ MarkProcessing(x) => claim'[x] # claim'[y]
    <2> SUFFICES ASSUME NEW x \in {v, w}, NEW y \in {v, w}, x # y, MarkProcessing(x)
                 PROVE  claim'[x] # claim'[y]
      OBVIOUS
    <2>1. claim'[x] = attempts[o] + 1 /\ pc[y] = "dispatch" /\ cur[y] = o /\ claim'[y] = claim[y]
      BY <1>1, FreshClaim
    <2>2. claim[y] <= attempts[o]
      BY <1>1, <2>1 DEF DispatchersHoldClaims
    <2> QED
      BY <1>1, <2>1, <2>2 DEF TypeOK
  <1>3. CASE MarkProcessing(v) \/ MarkProcessing(w)
    BY <1>2, <1>3
  <1>4. CASE ~MarkProcessing(v) /\ ~MarkProcessing(w)
    <2>1. /\ pc[v] = "dispatch" /\ cur[v] = o /\ claim'[v] = claim[v]
          /\ pc[w] = "dispatch" /\ cur[w] = o /\ claim'[w] = claim[w]
      BY <1>1, <1>4, ClaimKept
    <2> QED
      BY <1>1, <2>1 DEF OneDispatcherPerClaim, Dispatching
  <1> QED
    BY <1>3, <1>4

LEMMA InvStep == Inv /\ [Next]_vars => Inv'
  BY TypeStep, TableStep, BatchStep, DispatchStep, MutexStep DEF Inv, TableInv

THEOREM InvHolds == Spec => []Inv
  BY InitInv, InvStep, PTL DEF Spec

(* No behaviour leaves the types of the columns and of the worker's locals.   *)
THEOREM TypeCorrect == Spec => []TypeOK
  BY InvHolds, PTL DEF Inv

(* No order is tried more often than max_attempts allows.                     *)
THEOREM AttemptsLimited == Spec => []AttemptsWithinLimit
  BY InvHolds, PTL DEF Inv

(* Two workers that dispatch the same order are in different attempts of it.  *)
THEOREM ClaimsExclusive == Spec => []OneDispatcherPerClaim
  BY InvHolds, PTL DEF Inv
(* What one step does to one order, in the terms of the promise.              *)
Untouched(o) == status'[o] = status[o] /\ attempts'[o] = attempts[o]

Open == {"pending", "processing"}

Submitted(o) == /\ status[o] = "absent" /\ status'[o] \in Open
                /\ attempts'[o] = attempts[o]
Reopened(o)  == /\ status[o] \in Open /\ status'[o] \in Open
                /\ attempts'[o] = attempts[o]
Tried(o)     == /\ status[o] \in Open /\ status'[o] \in Open
                /\ attempts[o] < MaxAttempts /\ attempts'[o] = attempts[o] + 1
Closed(o)    == /\ status[o] \in Open \union Settled /\ status'[o] \in Settled
                /\ attempts[o] > 0 /\ attempts'[o] = attempts[o]

OrderMove(o) == Submitted(o) \/ Reopened(o) \/ Tried(o) \/ Closed(o)

\* One order moves, or any number of rows go back from processing to pending.
OneMove ==
    \/ \A o \in Orders : Untouched(o) \/ Reopened(o)
    \/ \E o \in Orders : OrderMove(o) /\ \A p \in Orders \ {o} : Untouched(p)

LEMMA StepIsOneMove == Inv /\ [Next]_vars => OneMove
  <1> SUFFICES ASSUME Inv, [Next]_vars PROVE OneMove
    OBVIOUS
  <1>0. TypeOK /\ PendingHasAttemptsLeft /\ DispatchersHoldClaims
    BY DEF Inv
  <1>u. ASSUME UNCHANGED table PROVE OneMove
    BY <1>u DEF table, OneMove, Untouched
  <1>c. ASSUME NEW o \in Orders, Claimable(o), ClaimRow(o) PROVE OneMove
    <2>1. Tried(o)
      BY <1>0, <1>c DEF Claimable, ClaimRow, Tried, Open, TypeOK, PendingHasAttemptsLeft
    <2>2. \A p \in Orders \ {o} : Untouched(p)
      BY <1>0, <1>c DEF ClaimRow, Untouched, TypeOK
    <2> QED
      BY <2>1, <2>2 DEF OneMove, OrderMove
  <1>1. ASSUME NEW o \in Orders, EnqueuePendingOrder(o) PROVE OneMove
    <2>1. Submitted(o) /\ \A p \in Orders \ {o} : Untouched(p)
      BY <1>0, <1>1 DEF EnqueuePendingOrder, Submitted, Untouched, Open, TypeOK
    <2> QED
      BY <2>1 DEF OneMove, OrderMove
  <1>2. ASSUME NEW o \in Orders, Age(o) PROVE OneMove
    BY <1>2 DEF Age, OneMove, Untouched
  <1>3. ASSUME NEW w \in Workers, RequeueStale(w) PROVE OneMove
    BY <1>0, <1>3 DEF RequeueStale, Reclaimable, OneMove, Untouched, Reopened, Open, TypeOK
  <1>4. ASSUME NEW w \in Workers, MarkProcessing(w) \/ ClaimError(w) PROVE OneMove
    BY <1>4, <1>c, <1>u DEF MarkProcessing, ClaimError
  <1>5. ASSUME NEW w \in Workers, NEW outcome \in Settled, Settle(w, outcome) PROVE OneMove
    <2> DEFINE o == cur[w]
    <2>1. /\ o \in Orders /\ status[o] # "absent"
          /\ claim[w] > 0 /\ claim[w] <= attempts[o]
      BY <1>0, <1>5 DEF Settle, DispatchersHoldClaims
    <2>2. attempts[o] > 0
      <3>1. claim[w] \in Nat /\ attempts[o] \in Nat
        BY <1>0, <2>1 DEF TypeOK
      <3> QED
        BY <2>1, <3>1
    <2>3. status[o] \in Open \union Settled
      BY <1>0, <2>1 DEF TypeOK, Statuses, Open
    <2>4. Closed(o)
      BY <1>0, <1>5, <2>1, <2>2, <2>3 DEF Settle, SettleRow, Closed, TypeOK
    <2>5. \A p \in Orders \ {o} : Untouched(p)
      BY <1>0, <1>5, <2>1 DEF Settle, SettleRow, Untouched, TypeOK
    <2> QED
      BY <2>1, <2>4, <2>5 DEF OneMove, OrderMove
  <1>6. ASSUME NEW w \in Workers,
               \/ SelectBatch(w) \/ SkipRow(w) \/ Restart(w)
               \/ FetchError(w) \/ SettleError(w) \/ Crash(w)
        PROVE  OneMove
    BY <1>6, <1>u DEF SelectBatch, SkipRow, Restart, FetchError, SettleError, Crash
  <1>7. CASE UNCHANGED vars
    BY <1>7, <1>u DEF vars, table
  <1> QED
    BY <1>1, <1>2, <1>3, <1>4, <1>5, <1>6, <1>7 DEF Next, WorkerStep, FaultStep

(* A settled order never comes back and is never charged another attempt.     *)
THEOREM SettledStaysSettled == Spec => SettledForGood
  <1>1. Inv /\ [Next]_vars =>
          [\A o \in Orders : status[o] \in Settled =>
              status'[o] \in Settled /\ attempts'[o] = attempts[o]]_vars
    <2> SUFFICES ASSUME Inv, [Next]_vars, NEW o \in Orders, status[o] \in Settled
                 PROVE  status'[o] \in Settled /\ attempts'[o] = attempts[o]
      OBVIOUS
    <2>1. ~Submitted(o) /\ ~Reopened(o) /\ ~Tried(o)
      BY DEF Submitted, Reopened, Tried, Open, Settled
    <2> QED
      BY <2>1, StepIsOneMove DEF OneMove, OrderMove, Untouched, Closed
  <1> QED
    BY <1>1, InvHolds, PTL DEF Spec, SettledForGood

(* The queue keeps the promise: each step of the table and its workers is a   *)
(* step of OrderPromise for one order, or changes nothing the promise sees.   *)
LEMMA PromiseInit == Init => Promise!Init
  <1> SUFFICES ASSUME Init PROVE Promise!Init
    OBVIOUS
  <1>1. status = [o \in Orders |-> "absent"] /\ attempts = [o \in Orders |-> 0]
    BY DEF Init
  <1>2. \A o \in Orders : status[o] = "absent"
    BY <1>1
  <1>3. [o \in Orders |-> CASE status[o] = "absent" -> "absent"
                          [] status[o] \in Settled -> "closed"
                          [] OTHER -> "open"] = [o \in Orders |-> "absent"]
    BY <1>2 DEF Settled
  <1> QED
    BY <1>1, <1>3 DEF Promise!Init

\* Two functions on S that differ at x at most.
LEMMA DifferAtOne ==
    ASSUME NEW S, NEW f, NEW g, NEW x \in S,
           f = [y \in S |-> f[y]], g = [y \in S |-> g[y]],
           \A y \in S \ {x} : g[y] = f[y]
    PROVE  /\ g = [f EXCEPT ![x] = g[x]]
           /\ g[x] = f[x] => g = f
  <1>1. \A y \in S : g[y] = [f EXCEPT ![x] = g[x]][y]
    OBVIOUS
  <1>2. [f EXCEPT ![x] = g[x]] = [y \in S |-> [f EXCEPT ![x] = g[x]][y]]
    OBVIOUS
  <1>3. g = [f EXCEPT ![x] = g[x]]
    BY <1>1, <1>2
  <1>4. g[x] = f[x] => \A y \in S : g[y] = f[y]
    OBVIOUS
  <1> QED
    BY <1>3, <1>4

LEMMA PromiseStep == Inv /\ [Next]_vars => [Promise!Next]_(Promise!vars)
  <1> SUFFICES ASSUME Inv, [Next]_vars PROVE [Promise!Next]_(Promise!vars)
    OBVIOUS
  <1> DEFINE phase == [o \in Orders |-> CASE status[o] = "absent" -> "absent"
                                         [] status[o] \in Settled -> "closed"
                                         [] OTHER -> "open"]
  <1>1. TypeOK /\ TypeOK' /\ OneMove
    BY StepIsOneMove, TypeStep DEF Inv
  <1>f. /\ attempts  = [o \in Orders |-> attempts[o]]
        /\ attempts' = [o \in Orders |-> attempts'[o]]
    BY <1>1 DEF TypeOK
  <1>2. CASE \A o \in Orders : Untouched(o) \/ Reopened(o)
    <2>1. phase' = phase
      BY <1>2 DEF Untouched, Reopened, Open, Settled
    <2>2. attempts' = attempts
      <3>1. \A o \in Orders : attempts'[o] = attempts[o]
        BY <1>2 DEF Untouched, Reopened
      <3> QED
        BY <1>f, <3>1
    <2> QED
      BY <2>1, <2>2 DEF Promise!vars
  <1>3. CASE \E o \in Orders : OrderMove(o) /\ \A p \in Orders \ {o} : Untouched(p)
    <2>1. PICK o \in Orders : OrderMove(o) /\ \A p \in Orders \ {o} : Untouched(p)
      BY <1>3
    <2>2. /\ phase'    = [phase EXCEPT ![o] = phase'[o]]
          /\ attempts' = [attempts EXCEPT ![o] = attempts'[o]]
      <3>1. \A p \in Orders \ {o} : phase'[p] = phase[p] /\ attempts'[p] = attempts[p]
        BY <2>1 DEF Untouched
      <3>2. /\ phase  = [p \in Orders |-> phase[p]]
            /\ phase' = [p \in Orders |-> phase'[p]]
        OBVIOUS
      <3> HIDE DEF phase
      <3> QED
        BY <1>f, <3>1, <3>2, DifferAtOne
    <2>3. CASE Submitted(o)
      <3>1. phase[o] = "absent" /\ phase'[o] = "open" /\ attempts' = attempts
        BY <1>1, <2>2, <2>3 DEF Submitted, Open, Settled, TypeOK
      <3> QED
        BY <2>2, <3>1 DEF Promise!Next, Promise!Submit
    <2>4. CASE Reopened(o)
      <3>1. phase'[o] = phase[o] /\ attempts'[o] = attempts[o]
        BY <2>4 DEF Reopened, Open, Settled
      <3>2. phase' = phase /\ attempts' = attempts
        <4>1. /\ phase  = [p \in Orders |-> phase[p]]
              /\ phase' = [p \in Orders |-> phase'[p]]
          OBVIOUS
        <4>2. \A p \in Orders \ {o} : phase'[p] = phase[p] /\ attempts'[p] = attempts[p]
          BY <2>1 DEF Untouched
        <4> HIDE DEF phase
        <4> QED
          BY <1>f, <3>1, <4>1, <4>2, DifferAtOne
      <3> QED
        BY <3>2 DEF Promise!vars
    <2>5. CASE Tried(o)
      <3>1. phase[o] = "open" /\ phase' = phase
        BY <1>1, <2>2, <2>5 DEF Tried, Open, Settled, TypeOK
      <3> QED
        BY <1>1, <2>2, <2>5, <3>1 DEF Tried, Promise!Next, Promise!Try
    <2>6. CASE Closed(o)
      <3>1. attempts' = attempts /\ attempts[o] > 0 /\ phase'[o] = "closed"
        BY <1>1, <2>2, <2>6 DEF Closed, Settled, TypeOK
      <3>2. phase[o] \in {"open", "closed"}
        BY <2>6 DEF Closed, Open, Settled
      <3>3. CASE phase[o] = "open"
        BY <2>2, <3>1, <3>3 DEF Promise!Next, Promise!Close
      <3>4. CASE phase[o] = "closed"
        BY <2>2, <3>1, <3>4 DEF Promise!vars
      <3> QED
        BY <3>2, <3>3, <3>4
    <2> QED
      BY <2>1, <2>3, <2>4, <2>5, <2>6 DEF OrderMove
  <1> QED
    BY <1>1, <1>2, <1>3 DEF OneMove

THEOREM QueueKeepsPromise == Spec => KeepsPromise
  BY InvHolds, PromiseInit, PromiseStep, PTL DEF Spec, KeepsPromise, Promise!Spec
-----------------------------------------------------------------------------
(* Orders of one strategy are first claimed in the order they were emitted.   *)
Before(p, o) == p < o /\ StrategyOf[p] = StrategyOf[o]

\* Earlier orders exist before later ones, are tried before later ones, and a
\* worker that holds a later one still holds the earlier one or knows it tried.
InOrder ==
    faults = 0 =>
        \A o, p \in Orders : Before(p, o) =>
            /\ status[o] # "absent" => status[p] # "absent"
            /\ attempts[o] > 0 => attempts[p] > 0
            /\ \A w \in Workers : o \in batch[w] => p \in batch[w] \/ attempts[p] > 0

\* A page of the select holds, with a row, every selectable row before it.
LEMMA PageIsPrefix ==
    ASSUME NEW rows \in SUBSET Orders, NEW o \in Page(rows), NEW p \in rows, p < o
    PROVE  p \in Page(rows)
  <1> DEFINE Lower(q) == {r \in rows : r < q}
  <1>1. IsFiniteSet(rows) /\ rows \subseteq Nat
    BY FS_Subset
  <1>2. o \in rows /\ Cardinality(Lower(o)) < BatchSize
    BY DEF Page
  <1>3. Lower(p) \subseteq Lower(o)
    <2>1. \A r, s, t \in Nat : r < s /\ s < t => r < t
      OBVIOUS
    <2> QED
      BY <1>1, <1>2, <2>1
  <1>4. IsFiniteSet(Lower(o)) /\ Lower(p) \subseteq Lower(o)
    BY <1>1, <1>3, FS_Subset
  <1>5. /\ Cardinality(Lower(p)) <= Cardinality(Lower(o))
        /\ Cardinality(Lower(p)) \in Nat /\ Cardinality(Lower(o)) \in Nat
    BY <1>4, FS_Subset, FS_CardinalityType
  <1>6. Cardinality(Lower(p)) < BatchSize
    BY <1>2, <1>5, BatchSizeAssumption
  <1> QED
    BY <1>6 DEF Page

LEMMA InOrderStep == Inv /\ InOrder /\ [Next]_vars => InOrder'
  <1> SUFFICES ASSUME Inv, InOrder, [Next]_vars, faults' = 0,
                      NEW o \in Orders, NEW p \in Orders, Before(p, o)
               PROVE  /\ status'[o] # "absent" => status'[p] # "absent"
                      /\ attempts'[o] > 0 => attempts'[p] > 0
                      /\ \A w \in Workers :
                            o \in batch'[w] => p \in batch'[w] \/ attempts'[p] > 0
    BY DEF InOrder, Before
  <1> DEFINE Goal == /\ status'[o] # "absent" => status'[p] # "absent"
                     /\ attempts'[o] > 0 => attempts'[p] > 0
                     /\ \A w \in Workers :
                           o \in batch'[w] => p \in batch'[w] \/ attempts'[p] > 0
  <1>0. TypeOK /\ PendingHasAttemptsLeft /\ TakenRowsWereClaimed /\ BatchesAreRows /\ TableGrows
    BY TableOnlyGrows DEF Inv
  <1>n. p < o /\ p \in Nat /\ o \in Nat /\ StrategyOf[p] = StrategyOf[o]
    BY DEF Before
  <1>1. ASSUME faults = 0
        PROVE  /\ status[o] # "absent" => status[p] # "absent"
               /\ attempts[o] > 0 => attempts[p] > 0
               /\ \A w \in Workers : o \in batch[w] => p \in batch[w] \/ attempts[p] > 0
    BY <1>1 DEF InOrder
  <1>a. attempts[p] > 0 => attempts'[p] > 0
    <2>1. attempts[p] \in Nat /\ attempts'[p] \in Nat /\ attempts[p] <= attempts'[p]
      BY <1>0, TypeStep DEF TypeOK, TableGrows
    <2> QED
      BY <2>1
  <1>2. ASSUME NEW x \in Orders, EnqueuePendingOrder(x) PROVE Goal
    <2>1. faults = 0 /\ attempts' = attempts /\ batch' = batch
      BY <1>2 DEF EnqueuePendingOrder, workers
    <2>2. o = x => status[p] # "absent"
      BY <1>2, <1>n DEF EnqueuePendingOrder
    <2>3. status'[o] # "absent" => status'[p] # "absent"
      BY <1>0, <1>1, <1>2, <2>1, <2>2 DEF EnqueuePendingOrder, TypeOK
    <2> QED
      BY <1>1, <2>1, <2>3
  <1>3. ASSUME NEW x \in Orders, Age(x) PROVE Goal
    BY <1>1, <1>3 DEF Age, workers
  <1>4. ASSUME NEW w \in Workers, RequeueStale(w) PROVE Goal
    <2>1. faults = 0 /\ attempts' = attempts /\ batch' = batch
      BY <1>4 DEF RequeueStale
    <2>2. status'[o] # "absent" => status[o] # "absent"
      BY <1>4 DEF RequeueStale, Reclaimable
    <2> QED
      BY <1>0, <1>1, <2>1, <2>2 DEF TableGrows
  <1>5. ASSUME NEW w \in Workers, SelectBatch(w) PROVE Goal
    <2>1. /\ faults = 0 /\ attempts' = attempts /\ status' = status
          /\ batch' = [batch EXCEPT ![w] = Page(Selectable)]
      BY <1>5 DEF SelectBatch, NextRow, table
    <2>2. ASSUME o \in Page(Selectable), attempts[p] = 0 PROVE p \in Page(Selectable)
      <3>1. status[o] = "pending"
        BY <2>2 DEF Page, Selectable
      <3>2. status[p] = "pending"
        BY <1>0, <1>1, <2>1, <2>2, <3>1 DEF TakenRowsWereClaimed, TypeOK, Statuses
      <3>3. p \in Selectable
        BY <1>0, <3>2 DEF Selectable, PendingHasAttemptsLeft
      <3>4. Selectable \in SUBSET Orders
        BY DEF Selectable
      <3> QED
        BY <1>n, <2>2, <3>3, <3>4, PageIsPrefix
    <2>3. attempts[p] \in Nat
      BY <1>0 DEF TypeOK
    <2> QED
      BY <1>0, <1>1, <2>1, <2>2, <2>3 DEF TypeOK
  <1>6. ASSUME NEW w \in Workers, MarkProcessing(w) PROVE Goal
    <2>1. PICK x \in Orders : /\ AtRow(w, x) /\ ClaimRow(x)
                              /\ batch' = [batch EXCEPT ![w] = @ \ {x}]
      BY <1>6 DEF MarkProcessing
    <2>2. faults = 0
      BY <1>6 DEF MarkProcessing
    <2>3. p = x => attempts'[p] > 0
      BY <1>0, <2>1 DEF ClaimRow, TypeOK
    <2>4. o = x => attempts[p] > 0
      BY <1>1, <1>n, <2>1, <2>2 DEF AtRow
    <2>5. o # x => attempts'[o] = attempts[o]
      BY <1>0, <2>1 DEF ClaimRow, TypeOK
    <2>6. status'[o] # "absent" => status[o] # "absent" \/ o = x
      BY <1>0, <2>1 DEF ClaimRow, TypeOK
    <2>7. o = x => status[o] # "absent"
      BY <1>0, <2>1 DEF AtRow, BatchesAreRows
    <2>8. \A v \in Workers : /\ o \in batch'[v] => o \in batch[v]
                             /\ p \in batch[v] => p \in batch'[v] \/ p = x
      BY <1>0, <2>1 DEF TypeOK
    <2> QED
      BY <1>0, <1>1, <1>a, <2>2, <2>3, <2>4, <2>5, <2>6, <2>7, <2>8 DEF TableGrows
  <1>7. ASSUME NEW w \in Workers, SkipRow(w) PROVE Goal
    <2>1. PICK x \in Orders : /\ AtRow(w, x) /\ status[x] # "pending"
                              /\ batch' = [batch EXCEPT ![w] = batch[w] \ {x}]
      BY <1>7 DEF SkipRow, Claimable, NextRow
    <2>2. faults = 0 /\ attempts' = attempts /\ status' = status
      BY <1>7 DEF SkipRow, table
    <2>3. attempts[x] > 0
      BY <1>0, <2>1 DEF AtRow, BatchesAreRows, TakenRowsWereClaimed, TypeOK, Statuses
    <2>4. \A v \in Workers : /\ o \in batch'[v] => o \in batch[v]
                             /\ p \in batch[v] => p \in batch'[v] \/ p = x
      BY <1>0, <2>1 DEF TypeOK
    <2> QED
      BY <1>1, <2>2, <2>3, <2>4
  <1>8. ASSUME NEW w \in Workers, NEW outcome \in Settled, Settle(w, outcome) PROVE Goal
    <2>1. faults = 0 /\ attempts' = attempts /\ batch' = [batch EXCEPT ![w] = batch[w]]
      BY <1>8 DEF Settle, SettleRow, NextRow
    <2>2. cur[w] \in Orders /\ status[cur[w]] # "absent"
      BY <1>8 DEF Inv, DispatchersHoldClaims, Settle
    <2>3. status'[o] # "absent" => status[o] # "absent"
      BY <1>0, <1>8, <2>2 DEF Settle, SettleRow, TypeOK
    <2>4. batch' = batch
      BY <1>0, <2>1 DEF TypeOK
    <2> QED
      BY <1>0, <1>1, <2>1, <2>3, <2>4 DEF TableGrows
  <1>9. ASSUME NEW w \in Workers, Restart(w) PROVE Goal
    BY <1>1, <1>9 DEF Restart, table
  <1>10. ASSUME NEW w \in Workers, FaultStep(w) PROVE Goal
    <2>1. faults \in Nat /\ faults' = faults + 1
      BY <1>0, <1>10 DEF FaultStep, FetchError, ClaimError, SettleError, Crash, Fault, TypeOK
    <2> QED
      BY <2>1
  <1>11. CASE UNCHANGED vars
    BY <1>1, <1>11 DEF vars
  <1> QED
    BY <1>2, <1>3, <1>4, <1>5, <1>6, <1>7, <1>8, <1>9, <1>10, <1>11 DEF Next, WorkerStep

(* While nothing fails, no order of a strategy overtakes an earlier one.      *)
THEOREM NoOvertaking == Spec => []FirstClaimsInOrder
  <1>1. Init => InOrder
    BY DEF Init, InOrder
  <1>2. InOrder => FirstClaimsInOrder
    BY DEF InOrder, FirstClaimsInOrder, Before
  <1> QED
    BY <1>1, <1>2, InvHolds, InOrderStep, PTL DEF Spec
-----------------------------------------------------------------------------
(* When an order is processed by one worker only.  The comment of the claiming *)
(* UPDATE promises it of every order; the code keeps it for an order whose     *)
(* dispatch never outlives the stale limit, whatever fails around it.          *)
ProcessedOnce(o) == \A v, w \in Workers : Dispatching(v, o) /\ Dispatching(w, o) => v = w

\* Nothing but a dispatch that went stale gives a row back, so a row that does
\* not go stale is claimed once: by one worker, and for its first attempt.
FreshRow(o) ==
    /\ status[o] \in {"absent", "pending"} => attempts[o] = 0
    /\ attempts[o] <= 1
    /\ \A w \in Workers : Dispatching(w, o) => status[o] = "processing"
    /\ ProcessedOnce(o)

\* A row that nobody claims or settles, and that stays where it was.
LEMMA FreshRowKept ==
    ASSUME NEW o \in Orders, FreshRow(o), status'[o] = status[o], attempts'[o] = attempts[o],
           \A w \in Workers : Dispatching(w, o)' => Dispatching(w, o)
    PROVE  FreshRow(o)'
  BY DEF FreshRow, ProcessedOnce

\* Nobody dispatches the row after the step.
LEMMA FreshRowLeft ==
    ASSUME NEW o \in Orders, attempts'[o] <= 1,
           status'[o] \in {"absent", "pending"} => attempts'[o] = 0,
           \A w \in Workers : ~Dispatching(w, o)'
    PROVE  FreshRow(o)'
  BY DEF FreshRow, ProcessedOnce

\* A claim: the row was pending, so nobody had it.
LEMMA FreshRowClaimed ==
    ASSUME TypeOK, NEW o \in Orders, FreshRow(o), NEW w \in Workers, MarkProcessing(w)
    PROVE  FreshRow(o)'
  <1>1. PICK x \in Orders :
           /\ Claimable(x) /\ ClaimRow(x)
           /\ cur' = [cur EXCEPT ![w] = x]
    BY DEF MarkProcessing
  <1>2. pc' = [pc EXCEPT ![w] = "dispatch"] /\ pc[w] = "claim"
    BY DEF MarkProcessing
  <1>3. \A v \in Workers : Dispatching(v, o)' <=> (Dispatching(v, o) \/ (v = w /\ o = x))
    BY <1>1, <1>2 DEF Dispatching, TypeOK
  <1>4. CASE o = x
    <2>1. /\ status[o] = "pending" /\ status'[o] = "processing"
          /\ attempts'[o] = attempts[o] + 1
      BY <1>1, <1>4 DEF Claimable, ClaimRow, TypeOK
    <2>2. \A v \in Workers : ~Dispatching(v, o)
      BY <2>1 DEF FreshRow
    <2> QED
      BY <1>3, <2>1, <2>2 DEF FreshRow, ProcessedOnce
  <1>5. CASE o # x
    <2>1. status'[o] = status[o] /\ attempts'[o] = attempts[o]
      BY <1>1, <1>5 DEF ClaimRow, TypeOK
    <2> QED
      BY <1>3, <1>5, <2>1, FreshRowKept
  <1> QED
    BY <1>4, <1>5

LEMMA FreshRowStep ==
    ASSUME NEW o \in Orders
    PROVE  Inv /\ FreshRow(o) /\ ~stale[o] /\ [Next]_vars => FreshRow(o)'
  <1> SUFFICES ASSUME Inv, FreshRow(o), ~stale[o], [Next]_vars PROVE FreshRow(o)'
    OBVIOUS
  <1>0. TypeOK /\ DispatchersHoldClaims /\ TakenRowsWereClaimed
    BY DEF Inv
  <1>k. ASSUME UNCHANGED <<status, attempts>>,
               \A v \in Workers : Dispatching(v, o)' => Dispatching(v, o)
        PROVE  FreshRow(o)'
    BY <1>k, FreshRowKept
  <1>1. ASSUME NEW x \in Orders, EnqueuePendingOrder(x) PROVE FreshRow(o)'
    <2>1. UNCHANGED <<attempts, pc, cur>> /\ status' = [status EXCEPT ![x] = "pending"]
          /\ status[x] = "absent"
      BY <1>1 DEF EnqueuePendingOrder, workers
    <2>2. CASE x = o
      <3>1. \A v \in Workers : ~Dispatching(v, o)
        BY <2>1, <2>2 DEF FreshRow
      <3>2. attempts'[o] = 0
        BY <1>0, <2>1, <2>2 DEF TakenRowsWereClaimed
      <3> QED
        BY <2>1, <3>1, <3>2, FreshRowLeft DEF Dispatching
    <2>3. CASE x # o
      <3>1. status'[o] = status[o]
        BY <1>0, <2>1, <2>3 DEF TypeOK
      <3> QED
        BY <2>1, <3>1, FreshRowKept DEF Dispatching
    <2> QED
      BY <2>2, <2>3
  <1>2. ASSUME NEW x \in Orders, Age(x) PROVE FreshRow(o)'
    BY <1>2, <1>k DEF Age, workers, Dispatching
  <1>3. ASSUME NEW w \in Workers, RequeueStale(w) PROVE FreshRow(o)'
    <2>1. status'[o] = status[o] /\ UNCHANGED <<attempts, cur>>
      BY <1>3 DEF RequeueStale, Reclaimable
    <2>2. \A v \in Workers : Dispatching(v, o)' => Dispatching(v, o)
      BY <1>0, <1>3 DEF RequeueStale, Dispatching, TypeOK
    <2> QED
      BY <2>1, <2>2, FreshRowKept
  <1>4. ASSUME NEW w \in Workers, MarkProcessing(w) PROVE FreshRow(o)'
    BY <1>0, <1>4, FreshRowClaimed
  <1>5. ASSUME NEW w \in Workers,
               SelectBatch(w) \/ SkipRow(w) \/ Restart(w) \/ FetchError(w)
        PROVE  FreshRow(o)'
    <2>1. UNCHANGED <<status, attempts, cur>>
      BY <1>5 DEF SelectBatch, SkipRow, Restart, FetchError, table
    <2>2. \A v \in Workers : pc'[v] = "dispatch" => pc[v] = "dispatch"
      BY <1>0, <1>5 DEF SelectBatch, SkipRow, Restart, FetchError, NextRow, EndTick, TypeOK
    <2> QED
      BY <2>1, <2>2, <1>k DEF Dispatching
  <1>6. ASSUME NEW w \in Workers, ClaimError(w) PROVE FreshRow(o)'
    <2>1. PICK x \in Orders :
             /\ NextRow(w, batch[w] \ {x})
             /\ UNCHANGED table \/ (Claimable(x) /\ ClaimRow(x))
      BY <1>6 DEF ClaimError
    <2>2. \A v \in Workers : Dispatching(v, o)' => Dispatching(v, o)
      BY <1>0, <1>6, <2>1 DEF ClaimError, NextRow, Dispatching, TypeOK
    <2>3. CASE UNCHANGED table
      BY <1>k, <2>2, <2>3 DEF table
    <2>4. CASE Claimable(x) /\ ClaimRow(x)
      <3>1. CASE x = o
        <4>1. /\ status[o] = "pending" /\ status'[o] = "processing"
              /\ attempts'[o] = attempts[o] + 1
          BY <1>0, <2>4, <3>1 DEF Claimable, ClaimRow, TypeOK
        <4> QED
          BY <2>2, <4>1 DEF FreshRow, ProcessedOnce
      <3>2. CASE x # o
        <4>1. status'[o] = status[o] /\ attempts'[o] = attempts[o]
          BY <1>0, <2>4, <3>2 DEF ClaimRow, TypeOK
        <4> QED
          BY <2>2, <4>1, FreshRowKept
      <3> QED
        BY <3>1, <3>2
    <2> QED
      BY <2>1, <2>3, <2>4
  <1>7. ASSUME NEW w \in Workers, NEW outcome \in Settled, Settle(w, outcome) PROVE FreshRow(o)'
    <2>1. /\ cur[w] \in Orders /\ pc[w] = "dispatch" /\ UNCHANGED attempts
          /\ status' = [status EXCEPT ![cur[w]] = outcome]
          /\ cur' = [cur EXCEPT ![w] = None]
      BY <1>0, <1>7 DEF Settle, SettleRow, Release, DispatchersHoldClaims
    <2>2. \A v \in Workers : Dispatching(v, o)' => Dispatching(v, o) /\ v # w
      BY <1>0, <1>7, <2>1 DEF Settle, NextRow, Dispatching, TypeOK
    <2>3. CASE cur[w] = o
      <3>1. \A v \in Workers : ~Dispatching(v, o)'
        BY <2>1, <2>2, <2>3 DEF FreshRow, ProcessedOnce, Dispatching
      <3>2. status'[o] \in Settled
        BY <1>0, <2>1, <2>3 DEF TypeOK
      <3> QED
        BY <2>1, <3>1, <3>2, FreshRowLeft DEF FreshRow, Settled
    <2>4. CASE cur[w] # o
      <3>1. status'[o] = status[o]
        BY <1>0, <2>1, <2>4 DEF TypeOK
      <3> QED
        BY <2>1, <2>2, <3>1, FreshRowKept
    <2> QED
      BY <2>3, <2>4
  <1>8. ASSUME NEW w \in Workers, SettleError(w) \/ Crash(w) PROVE FreshRow(o)'
    <2>1. UNCHANGED <<status, attempts>> /\ cur' = [cur EXCEPT ![w] = None]
      BY <1>8 DEF SettleError, Crash, Release, table
    <2>2. \A v \in Workers : Dispatching(v, o)' => Dispatching(v, o)
      BY <1>0, <1>8, <2>1 DEF SettleError, Crash, NextRow, EndTick, Dispatching, TypeOK
    <2> QED
      BY <2>1, <2>2, <1>k
  <1>9. CASE UNCHANGED vars
    BY <1>9, <1>k DEF vars, Dispatching
  <1> QED
    BY <1>1, <1>2, <1>3, <1>4, <1>5, <1>6, <1>7, <1>8, <1>9 DEF Next, WorkerStep, FaultStep

\* An order whose dispatch never outlives the stale limit is tried once, by one
\* worker: the promise of the claiming UPDATE, with what it silently assumes.
THEOREM FreshRowsProcessedOnce ==
    ASSUME NEW o \in Orders
    PROVE  Spec /\ [](~stale[o]) => [](ProcessedOnce(o) /\ attempts[o] <= 1)
  <1>1. Init => FreshRow(o)
    BY DEF Init, FreshRow, ProcessedOnce, Dispatching
  <1>2. FreshRow(o) => ProcessedOnce(o) /\ attempts[o] <= 1
    BY DEF FreshRow
  <1>3. Inv /\ FreshRow(o) /\ ~stale[o] /\ [Next]_vars => FreshRow(o)'
    BY FreshRowStep
  <1> QED
    BY <1>1, <1>2, <1>3, InvHolds, PTL DEF Spec
=============================================================================
