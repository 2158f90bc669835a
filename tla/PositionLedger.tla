--------------------------- MODULE PositionLedger ---------------------------
(***************************************************************************)
(* The rows of qd_strategy_positions that one strategy keeps for one       *)
(* symbol, beside the position the exchange holds.                         *)
(*                                                                         *)
(* Three kinds of threads write the rows and none of them locks anything:  *)
(*   - a worker books the fill of an order                                 *)
(*     (apply_fill_to_local_position, live_trading/records.py);            *)
(*   - a worker, or a strategy that starts, reconciles the rows with the   *)
(*     exchange (_sync_positions_best_effort, pending_order_worker.py);    *)
(*   - the loop of the strategy keeps the best price since entry in them   *)
(*     (_update_position, trading_executor.py), writing back the size it   *)
(*     read before.                                                        *)
(* Each reads in one transaction and writes absolute sizes in another.     *)
(*                                                                         *)
(* A row is a size, 0 standing for "no row".  Synchronisation writes by    *)
(* row id, so a thread must know whether the row it read is still the row  *)
(* of that side: "gone" holds the sides of a thread's copy whose row has   *)
(* been deleted since, whether or not another one took its place.          *)
(***************************************************************************)
EXTENDS Integers, FiniteSets

CONSTANTS
    Sides,          \* the directions of a position, long and short
    Workers,        \* threads that execute orders, one per server process
    Loops,          \* threads that run the strategy
    Exchanges,      \* the exchanges a strategy may trade on, see below
    MaxSize,        \* bound: the largest position at the exchange
    MaxTrades       \* bound on trades

ASSUME LedgerAssumption ==
    /\ MaxSize \in Nat /\ MaxTrades \in Nat
    /\ Workers \cap Loops = {}
    /\ Exchanges \subseteq [client : {"mapped", "unmapped", "skipped"},
                            coin : Nat \ {0}]

Threads == Workers \cup Loops
Sizes   == [Sides -> Nat]

(***************************************************************************)
(* Orders as far as the ledger sees them: they add to a side or take away  *)
(* from it: those that open or add, and those that close or reduce.        *)
(***************************************************************************)
Orders  == [side : Sides, adds : BOOLEAN, amount : Nat]
NoOrder == [amount |-> 0]

(***************************************************************************)
(* An account is of a client the synchronisation understands, one whose    *)
(* symbols it does not translate into those of the rows (KuCoin, Kraken,   *)
(* MT5), or one it skips: a spot or an unsupported client, or no exchange. *)
(* "mapped" stands for a strategy that runs live with that symbol.         *)
(* Sizes are counted in units of which "coin" make one coin.               *)
(***************************************************************************)
VARIABLES
    exchange,   \* the one the strategy trades on
    held,       \* what the exchange holds of each side
    rows,       \* size of the local row of each side
    pc,         \* what each thread is about to do
    order,      \* the order a worker executes, later the fill it books
    copy,       \* the rows a thread has read
    gone,       \* sides of that copy whose row was deleted since
    asked,      \* what the exchange answered to a thread
    trades,     \* orders, foreign trades and misread answers so far
    unbooked,   \* history: filled and not yet booked, of each side
    excuses     \* history: why rows and exchange may disagree just now

dataVars   == <<exchange, held, rows>>
threadVars == <<pc, order, copy, gone, asked>>
historyVars == <<unbooked, excuses>>
ledgerVars == <<dataVars, threadVars, trades, historyVars>>

None == [s \in Sides |-> 0]

(***************************************************************************)
(* "outdated": a thread wrote what another had changed since, or what it   *)
(* took the exchange to hold by mistake.  "early": a close was booked      *)
(* before the open it closes.  "lost": a fill was not booked.  "unseen":   *)
(* an order filled further than the worker saw.  "assumed": a fill was     *)
(* booked that nobody saw.  "foreign": a trade no worker was there to see. *)
(***************************************************************************)
Reasons == {"outdated", "early", "lost", "unseen", "assumed", "foreign"}

LedgerTypeOK ==
    /\ exchange \in Exchanges
    /\ held \in Sizes /\ rows \in Sizes /\ unbooked \in [Sides -> Int]
    /\ pc \in [Threads -> {"idle", "placed", "fetch", "apply",
                           "ask", "reconcile", "track"}]
    /\ order \in [Threads -> Orders \cup {NoOrder}]
    /\ copy \in [Threads -> Sizes] /\ asked \in [Threads -> Sizes]
    /\ gone \in [Threads -> SUBSET Sides]
    /\ trades \in Nat
    /\ excuses \subseteq Reasons
    /\ \A t \in Threads :
          pc[t] \in {"placed", "fetch", "apply"} => order[t] \in Orders

LedgerInit ==
    /\ exchange \in Exchanges
    /\ held = None /\ rows = None /\ unbooked = None
    /\ pc = [t \in Threads |-> "idle"]
    /\ order = [t \in Threads |-> NoOrder]
    /\ copy = [t \in Threads |-> None]
    /\ gone = [t \in Threads |-> {}]
    /\ asked = [t \in Threads |-> None]
    /\ trades = 0
    /\ excuses = {}

(***************************************************************************)
(* A thread that is done remembers nothing.                                *)
(***************************************************************************)
Done(t) ==
    /\ pc' = [pc EXCEPT ![t] = "idle"]
    /\ order' = [order EXCEPT ![t] = NoOrder]
    /\ copy' = [copy EXCEPT ![t] = None]
    /\ asked' = [asked EXCEPT ![t] = None]

(***************************************************************************)
(* Thread t makes the rows new: a row that is deleted by it is gone from   *)
(* the copies of the others.                                               *)
(***************************************************************************)
WriteRows(t, new) ==
    /\ rows' = new
    /\ gone' = [u \in Threads |->
          IF u = t THEN {}
          ELSE gone[u] \cup
               {s \in Sides : copy[u][s] > 0 /\ rows[s] > 0 /\ new[s] = 0}]

Forget(t) == gone' = [gone EXCEPT ![t] = {}]

Excused(reason, when) == IF when THEN {reason} ELSE {}

(***************************************************************************)
(* The size of the row of that side, read by its key.                      *)
(***************************************************************************)
ReadAll(t) ==
    /\ copy' = [copy EXCEPT ![t] = rows]
    /\ gone' = [gone EXCEPT ![t] = {}]

-----------------------------------------------------------------------------
(***************************************************************************)
(* Executing an order.                                                     *)
(***************************************************************************)

(***************************************************************************)
(* _execute_live_order sends an order.  A reducing one is first clamped to *)
(* the local row; without a row its amount is 0 and the order fails.       *)
(***************************************************************************)
Clamped(side, adds, amount) ==
    IF adds \/ amount <= rows[side] THEN amount ELSE rows[side]

PlaceOrder(w) ==
    /\ pc[w] = "idle" /\ trades < MaxTrades
    /\ \E side \in Sides, adds \in BOOLEAN, amount \in 1..MaxSize :
          /\ Clamped(side, adds, amount) > 0
          /\ order' = [order EXCEPT ![w] =
                 [side |-> side, adds |-> adds,
                  amount |-> Clamped(side, adds, amount)]]
    /\ pc' = [pc EXCEPT ![w] = "placed"]
    /\ trades' = trades + 1
    /\ UNCHANGED <<dataVars, copy, gone, asked, historyVars>>

(***************************************************************************)
(* The exchange fills n of it; a reducing order never takes more than      *)
(* there is.                                                               *)
(***************************************************************************)
Change(o, n) == IF o.adds THEN n ELSE -n

Filled(o, n) ==
    /\ held[o.side] + Change(o, n) \in 0..MaxSize
    /\ held' = [held EXCEPT ![o.side] = @ + Change(o, n)]

ToBook(o, n) == unbooked' = [unbooked EXCEPT ![o.side] = @ + Change(o, n)]

(***************************************************************************)
(* The worker books what it has seen of the fills, m.  That is less than n *)
(* when its last reading was too early, or came before a limit order was   *)
(* cancelled.                                                              *)
(***************************************************************************)
Fill(w) ==
    /\ pc[w] = "placed"
    /\ \E n \in 1..order[w].amount, m \in 1..order[w].amount :
          /\ m <= n
          /\ Filled(order[w], n) /\ ToBook(order[w], m)
          /\ order' = [order EXCEPT ![w].amount = m]
          /\ excuses' = excuses \cup Excused("unseen", m < n)
    /\ pc' = [pc EXCEPT ![w] = "fetch"]
    /\ UNCHANGED <<exchange, rows, copy, gone, asked, trades>>

(***************************************************************************)
(* No fill is seen: the whole amount is assumed to have filled.            *)
(***************************************************************************)
AssumeFilled(w) ==
    /\ pc[w] = "placed"
    /\ \E n \in 0..order[w].amount :
          /\ Filled(order[w], n) /\ ToBook(order[w], order[w].amount)
          /\ excuses' = excuses \cup Excused("assumed", n # order[w].amount)
    /\ pc' = [pc EXCEPT ![w] = "fetch"]
    /\ UNCHANGED <<exchange, rows, order, copy, gone, asked, trades>>

(***************************************************************************)
(* The order fails: the exchange refuses it, or its answer is lost, or     *)
(* asking for the fills raises; or it ends with nothing to book.  What has *)
(* filled nevertheless is booked by nobody.                                *)
(***************************************************************************)
FailOrder(w) ==
    /\ pc[w] = "placed"
    /\ \E n \in 0..order[w].amount :
          /\ Filled(order[w], n)
          /\ excuses' = excuses \cup Excused("unseen", n > 0)
    /\ Done(w) /\ Forget(w)
    /\ UNCHANGED <<exchange, rows, trades, unbooked>>

-----------------------------------------------------------------------------
(***************************************************************************)
(* Booking a fill.                                                         *)
(***************************************************************************)

\* _fetch_position_fuzzy: the first transaction.
FetchPosition(w) ==
    /\ pc[w] = "fetch"
    /\ ReadAll(w)
    /\ pc' = [pc EXCEPT ![w] = "apply"]
    /\ UNCHANGED <<dataVars, order, asked, trades, historyVars>>

\* Bug variant of SizeAfterFill: a close of more than there is.
BelowZero(o, current) ==
    IF o.adds THEN current + o.amount ELSE current - o.amount

\* Bug variant of SizeAfterFill: a close always deletes the row.
CloseDeletesRow(o, current) == IF o.adds THEN current + o.amount ELSE 0

(***************************************************************************)
(* The size that is written, as an upsert, or as a delete when it is 0.    *)
(***************************************************************************)
SizeAfterFill(o, current) ==
    IF o.adds THEN current + o.amount
    ELSE IF o.amount < current THEN current - o.amount ELSE 0

BookedNow(w) ==
    [unbooked EXCEPT ![order[w].side] = @ - Change(order[w], order[w].amount)]

ApplyFill(w) ==
    LET o == order[w]
        current == copy[w][o.side]
    IN  /\ pc[w] = "apply"
        /\ WriteRows(w, [rows EXCEPT ![o.side] = SizeAfterFill(o, current)])
        /\ unbooked' = BookedNow(w)
        /\ excuses' = excuses
              \cup Excused("outdated", rows[o.side] # current)
              \cup Excused("early", ~o.adds /\ o.amount > current)
        /\ Done(w)
        /\ UNCHANGED <<exchange, held, trades>>

(***************************************************************************)
(* Either transaction fails; the exception is logged and forgotten.        *)
(***************************************************************************)
BookingFails(w) ==
    /\ pc[w] \in {"fetch", "apply"}
    /\ unbooked' = BookedNow(w)
    /\ excuses' = excuses \cup {"lost"}
    /\ Done(w) /\ Forget(w)
    /\ UNCHANGED <<dataVars, trades>>

-----------------------------------------------------------------------------
(***************************************************************************)
(* Synchronisation with the exchange: read the rows, ask, write the        *)
(* differences.                                                            *)
(***************************************************************************)

ReadRows(t) ==
    /\ pc[t] = "idle"
    /\ ReadAll(t)
    /\ pc' = [pc EXCEPT ![t] = "ask"]
    /\ UNCHANGED <<dataVars, order, asked, trades, historyVars>>

(***************************************************************************)
(* What the exchange holds; nothing, by the names of the rows, when the    *)
(* symbols are not translated.                                             *)
(***************************************************************************)
AskExchange(t) ==
    /\ pc[t] = "ask" /\ exchange.client # "skipped"
    /\ asked' = [asked EXCEPT ![t] =
                    IF exchange.client = "mapped" THEN held ELSE None]
    /\ pc' = [pc EXCEPT ![t] = "reconcile"]
    /\ UNCHANGED <<dataVars, order, copy, gone, trades, historyVars>>

(***************************************************************************)
(* The size of a contract cannot be looked up: numbers of contracts are    *)
(* taken for numbers of coins.                                             *)
(***************************************************************************)
MisreadExchange(t) ==
    /\ pc[t] = "ask" /\ exchange.client = "mapped"
    /\ trades < MaxTrades /\ trades' = trades + 1
    /\ \E answer \in [Sides -> 0..MaxSize] :
          /\ answer # held /\ \A s \in Sides : answer[s] = 0 <=> held[s] = 0
          /\ asked' = [asked EXCEPT ![t] = answer]
    /\ pc' = [pc EXCEPT ![t] = "reconcile"]
    /\ UNCHANGED <<dataVars, order, copy, gone, historyVars>>

(***************************************************************************)
(* The exchange does not answer, or is skipped: nothing is written.        *)
(***************************************************************************)
AskFails(t) ==
    /\ pc[t] = "ask"
    /\ Done(t) /\ Forget(t)
    /\ UNCHANGED <<dataVars, trades, historyVars>>

(***************************************************************************)
(* A size is corrected when it is off by more than one percent of the row, *)
(* or of one coin if the row is less than that.                            *)
(***************************************************************************)
Distance(m, n) == IF m < n THEN n - m ELSE m - n
Material(size, really) ==
    /\ 100 * Distance(size, really) > size
    /\ 100 * Distance(size, really) > exchange.coin

\* Bug variant of ToDelete: rows of a flat side are kept.
KeepGhosts(t) == {}

ToDelete(t) == {s \in Sides : copy[t][s] > 0 /\ asked[t][s] = 0}
ToUpdate(t) == {s \in Sides : /\ copy[t][s] > 0 /\ asked[t][s] > 0
                              /\ Material(copy[t][s], asked[t][s])}
ToInsert(t) == {s \in Sides : copy[t][s] = 0 /\ asked[t][s] > 0}

(***************************************************************************)
(* A row is also written when its entry price is off by more than half a   *)
(* percent, whatever its size.                                             *)
(***************************************************************************)
Repriced(t) == {s \in Sides : copy[t][s] > 0 /\ asked[t][s] > 0}

(***************************************************************************)
(* One transaction: delete and update by id, insert by key.  A row that    *)
(* has appeared in the meantime violates UNIQUE(strategy_id, symbol, side) *)
(* and the whole transaction is rolled back.                               *)
(***************************************************************************)
Reconciled(t, updated) ==
    LET written == ((ToDelete(t) \cup updated) \ gone[t]) \cup ToInsert(t)
    IN  [s \in Sides |-> IF s \in written THEN asked[t][s] ELSE rows[s]]

\* What was read and answered is still so, and nothing waits to be booked.
UpToDate(t) ==
    /\ copy[t] = rows /\ gone[t] = {}
    /\ asked[t] = held /\ unbooked = None

ExcusesAfter(t, new) ==
    IF UpToDate(t) /\ new = held THEN {}
    ELSE excuses \cup Excused("outdated", ~UpToDate(t) /\ new # rows)

Reconcile(t) ==
    /\ pc[t] = "reconcile"
    /\ \E repriced \in SUBSET Repriced(t) :
          IF \E s \in ToInsert(t) : rows[s] > 0
          THEN /\ WriteRows(t, rows)
               /\ UNCHANGED excuses
          ELSE LET new == Reconciled(t, ToUpdate(t) \cup repriced)
               IN  /\ WriteRows(t, new)
                   /\ excuses' = ExcusesAfter(t, new)
    /\ Done(t)
    /\ UNCHANGED <<exchange, held, trades, unbooked>>

-----------------------------------------------------------------------------
(***************************************************************************)
(* The loop of the strategy: it reads the rows at the beginning of a tick, *)
(* runs the indicator, and writes each of them back with a new best price. *)
(***************************************************************************)

ReadForTick(l) ==
    /\ pc[l] = "idle" /\ rows # None
    /\ ReadAll(l)
    /\ pc' = [pc EXCEPT ![l] = "track"]
    /\ UNCHANGED <<dataVars, order, asked, trades, historyVars>>

TrackBestPrice(l) ==
    /\ pc[l] = "track" /\ copy[l] # None
    /\ \E s \in Sides :
          /\ copy[l][s] > 0
          /\ WriteRows(l, [rows EXCEPT ![s] = copy[l][s]])
          /\ excuses' = excuses \cup Excused("outdated", rows[s] # copy[l][s])
          /\ copy' = [copy EXCEPT ![l][s] = 0]
    /\ UNCHANGED <<exchange, held, pc, order, asked, trades, unbooked>>

\* All rows are written, or there is no new best price to write.
EndTick(l) ==
    /\ pc[l] = "track"
    /\ Done(l) /\ Forget(l)
    /\ UNCHANGED <<dataVars, trades, historyVars>>

-----------------------------------------------------------------------------
(***************************************************************************)
(* A trade at the exchange that no worker is there to see: somebody else   *)
(* trades the same position, or a limit order that was left open fills.    *)
(***************************************************************************)
ForeignTrade ==
    /\ trades < MaxTrades
    /\ trades' = trades + 1
    /\ \E s \in Sides, n \in 0..MaxSize :
          n # held[s] /\ held' = [held EXCEPT ![s] = n]
    /\ excuses' = excuses \cup {"foreign"}
    /\ UNCHANGED <<exchange, rows, threadVars, unbooked>>

Book(w)  == FetchPosition(w) \/ ApplyFill(w) \/ BookingFails(w)
Answer(w) == Fill(w) \/ AssumeFilled(w) \/ FailOrder(w)
Trade(w) == PlaceOrder(w) \/ Answer(w)
Ask(t)   == AskExchange(t) \/ MisreadExchange(t) \/ AskFails(t)
Sync(t)  == ReadRows(t) \/ Ask(t) \/ Reconcile(t)
Track(l) == ReadForTick(l) \/ TrackBestPrice(l) \/ EndTick(l)

LedgerNext ==
    \/ \E w \in Workers : Trade(w) \/ Book(w)
    \/ \E t \in Threads : Sync(t)
    \/ \E l \in Loops : Track(l)
    \/ ForeignTrade

(***************************************************************************)
(* Threads are scheduled, a worker comes to synchronise whenever it has    *)
(* nothing else to do, and an exchange that can be asked answers some time *)
(* when it is asked again and again.  An account that is skipped is never  *)
(* asked, so nothing is assumed of it.                                     *)
(***************************************************************************)
LedgerFairness ==
    /\ \A w \in Workers :
          /\ WF_ledgerVars(Answer(w))
          /\ WF_ledgerVars(Book(w))
          /\ WF_ledgerVars(ReadRows(w))
          /\ SF_ledgerVars(AskExchange(w))
    /\ \A l \in Loops : WF_ledgerVars(TrackBestPrice(l) \/ EndTick(l))
    /\ \A t \in Threads : WF_ledgerVars(Ask(t)) /\ WF_ledgerVars(Reconcile(t))

LedgerSpec ==
    LedgerInit /\ [][LedgerNext]_ledgerVars /\ LedgerFairness

-----------------------------------------------------------------------------
(***************************************************************************)
(* The rows and the fills that are still to be booked add up to the        *)
(* position at the exchange, as long as nobody worked on an outdated copy, *)
(* no booking failed, no fill went unseen or was assumed, and no trade was *)
(* made behind the worker's back; and a synchronisation that is not        *)
(* disturbed, and leaves no small difference alone, makes it so again.     *)
(***************************************************************************)
BooksBalance ==
    excuses = {} => \A s \in Sides : rows[s] + unbooked[s] = held[s]

(***************************************************************************)
(* However the threads race and whatever is lost, when trading ends each   *)
(* row agrees with the exchange again and again, up to the difference that *)
(* is not corrected: no ghost position stays, and none stays missing.      *)
(* Only an account whose symbols are understood heals.  It says "each row" *)
(* and not "all rows at once": the loop, writing its copies one by one,    *)
(* may put one row wrong whenever a synchronisation has put the other one  *)
(* right.                                                                  *)
(***************************************************************************)
Agrees(s) ==
    /\ rows[s] = 0 <=> held[s] = 0
    /\ ~Material(rows[s], held[s])

SelfHeals == exchange.client = "mapped" => \A s \in Sides : []<>Agrees(s)
=============================================================================
