----------------------- MODULE PositionLedger_proofs -----------------------
(***************************************************************************)
(* Proofs about PositionLedger for any sides, workers, loops and sizes.    *)
(***************************************************************************)
EXTENDS PositionLedger, TLAPS

USE LedgerAssumption

-----------------------------------------------------------------------------
(***************************************************************************)
(* What the actions are made of keeps the types.                           *)
(***************************************************************************)

LEMMA DoneTyped ==
    ASSUME LedgerTypeOK, NEW t \in Threads, Done(t)
    PROVE  /\ pc' \in [Threads -> {"idle", "placed", "fetch", "apply",
                                   "ask", "reconcile", "track"}]
           /\ order' \in [Threads -> Orders \cup {NoOrder}]
           /\ copy' \in [Threads -> Sizes] /\ asked' \in [Threads -> Sizes]
           /\ \A u \in Threads :
                 pc'[u] \in {"placed", "fetch", "apply"} => order'[u] \in Orders
  BY DEF LedgerTypeOK, Done, None, Sizes

LEMMA ReadAllTyped ==
    ASSUME LedgerTypeOK, NEW t \in Threads, ReadAll(t)
    PROVE  copy' \in [Threads -> Sizes] /\ gone' \in [Threads -> SUBSET Sides]
  BY DEF LedgerTypeOK, ReadAll, Sizes

LEMMA WriteRowsTyped ==
    ASSUME LedgerTypeOK, NEW t \in Threads, NEW new \in Sizes, WriteRows(t, new)
    PROVE  rows' \in Sizes /\ gone' \in [Threads -> SUBSET Sides]
  BY DEF LedgerTypeOK, WriteRows

LEMMA ForgetTyped ==
    ASSUME LedgerTypeOK, NEW t \in Threads, Forget(t)
    PROVE  gone' \in [Threads -> SUBSET Sides]
  BY DEF LedgerTypeOK, Forget

LEMMA SizeAfterFillTyped ==
    ASSUME NEW o \in Orders, NEW current \in Nat
    PROVE  SizeAfterFill(o, current) \in Nat
  BY DEF Orders, SizeAfterFill

\* A reduction never books more than the row had.
LEMMA SizeAfterFillExact ==
    ASSUME NEW o \in Orders, NEW current \in Nat,
           ~o.adds => o.amount <= current
    PROVE  SizeAfterFill(o, current) = current + Change(o, o.amount)
  BY DEF Orders, SizeAfterFill, Change

LEMMA ChangeTyped ==
    ASSUME NEW o \in Orders, NEW n \in Nat
    PROVE  Change(o, n) \in Int
  BY DEF Orders, Change

LEMMA FilledTyped ==
    ASSUME LedgerTypeOK, NEW o \in Orders, NEW n \in Nat, Filled(o, n)
    PROVE  held' \in Sizes
  <1>1. held[o.side] + Change(o, n) \in Nat
    BY LedgerAssumption DEF Filled
  <1> QED
    BY <1>1 DEF Filled, LedgerTypeOK, Sizes

LEMMA ToBookTyped ==
    ASSUME LedgerTypeOK, NEW o \in Orders, NEW n \in Nat, ToBook(o, n)
    PROVE  unbooked' \in [Sides -> Int]
  <1>1. Change(o, n) \in Int /\ o.side \in Sides
    BY ChangeTyped DEF Orders
  <1> QED
    BY <1>1 DEF ToBook, LedgerTypeOK

LEMMA BookedNowTyped ==
    ASSUME LedgerTypeOK, NEW w \in Threads, order[w] \in Orders
    PROVE  BookedNow(w) \in [Sides -> Int]
  <1>1. Change(order[w], order[w].amount) \in Int /\ order[w].side \in Sides
    BY ChangeTyped DEF Orders
  <1> QED
    BY <1>1 DEF LedgerTypeOK, BookedNow

LEMMA ReconciledTyped ==
    ASSUME LedgerTypeOK, NEW t \in Threads, NEW updated \in SUBSET Sides
    PROVE  Reconciled(t, updated) \in Sizes
  BY DEF LedgerTypeOK, Reconciled, Sizes

-----------------------------------------------------------------------------
(***************************************************************************)
(* Type correctness.                                                       *)
(***************************************************************************)

LEMMA LedgerInitTyped == LedgerInit => LedgerTypeOK
  BY DEF LedgerInit, LedgerTypeOK, None, Sizes, Reasons

LEMMA TradeTyped ==
    ASSUME LedgerTypeOK, NEW w \in Workers, Trade(w)
    PROVE  LedgerTypeOK'
  <1>w. w \in Threads
    BY DEF Threads
  <1>1. CASE PlaceOrder(w)
    <2>1. PICK side \in Sides, adds \in BOOLEAN, amount \in 1..MaxSize :
             order' = [order EXCEPT ![w] =
                 [side |-> side, adds |-> adds,
                  amount |-> Clamped(side, adds, amount)]]
      BY <1>1 DEF PlaceOrder
    <2>2. Clamped(side, adds, amount) \in Nat
      BY DEF Clamped, LedgerTypeOK, Sizes
    <2> QED
      BY <1>1, <1>w, <2>1, <2>2
         DEF PlaceOrder, LedgerTypeOK, Orders, dataVars, historyVars
  <1>2. CASE Fill(w)
    <2>1. order[w] \in Orders
      BY <1>2, <1>w DEF Fill, LedgerTypeOK
    <2>2. PICK n \in 1..order[w].amount, m \in 1..order[w].amount :
             /\ Filled(order[w], n) /\ ToBook(order[w], m)
             /\ order' = [order EXCEPT ![w].amount = m]
             /\ excuses' = excuses \cup Excused("unseen", m < n)
      BY <1>2 DEF Fill
    <2>3. n \in Nat /\ m \in Nat
      BY <2>1 DEF Orders
    <2>4. held' \in Sizes /\ unbooked' \in [Sides -> Int]
      BY <2>1, <2>2, <2>3, FilledTyped, ToBookTyped
    <2>5. /\ order' \in [Threads -> Orders \cup {NoOrder}]
          /\ \A u \in Threads : u # w => order'[u] = order[u]
          /\ order'[w] \in Orders
      BY <1>w, <2>1, <2>2, <2>3 DEF LedgerTypeOK, Orders
    <2>6. excuses' \subseteq Reasons
      BY <2>2 DEF LedgerTypeOK, Reasons, Excused
    <2> QED
      BY <1>2, <1>w, <2>4, <2>5, <2>6 DEF Fill, LedgerTypeOK
  <1>3. CASE AssumeFilled(w)
    <2>1. order[w] \in Orders
      BY <1>3, <1>w DEF AssumeFilled, LedgerTypeOK
    <2>2. PICK n \in 0..order[w].amount :
             /\ Filled(order[w], n) /\ ToBook(order[w], order[w].amount)
             /\ excuses' = excuses \cup
                               Excused("assumed", n # order[w].amount)
      BY <1>3 DEF AssumeFilled
    <2>3. n \in Nat /\ order[w].amount \in Nat
      BY <2>1 DEF Orders
    <2>4. held' \in Sizes /\ unbooked' \in [Sides -> Int]
      BY <2>1, <2>2, <2>3, FilledTyped, ToBookTyped
    <2>5. excuses' \subseteq Reasons
      BY <2>2 DEF LedgerTypeOK, Reasons, Excused
    <2> QED
      BY <1>3, <1>w, <2>1, <2>4, <2>5 DEF AssumeFilled, LedgerTypeOK
  <1>4. CASE FailOrder(w)
    <2>1. order[w] \in Orders
      BY <1>4, <1>w DEF FailOrder, LedgerTypeOK
    <2>2. PICK n \in 0..order[w].amount :
             /\ Filled(order[w], n)
             /\ excuses' = excuses \cup Excused("unseen", n > 0)
      BY <1>4 DEF FailOrder
    <2>3. held' \in Sizes
      BY <2>1, <2>2, FilledTyped DEF Orders
    <2>4. excuses' \subseteq Reasons
      BY <2>2 DEF LedgerTypeOK, Reasons, Excused
    <2> QED
      BY <1>4, <1>w, <2>3, <2>4, DoneTyped, ForgetTyped
         DEF FailOrder, LedgerTypeOK
  <1> QED
    BY <1>1, <1>2, <1>3, <1>4 DEF Trade, Answer

LEMMA BookTyped ==
    ASSUME LedgerTypeOK, NEW w \in Workers, Book(w)
    PROVE  LedgerTypeOK'
  <1>w. w \in Threads
    BY DEF Threads
  <1>1. CASE FetchPosition(w)
    BY <1>1, <1>w, ReadAllTyped
       DEF FetchPosition, LedgerTypeOK, dataVars, historyVars
  <1>2. CASE ApplyFill(w)
    <2> DEFINE o == order[w]
               current == copy[w][o.side]
               new == [rows EXCEPT ![o.side] = SizeAfterFill(o, current)]
    <2>1. o \in Orders
      BY <1>2, <1>w DEF ApplyFill, LedgerTypeOK
    <2>2. o.side \in Sides /\ current \in Nat
      BY <1>w, <2>1 DEF Orders, LedgerTypeOK, Sizes
    <2>3. new \in Sizes
      <3>1. SizeAfterFill(o, current) \in Nat
        BY <2>1, <2>2, SizeAfterFillTyped
      <3> QED
        BY <2>2, <3>1 DEF LedgerTypeOK, Sizes
    <2>4. WriteRows(w, new) /\ Done(w) /\ unbooked' = BookedNow(w)
      BY <1>2 DEF ApplyFill
    <2>5. rows' \in Sizes /\ gone' \in [Threads -> SUBSET Sides]
      BY <1>w, <2>3, <2>4, WriteRowsTyped
    <2>6. unbooked' \in [Sides -> Int]
      BY <1>w, <2>1, <2>4, BookedNowTyped
    <2>7. /\ excuses' \subseteq Reasons
          /\ UNCHANGED <<exchange, held, trades>>
      BY <1>2 DEF ApplyFill, LedgerTypeOK, Reasons, Excused
    <2> QED
      BY <1>w, <2>4, <2>5, <2>6, <2>7, DoneTyped DEF LedgerTypeOK
  <1>3. CASE BookingFails(w)
    <2>1. order[w] \in Orders
      BY <1>3, <1>w DEF BookingFails, LedgerTypeOK
    <2> QED
      BY <1>3, <1>w, <2>1, BookedNowTyped, DoneTyped, ForgetTyped
         DEF BookingFails, LedgerTypeOK, dataVars, Reasons
  <1> QED
    BY <1>1, <1>2, <1>3 DEF Book

LEMMA SyncTyped ==
    ASSUME LedgerTypeOK, NEW t \in Threads, Sync(t)
    PROVE  LedgerTypeOK'
  <1>1. CASE ReadRows(t)
    BY <1>1, ReadAllTyped DEF ReadRows, LedgerTypeOK, dataVars, historyVars
  <1>2. CASE AskExchange(t)
    BY <1>2 DEF AskExchange, LedgerTypeOK, dataVars, historyVars, None, Sizes
  <1>3. CASE MisreadExchange(t)
    <2>1. PICK answer \in [Sides -> 0..MaxSize] :
             asked' = [asked EXCEPT ![t] = answer]
      BY <1>3 DEF MisreadExchange
    <2>2. answer \in Sizes
      BY LedgerAssumption DEF Sizes
    <2>3. asked' \in [Threads -> Sizes]
      BY <2>1, <2>2 DEF LedgerTypeOK
    <2> QED
      BY <1>3, <2>3 DEF MisreadExchange, LedgerTypeOK, dataVars, historyVars
  <1>4. CASE AskFails(t)
    BY <1>4, DoneTyped, ForgetTyped
       DEF AskFails, LedgerTypeOK, dataVars, historyVars
  <1>5. CASE Reconcile(t)
    <2>1. PICK repriced \in SUBSET Repriced(t) :
             \/ WriteRows(t, rows) /\ UNCHANGED excuses
             \/ LET new == Reconciled(t, ToUpdate(t) \cup repriced)
                IN  WriteRows(t, new) /\ excuses' = ExcusesAfter(t, new)
      BY <1>5 DEF Reconcile
    <2>2. ToUpdate(t) \cup repriced \in SUBSET Sides
      BY DEF ToUpdate, Repriced
    <2>3. rows \in Sizes /\ Reconciled(t, ToUpdate(t) \cup repriced) \in Sizes
      BY <2>2, ReconciledTyped DEF LedgerTypeOK
    <2>4. rows' \in Sizes /\ gone' \in [Threads -> SUBSET Sides]
      BY <2>1, <2>3, WriteRowsTyped
    <2>5. excuses' \subseteq Reasons
      BY <2>1 DEF LedgerTypeOK, Reasons, ExcusesAfter, Excused
    <2> QED
      BY <1>5, <2>4, <2>5, DoneTyped DEF Reconcile, LedgerTypeOK
  <1> QED
    BY <1>1, <1>2, <1>3, <1>4, <1>5 DEF Sync, Ask

LEMMA TrackTyped ==
    ASSUME LedgerTypeOK, NEW l \in Loops, Track(l)
    PROVE  LedgerTypeOK'
  <1>l. l \in Threads
    BY DEF Threads
  <1>1. CASE ReadForTick(l)
    BY <1>1, <1>l, ReadAllTyped
       DEF ReadForTick, LedgerTypeOK, dataVars, historyVars
  <1>2. CASE TrackBestPrice(l)
    <2>1. PICK s \in Sides :
             /\ WriteRows(l, [rows EXCEPT ![s] = copy[l][s]])
             /\ excuses' = excuses \cup
                              Excused("outdated", rows[s] # copy[l][s])
             /\ copy' = [copy EXCEPT ![l][s] = 0]
      BY <1>2 DEF TrackBestPrice
    <2>2. [rows EXCEPT ![s] = copy[l][s]] \in Sizes
      BY <1>l DEF LedgerTypeOK, Sizes
    <2>3. rows' \in Sizes /\ gone' \in [Threads -> SUBSET Sides]
      BY <1>l, <2>1, <2>2, WriteRowsTyped
    <2>4. copy' \in [Threads -> Sizes]
      BY <1>l, <2>1 DEF LedgerTypeOK, Sizes
    <2>5. excuses' \subseteq Reasons
      BY <2>1 DEF LedgerTypeOK, Reasons, Excused
    <2> QED
      BY <1>2, <2>3, <2>4, <2>5 DEF TrackBestPrice, LedgerTypeOK
  <1>3. CASE EndTick(l)
    BY <1>3, <1>l, DoneTyped, ForgetTyped
       DEF EndTick, LedgerTypeOK, dataVars, historyVars
  <1> QED
    BY <1>1, <1>2, <1>3 DEF Track

LEMMA ForeignTradeTyped ==
    ASSUME LedgerTypeOK, ForeignTrade
    PROVE  LedgerTypeOK'
  BY DEF ForeignTrade, LedgerTypeOK, threadVars, Sizes, Reasons

LEMMA LedgerNextTyped == LedgerTypeOK /\ [LedgerNext]_ledgerVars => LedgerTypeOK'
  <1> SUFFICES ASSUME LedgerTypeOK, [LedgerNext]_ledgerVars
               PROVE  LedgerTypeOK'
    OBVIOUS
  <1>1. CASE LedgerNext
    BY <1>1, TradeTyped, BookTyped, SyncTyped, TrackTyped, ForeignTradeTyped
       DEF LedgerNext
  <1>2. CASE UNCHANGED ledgerVars
    BY <1>2
       DEF LedgerTypeOK, ledgerVars, dataVars, threadVars, historyVars
  <1> QED
    BY <1>1, <1>2

(***************************************************************************)
(* Sizes stay natural numbers: no booking takes a row below zero           *)
(* (apply_fill_to_local_position).                                         *)
(***************************************************************************)
THEOREM LedgerTyped == LedgerSpec => []LedgerTypeOK
  <1>1. LedgerInit => LedgerTypeOK
    BY LedgerInitTyped
  <1>2. LedgerTypeOK /\ [LedgerNext]_ledgerVars => LedgerTypeOK'
    BY LedgerNextTyped
  <1> QED
    BY <1>1, <1>2, PTL DEF LedgerSpec

-----------------------------------------------------------------------------
(***************************************************************************)
(* The books balance.  Every excuse stays until an undisturbed             *)
(* synchronisation, so a step that leaves none had none before, or is that *)
(* synchronisation.                                                        *)
(***************************************************************************)

LedgerInv == LedgerTypeOK /\ BooksBalance

\* A step that writes neither rows, holdings nor fills to be booked.
LEMMA UntouchedBalances ==
    ASSUME LedgerInv, UNCHANGED <<rows, held, unbooked, excuses>>
    PROVE  BooksBalance'
  BY DEF LedgerInv, BooksBalance

\* What the exchange fills and the worker is to book is the same.
LEMMA SeenBalances ==
    ASSUME LedgerInv, NEW o \in Orders, NEW n \in Nat,
           Filled(o, n), ToBook(o, n), rows' = rows, excuses = {}
    PROVE  \A s \in Sides : rows'[s] + unbooked'[s] = held'[s]
  <1>1. Change(o, n) \in Int
    BY ChangeTyped
  <1> QED
    BY <1>1 DEF Filled, ToBook, LedgerInv, LedgerTypeOK, BooksBalance, Sizes

LEMMA FillBalances ==
    ASSUME LedgerInv, NEW w \in Workers, Fill(w)
    PROVE  BooksBalance'
  <1>1. order[w] \in Orders
    BY DEF Fill, LedgerInv, LedgerTypeOK, Threads
  <1>2. PICK n \in 1..order[w].amount, m \in 1..order[w].amount :
           /\ m <= n
           /\ Filled(order[w], n) /\ ToBook(order[w], m)
           /\ excuses' = excuses \cup Excused("unseen", m < n)
    BY DEF Fill
  <1>3. n \in Nat /\ m \in Nat /\ rows' = rows
    BY <1>1 DEF Fill, Orders
  <1>4. excuses' = {} => excuses = {} /\ m = n
    BY <1>2, <1>3 DEF Excused
  <1> QED
    BY <1>1, <1>2, <1>3, <1>4, SeenBalances DEF BooksBalance

LEMMA AssumeFilledBalances ==
    ASSUME LedgerInv, NEW w \in Workers, AssumeFilled(w)
    PROVE  BooksBalance'
  <1>1. order[w] \in Orders
    BY DEF AssumeFilled, LedgerInv, LedgerTypeOK, Threads
  <1>2. PICK n \in 0..order[w].amount :
           /\ Filled(order[w], n) /\ ToBook(order[w], order[w].amount)
           /\ excuses' = excuses \cup Excused("assumed", n # order[w].amount)
    BY DEF AssumeFilled
  <1>3. n \in Nat /\ rows' = rows
    BY <1>1 DEF AssumeFilled, Orders
  <1>4. excuses' = {} => excuses = {} /\ n = order[w].amount
    BY <1>2 DEF Excused
  <1> QED
    BY <1>1, <1>2, <1>3, <1>4, SeenBalances DEF BooksBalance

LEMMA FailOrderBalances ==
    ASSUME LedgerInv, NEW w \in Workers, FailOrder(w)
    PROVE  BooksBalance'
  <1>1. order[w] \in Orders
    BY DEF FailOrder, LedgerInv, LedgerTypeOK, Threads
  <1>2. PICK n \in 0..order[w].amount :
           /\ Filled(order[w], n)
           /\ excuses' = excuses \cup Excused("unseen", n > 0)
    BY DEF FailOrder
  <1>3. rows' = rows /\ unbooked' = unbooked
    BY DEF FailOrder
  <1>4. excuses' = {} => excuses = {} /\ n = 0
    BY <1>1, <1>2 DEF Excused, Orders
  <1>5. n = 0 => held' = held
    BY <1>1, <1>2 DEF Filled, Change, LedgerInv, LedgerTypeOK, Sizes, Orders
  <1> QED
    BY <1>3, <1>4, <1>5 DEF LedgerInv, BooksBalance

LEMMA ApplyFillBalances ==
    ASSUME LedgerInv, NEW w \in Workers, ApplyFill(w), excuses' = {}
    PROVE  \A s \in Sides : rows'[s] + unbooked'[s] = held'[s]
  <1> DEFINE o == order[w]
             current == copy[w][o.side]
  <1>1. w \in Threads /\ o \in Orders
    BY DEF ApplyFill, LedgerInv, LedgerTypeOK, Threads
  <1>2. o.side \in Sides /\ current \in Nat /\ Change(o, o.amount) \in Int
    BY <1>1, ChangeTyped DEF Orders, LedgerInv, LedgerTypeOK, Sizes
  <1>3. excuses = {} /\ rows[o.side] = current /\ (~o.adds => o.amount <= current)
    <2>1. /\ excuses = {}
          /\ Excused("outdated", rows[o.side] # current) = {}
          /\ Excused("early", ~o.adds /\ o.amount > current) = {}
      BY DEF ApplyFill
    <2>2. rows[o.side] = current /\ ~(~o.adds /\ o.amount > current)
      BY <2>1 DEF Excused
    <2>3. o.amount \in Nat /\ o.adds \in BOOLEAN
      BY <1>1 DEF Orders
    <2> QED
      BY <1>2, <2>1, <2>2, <2>3
  <1>4. SizeAfterFill(o, current) = current + Change(o, o.amount)
    BY <1>1, <1>2, <1>3, SizeAfterFillExact
  <1>5. /\ rows' = [rows EXCEPT ![o.side] = current + Change(o, o.amount)]
        /\ unbooked' = [unbooked EXCEPT ![o.side] = @ - Change(o, o.amount)]
        /\ held' = held
    BY <1>4 DEF ApplyFill, WriteRows, BookedNow
  <1> HIDE DEF o, current
  <1> QED
    BY <1>2, <1>3, <1>5 DEF LedgerInv, LedgerTypeOK, BooksBalance, Sizes

\* A synchronisation that finds nothing to correct writes nothing new.
LEMMA ReconciledSame ==
    ASSUME LedgerTypeOK, NEW t \in Threads, NEW updated,
           asked[t] = held, rows = held
    PROVE  \A s \in Sides : Reconciled(t, updated)[s] = held[s]
  BY DEF LedgerTypeOK, Reconciled, Sizes

LEMMA ReconcileBalances ==
    ASSUME LedgerInv, NEW t \in Threads, Reconcile(t)
    PROVE  BooksBalance'
  <1>1. PICK repriced \in SUBSET Repriced(t) :
           \/ WriteRows(t, rows) /\ UNCHANGED excuses
           \/ LET new == Reconciled(t, ToUpdate(t) \cup repriced)
              IN  WriteRows(t, new) /\ excuses' = ExcusesAfter(t, new)
    BY DEF Reconcile
  <1>2. held' = held /\ unbooked' = unbooked
    BY DEF Reconcile
  <1>3. CASE WriteRows(t, rows) /\ UNCHANGED excuses
    BY <1>2, <1>3 DEF WriteRows, LedgerInv, BooksBalance
  <1> DEFINE new == Reconciled(t, ToUpdate(t) \cup repriced)
  <1>4. CASE WriteRows(t, new) /\ excuses' = ExcusesAfter(t, new)
    <2>1. rows' = new
      BY <1>4 DEF WriteRows
    <2>2. CASE UpToDate(t) /\ new = held
      <3>1. \A s \in Sides : unbooked[s] = 0 /\ held[s] \in Nat
        BY <2>2 DEF UpToDate, None, LedgerInv, LedgerTypeOK, Sizes
      <3> QED
        BY <1>2, <2>1, <2>2, <3>1 DEF BooksBalance
    <2>3. CASE ~(UpToDate(t) /\ new = held)
      <3>1. /\ excuses' = {} => excuses = {}
            /\ excuses' = {} /\ ~UpToDate(t) => new = rows
        BY <1>4, <2>3 DEF ExcusesAfter, Excused
      <3>2. ASSUME excuses = {}, UpToDate(t)
            PROVE  \A s \in Sides : new[s] = held[s] /\ rows[s] = held[s]
        <4>1. asked[t] = held /\ \A s \in Sides : unbooked[s] = 0
          BY <3>2 DEF UpToDate, None
        <4>2. \A s \in Sides : rows[s] = held[s]
          BY <3>2, <4>1 DEF LedgerInv, BooksBalance, LedgerTypeOK, Sizes
        <4>3. rows = held
          BY <4>2 DEF LedgerInv, LedgerTypeOK, Sizes
        <4> QED
          BY <4>1, <4>2, <4>3, ReconciledSame DEF LedgerInv
      <3> QED
        BY <1>2, <2>1, <3>1, <3>2 DEF LedgerInv, BooksBalance
    <2> QED
      BY <2>2, <2>3
  <1> QED
    BY <1>1, <1>3, <1>4

LEMMA TrackBestPriceBalances ==
    ASSUME LedgerInv, NEW l \in Loops, TrackBestPrice(l)
    PROVE  BooksBalance'
  <1>1. PICK s \in Sides :
           /\ WriteRows(l, [rows EXCEPT ![s] = copy[l][s]])
           /\ excuses' = excuses \cup Excused("outdated", rows[s] # copy[l][s])
    BY DEF TrackBestPrice
  <1>2. held' = held /\ unbooked' = unbooked
    BY DEF TrackBestPrice
  <1>3. excuses' = {} => excuses = {} /\ rows' = rows
    BY <1>1 DEF Excused, WriteRows, LedgerInv, LedgerTypeOK, Sizes
  <1> QED
    BY <1>2, <1>3 DEF LedgerInv, BooksBalance

LEMMA LedgerNextBalances ==
    LedgerInv /\ [LedgerNext]_ledgerVars => LedgerInv'
  <1> SUFFICES ASSUME LedgerInv, [LedgerNext]_ledgerVars
               PROVE  BooksBalance'
    BY LedgerNextTyped DEF LedgerInv
  <1>1. CASE UNCHANGED ledgerVars
    BY <1>1, UntouchedBalances DEF ledgerVars, dataVars, historyVars
  <1>2. ASSUME NEW w \in Workers, Trade(w) PROVE BooksBalance'
    <2>1. CASE PlaceOrder(w)
      BY <2>1, UntouchedBalances DEF PlaceOrder, dataVars, historyVars
    <2>2. CASE Fill(w)
      BY <2>2, FillBalances
    <2>3. CASE AssumeFilled(w)
      BY <2>3, AssumeFilledBalances
    <2>4. CASE FailOrder(w)
      BY <2>4, FailOrderBalances
    <2> QED
      BY <1>2, <2>1, <2>2, <2>3, <2>4 DEF Trade, Answer
  <1>3. ASSUME NEW w \in Workers, Book(w) PROVE BooksBalance'
    <2>1. CASE FetchPosition(w)
      BY <2>1, UntouchedBalances DEF FetchPosition, dataVars, historyVars
    <2>2. CASE ApplyFill(w)
      BY <2>2, ApplyFillBalances DEF BooksBalance
    <2>3. CASE BookingFails(w)
      BY <2>3 DEF BookingFails, BooksBalance
    <2> QED
      BY <1>3, <2>1, <2>2, <2>3 DEF Book
  <1>4. ASSUME NEW t \in Threads, Sync(t) PROVE BooksBalance'
    <2>1. CASE ReadRows(t) \/ Ask(t)
      BY <2>1, UntouchedBalances
         DEF ReadRows, Ask, AskExchange, MisreadExchange, AskFails, dataVars,
             historyVars
    <2> QED
      BY <1>4, <2>1, ReconcileBalances DEF Sync
  <1>5. ASSUME NEW l \in Loops, Track(l) PROVE BooksBalance'
    <2>1. CASE ReadForTick(l) \/ EndTick(l)
      BY <2>1, UntouchedBalances DEF ReadForTick, EndTick, dataVars, historyVars
    <2> QED
      BY <1>5, <2>1, TrackBestPriceBalances DEF Track
  <1>6. CASE ForeignTrade
    BY <1>6 DEF ForeignTrade, BooksBalance
  <1> QED
    BY <1>1, <1>2, <1>3, <1>4, <1>5, <1>6 DEF LedgerNext

(***************************************************************************)
(* Rows and fills to be booked add up to the position at the exchange as   *)
(* long as no excuse stands: with any number of workers, loops and orders, *)
(* on any exchange, the read-modify-write of a booking and the             *)
(* synchronisation go wrong only when one of them works on an outdated     *)
(* copy, and the rest is due to fills and trades the workers never saw.    *)
(***************************************************************************)
THEOREM LedgerBalances == LedgerSpec => []BooksBalance
  <1>1. LedgerInit => LedgerInv
    BY LedgerInitTyped
       DEF LedgerInit, LedgerInv, BooksBalance, None
  <1>2. LedgerInv /\ [LedgerNext]_ledgerVars => LedgerInv'
    BY LedgerNextBalances
  <1>3. LedgerInv => BooksBalance
    BY DEF LedgerInv
  <1> QED
    BY <1>1, <1>2, <1>3, PTL DEF LedgerSpec
=============================================================================
