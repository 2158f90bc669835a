---------------------------- MODULE SignalEngine ----------------------------
(***************************************************************************)
(* How one strategy turns signals into orders: services/                   *)
(* trading_executor.py, the tick of _run_strategy_loop, _execute_signal    *)
(* and _enqueue_pending_order.                                             *)
(*                                                                         *)
(* A signal is a type (open, add, reduce or close a side) and the candle   *)
(* it belongs to.  Candles are counted back from the current one: 0 is the *)
(* current candle, 1 the one before; Old stands for all further back.      *)
(* Time passes in clock ticks, Tf of them in a candle.                     *)
(*                                                                         *)
(* A process remembers in memory which signals it has taken up (keys, with *)
(* the time they still live).  A strategy may have a loop in each process, *)
(* since every process that boots restores the strategies marked running.  *)
(*                                                                         *)
(* In live mode the loop only queues orders, and the position moves when a *)
(* worker has executed them; in signal mode the loop moves the local       *)
(* position itself.                                                        *)
(***************************************************************************)
EXTENDS Integers, Sequences, FiniteSets, SequencesExt

CONSTANTS
    Processes,      \* server processes
    Types,          \* the types of signals the strategy emits
    Configs,        \* settings of the strategy
    Tf,             \* clock ticks in a candle
    KeyLife,        \* clock ticks a key is kept
    MaxTriggered,   \* bound: signals of the strategy triggered in one tick
    MaxEntries,     \* bound: open and add signals taken up in all
    MaxQueued,      \* bound: rows that wait in the queue
    MaxFaults       \* bound: database errors, failed orders, stops, restarts

PositionSides == {"long", "short"}
TypeRecords ==
    [act : {"close", "reduce", "open", "add"}, side : PositionSides]
ConfigRecords == [mode : {"signal", "live"}, bot : BOOLEAN,
                  direction : {"long", "short", "both"}]

(***************************************************************************)
(* A key is kept for max(2 candles, 120 seconds).                          *)
(***************************************************************************)
ASSUME SignalAssumption ==
    /\ Types \subseteq TypeRecords /\ Configs \subseteq ConfigRecords
    /\ Tf \in Nat \ {0} /\ KeyLife \in Nat /\ KeyLife >= 2 * Tf
    /\ MaxTriggered \in Nat /\ MaxEntries \in Nat
    /\ MaxQueued \in Nat /\ MaxFaults \in Nat

Candles == {0, 1}
Old     == 2
Keys    == Types \X Candles
Signals == [type : Types, candle : Candles \cup {Old}]

(***************************************************************************)
(* Rows are counted up to Many; the candle of a row is looked at for       *)
(* openings and closings.                                                  *)
(***************************************************************************)
Many == 2
PlusOne(n) == IF n < Many THEN n + 1 ELSE n
StrictKeys == {k \in Keys : k[1].act \in {"open", "close"}}

VARIABLES
    config,     \* mode, bot or indicator strategy, allowed direction
    left,       \* clock ticks until the current candle closes
    adverse,    \* sides whose stop, target or trailing line the price crossed
    position,   \* sides that have a local position row
    queued,     \* rows of pending_orders waiting or being executed, by type
    rowsFor,    \* rows inserted for an opening or closing and a candle
    keys,       \* by process: remaining life of the key of type and candle
    at,         \* by process: off, idle, recheck, enqueue or move
    batch,      \* by process: the signals taken up and not yet executed
    decided,    \* by process: the type of order and the sides it has read
    faults,     \* faults so far
    entries,    \* open and add signals taken up so far
    mine,       \* history, by process: rows for a signal in its present life,
                \* of an indicator strategy
    misreads,   \* history: reads of the position that failed
    alone       \* history: no two loops of the strategy ran at once

marketVars == <<config, left, adverse>>
tableVars  == <<position, queued, rowsFor>>
loopVars   == <<keys, at, batch, decided>>
boundVars  == <<faults, entries>>
signalHistory == <<mine, misreads, alone>>
signalVars == <<marketVars, tableVars, loopVars, boundVars, signalHistory>>

Busy == {"recheck", "enqueue", "move"}
Decisions == [type : Types, sides : SUBSET PositionSides]
Undecided == [sides |-> {}]

SignalTypeOK ==
    /\ config \in Configs
    /\ left \in 1..Tf
    /\ adverse \subseteq PositionSides /\ position \subseteq PositionSides
    /\ queued \in [Types -> Nat]
    /\ rowsFor \in [StrictKeys -> 0..Many]
    /\ keys \in [Processes -> [Keys -> 0..KeyLife]]
    /\ at \in [Processes -> {"off", "idle"} \cup Busy]
    /\ batch \in [Processes -> Seq(Signals)]
    /\ decided \in [Processes -> Decisions \cup {Undecided}]
    /\ faults \in 0..MaxFaults /\ entries \in Nat
    /\ mine \in [Processes -> [Keys -> 0..Many]]
    /\ misreads \in Nat /\ alone \in BOOLEAN
    /\ \A p \in Processes :
          /\ at[p] \in Busy => batch[p] # <<>>
          /\ at[p] \in {"enqueue", "move"} => decided[p] \in Decisions

Nothing == [k \in Keys |-> 0]

SignalInit ==
    /\ config \in Configs
    /\ left = Tf
    /\ adverse = {} /\ position = {}
    /\ queued = [t \in Types |-> 0]
    /\ rowsFor = [k \in StrictKeys |-> 0]
    /\ keys = [p \in Processes |-> Nothing]
    /\ at = [p \in Processes |-> "off"]
    /\ batch = [p \in Processes |-> <<>>]
    /\ decided = [p \in Processes |-> Undecided]
    /\ faults = 0 /\ entries = 0
    /\ mine = [p \in Processes |-> Nothing]
    /\ misreads = 0 /\ alone = TRUE

Fault == faults < MaxFaults /\ faults' = faults + 1

-----------------------------------------------------------------------------
(***************************************************************************)
(* Pure parts.                                                             *)
(***************************************************************************)

\* _is_signal_allowed: the state machine of a single position.
IsSignalAllowed(state, type) ==
    IF state = "flat" THEN type.act = "open"
    ELSE type.side = state /\ type.act # "open"

(***************************************************************************)
(* _position_state: the side of the first row.  With two rows it is either *)
(* of them: the query has no order.                                        *)
(***************************************************************************)
PositionStates(sides) == IF sides = {} THEN {"flat"} ELSE sides

\* _signal_priority: lower goes first.
SignalPriority(type) ==
    CASE type.act = "close" -> 0 [] type.act = "reduce" -> 1
      [] type.act = "open" -> 2 [] type.act = "add" -> 3

(***************************************************************************)
(* The sort key: priority, then time, then the name of the type.  It is    *)
(* different for any two signals, so a set has one order.                  *)
(***************************************************************************)
GoesBefore(a, b) ==
    \/ SignalPriority(a.type) < SignalPriority(b.type)
    \/ /\ SignalPriority(a.type) = SignalPriority(b.type)
       /\ a.candle > b.candle \/ (a.candle = b.candle /\ a.type.side = "long")

InOrder(signals) ==
    {q \in SetToSeqs(signals) :
        \A i, j \in DOMAIN q : i < j => GoesBefore(q[i], q[j])}

(***************************************************************************)
(* Signals are dropped when they are two candles old, that is, as soon as  *)
(* their candle is Old.                                                    *)
(***************************************************************************)
Age(candle) == candle * Tf + (Tf - left)
IsValid(signal) == signal.candle # Old /\ Age(signal.candle) < 2 * Tf

\* Bug variant of ServerExits: the exit of the other side is sent.
WrongSideExits(state) ==
    {[type |-> t, candle |-> 0] : t \in
        {u \in Types : u.act = "close" /\ u.side # state /\ state \in adverse}}

(***************************************************************************)
(* What the tick finds triggered: signals of the strategy, and the exits   *)
(* of the server (stop-loss, take-profit, trailing stop), which carry the  *)
(* time of the current candle and look at the first row only.              *)
(***************************************************************************)
ServerExits(state) ==
    {[type |-> t, candle |-> 0] : t \in
        {u \in Types : u.act = "close" /\ u.side = state /\ state \in adverse}}

Triggered(state) ==
    {own \cup ServerExits(state) : own \in
        UNION {kSubset(n, {s \in Signals : IsValid(s)}) : n \in 0..MaxTriggered}}

(***************************************************************************)
(* The direction is enforced when the position is flat.                    *)
(***************************************************************************)
DirectionAllows(state, type) ==
    state = "flat" /\ config.direction # "both"
        => type = [act |-> "open", side |-> config.direction]

(***************************************************************************)
(* The candidates of a tick.  A bot keeps them all here, since it may need *)
(* several steps in one tick; each is checked again before it is executed. *)
(***************************************************************************)
Candidates(state, triggered) ==
    {s \in triggered : /\ config.bot \/ IsSignalAllowed(state, s.type)
                       /\ DirectionAllows(state, s.type)}

Key(signal) == <<signal.type, signal.candle>>
IsReserved(p, signal) == keys[p][Key(signal)] > 0

\* Bug variant of Reserve: the key is kept for one candle only.
ReserveOneCandle(p, signal) == [keys EXCEPT ![p][Key(signal)] = Tf]

Reserve(p, signal) == [keys EXCEPT ![p][Key(signal)] = KeyLife]

IsEntry(signal) == signal.type.act \in {"open", "add"}
EntriesIn(signals) ==
    Cardinality({i \in 1..Len(signals) : IsEntry(signals[i])})

-----------------------------------------------------------------------------
(***************************************************************************)
(* Loops and processes.                                                    *)
(***************************************************************************)

\* start_strategy, or the restore of a strategy at boot.
StartLoop(p) ==
    /\ at[p] = "off"
    /\ at' = [at EXCEPT ![p] = "idle"]
    /\ alone' = (alone /\ \A q \in Processes : at[q] = "off")
    /\ UNCHANGED <<marketVars, tableVars, keys, batch, decided, boundVars,
                   mine, misreads>>

\* The strategy is stopped; the keys stay in the executor.
EndLoop(p) ==
    /\ at[p] = "idle" /\ Fault
    /\ at' = [at EXCEPT ![p] = "off"]
    /\ UNCHANGED <<marketVars, tableVars, keys, batch, decided, entries,
                   signalHistory>>

\* The process ends, whatever the loop was doing; its memory is gone.
Restart(p) ==
    /\ at[p] # "off" /\ Fault
    /\ at' = [at EXCEPT ![p] = "off"]
    /\ batch' = [batch EXCEPT ![p] = <<>>]
    /\ decided' = [decided EXCEPT ![p] = Undecided]
    /\ keys' = [keys EXCEPT ![p] = Nothing]
    /\ mine' = [mine EXCEPT ![p] = Nothing]
    /\ UNCHANGED <<marketVars, tableVars, entries, misreads, alone>>

-----------------------------------------------------------------------------
(***************************************************************************)
(* Choosing what to execute.                                               *)
(***************************************************************************)

\* _get_current_positions: an error reads as "no position".
Reads(sides) ==
    \/ sides = position /\ UNCHANGED <<faults, misreads>>
    \/ sides = {} /\ position # {} /\ Fault /\ misreads' = misreads + 1

(***************************************************************************)
(* An indicator strategy executes the first candidate that it has not      *)
(* taken up before, and reserves its key whether or not an order comes of  *)
(* it; a bot executes them all.                                            *)
(***************************************************************************)
Selected(p, candidates) ==
    IF config.bot THEN InOrder(candidates)
    ELSE LET fresh == {s \in candidates : ~IsReserved(p, s)}
         IN  {<<s>> : s \in {f \in fresh :
                                \A g \in fresh \ {f} : GoesBefore(f, g)}}

QueueLength == MapThenSumSet(LAMBDA t : queued[t], Types)

(***************************************************************************)
(* A tick up to the choice; the reads it makes of the position are taken   *)
(* together, for the position is read again before anything is done.       *)
(***************************************************************************)
EvaluateTriggers(p) ==
    /\ at[p] = "idle"
    /\ \E sides \in SUBSET PositionSides :
          /\ Reads(sides)
          /\ \E state \in PositionStates(sides) :
             \E triggered \in Triggered(state) :
             \E chosen \in Selected(p, Candidates(state, triggered)) :
                /\ chosen # <<>>
                /\ config.mode = "live"
                      => QueueLength + Len(chosen) <= MaxQueued
                /\ entries + EntriesIn(chosen) <= MaxEntries
                /\ entries' = entries + EntriesIn(chosen)
                /\ batch' = [batch EXCEPT ![p] = chosen]
                /\ keys' = IF config.bot THEN keys
                           ELSE Reserve(p, Head(chosen))
    /\ at' = [at EXCEPT ![p] = "recheck"]
    /\ UNCHANGED <<marketVars, tableVars, decided, mine, alone>>

\* Bug variant of NextSignal: the end of the batch is not noticed.
NeverEndsBatch(p) ==
    /\ batch' = [batch EXCEPT ![p] = Tail(@)]
    /\ at' = [at EXCEPT ![p] = "recheck"]
    /\ decided' = [decided EXCEPT ![p] = Undecided]

(***************************************************************************)
(* The next signal of the batch, or the end of the tick.                   *)
(***************************************************************************)
NextSignal(p) ==
    /\ batch' = [batch EXCEPT ![p] = Tail(@)]
    /\ at' = [at EXCEPT ![p] = IF Len(batch[p]) = 1 THEN "idle" ELSE "recheck"]
    /\ decided' = [decided EXCEPT ![p] = Undecided]

(***************************************************************************)
(* A reduction of all of it becomes a close, and a bot's close of a part   *)
(* becomes a reduction; the row in the queue bears the new type.           *)
(***************************************************************************)
Executed(type) ==
    {type} \cup
    (IF type.act = "reduce" \/ (config.bot /\ type.act = "close")
     THEN {t \in Types : t.side = type.side /\ t.act \in {"close", "reduce"}}
     ELSE {})

Decide(p, type, sides) ==
    /\ decided' = [decided EXCEPT ![p] = [type |-> type, sides |-> sides]]
    /\ at' = [at EXCEPT ![p] = "enqueue"]
    /\ UNCHANGED batch

\* Bug variant of Recheck: the state machine is not asked a second time.
NoRecheck(p) ==
    /\ at[p] = "recheck"
    /\ Decide(p, Head(batch[p]).type, position)
    /\ UNCHANGED <<marketVars, tableVars, keys, boundVars, signalHistory>>

(***************************************************************************)
(* _execute_signal up to the order.  The position is read again and the    *)
(* state machine asked again.  An entry may still be rejected by the AI    *)
(* filter or a risk limit.                                                 *)
(***************************************************************************)
Recheck(p) ==
    LET signal == Head(batch[p])
    IN  /\ at[p] = "recheck"
        /\ \E sides \in SUBSET PositionSides :
              /\ Reads(sides)
              /\ \E state \in PositionStates(sides) :
                    \/ /\ ~IsSignalAllowed(state, signal.type)
                       /\ NextSignal(p)
                    \/ IsEntry(signal) /\ NextSignal(p)
                    \/ /\ IsSignalAllowed(state, signal.type)
                       /\ \E type \in Executed(signal.type) :
                             Decide(p, type, sides)
        /\ UNCHANGED <<marketVars, tableVars, keys, entries, mine, alone>>

-----------------------------------------------------------------------------
(***************************************************************************)
(* Enqueueing and what follows.                                            *)
(***************************************************************************)

(***************************************************************************)
(* The look for an earlier row: for openings and closings one of the same  *)
(* candle, otherwise one that is not done (or not older than 30 seconds).  *)
(***************************************************************************)
EarlierRow(type, candle) ==
    IF type.act \in {"open", "close"}
    THEN candle # Old /\ rowsFor[<<type, candle>>] > 0
    ELSE queued[type] > 0

(***************************************************************************)
(* int(last.get("created_at") or 0) comes before the decision to skip.  It *)
(* accepts the 0 of a missing row.  A row has a datetime there, or a text  *)
(* under SQLite, and int() raises on both; the exception is swallowed and  *)
(* the new row is inserted.                                                *)
(***************************************************************************)
IntAccepts(createdAt) == createdAt # "timestamp"

SkippedAsDuplicate(type, candle) ==
    EarlierRow(type, candle) /\ IntAccepts("timestamp")

Count(table, type, candle) ==
    [k \in DOMAIN table |->
        IF k = <<type, candle>> THEN PlusOne(table[k]) ELSE table[k]]

(***************************************************************************)
(* _enqueue_pending_order.  A row of signal mode is only notified.         *)
(***************************************************************************)
InsertRow(p, signal, type) ==
    /\ ~SkippedAsDuplicate(type, signal.candle)
    /\ rowsFor' = Count(rowsFor, type, signal.candle)
    /\ mine' = IF config.bot THEN mine
               ELSE [mine EXCEPT ![p] = Count(@, signal.type, signal.candle)]
    /\ queued' = IF config.mode = "live" THEN [queued EXCEPT ![type] = @ + 1]
                 ELSE queued
    /\ UNCHANGED faults

(***************************************************************************)
(* _execute_exchange_order reports success whether or not a row was        *)
(* inserted, so that in signal mode the position moves in any case.        *)
(***************************************************************************)
EnqueuePendingOrder(p) ==
    /\ at[p] = "enqueue"
    /\ \/ InsertRow(p, Head(batch[p]), decided[p].type)
       \/ Fault /\ UNCHANGED <<rowsFor, mine, queued>>
    /\ IF config.mode = "live"
       THEN NextSignal(p)
       ELSE /\ at' = [at EXCEPT ![p] = "move"]
            /\ UNCHANGED <<batch, decided>>
    /\ UNCHANGED <<marketVars, position, keys, entries, misreads, alone>>

(***************************************************************************)
(* Where an order moves the position.  A reduction leaves a rest; it does  *)
(* nothing when the loop has not seen a row of that side.                  *)
(***************************************************************************)
Moved(sides, type, read) ==
    CASE type.act \in {"open", "add"} -> sides \cup {type.side}
      [] type.act = "reduce" -> sides \cup ({type.side} \cap read)
      [] type.act = "close" -> sides \ {type.side}

\* Signal mode: the row is upserted or deleted by the loop itself, and an
\* error in that is logged and forgotten.
MovePosition(p) ==
    /\ at[p] = "move"
    /\ \/ /\ position' = Moved(position, decided[p].type, decided[p].sides)
          /\ UNCHANGED faults
       \/ Fault /\ UNCHANGED position
    /\ NextSignal(p)
    /\ UNCHANGED <<marketVars, queued, rowsFor, keys, entries, signalHistory>>

(***************************************************************************)
(* Live mode, external to this module: a worker executes an order and      *)
(* books it, or the order fails.  A reduction may turn out to be of all    *)
(* that is left.                                                           *)
(***************************************************************************)
ExecuteOrder(t) ==
    /\ queued[t] > 0
    /\ queued' = [queued EXCEPT ![t] = @ - 1]
    /\ \/ position' = Moved(position, t, position) /\ UNCHANGED faults
       \/ /\ t.act = "reduce" /\ position' = position \ {t.side}
          /\ UNCHANGED faults
       \/ Fault /\ UNCHANGED position
    /\ UNCHANGED <<marketVars, rowsFor, loopVars, entries, signalHistory>>

-----------------------------------------------------------------------------
(***************************************************************************)
(* Time and prices.  When a candle closes, every candle is one further     *)
(* back; keys run out by themselves.                                       *)
(***************************************************************************)
Shift(table) ==
    [k \in DOMAIN table |-> IF k[2] = 0 THEN 0 ELSE table[<<k[1], 0>>]]

RunDown(table) ==
    [k \in Keys |-> IF table[k] > 0 THEN table[k] - 1 ELSE 0]

OneBack(signals) ==
    [i \in 1..Len(signals) |->
        [signals[i] EXCEPT !.candle = IF @ = Old THEN Old ELSE @ + 1]]

CandleCloses ==
    /\ left = 1
    /\ left' = Tf
    /\ keys' = [p \in Processes |-> Shift(RunDown(keys[p]))]
    /\ rowsFor' = Shift(rowsFor)
    /\ mine' = [p \in Processes |-> Shift(mine[p])]
    /\ batch' = [p \in Processes |-> OneBack(batch[p])]
    /\ UNCHANGED <<config, adverse, position, queued, at, decided, boundVars,
                   misreads, alone>>

TimePasses ==
    /\ left > 1
    /\ left' = left - 1
    /\ keys' = [p \in Processes |-> RunDown(keys[p])]
    /\ UNCHANGED <<config, adverse, tableVars, at, batch, decided, boundVars,
                   signalHistory>>

PriceMoves ==
    /\ \E sides \in SUBSET {t.side : t \in {u \in Types : u.act = "close"}} :
          sides # adverse /\ adverse' = sides
    /\ UNCHANGED <<config, left, tableVars, loopVars, boundVars, signalHistory>>

Loop(p) == \/ EvaluateTriggers(p) \/ Recheck(p)
           \/ EnqueuePendingOrder(p) \/ MovePosition(p)

SignalNext ==
    \/ \E p \in Processes : StartLoop(p) \/ EndLoop(p) \/ Restart(p) \/ Loop(p)
    \/ \E t \in Types : ExecuteOrder(t)
    \/ CandleCloses \/ TimePasses \/ PriceMoves

(***************************************************************************)
(* Threads are scheduled, the clock runs, and the worker of the queue      *)
(* comes to every order.  Nothing makes anybody start a loop.              *)
(***************************************************************************)
SignalFairness ==
    /\ \A p \in Processes : WF_signalVars(Loop(p))
    /\ \A t \in Types : WF_signalVars(ExecuteOrder(t))
    /\ WF_signalVars(CandleCloses) /\ WF_signalVars(TimePasses)

SignalSpec ==
    SignalInit /\ [][SignalNext]_signalVars /\ SignalFairness

-----------------------------------------------------------------------------
(***************************************************************************)
(* Within one life of its process an indicator strategy queues at most one *)
(* order for a signal of a candle, however long the signal stays triggered *)
(* and however slowly its orders are executed: the key outlives the        *)
(* signal.                                                                 *)
(***************************************************************************)
OncePerLife ==
    ~config.bot => \A p \in Processes, k \in Keys : mine[p][k] <= 1

(***************************************************************************)
(* In signal mode a strategy with one loop never holds both sides, unless  *)
(* the reads of the position failed: an indicator strategy asks the state  *)
(* machine twice and so survives one failed read.                          *)
(***************************************************************************)
OneDirection ==
    /\ config.mode = "signal" /\ alone
    /\ misreads < (IF config.bot THEN 1 ELSE 2)
    => Cardinality(position) <= 1

(***************************************************************************)
(* A stop line that stays crossed gets the position closed, although the   *)
(* once-per-candle key keeps a failed close from being tried again before  *)
(* the next candle: for an indicator strategy that goes long only, in live *)
(* mode, as long as its loop runs.                                         *)
(***************************************************************************)
StopLossFlattens ==
    \A p \in Processes :
       ( /\ config.mode = "live" /\ ~config.bot /\ config.direction = "long"
         /\ <>[](at[p] # "off" /\ "long" \in adverse) )
       => []<>("long" \notin position)

(***************************************************************************)
(* What the comment in _enqueue_pending_order promises of openings and     *)
(* closings: "if any record already exists, do NOT enqueue again", for one *)
(* strategy, symbol, type and candle.                                      *)
(***************************************************************************)
SameCandleOnce ==
    ~config.bot =>
        \A k \in StrictKeys : rowsFor[k] <= 1
=============================================================================
