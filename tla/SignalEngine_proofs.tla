------------------------ MODULE SignalEngine_proofs ------------------------
(***************************************************************************)
(* Proofs about SignalEngine for any number of processes, any signals,     *)
(* length of a candle and life of a key that is at least two candles.      *)
(***************************************************************************)
EXTENDS SignalEngine, FiniteSetTheorems, SequenceTheorems, TLAPS

USE SignalAssumption

-----------------------------------------------------------------------------
(***************************************************************************)
(* What a tick takes up.                                                   *)
(***************************************************************************)
LEMMA TypesAreFinite == IsFiniteSet(Types)
  <1> DEFINE Acts == {"close", "reduce", "open", "add"}
             Pairs == Acts \X PositionSides
             F == [x \in Pairs |-> [act |-> x[1], side |-> x[2]]]
  <1>1. IsFiniteSet(Acts) /\ IsFiniteSet(PositionSides)
    <2>1. IsFiniteSet({"close"} \cup {"reduce"}) /\ IsFiniteSet({"open"} \cup {"add"})
          /\ IsFiniteSet({"long"} \cup {"short"})
      BY FS_Singleton, FS_Union
    <2>2. IsFiniteSet(({"close"} \cup {"reduce"}) \cup ({"open"} \cup {"add"}))
      BY <2>1, FS_Union
    <2>3. Acts = ({"close"} \cup {"reduce"}) \cup ({"open"} \cup {"add"})
      OBVIOUS
    <2>4. PositionSides = {"long"} \cup {"short"}
      BY DEF PositionSides
    <2> QED
      BY <2>1, <2>2, <2>3, <2>4
  <1>2. IsFiniteSet(Pairs)
    BY <1>1, FS_Product
  <1>3. F \in Surjection(Pairs, TypeRecords)
    <2>1. ASSUME NEW t \in TypeRecords PROVE \E x \in Pairs : F[x] = t
      <3>1. <<t.act, t.side>> \in Pairs /\ F[<<t.act, t.side>>] = t
        BY DEF TypeRecords
      <3> QED
        BY <3>1
    <2>2. F \in [Pairs -> TypeRecords]
      BY DEF TypeRecords
    <2> QED
      BY <2>1, <2>2 DEF Surjection
  <1> HIDE DEF F, Pairs
  <1>4. IsFiniteSet(TypeRecords)
    BY <1>2, <1>3, FS_Surjection
  <1> QED
    BY <1>4, FS_Subset

LEMMA SignalsAreFinite == IsFiniteSet(Signals)
  <1> DEFINE Pairs == Types \X (Candles \cup {Old})
             F == [x \in Pairs |-> [type |-> x[1], candle |-> x[2]]]
  <1>1. IsFiniteSet(Candles \cup {Old})
    <2>1. Candles \cup {Old} = ({0} \cup {1}) \cup {2}
      BY DEF Candles, Old
    <2>2. IsFiniteSet(({0} \cup {1}) \cup {2})
      BY FS_Singleton, FS_Union
    <2> QED
      BY <2>1, <2>2
  <1>2. IsFiniteSet(Pairs)
    BY <1>1, TypesAreFinite, FS_Product
  <1>3. F \in Surjection(Pairs, Signals)
    <2>1. ASSUME NEW s \in Signals PROVE \E x \in Pairs : F[x] = s
      <3>1. <<s.type, s.candle>> \in Pairs /\ F[<<s.type, s.candle>>] = s
        BY DEF Signals
      <3> QED
        BY <3>1
    <2>2. F \in [Pairs -> Signals]
      BY DEF Signals
    <2> QED
      BY <2>1, <2>2 DEF Surjection
  <1> HIDE DEF F, Pairs
  <1>4. IsFiniteSet(Signals)
    BY <1>2, <1>3, FS_Surjection
  <1> QED
    BY <1>4

LEMMA CandidatesAreSignals ==
    ASSUME NEW state, NEW triggered \in Triggered(state)
    PROVE  /\ Candidates(state, triggered) \subseteq Signals
           /\ \A s \in Candidates(state, triggered) : s.candle # Old
  <1>1. PICK own \in UNION {kSubset(n, {s \in Signals : IsValid(s)}) :
                               n \in 0..MaxTriggered} :
           triggered = own \cup ServerExits(state)
    BY DEF Triggered
  <1>2. own \subseteq {s \in Signals : IsValid(s)}
    BY <1>1 DEF kSubset
  <1>3. \A s \in ServerExits(state) : s \in Signals /\ s.candle # Old
    BY DEF ServerExits, Signals, Candles, Old
  <1>4. \A s \in own : s \in Signals /\ s.candle # Old
    BY <1>2 DEF IsValid
  <1> QED
    BY <1>1, <1>3, <1>4 DEF Candidates

(***************************************************************************)
(* An indicator strategy takes up one candidate without a key; a bot takes *)
(* up a sequence of candidates.                                            *)
(***************************************************************************)
LEMMA SelectedSignals ==
    ASSUME NEW p, NEW state, NEW triggered \in Triggered(state),
           NEW chosen \in Selected(p, Candidates(state, triggered))
    PROVE  /\ chosen \in Seq(Signals)
           /\ ~config.bot =>
                 \E s \in Candidates(state, triggered) :
                    s \in Signals /\ s.candle # Old /\ ~IsReserved(p, s) /\ chosen = <<s>>
  <1> DEFINE all == Candidates(state, triggered)
  <1>1. all \subseteq Signals /\ \A s \in all : s.candle # Old
    BY CandidatesAreSignals
  <1>2. CASE config.bot
    <2>1. IsFiniteSet(all)
      BY <1>1, SignalsAreFinite, FS_Subset
    <2>2. Cardinality(all) \in Nat
      BY <2>1, FS_CardinalityType
    <2>3. chosen \in [1..Cardinality(all) -> all]
      BY <1>2 DEF Selected, InOrder, SetToSeqs
    <2>4. chosen \in [1..Cardinality(all) -> Signals]
      BY <1>1, <2>3
    <2> QED
      BY <1>2, <2>2, <2>4
  <1>3. CASE ~config.bot
    <2>1. PICK s \in {s \in all : ~IsReserved(p, s)} : chosen = <<s>>
      BY <1>3 DEF Selected
    <2> QED
      BY <1>1, <2>1
  <1> QED
    BY <1>2, <1>3

LEMMA EntriesAreNumbers ==
    ASSUME NEW q \in Seq(Signals)
    PROVE  EntriesIn(q) \in Nat
  <1>1. IsFiniteSet(1..Len(q))
    BY FS_Interval
  <1>2. IsFiniteSet({i \in 1..Len(q) : IsEntry(q[i])})
    BY <1>1, FS_Subset
  <1> QED
    BY <1>2, FS_CardinalityType DEF EntriesIn
-----------------------------------------------------------------------------
(***************************************************************************)
(* The types, one lemma per kind of step.                                  *)
(***************************************************************************)
LEMMA SignalInitTypes == SignalInit => SignalTypeOK
  <1> SUFFICES ASSUME SignalInit PROVE SignalTypeOK
    OBVIOUS
  <1>1. /\ config \in Configs /\ left \in 1..Tf
        /\ adverse \subseteq PositionSides /\ position \subseteq PositionSides
        /\ faults \in 0..MaxFaults /\ entries \in Nat /\ misreads \in Nat
        /\ alone \in BOOLEAN
    BY DEF SignalInit
  <1>2. queued \in [Types -> Nat] /\ rowsFor \in [StrictKeys -> 0..Many]
    BY DEF SignalInit, Many
  <1>3. /\ keys \in [Processes -> [Keys -> 0..KeyLife]]
        /\ mine \in [Processes -> [Keys -> 0..Many]]
    BY DEF SignalInit, Nothing, Many
  <1>4. /\ at \in [Processes -> {"off", "idle"} \cup Busy]
        /\ batch \in [Processes -> Seq(Signals)]
        /\ decided \in [Processes -> Decisions \cup {Undecided}]
        /\ \A p \in Processes : at[p] = "off"
    BY DEF SignalInit
  <1> QED
    BY <1>1, <1>2, <1>3, <1>4 DEF SignalTypeOK, Busy

\* What a step does to the batch and to the stage of one process.
LoopTypes(atp, batchp, decidedp) ==
    /\ atp \in {"off", "idle"} \cup Busy
    /\ batchp \in Seq(Signals)
    /\ decidedp \in Decisions \cup {Undecided}
    /\ atp \in Busy => batchp # <<>>
    /\ atp \in {"enqueue", "move"} => decidedp \in Decisions

LEMMA LoopTypesSuffice ==
    ASSUME SignalTypeOK, NEW p \in Processes, NEW a, NEW b, NEW d,
           LoopTypes(a, b, d),
           at' = [at EXCEPT ![p] = a], batch' = [batch EXCEPT ![p] = b],
           decided' = [decided EXCEPT ![p] = d]
    PROVE  /\ at' \in [Processes -> {"off", "idle"} \cup Busy]
           /\ batch' \in [Processes -> Seq(Signals)]
           /\ decided' \in [Processes -> Decisions \cup {Undecided}]
           /\ \A q \in Processes :
                 /\ at'[q] \in Busy => batch'[q] # <<>>
                 /\ at'[q] \in {"enqueue", "move"} => decided'[q] \in Decisions
  BY DEF SignalTypeOK, LoopTypes

LEMMA NextSignalTypes ==
    ASSUME SignalTypeOK, NEW p \in Processes, at[p] \in Busy, NextSignal(p)
    PROVE  /\ at' \in [Processes -> {"off", "idle"} \cup Busy]
           /\ batch' \in [Processes -> Seq(Signals)]
           /\ decided' \in [Processes -> Decisions \cup {Undecided}]
           /\ \A q \in Processes :
                 /\ at'[q] \in Busy => batch'[q] # <<>>
                 /\ at'[q] \in {"enqueue", "move"} => decided'[q] \in Decisions
  <1> DEFINE a == IF Len(batch[p]) = 1 THEN "idle" ELSE "recheck"
  <1>1. batch[p] \in Seq(Signals) /\ batch[p] # <<>>
    BY DEF SignalTypeOK
  <1>2. Tail(batch[p]) \in Seq(Signals) /\ Len(Tail(batch[p])) = Len(batch[p]) - 1
    BY <1>1, HeadTailProperties
  <1>3. Len(batch[p]) # 1 => Tail(batch[p]) # <<>>
    <2>1. Len(batch[p]) # 0 /\ Len(batch[p]) \in Nat
      BY <1>1, EmptySeq
    <2>2. Len(batch[p]) # 1 => Len(Tail(batch[p])) # 0
      BY <1>2, <2>1
    <2> QED
      BY <1>2, <2>2, EmptySeq
  <1>4. LoopTypes(a, Tail(batch[p]), Undecided)
    BY <1>2, <1>3 DEF LoopTypes, Busy
  <1>5. /\ at' = [at EXCEPT ![p] = a]
        /\ batch' = [batch EXCEPT ![p] = Tail(batch[p])]
        /\ decided' = [decided EXCEPT ![p] = Undecided]
    BY DEF NextSignal, SignalTypeOK
  <1> QED
    BY <1>4, <1>5, LoopTypesSuffice

LEMMA FaultTypes ==
    ASSUME SignalTypeOK, Fault
    PROVE  faults' \in 0..MaxFaults
  BY DEF SignalTypeOK, Fault

LEMMA ReadsTypes ==
    ASSUME SignalTypeOK, NEW sides, Reads(sides)
    PROVE  faults' \in 0..MaxFaults /\ misreads' \in Nat
           /\ sides \subseteq position
  BY FaultTypes DEF Reads, SignalTypeOK

\* Rows and keys of a candle that closes.
LEMMA ShiftTypes ==
    ASSUME NEW K, K \subseteq Keys, NEW n \in Nat, NEW table \in [K -> 0..n],
           \A k \in K : <<k[1], 0>> \in K
    PROVE  Shift(table) \in [K -> 0..n]
  BY DEF Shift

LEMMA KeyShape ==
    /\ \A k \in Keys : /\ k[1] \in Types /\ k[2] \in {0, 1}
                       /\ <<k[1], 0>> \in Keys /\ k = <<k[1], k[2]>>
    /\ \A k \in StrictKeys : <<k[1], 0>> \in StrictKeys
    /\ StrictKeys \subseteq Keys
  BY DEF Keys, Candles, StrictKeys

LEMMA CountTypes ==
    ASSUME NEW K, NEW table \in [K -> 0..Many], NEW type, NEW candle
    PROVE  Count(table, type, candle) \in [K -> 0..Many]
  BY DEF Count, PlusOne, Many

LEMMA MovedTypes ==
    ASSUME NEW sides \in SUBSET PositionSides, NEW type \in Types,
           NEW read \in SUBSET PositionSides
    PROVE  Moved(sides, type, read) \in SUBSET PositionSides
  BY DEF Moved, TypeRecords

\* The choice of a tick.
IsTakenUp(p, chosen) ==
    /\ chosen # <<>>
    /\ entries' = entries + EntriesIn(chosen)
    /\ batch' = [batch EXCEPT ![p] = chosen]
    /\ keys' = IF config.bot THEN keys ELSE Reserve(p, Head(chosen))

TakesUp(p, state) ==
    \E triggered \in Triggered(state) :
       \E chosen \in Selected(p, Candidates(state, triggered)) :
          IsTakenUp(p, chosen)

LEMMA EvaluateTakesUp ==
    ASSUME NEW p \in Processes, EvaluateTriggers(p)
    PROVE  \E sides \in SUBSET PositionSides :
              Reads(sides) /\ \E state \in PositionStates(sides) : TakesUp(p, state)
  BY DEF EvaluateTriggers, TakesUp, IsTakenUp

LEMMA EvaluateTypes ==
    ASSUME SignalTypeOK, NEW p \in Processes, EvaluateTriggers(p)
    PROVE  SignalTypeOK'
  <1>1. PICK sides, state : Reads(sides) /\ TakesUp(p, state)
    BY EvaluateTakesUp
  <1>a. PICK triggered \in Triggered(state) :
           \E chosen \in Selected(p, Candidates(state, triggered)) :
              IsTakenUp(p, chosen)
    BY <1>1 DEF TakesUp
  <1>b. PICK chosen \in Selected(p, Candidates(state, triggered)) :
           IsTakenUp(p, chosen)
    BY <1>a
  <1>2. /\ at' = [at EXCEPT ![p] = "recheck"]
        /\ UNCHANGED <<config, left, adverse, position, queued, rowsFor,
                       decided, mine, alone>>
    BY DEF EvaluateTriggers, marketVars, tableVars
  <1>3. chosen \in Seq(Signals) /\ EntriesIn(chosen) \in Nat
    BY SelectedSignals, EntriesAreNumbers
  <1>4. faults' \in 0..MaxFaults /\ misreads' \in Nat
    BY <1>1, ReadsTypes
  <1>5. keys' \in [Processes -> [Keys -> 0..KeyLife]]
    <2>1. CASE config.bot
      BY <1>b, <2>1 DEF IsTakenUp, SignalTypeOK
    <2>2. CASE ~config.bot
      <3>1. PICK s \in Signals : s.candle # Old /\ chosen = <<s>>
        BY <2>2, SelectedSignals
      <3>2. Head(chosen) = s /\ Key(s) \in Keys
        BY <3>1 DEF Key, Keys, Signals
      <3>3. keys' = [keys EXCEPT ![p][Key(s)] = KeyLife]
        BY <1>b, <2>2, <3>2 DEF IsTakenUp, Reserve
      <3> QED
        BY <3>2, <3>3 DEF SignalTypeOK
    <2> QED
      BY <2>1, <2>2
  <1>6. entries' \in Nat
    BY <1>b, <1>3 DEF IsTakenUp, SignalTypeOK
  <1>7. /\ at' \in [Processes -> {"off", "idle"} \cup Busy]
        /\ batch' \in [Processes -> Seq(Signals)]
        /\ \A q \in Processes :
              /\ at'[q] \in Busy => batch'[q] # <<>>
              /\ at'[q] \in {"enqueue", "move"} => decided'[q] \in Decisions
    BY <1>b, <1>2, <1>3 DEF IsTakenUp, SignalTypeOK, Busy
  <1> QED
    BY <1>2, <1>4, <1>5, <1>6, <1>7 DEF SignalTypeOK

LEMMA RecheckTypes ==
    ASSUME SignalTypeOK, NEW p \in Processes, Recheck(p)
    PROVE  SignalTypeOK'
  <1> DEFINE signal == Head(batch[p])
  <1>1. /\ at[p] = "recheck" /\ at[p] \in Busy
        /\ UNCHANGED <<config, left, adverse, position, queued, rowsFor, keys,
                       entries, mine, alone>>
    BY DEF Recheck, Busy, marketVars, tableVars
  <1>2. PICK sides \in SUBSET PositionSides :
           /\ Reads(sides)
           /\ \/ NextSignal(p)
              \/ \E type \in Executed(signal.type) : Decide(p, type, sides)
    BY DEF Recheck
  <1>3. faults' \in 0..MaxFaults /\ misreads' \in Nat
    BY <1>2, ReadsTypes
  <1>4. batch[p] \in Seq(Signals) /\ batch[p] # <<>> /\ signal.type \in Types
    <2>1. batch[p] \in Seq(Signals) /\ batch[p] # <<>>
      BY <1>1 DEF SignalTypeOK
    <2>2. signal \in Signals
      BY <2>1, HeadTailProperties
    <2> QED
      BY <2>1, <2>2 DEF Signals
  <1>5. /\ at' \in [Processes -> {"off", "idle"} \cup Busy]
        /\ batch' \in [Processes -> Seq(Signals)]
        /\ decided' \in [Processes -> Decisions \cup {Undecided}]
        /\ \A q \in Processes :
              /\ at'[q] \in Busy => batch'[q] # <<>>
              /\ at'[q] \in {"enqueue", "move"} => decided'[q] \in Decisions
    <2>1. CASE NextSignal(p)
      BY <1>1, <2>1, NextSignalTypes
    <2>2. ASSUME NEW type \in Executed(signal.type), Decide(p, type, sides)
          PROVE  /\ at' \in [Processes -> {"off", "idle"} \cup Busy]
                 /\ batch' \in [Processes -> Seq(Signals)]
                 /\ decided' \in [Processes -> Decisions \cup {Undecided}]
                 /\ \A q \in Processes :
                       /\ at'[q] \in Busy => batch'[q] # <<>>
                       /\ at'[q] \in {"enqueue", "move"} => decided'[q] \in Decisions
      <3>1. type \in Types
        BY <1>4 DEF Executed
      <3>2. [type |-> type, sides |-> sides] \in Decisions
        BY <3>1 DEF Decisions
      <3>3. LoopTypes("enqueue", batch[p], [type |-> type, sides |-> sides])
        BY <1>4, <3>2 DEF LoopTypes, Busy
      <3>4. /\ at' = [at EXCEPT ![p] = "enqueue"]
            /\ batch' = [batch EXCEPT ![p] = batch[p]]
            /\ decided' = [decided EXCEPT ![p] = [type |-> type, sides |-> sides]]
        BY <2>2 DEF Decide, SignalTypeOK
      <3> QED
        BY <3>3, <3>4, LoopTypesSuffice
    <2> QED
      BY <1>2, <2>1, <2>2
  <1> QED
    BY <1>1, <1>3, <1>5 DEF SignalTypeOK

LEMMA EnqueueTypes ==
    ASSUME SignalTypeOK, NEW p \in Processes, EnqueuePendingOrder(p)
    PROVE  SignalTypeOK'
  <1> DEFINE type == decided[p].type
             signal == Head(batch[p])
  <1>1. /\ at[p] = "enqueue" /\ at[p] \in Busy /\ type \in Types
        /\ UNCHANGED <<config, left, adverse, position, keys, entries,
                       misreads, alone>>
    BY DEF EnqueuePendingOrder, Busy, marketVars, SignalTypeOK, Decisions
  <1>2. /\ rowsFor' \in [StrictKeys -> 0..Many]
        /\ mine' \in [Processes -> [Keys -> 0..Many]]
        /\ queued' \in [Types -> Nat]
        /\ faults' \in 0..MaxFaults
    <2>1. CASE InsertRow(p, signal, type)
      <3>1. rowsFor' \in [StrictKeys -> 0..Many]
        BY <2>1, CountTypes DEF InsertRow, SignalTypeOK
      <3>2. mine' \in [Processes -> [Keys -> 0..Many]]
        <4>1. mine[p] \in [Keys -> 0..Many]
          BY DEF SignalTypeOK
        <4>2. Count(mine[p], signal.type, signal.candle) \in [Keys -> 0..Many]
          BY <4>1, CountTypes
        <4>3. \/ mine' = mine
              \/ mine' = [mine EXCEPT ![p] =
                             Count(mine[p], signal.type, signal.candle)]
          BY <2>1 DEF InsertRow, SignalTypeOK
        <4> QED
          BY <4>2, <4>3 DEF SignalTypeOK
      <3>3. queued' \in [Types -> Nat]
        BY <1>1, <2>1 DEF InsertRow, SignalTypeOK
      <3>4. faults' \in 0..MaxFaults
        BY <2>1 DEF InsertRow, SignalTypeOK
      <3> QED
        BY <3>1, <3>2, <3>3, <3>4
    <2>2. CASE Fault /\ UNCHANGED <<rowsFor, mine, queued>>
      BY <2>2, FaultTypes DEF SignalTypeOK
    <2> QED
      BY <2>1, <2>2 DEF EnqueuePendingOrder
  <1>3. /\ at' \in [Processes -> {"off", "idle"} \cup Busy]
        /\ batch' \in [Processes -> Seq(Signals)]
        /\ decided' \in [Processes -> Decisions \cup {Undecided}]
        /\ \A q \in Processes :
              /\ at'[q] \in Busy => batch'[q] # <<>>
              /\ at'[q] \in {"enqueue", "move"} => decided'[q] \in Decisions
    <2>1. CASE NextSignal(p)
      BY <1>1, <2>1, NextSignalTypes
    <2>2. CASE at' = [at EXCEPT ![p] = "move"] /\ UNCHANGED <<batch, decided>>
      BY <1>1, <2>2 DEF SignalTypeOK, Busy
    <2> QED
      BY <2>1, <2>2 DEF EnqueuePendingOrder
  <1> QED
    BY <1>1, <1>2, <1>3 DEF SignalTypeOK

LEMMA MoveTypes ==
    ASSUME SignalTypeOK, NEW p \in Processes, MovePosition(p)
    PROVE  SignalTypeOK'
  <1>1. /\ at[p] \in Busy /\ decided[p] \in Decisions
        /\ UNCHANGED <<config, left, adverse, queued, rowsFor, keys, entries,
                       mine, misreads, alone>>
    BY DEF MovePosition, Busy, marketVars, signalHistory, SignalTypeOK
  <1>2. position' \in SUBSET PositionSides /\ faults' \in 0..MaxFaults
    <2>1. CASE /\ position' = Moved(position, decided[p].type, decided[p].sides)
               /\ UNCHANGED faults
      BY <1>1, <2>1, MovedTypes DEF Decisions, SignalTypeOK
    <2>2. CASE Fault /\ UNCHANGED position
      BY <2>2, FaultTypes DEF SignalTypeOK
    <2> QED
      BY <2>1, <2>2 DEF MovePosition
  <1>3. NextSignal(p)
    BY DEF MovePosition
  <1> QED
    BY <1>1, <1>2, <1>3, NextSignalTypes DEF SignalTypeOK

LEMMA ExecuteOrderTypes ==
    ASSUME SignalTypeOK, NEW t \in Types, ExecuteOrder(t)
    PROVE  SignalTypeOK'
  <1>1. /\ queued[t] > 0 /\ queued' = [queued EXCEPT ![t] = @ - 1]
        /\ UNCHANGED <<config, left, adverse, rowsFor, keys, at, batch,
                       decided, entries, mine, misreads, alone>>
    BY DEF ExecuteOrder, marketVars, loopVars, signalHistory
  <1>2. queued' \in [Types -> Nat]
    BY <1>1 DEF SignalTypeOK
  <1>3. position' \in SUBSET PositionSides /\ faults' \in 0..MaxFaults
    <2>1. position \in SUBSET PositionSides /\ faults \in 0..MaxFaults
      BY DEF SignalTypeOK
    <2>2. Moved(position, t, position) \in SUBSET PositionSides
      BY <2>1, MovedTypes
    <2> QED
      BY <2>1, <2>2, FaultTypes DEF ExecuteOrder
  <1> QED
    BY <1>1, <1>2, <1>3 DEF SignalTypeOK

LEMMA ProcessTypes ==
    ASSUME SignalTypeOK, NEW p \in Processes,
           StartLoop(p) \/ EndLoop(p) \/ Restart(p)
    PROVE  SignalTypeOK'
  <1>1. CASE StartLoop(p)
    <2>1. /\ at' = [at EXCEPT ![p] = "idle"]
          /\ UNCHANGED <<config, left, adverse, position, queued, rowsFor, keys,
                         batch, decided, faults, entries, mine, misreads>>
      BY <1>1 DEF StartLoop, marketVars, tableVars, boundVars
    <2>2. alone' \in BOOLEAN
      BY <1>1 DEF StartLoop
    <2> QED
      BY <2>1, <2>2 DEF SignalTypeOK, Busy
  <1>2. CASE EndLoop(p)
    <2>1. /\ at' = [at EXCEPT ![p] = "off"] /\ faults' \in 0..MaxFaults
          /\ UNCHANGED <<config, left, adverse, position, queued, rowsFor, keys,
                         batch, decided, entries, mine, misreads, alone>>
      BY <1>2, FaultTypes DEF EndLoop, marketVars, tableVars, signalHistory
    <2> QED
      BY <2>1 DEF SignalTypeOK, Busy
  <1>3. CASE Restart(p)
    <2>1. /\ at' = [at EXCEPT ![p] = "off"]
          /\ batch' = [batch EXCEPT ![p] = <<>>]
          /\ decided' = [decided EXCEPT ![p] = Undecided]
          /\ faults' \in 0..MaxFaults
          /\ UNCHANGED <<config, left, adverse, position, queued, rowsFor,
                         entries, misreads, alone>>
      BY <1>3, FaultTypes DEF Restart, marketVars, tableVars
    <2>2. /\ keys' \in [Processes -> [Keys -> 0..KeyLife]]
          /\ mine' \in [Processes -> [Keys -> 0..Many]]
      <3>1. Nothing \in [Keys -> 0..KeyLife] /\ Nothing \in [Keys -> 0..Many]
        BY DEF Nothing, Many
      <3> QED
        BY <1>3, <3>1 DEF Restart, SignalTypeOK
    <2>3. LoopTypes("off", <<>>, Undecided)
      BY DEF LoopTypes, Busy
    <2> QED
      BY <2>1, <2>2, <2>3, LoopTypesSuffice DEF SignalTypeOK
  <1> QED
    BY <1>1, <1>2, <1>3

\* The signals of a batch when their candles move back.
LEMMA OneBackTypes ==
    ASSUME NEW q \in Seq(Signals)
    PROVE  /\ OneBack(q) \in Seq(Signals) /\ Len(OneBack(q)) = Len(q)
           /\ q # <<>> => OneBack(q) # <<>>
           /\ \A i \in 1..Len(q) : OneBack(q)[i] =
                 [q[i] EXCEPT !.candle = IF @ = Old THEN Old ELSE @ + 1]
  <1> DEFINE Back(s) == [s EXCEPT !.candle = IF @ = Old THEN Old ELSE @ + 1]
  <1>1. ASSUME NEW s \in Signals PROVE Back(s) \in Signals
    <2>1. s.type \in Types /\ s.candle \in {0, 1, 2}
      BY DEF Signals, Candles, Old
    <2>2. (IF s.candle = Old THEN Old ELSE s.candle + 1) \in {0, 1, 2}
      BY <2>1 DEF Old
    <2> QED
      BY <2>1, <2>2 DEF Signals, Candles, Old
  <1>2. \A i \in 1..Len(q) : q[i] \in Signals
    OBVIOUS
  <1>3. \A i \in 1..Len(q) : Back(q[i]) \in Signals
    BY <1>1, <1>2
  <1>4. OneBack(q) = [i \in 1..Len(q) |-> Back(q[i])]
    BY DEF OneBack
  <1> HIDE DEF Back
  <1>5. Len(q) \in Nat
    OBVIOUS
  <1>6. OneBack(q) \in Seq(Signals) /\ Len(OneBack(q)) = Len(q)
    BY <1>3, <1>4, <1>5
  <1>7. q # <<>> => OneBack(q) # <<>>
    BY <1>6, EmptySeq
  <1> QED
    BY <1>4, <1>6, <1>7 DEF Back

LEMMA CandleClosesTypes ==
    ASSUME SignalTypeOK, CandleCloses
    PROVE  SignalTypeOK'
  <1>1. /\ left' = Tf
        /\ UNCHANGED <<config, adverse, position, queued, at, decided, faults,
                       entries, misreads, alone>>
    BY DEF CandleCloses, boundVars
  <1>2. keys' \in [Processes -> [Keys -> 0..KeyLife]]
    <2>1. ASSUME NEW p \in Processes
          PROVE  Shift(RunDown(keys[p])) \in [Keys -> 0..KeyLife]
      <3>1. keys[p] \in [Keys -> 0..KeyLife]
        BY DEF SignalTypeOK
      <3>2. RunDown(keys[p]) \in [Keys -> 0..KeyLife]
        BY <3>1 DEF RunDown
      <3> QED
        BY <3>2, KeyShape, ShiftTypes
    <2> QED
      BY <2>1 DEF CandleCloses
  <1>3. rowsFor' \in [StrictKeys -> 0..Many]
    BY KeyShape, ShiftTypes DEF CandleCloses, SignalTypeOK, Many
  <1>4. mine' \in [Processes -> [Keys -> 0..Many]]
    <2>1. ASSUME NEW p \in Processes
          PROVE  Shift(mine[p]) \in [Keys -> 0..Many]
      BY KeyShape, ShiftTypes DEF SignalTypeOK, Many
    <2> QED
      BY <2>1 DEF CandleCloses
  <1>5. /\ batch' \in [Processes -> Seq(Signals)]
        /\ \A p \in Processes : batch[p] # <<>> => batch'[p] # <<>>
    <2>1. batch' = [p \in Processes |-> OneBack(batch[p])]
      BY DEF CandleCloses
    <2>2. \A p \in Processes : batch[p] \in Seq(Signals)
      BY DEF SignalTypeOK
    <2> QED
      BY <2>1, <2>2, OneBackTypes
  <1> QED
    BY <1>1, <1>2, <1>3, <1>4, <1>5 DEF SignalTypeOK

LEMMA ClockTypes ==
    ASSUME SignalTypeOK, TimePasses \/ PriceMoves
    PROVE  SignalTypeOK'
  <1>1. CASE TimePasses
    <2>1. /\ left' = left - 1 /\ left > 1
          /\ UNCHANGED <<config, adverse, position, queued, rowsFor, at, batch,
                         decided, faults, entries, mine, misreads, alone>>
      BY <1>1 DEF TimePasses, tableVars, boundVars, signalHistory
    <2>2. keys' \in [Processes -> [Keys -> 0..KeyLife]]
      <3>1. ASSUME NEW p \in Processes
            PROVE  RunDown(keys[p]) \in [Keys -> 0..KeyLife]
        BY DEF RunDown, SignalTypeOK
      <3> QED
        BY <1>1, <3>1 DEF TimePasses
    <2> QED
      BY <2>1, <2>2 DEF SignalTypeOK
  <1>2. CASE PriceMoves
    <2>1. adverse' \subseteq PositionSides
      BY <1>2 DEF PriceMoves, TypeRecords
    <2>2. UNCHANGED <<config, left, position, queued, rowsFor, keys, at, batch,
                      decided, faults, entries, mine, misreads, alone>>
      BY <1>2 DEF PriceMoves, tableVars, loopVars, boundVars, signalHistory
    <2> QED
      BY <2>1, <2>2 DEF SignalTypeOK
  <1> QED
    BY <1>1, <1>2

LEMMA SignalNextTypes ==
    ASSUME SignalTypeOK, [SignalNext]_signalVars
    PROVE  SignalTypeOK'
  <1>1. CASE UNCHANGED signalVars
    BY <1>1 DEF signalVars, marketVars, tableVars, loopVars, boundVars,
       signalHistory, SignalTypeOK
  <1>2. CASE SignalNext
    BY <1>2, ProcessTypes, EvaluateTypes, RecheckTypes, EnqueueTypes, MoveTypes,
       ExecuteOrderTypes, CandleClosesTypes, ClockTypes DEF SignalNext, Loop
  <1> QED
    BY <1>1, <1>2

(***************************************************************************)
(* Types, and no loop executes a signal it has not taken up                *)
(* (_run_strategy_loop, _execute_signal).                                  *)
(***************************************************************************)
THEOREM SignalTyped == SignalSpec => []SignalTypeOK
  BY SignalInitTypes, SignalNextTypes, PTL DEF SignalSpec

-----------------------------------------------------------------------------
(***************************************************************************)
(* At most one order for a signal.  The inductive invariant: a key lives   *)
(* as long as its candle is one of the two looked at, if an order was      *)
(* queued for it or is about to be, and the signal about to be executed    *)
(* has no order yet.                                                       *)
(***************************************************************************)
Remaining(candle) == IF candle = 0 THEN Tf + left ELSE left

KeysOutlive ==
    \A p \in Processes : \A k \in Keys :
       mine[p][k] > 0 => keys[p][k] >= Remaining(k[2])

\* The signal of process p waits for its order.
Awaits(p, k) == at[p] \in {"recheck", "enqueue"} /\ Key(Head(batch[p])) = k

AwaitedIsFirst ==
    \A p \in Processes : \A k \in Keys :
       Awaits(p, k) => mine[p][k] = 0 /\ keys[p][k] >= Remaining(k[2])

OneAtATime == \A p \in Processes : at[p] \in Busy => Len(batch[p]) = 1

KeyInv ==
    ~config.bot => OncePerLife /\ KeysOutlive /\ AwaitedIsFirst /\ OneAtATime

LEMMA KeyInitInv == SignalInit => KeyInv
  BY DEF SignalInit, KeyInv, OncePerLife, KeysOutlive, AwaitedIsFirst, Awaits,
     OneAtATime, Nothing, Busy

\* Steps that touch neither keys nor batches.
LEMMA KeysUntouched ==
    ASSUME KeyInv, UNCHANGED <<config, left, keys, mine, batch>>,
           \A p \in Processes :
              \/ at'[p] = at[p]
              \/ at'[p] \in {"off", "idle"}
              \/ at[p] \in Busy /\ at'[p] = "move"
              \/ at[p] = "recheck" /\ at'[p] = "enqueue"
    PROVE  KeyInv'
  <1> SUFFICES ASSUME ~config.bot
               PROVE  (OncePerLife /\ KeysOutlive /\ AwaitedIsFirst /\ OneAtATime)'
    BY DEF KeyInv
  <1>1. OncePerLife' /\ KeysOutlive'
    BY DEF KeyInv, OncePerLife, KeysOutlive, Remaining
  <1>2. AwaitedIsFirst'
    <2>1. ASSUME NEW p \in Processes, NEW k \in Keys, Awaits(p, k)'
          PROVE  Awaits(p, k)
      BY <2>1 DEF Awaits, Key
    <2> QED
      BY <2>1 DEF KeyInv, AwaitedIsFirst, Remaining
  <1>3. OneAtATime'
    BY DEF KeyInv, OneAtATime, Busy
  <1> QED
    BY <1>1, <1>2, <1>3

\* An order is queued, or not, and the process no longer waits for it.
LEMMA NoLongerAwaits ==
    ASSUME SignalTypeOK, KeyInv, ~config.bot, NEW p \in Processes,
           UNCHANGED <<config, left, keys>>,
           \/ mine' = mine
           \/ /\ at[p] \in {"recheck", "enqueue"}
              /\ mine' = [mine EXCEPT ![p] =
                    Count(mine[p], Head(batch[p]).type, Head(batch[p]).candle)],
           \/ at' = [at EXCEPT ![p] = "idle"]
           \/ at[p] \in Busy /\ at' = [at EXCEPT ![p] = "move"] /\ batch' = batch,
           \A q \in Processes \ {p} : batch'[q] = batch[q]
    PROVE  KeyInv'
  <1>0. /\ mine \in [Processes -> [Keys -> 0..Many]]
        /\ at \in [Processes -> {"off", "idle"} \cup Busy]
    BY DEF SignalTypeOK
  <1>1. ASSUME NEW q \in Processes, NEW k \in Keys
        PROVE  \/ mine'[q][k] = mine[q][k]
               \/ mine'[q][k] = 1 /\ mine[q][k] = 0
                     /\ keys[q][k] >= Remaining(k[2]) /\ q = p
    <2>1. CASE mine' = mine
      BY <2>1
    <2>2. CASE /\ at[p] \in {"recheck", "enqueue"}
               /\ mine' = [mine EXCEPT ![p] =
                    Count(mine[p], Head(batch[p]).type, Head(batch[p]).candle)]
      <3>1. CASE q = p /\ k = Key(Head(batch[p]))
        <4>1. mine[q][k] = 0 /\ keys[q][k] >= Remaining(k[2])
          BY <2>2, <3>1 DEF KeyInv, AwaitedIsFirst, Awaits
        <4>2. mine'[q][k] = PlusOne(mine[p][k])
          BY <1>0, <2>2, <3>1 DEF Count, Key
        <4> QED
          BY <3>1, <4>1, <4>2 DEF PlusOne, Many
      <3>2. CASE ~(q = p /\ k = Key(Head(batch[p])))
        BY <1>0, <2>2, <3>2 DEF Count, Key
      <3> QED
        BY <3>1, <3>2
    <2> QED
      BY <2>1, <2>2
  <1>2. OncePerLife'
    BY <1>1 DEF KeyInv, OncePerLife
  <1>3. KeysOutlive'
    BY <1>0, <1>1 DEF KeyInv, KeysOutlive, Remaining
  <1>4. AwaitedIsFirst'
    <2>1. ASSUME NEW q \in Processes, NEW k \in Keys, Awaits(q, k)'
          PROVE  q # p /\ Awaits(q, k)
      BY <1>0, <2>1 DEF Awaits, Key
    <2> QED
      BY <1>1, <2>1 DEF KeyInv, AwaitedIsFirst, Remaining
  <1>5. OneAtATime'
    BY <1>0 DEF KeyInv, OneAtATime, Busy
  <1> QED
    BY <1>2, <1>3, <1>4, <1>5 DEF KeyInv

LEMMA EvaluateKeys ==
    ASSUME SignalTypeOK, KeyInv, NEW p \in Processes, EvaluateTriggers(p)
    PROVE  KeyInv'
  <1>0. /\ config' = config /\ left' = left /\ mine' = mine
        /\ at[p] = "idle" /\ at' = [at EXCEPT ![p] = "recheck"]
    BY DEF EvaluateTriggers, marketVars
  <1> SUFFICES ASSUME ~config.bot PROVE KeyInv'
    BY <1>0 DEF KeyInv
  <1>1. PICK sides, state : Reads(sides) /\ TakesUp(p, state)
    BY EvaluateTakesUp
  <1>2. PICK triggered \in Triggered(state) :
           \E chosen \in Selected(p, Candidates(state, triggered)) :
              IsTakenUp(p, chosen)
    BY <1>1 DEF TakesUp
  <1>3. PICK chosen \in Selected(p, Candidates(state, triggered)) :
           IsTakenUp(p, chosen)
    BY <1>2
  <1>4. PICK s \in Signals :
           s.candle # Old /\ ~IsReserved(p, s) /\ chosen = <<s>>
    BY SelectedSignals
  <1>5. Key(s) \in Keys
    BY <1>4 DEF Key, Keys, Signals
  <1>6. /\ batch' = [batch EXCEPT ![p] = <<s>>]
        /\ keys' = [keys EXCEPT ![p][Key(s)] = KeyLife]
    BY <1>3, <1>4 DEF IsTakenUp, Reserve
  <1>7. /\ mine \in [Processes -> [Keys -> 0..Many]]
        /\ keys \in [Processes -> [Keys -> 0..KeyLife]]
        /\ at \in [Processes -> {"off", "idle"} \cup Busy]
        /\ batch \in [Processes -> Seq(Signals)]
        /\ left \in 1..Tf
    BY DEF SignalTypeOK
  <1>8. mine[p][Key(s)] = 0
    <2>1. ~(keys[p][Key(s)] > 0)
      BY <1>4 DEF IsReserved
    <2>2. Remaining(Key(s)[2]) \in Nat /\ Remaining(Key(s)[2]) > 0
      BY <1>7 DEF Remaining
    <2>3. mine[p][Key(s)] \in Nat /\ keys[p][Key(s)] \in Int
      <3>1. mine[p] \in [Keys -> 0..Many] /\ keys[p] \in [Keys -> 0..KeyLife]
        BY <1>7
      <3>2. mine[p][Key(s)] \in 0..Many /\ keys[p][Key(s)] \in 0..KeyLife
        BY <1>5, <3>1
      <3> QED
        BY <3>2 DEF Many
    <2>4. mine[p][Key(s)] > 0 => keys[p][Key(s)] >= Remaining(Key(s)[2])
      BY <1>5 DEF KeyInv, KeysOutlive
    <2> QED
      BY <2>1, <2>2, <2>3, <2>4
  <1>9. ASSUME NEW q \in Processes, NEW k \in Keys
        PROVE  \/ q = p /\ k = Key(s) /\ keys'[q][k] = KeyLife
               \/ ~(q = p /\ k = Key(s)) /\ keys'[q][k] = keys[q][k]
    BY <1>5, <1>6, <1>7
  <1>10. \A k \in Keys : KeyLife >= Remaining(k[2])
    BY <1>7 DEF Remaining
  <1>11. OncePerLife' /\ OneAtATime'
    BY <1>0, <1>6, <1>7 DEF KeyInv, OncePerLife, OneAtATime, Busy
  <1>12. KeysOutlive'
    BY <1>0, <1>8, <1>9 DEF KeyInv, KeysOutlive, Remaining
  <1>13. AwaitedIsFirst'
    <2>1. ASSUME NEW q \in Processes, NEW k \in Keys, Awaits(q, k)'
          PROVE  mine'[q][k] = 0 /\ keys'[q][k] >= Remaining(k[2])
      <3>1. CASE q = p
        <4>1. k = Key(s)
          BY <1>6, <1>7, <2>1, <3>1 DEF Awaits, Key
        <4> QED
          BY <1>0, <1>8, <1>9, <1>10, <3>1, <4>1
      <3>2. CASE q # p
        <4>1. Awaits(q, k)
          BY <1>0, <1>6, <1>7, <2>1, <3>2 DEF Awaits, Key
        <4> QED
          BY <1>0, <1>9, <3>2, <4>1 DEF KeyInv, AwaitedIsFirst
      <3> QED
        BY <3>1, <3>2
    <2> QED
      BY <1>0, <2>1 DEF AwaitedIsFirst, Remaining
  <1> QED
    BY <1>11, <1>12, <1>13 DEF KeyInv

LEMMA LoopKeys ==
    ASSUME SignalTypeOK, KeyInv, NEW p \in Processes,
           Recheck(p) \/ EnqueuePendingOrder(p) \/ MovePosition(p)
    PROVE  KeyInv'
  <1>1. /\ config' = config /\ left' = left /\ keys' = keys
        /\ at[p] \in Busy
    BY DEF Recheck, EnqueuePendingOrder, MovePosition, marketVars, Busy
  <1> SUFFICES ASSUME ~config.bot PROVE KeyInv'
    BY <1>1 DEF KeyInv
  <1>2. ASSUME NextSignal(p)
        PROVE  /\ at' = [at EXCEPT ![p] = "idle"]
               /\ \A q \in Processes \ {p} : batch'[q] = batch[q]
    <2>1. Len(batch[p]) = 1
      BY <1>1 DEF KeyInv, OneAtATime
    <2> QED
      BY <1>2, <2>1 DEF NextSignal, SignalTypeOK
  <1>3. CASE Recheck(p)
    <2>1. mine' = mine /\ at[p] = "recheck"
      BY <1>3 DEF Recheck
    <2>2. CASE NextSignal(p)
      BY <1>1, <1>2, <2>1, <2>2, NoLongerAwaits
    <2>3. CASE \E type, sides : Decide(p, type, sides)
      <3>1. at' = [at EXCEPT ![p] = "enqueue"] /\ batch' = batch
        BY <2>3 DEF Decide
      <3> QED
        BY <1>1, <2>1, <3>1, KeysUntouched DEF SignalTypeOK
    <2> QED
      BY <1>3, <2>2, <2>3 DEF Recheck
  <1>4. CASE EnqueuePendingOrder(p)
    <2>1. \/ mine' = mine
          \/ /\ at[p] \in {"recheck", "enqueue"}
             /\ mine' = [mine EXCEPT ![p] =
                   Count(mine[p], Head(batch[p]).type, Head(batch[p]).candle)]
      BY <1>4 DEF EnqueuePendingOrder, InsertRow, SignalTypeOK
    <2>2. \/ NextSignal(p)
          \/ at' = [at EXCEPT ![p] = "move"] /\ batch' = batch
      BY <1>4 DEF EnqueuePendingOrder
    <2> QED
      BY <1>1, <1>2, <2>1, <2>2, NoLongerAwaits
  <1>5. CASE MovePosition(p)
    <2>1. mine' = mine /\ NextSignal(p)
      BY <1>5 DEF MovePosition, signalHistory
    <2> QED
      BY <1>1, <1>2, <2>1, NoLongerAwaits
  <1> QED
    BY <1>3, <1>4, <1>5

LEMMA ProcessKeys ==
    ASSUME SignalTypeOK, KeyInv, NEW p \in Processes,
           StartLoop(p) \/ EndLoop(p) \/ Restart(p)
    PROVE  KeyInv'
  <1>1. CASE StartLoop(p) \/ EndLoop(p)
    <2>1. /\ UNCHANGED <<config, left, keys, mine, batch>>
          /\ \A q \in Processes : at'[q] = at[q] \/ at'[q] \in {"off", "idle"}
      BY <1>1 DEF StartLoop, EndLoop, marketVars, signalHistory, SignalTypeOK
    <2> QED
      BY <2>1, KeysUntouched
  <1>2. CASE Restart(p)
    <2>1. /\ at' = [at EXCEPT ![p] = "off"]
          /\ batch' = [batch EXCEPT ![p] = <<>>]
          /\ keys' = [keys EXCEPT ![p] = Nothing]
          /\ mine' = [mine EXCEPT ![p] = Nothing]
          /\ config' = config /\ left' = left
      BY <1>2 DEF Restart, marketVars
    <2>2. ASSUME NEW q \in Processes
          PROVE  /\ q # p => /\ at'[q] = at[q] /\ batch'[q] = batch[q]
                             /\ keys'[q] = keys[q] /\ mine'[q] = mine[q]
                 /\ q = p => at'[q] = "off" /\ \A k \in Keys : mine'[q][k] = 0
      BY <2>1 DEF SignalTypeOK, Nothing
    <2> SUFFICES ASSUME ~config.bot PROVE KeyInv'
      BY <2>1 DEF KeyInv
    <2>3. OncePerLife' /\ KeysOutlive'
      BY <2>1, <2>2 DEF KeyInv, OncePerLife, KeysOutlive, Remaining
    <2>4. AwaitedIsFirst'
      <3>1. ASSUME NEW q \in Processes, NEW k \in Keys, Awaits(q, k)'
            PROVE  q # p /\ Awaits(q, k)
        BY <2>2, <3>1 DEF Awaits, Key
      <3> QED
        BY <2>1, <2>2, <3>1 DEF KeyInv, AwaitedIsFirst, Remaining
    <2>5. OneAtATime'
      BY <2>2 DEF KeyInv, OneAtATime, Busy
    <2> QED
      BY <2>3, <2>4, <2>5 DEF KeyInv
  <1> QED
    BY <1>1, <1>2

LEMMA TimePassesKeys ==
    ASSUME SignalTypeOK, KeyInv, TimePasses
    PROVE  KeyInv'
  <1>1. /\ left > 1 /\ left' = left - 1 /\ left \in Nat
        /\ UNCHANGED <<config, at, batch, mine>>
    BY DEF TimePasses, boundVars, signalHistory, SignalTypeOK
  <1> SUFFICES ASSUME ~config.bot PROVE KeyInv'
    BY <1>1 DEF KeyInv
  <1>2. ASSUME NEW p \in Processes, NEW k \in Keys,
               keys[p][k] >= Remaining(k[2])
        PROVE  keys'[p][k] >= Remaining(k[2])'
    <2>1. keys[p][k] \in Nat /\ keys'[p][k] = RunDown(keys[p])[k]
      BY DEF TimePasses, SignalTypeOK
    <2>2. keys'[p][k] >= keys[p][k] - 1
      BY <2>1 DEF RunDown
    <2>3. Remaining(k[2])' = Remaining(k[2]) - 1
      BY <1>1 DEF Remaining
    <2>4. Remaining(k[2]) \in Int /\ keys'[p][k] \in Int
      BY <1>1, <2>1 DEF Remaining, RunDown
    <2> QED
      BY <1>2, <2>1, <2>2, <2>3, <2>4
  <1>3. OncePerLife' /\ OneAtATime'
    BY <1>1 DEF KeyInv, OncePerLife, OneAtATime
  <1>4. KeysOutlive'
    BY <1>1, <1>2 DEF KeyInv, KeysOutlive
  <1>5. AwaitedIsFirst'
    BY <1>1, <1>2 DEF KeyInv, AwaitedIsFirst, Awaits
  <1> QED
    BY <1>3, <1>4, <1>5 DEF KeyInv

\* Every candle is one further back: what is said of it goes along.
LEMMA CandleClosesKeys ==
    ASSUME SignalTypeOK, KeyInv, CandleCloses
    PROVE  KeyInv'
  <1>1. /\ left = 1 /\ left' = Tf /\ config' = config /\ at' = at
        /\ keys' = [p \in Processes |-> Shift(RunDown(keys[p]))]
        /\ mine' = [p \in Processes |-> Shift(mine[p])]
        /\ batch' = [p \in Processes |-> OneBack(batch[p])]
    BY DEF CandleCloses
  <1> SUFFICES ASSUME ~config.bot PROVE KeyInv'
    BY <1>1 DEF KeyInv
  <1>2. ASSUME NEW p \in Processes, NEW k \in Keys
        PROVE  /\ k[2] = 0 => mine'[p][k] = 0
               /\ k[2] # 0 =>
                     /\ k[2] = 1 /\ <<k[1], 0>> \in Keys
                     /\ mine'[p][k] = mine[p][<<k[1], 0>>]
                     /\ keys[p][<<k[1], 0>>] >= Remaining(0)
                           => keys'[p][k] >= Remaining(k[2])'
    <2>1. /\ k[2] \in {0, 1} /\ <<k[1], 0>> \in Keys
          /\ mine[p] \in [Keys -> 0..Many]
          /\ keys[p] \in [Keys -> 0..KeyLife]
          /\ RunDown(keys[p]) \in [Keys -> Int]
      <3>1. k[2] \in {0, 1} /\ <<k[1], 0>> \in Keys
        BY KeyShape
      <3>2. /\ mine[p] \in [Keys -> 0..Many]
            /\ keys[p] \in [Keys -> 0..KeyLife]
        BY DEF SignalTypeOK
      <3>3. RunDown(keys[p]) \in [Keys -> Int]
        BY <3>2 DEF RunDown
      <3> QED
        BY <3>1, <3>2, <3>3
    <2>2. mine'[p][k] = IF k[2] = 0 THEN 0 ELSE mine[p][<<k[1], 0>>]
      BY <1>1, <2>1 DEF Shift
    <2>3. keys'[p][k] = IF k[2] = 0 THEN 0
                        ELSE RunDown(keys[p])[<<k[1], 0>>]
      BY <1>1, <2>1 DEF Shift
    <2>4. RunDown(keys[p])[<<k[1], 0>>] >= keys[p][<<k[1], 0>>] - 1
      BY <2>1 DEF RunDown
    <2>5. Remaining(0) = Tf + 1 /\ (k[2] # 0 => Remaining(k[2])' = Tf)
      BY <1>1, <2>1 DEF Remaining
    <2>6. keys[p][<<k[1], 0>>] \in Int /\ RunDown(keys[p])[<<k[1], 0>>] \in Int
      BY <2>1
    <2> QED
      BY <2>1, <2>2, <2>3, <2>4, <2>5, <2>6
  <1>3. ASSUME NEW p \in Processes, NEW k \in Keys, Awaits(p, k)'
        PROVE  k[2] = 1 /\ Awaits(p, <<k[1], 0>>)
    <2>1. at[p] \in {"recheck", "enqueue"} /\ Key(Head(batch'[p])) = k
      BY <1>1, <1>3 DEF Awaits, Key
    <2>2. batch[p] \in Seq(Signals) /\ batch[p] # <<>>
      BY <2>1 DEF SignalTypeOK, Busy
    <2>3. /\ batch'[p] = OneBack(batch[p])
          /\ OneBack(batch[p]) \in Seq(Signals) /\ OneBack(batch[p]) # <<>>
      BY <1>1, <2>2, OneBackTypes
    <2>4. 1 \in 1..Len(batch[p])
      BY <2>2, EmptySeq
    <2>5. Head(batch'[p]) =
             [Head(batch[p]) EXCEPT !.candle = IF @ = Old THEN Old ELSE @ + 1]
      BY <2>2, <2>3, <2>4, OneBackTypes
    <2>6. Head(batch[p]) \in Signals
      BY <2>2, HeadTailProperties
    <2>7. /\ k[1] = Head(batch[p]).type
          /\ k[2] = IF Head(batch[p]).candle = Old THEN Old
                    ELSE Head(batch[p]).candle + 1
      BY <2>1, <2>5, <2>6 DEF Key, Signals
    <2>8. k[2] \in {0, 1} /\ Head(batch[p]).candle \in {0, 1, 2}
      BY <2>6, KeyShape DEF Signals, Candles, Old
    <2>9. Head(batch[p]).candle = 0 /\ k[2] = 1
      BY <2>7, <2>8 DEF Old
    <2> QED
      BY <2>1, <2>7, <2>9 DEF Awaits, Key
  <1>4. OncePerLife'
    <2>1. ASSUME NEW p \in Processes, NEW k \in Keys
          PROVE  mine'[p][k] <= 1
      <3>1. CASE k[2] = 0
        <4>1. mine'[p][k] = 0
          BY <1>2, <3>1, Zenon
        <4> QED
          BY <4>1
      <3>2. CASE k[2] # 0
        <4>1. <<k[1], 0>> \in Keys /\ mine'[p][k] = mine[p][<<k[1], 0>>]
          BY <1>2, <3>2
        <4>2. mine[p][<<k[1], 0>>] <= 1
          BY <4>1 DEF KeyInv, OncePerLife
        <4> QED
          BY <4>1, <4>2, Zenon
      <3> QED
        BY <3>1, <3>2
    <2> QED
      BY <2>1 DEF OncePerLife
  <1>5. OneAtATime'
    BY <1>1, OneBackTypes DEF KeyInv, OneAtATime, SignalTypeOK
  <1>6. KeysOutlive'
    <2> SUFFICES ASSUME NEW p \in Processes, NEW k \in Keys, mine'[p][k] > 0
                 PROVE  keys'[p][k] >= Remaining(k[2])'
      BY DEF KeysOutlive
    <2>1. k[2] # 0 /\ mine[p][<<k[1], 0>>] > 0
      BY <1>2
    <2>2. keys[p][<<k[1], 0>>] >= Remaining(0)
      BY <1>2, <2>1 DEF KeyInv, KeysOutlive
    <2> QED
      BY <1>2, <2>1, <2>2
  <1>7. AwaitedIsFirst'
    <2> SUFFICES ASSUME NEW p \in Processes, NEW k \in Keys, Awaits(p, k)'
                 PROVE  mine'[p][k] = 0 /\ keys'[p][k] >= Remaining(k[2])'
      BY DEF AwaitedIsFirst
    <2>1. k[2] = 1 /\ Awaits(p, <<k[1], 0>>)
      BY <1>3
    <2>2. <<k[1], 0>> \in Keys
      BY KeyShape
    <2>3. mine[p][<<k[1], 0>>] = 0 /\ keys[p][<<k[1], 0>>] >= Remaining(0)
      BY <2>1, <2>2 DEF KeyInv, AwaitedIsFirst
    <2> QED
      BY <1>2, <2>1, <2>3
  <1> QED
    BY <1>4, <1>5, <1>6, <1>7 DEF KeyInv

LEMMA KeyNextInv ==
    ASSUME SignalTypeOK, KeyInv, [SignalNext]_signalVars
    PROVE  KeyInv'
  <1>1. CASE UNCHANGED signalVars
    BY <1>1, KeysUntouched DEF signalVars, marketVars, loopVars, signalHistory
  <1>2. ASSUME NEW t \in Types, ExecuteOrder(t) PROVE KeyInv'
    BY <1>2, KeysUntouched DEF ExecuteOrder, marketVars, loopVars, signalHistory
  <1>3. CASE PriceMoves
    BY <1>3, KeysUntouched DEF PriceMoves, loopVars, signalHistory
  <1>4. CASE SignalNext
    BY <1>2, <1>3, <1>4, ProcessKeys, EvaluateKeys, LoopKeys,
       CandleClosesKeys, TimePassesKeys DEF SignalNext, Loop
  <1> QED
    BY <1>1, <1>4

(***************************************************************************)
(* An indicator strategy queues at most one order for a signal of a        *)
(* candle in one life of its process, for any length of a candle and any   *)
(* life of a key of at least two candles                                   *)
(* (_should_skip_signal_once_per_candle).                                  *)
(***************************************************************************)
THEOREM SignalsExecutedOnce == SignalSpec => []OncePerLife
  <1>1. KeyInv => OncePerLife
    BY DEF KeyInv, OncePerLife
  <1>2. SignalTypeOK /\ KeyInv /\ [SignalNext]_signalVars => KeyInv'
    BY KeyNextInv
  <1> QED
    BY <1>1, <1>2, KeyInitInv, SignalTyped, PTL DEF SignalSpec

-----------------------------------------------------------------------------
(***************************************************************************)
(* One opening for a candle, although the look for the earlier row never    *)
(* finds one: what the strategy's only process remembers does its work as   *)
(* long as it is not restarted.  Every row of an opening is then one that   *)
(* its loop counted.                                                       *)
(***************************************************************************)
OpeningsAreCounted(p) ==
    ~config.bot =>
        \A k \in StrictKeys : k[1].act = "open" => rowsFor[k] = mine[p][k]

DecidedAsTriggered(p) ==
    at[p] = "enqueue" => decided[p].type \in Executed(Head(batch[p]).type)

OpeningInv(p) == OpeningsAreCounted(p) /\ DecidedAsTriggered(p)

LEMMA OpeningsUntouched ==
    ASSUME NEW p \in Processes, OpeningInv(p),
           UNCHANGED <<config, rowsFor, mine>>,
           \/ at'[p] # "enqueue"
           \/ at'[p] = at[p] /\ decided'[p] = decided[p]
                 /\ Head(batch'[p]).type = Head(batch[p]).type
    PROVE  OpeningInv(p)'
  BY DEF OpeningInv, OpeningsAreCounted, DecidedAsTriggered, Executed

\* A row of an opening bears the type of its signal: only a reduction is turned
\* into something else, a close.
LEMMA OpeningOfSignal ==
    ASSUME NEW type \in Types, NEW executed \in Executed(type), ~config.bot,
           type.act = "open" \/ executed.act = "open"
    PROVE  executed = type
  BY DEF Executed

LEMMA InsertCounts ==
    ASSUME SignalTypeOK, NEW p \in Processes, OpeningInv(p), at[p] = "enqueue",
           config' = config, InsertRow(p, Head(batch[p]), decided[p].type)
    PROVE  OpeningsAreCounted(p)'
  <1> DEFINE signal == Head(batch[p])
             type   == decided[p].type
  <1> SUFFICES ASSUME ~config.bot, NEW k \in StrictKeys, k[1].act = "open"
               PROVE  rowsFor'[k] = mine'[p][k]
    BY DEF OpeningsAreCounted
  <1>1. signal \in Signals
    <2>1. batch[p] \in Seq(Signals) /\ batch[p] # <<>>
      BY DEF SignalTypeOK, Busy
    <2> QED
      BY <2>1, HeadTailProperties
  <1>2. signal.type \in Types /\ type \in Executed(signal.type)
    BY <1>1 DEF Signals, OpeningInv, DecidedAsTriggered
  <1>3. k \in Keys /\ k = <<k[1], k[2]>>
    BY DEF StrictKeys, Keys
  <1>4. rowsFor[k] = mine[p][k]
    BY DEF OpeningInv, OpeningsAreCounted
  <1>5. /\ rowsFor' = Count(rowsFor, type, signal.candle)
        /\ mine' = [mine EXCEPT ![p] = Count(@, signal.type, signal.candle)]
    BY DEF InsertRow
  <1>6. /\ DOMAIN rowsFor = StrictKeys
        /\ mine \in [Processes -> [Keys -> 0..Many]] /\ DOMAIN mine[p] = Keys
    BY DEF SignalTypeOK
  <1>7. rowsFor'[k] = IF k = <<type, signal.candle>> THEN PlusOne(rowsFor[k])
                      ELSE rowsFor[k]
    BY <1>5, <1>6 DEF Count
  <1>8. mine'[p][k] = IF k = <<signal.type, signal.candle>> THEN PlusOne(mine[p][k])
                      ELSE mine[p][k]
    BY <1>3, <1>5, <1>6 DEF Count
  <1>9. k = <<type, signal.candle>> <=> k = <<signal.type, signal.candle>>
    <2>1. CASE k = <<type, signal.candle>>
      BY <1>2, <2>1, OpeningOfSignal
    <2>2. CASE k = <<signal.type, signal.candle>>
      BY <1>2, <2>2, OpeningOfSignal
    <2> QED
      BY <2>1, <2>2
  <1> QED
    BY <1>4, <1>7, <1>8, <1>9

LEMMA CandleClosesOpenings ==
    ASSUME SignalTypeOK, NEW p \in Processes, OpeningInv(p), CandleCloses
    PROVE  OpeningInv(p)'
  <1>1. /\ config' = config /\ at' = at /\ decided' = decided
        /\ rowsFor' = Shift(rowsFor)
        /\ mine'[p] = Shift(mine[p])
        /\ batch'[p] = OneBack(batch[p])
    BY DEF CandleCloses
  <1>2. OpeningsAreCounted(p)'
    <2> SUFFICES ASSUME ~config.bot, NEW k \in StrictKeys, k[1].act = "open"
                 PROVE  rowsFor'[k] = mine'[p][k]
      BY <1>1 DEF OpeningsAreCounted
    <2>1. k \in Keys
      BY DEF StrictKeys
    <2>2. <<k[1], 0>> \in StrictKeys
      BY <2>1, KeyShape DEF StrictKeys
    <2>3. rowsFor'[k] = IF k[2] = 0 THEN 0 ELSE rowsFor[<<k[1], 0>>]
      BY <1>1 DEF Shift, SignalTypeOK
    <2>4. mine'[p][k] = IF k[2] = 0 THEN 0 ELSE mine[p][<<k[1], 0>>]
      <3>1. DOMAIN mine[p] = Keys
        BY DEF SignalTypeOK
      <3> QED
        BY <1>1, <2>1, <3>1 DEF Shift
    <2>5. rowsFor[<<k[1], 0>>] = mine[p][<<k[1], 0>>]
      BY <2>2 DEF OpeningInv, OpeningsAreCounted
    <2> QED
      BY <2>3, <2>4, <2>5
  <1>3. DecidedAsTriggered(p)'
    <2> SUFFICES ASSUME at[p] = "enqueue"
                 PROVE  decided[p].type \in Executed(Head(batch'[p]).type)
      BY <1>1 DEF DecidedAsTriggered, Executed
    <2>1. batch[p] \in Seq(Signals) /\ batch[p] # <<>>
      BY DEF SignalTypeOK, Busy
    <2>2. Head(batch[p]) \in Signals
      BY <2>1, HeadTailProperties
    <2>3. Head(batch'[p]).type = Head(batch[p]).type
      <3>1. /\ OneBack(batch[p]) \in Seq(Signals) /\ OneBack(batch[p]) # <<>>
            /\ 1 \in 1..Len(batch[p])
        BY <2>1, OneBackTypes, EmptySeq
      <3>2. Head(OneBack(batch[p])) =
               [Head(batch[p]) EXCEPT !.candle = IF @ = Old THEN Old ELSE @ + 1]
        BY <2>1, <3>1, OneBackTypes
      <3> QED
        BY <1>1, <2>2, <3>2 DEF Signals
    <2> QED
      BY <2>3 DEF OpeningInv, DecidedAsTriggered
  <1> QED
    BY <1>2, <1>3 DEF OpeningInv

LEMMA OpeningStep ==
    ASSUME SignalTypeOK, NEW p, Processes = {p}, OpeningInv(p),
           [SignalNext]_signalVars, [~Restart(p)]_signalVars
    PROVE  OpeningInv(p)'
  <1>0. /\ p \in Processes
        /\ at \in [Processes -> {"off", "idle"} \cup Busy]
        /\ batch \in [Processes -> Seq(Signals)]
        /\ decided \in [Processes -> Decisions \cup {Undecided}]
    BY DEF SignalTypeOK
  <1>1. CASE UNCHANGED signalVars
    BY <1>0, <1>1, OpeningsUntouched DEF signalVars, marketVars, tableVars, loopVars,
       signalHistory
  <1>2. CASE StartLoop(p) \/ EndLoop(p)
    <2>1. UNCHANGED <<config, rowsFor, mine>> /\ at'[p] # "enqueue"
      BY <1>0, <1>2 DEF StartLoop, EndLoop, marketVars, tableVars, signalHistory
    <2> QED
      BY <1>0, <2>1, OpeningsUntouched
  <1>3. CASE EvaluateTriggers(p)
    <2>1. UNCHANGED <<config, rowsFor, mine>> /\ at'[p] # "enqueue"
      BY <1>0, <1>3 DEF EvaluateTriggers, marketVars, tableVars
    <2> QED
      BY <1>0, <2>1, OpeningsUntouched
  <1>n. ASSUME NextSignal(p) PROVE at'[p] # "enqueue"
    BY <1>0, <1>n DEF NextSignal
  <1>4. CASE Recheck(p)
    <2>1. UNCHANGED <<config, rowsFor, mine>>
      BY <1>4 DEF Recheck, marketVars, tableVars
    <2>2. CASE NextSignal(p)
      BY <1>0, <1>n, <2>1, <2>2, OpeningsUntouched
    <2>3. CASE \E type \in Executed(Head(batch[p]).type) :
                 \E sides : Decide(p, type, sides)
      <3>1. /\ batch' = batch
            /\ decided'[p].type \in Executed(Head(batch[p]).type)
        BY <1>0, <2>3 DEF Decide
      <3>2. DecidedAsTriggered(p)'
        BY <2>1, <3>1 DEF DecidedAsTriggered, Executed
      <3>3. OpeningsAreCounted(p)'
        BY <2>1, <1>0 DEF OpeningInv, OpeningsAreCounted
      <3> QED
        BY <3>2, <3>3 DEF OpeningInv
    <2> QED
      BY <1>4, <2>2, <2>3 DEF Recheck
  <1>5. CASE EnqueuePendingOrder(p)
    <2>1. config' = config /\ at[p] = "enqueue"
      BY <1>5 DEF EnqueuePendingOrder, marketVars
    <2>2. at'[p] # "enqueue"
      BY <1>0, <1>5, <1>n DEF EnqueuePendingOrder
    <2>3. CASE InsertRow(p, Head(batch[p]), decided[p].type)
      BY <1>0, <2>1, <2>2, <2>3, InsertCounts DEF OpeningInv, DecidedAsTriggered
    <2>4. CASE UNCHANGED <<rowsFor, mine>>
      BY <1>0, <2>1, <2>2, <2>4, OpeningsUntouched
    <2> QED
      BY <1>5, <2>3, <2>4 DEF EnqueuePendingOrder
  <1>6. CASE MovePosition(p)
    <2>1. UNCHANGED <<config, rowsFor, mine>> /\ NextSignal(p)
      BY <1>6 DEF MovePosition, marketVars, signalHistory
    <2> QED
      BY <1>0, <1>n, <2>1, OpeningsUntouched
  <1>7. CASE TimePasses \/ PriceMoves \/ \E t \in Types : ExecuteOrder(t)
    BY <1>0, <1>7, OpeningsUntouched DEF TimePasses, PriceMoves, ExecuteOrder,
       marketVars, tableVars, loopVars, signalHistory
  <1>8. CASE Restart(p)
    BY <1>1, <1>8
  <1> QED
    BY <1>0, <1>1, <1>2, <1>3, <1>4, <1>5, <1>6, <1>7, <1>8, CandleClosesOpenings
       DEF SignalNext, Loop

(***************************************************************************)
(* "If any record already exists, do NOT enqueue again" is true of the     *)
(* openings of an indicator strategy that runs in one process, as long as  *)
(* that is not restarted (_enqueue_pending_order).                         *)
(***************************************************************************)
THEOREM UnrestartedOpensOnce ==
    ASSUME NEW p, Processes = {p}
    PROVE  SignalSpec /\ [][~Restart(p)]_signalVars
              => [](~config.bot =>
                       \A k \in StrictKeys : k[1].act = "open" => rowsFor[k] <= 1)
  <1> DEFINE Once == ~config.bot =>
                        \A k \in StrictKeys : k[1].act = "open" => rowsFor[k] <= 1
  <1>1. SignalInit => OpeningInv(p)
    BY DEF SignalInit, OpeningInv, OpeningsAreCounted, DecidedAsTriggered, Nothing,
       StrictKeys
  <1>2. SignalTypeOK /\ OpeningInv(p) /\ [SignalNext]_signalVars /\ [~Restart(p)]_signalVars
           => OpeningInv(p)'
    BY OpeningStep
  <1>3. OpeningInv(p) /\ OncePerLife => Once
    BY DEF OpeningInv, OpeningsAreCounted, OncePerLife, StrictKeys
  <1> HIDE DEF Once
  <1>4. SignalSpec /\ [][~Restart(p)]_signalVars => []Once
    BY <1>1, <1>2, <1>3, SignalTyped, SignalsExecutedOnce, PTL DEF SignalSpec
  <1> QED
    BY <1>4 DEF Once

-----------------------------------------------------------------------------
(***************************************************************************)
(* Never both sides.  The inductive invariant, for one loop in signal mode *)
(* that has not misread its position too often: the order decided on fits  *)
(* the position, and for an indicator strategy that has never misread it   *)
(* the signal taken up does, too.  Nobody else moves the position.         *)
(***************************************************************************)
Fitting(type) ==
    IF type.act = "open" THEN position = {} ELSE type.side \in position

OneLoop ==
    alone => \A p, q \in Processes : at[p] # "off" /\ at[q] # "off" => p = q

NoQueue == config.mode = "signal" => \A t \in Types : queued[t] = 0

MayMisread == IF config.bot THEN 0 ELSE 1

Careful == config.mode = "signal" /\ alone /\ misreads <= MayMisread

TakenUpFits ==
    Careful /\ ~config.bot /\ misreads = 0 =>
        \A p \in Processes :
           at[p] = "recheck" => Fitting(Head(batch[p]).type)

DecidedFits ==
    Careful => \A p \in Processes :
       at[p] \in {"enqueue", "move"} =>
          Fitting(decided[p].type) /\ decided[p].sides \subseteq position

OneSide == Careful => \A a, b \in position : a = b

SideInv == OneLoop /\ NoQueue /\ TakenUpFits /\ DecidedFits /\ OneSide

LEMMA SideInitInv == SignalInit => SideInv
  BY DEF SignalInit, SideInv, OneLoop, NoQueue, TakenUpFits, DecidedFits, OneSide

LEMMA OneSideSuffices == SignalTypeOK /\ OneSide => OneDirection
  <1> SUFFICES ASSUME SignalTypeOK, OneSide, config.mode = "signal", alone,
                      misreads < (IF config.bot THEN 1 ELSE 2)
               PROVE  Cardinality(position) <= 1
    BY DEF OneDirection
  <1>1. Careful
    BY DEF SignalTypeOK, Careful, MayMisread
  <1>2. CASE position = {}
    <2>1. Cardinality({}) = 0
      BY FS_EmptySet
    <2> QED
      BY <1>2, <2>1
  <1>3. CASE position # {}
    <2>1. PICK a \in position : TRUE
      BY <1>3
    <2>2. position = {a}
      BY <1>1, <2>1 DEF OneSide
    <2>3. Cardinality({a}) = 1
      BY FS_Singleton
    <2> QED
      BY <2>2, <2>3
  <1> QED
    BY <1>2, <1>3

\* Steps that leave the position, the batches and the decisions alone.
LEMMA SidesUntouched ==
    ASSUME SideInv, UNCHANGED <<config, position, misreads>>,
           alone' => alone,
           OneLoop', NoQueue',
           \A p \in Processes :
              /\ at'[p] = "recheck" =>
                    at[p] = "recheck" /\ Head(batch'[p]).type = Head(batch[p]).type
              /\ at'[p] \in {"enqueue", "move"} =>
                    at[p] \in {"enqueue", "move"} /\ decided'[p] = decided[p]
    PROVE  SideInv'
  <1>1. Careful' => Careful
    BY DEF Careful, MayMisread
  <1>2. TakenUpFits'
    BY <1>1 DEF SideInv, TakenUpFits, Fitting
  <1>3. DecidedFits'
    BY <1>1 DEF SideInv, DecidedFits, Fitting
  <1>4. OneSide'
    BY <1>1 DEF SideInv, OneSide
  <1> QED
    BY <1>2, <1>3, <1>4 DEF SideInv

\* A loop that goes on keeps the others out.
LEMMA LoopGoesOn ==
    ASSUME SignalTypeOK, SideInv, NEW p \in Processes, at[p] # "off",
           alone' = alone, NEW a, at' = [at EXCEPT ![p] = a]
    PROVE  /\ OneLoop'
           /\ alone => \A q \in Processes \ {p} : at'[q] = "off"
  BY DEF SignalTypeOK, SideInv, OneLoop

LEMMA AllowedFits ==
    ASSUME SignalTypeOK, NEW state \in PositionStates(position), NEW type,
           IsSignalAllowed(state, type)
    PROVE  Fitting(type)
  BY DEF SignalTypeOK, PositionStates, PositionSides, IsSignalAllowed, Fitting

\* In live mode the loop does not move the position.
LEMMA LiveSides ==
    ASSUME config' = config, config.mode # "signal", OneLoop'
    PROVE  SideInv'
  BY DEF SideInv, NoQueue, TakenUpFits, DecidedFits, OneSide, Careful

LEMMA ReadsSides ==
    ASSUME SignalTypeOK, NEW sides, Reads(sides), Careful', config' = config,
           alone' = alone
    PROVE  /\ Careful
           /\ \/ sides = position /\ misreads' = misreads
              \/ /\ ~config.bot /\ misreads = 0 /\ misreads' = 1
                 /\ sides = {} /\ position # {}
  <1>1. misreads \in Nat
    BY DEF SignalTypeOK
  <1> QED
    BY <1>1 DEF Reads, Careful, MayMisread

LEMMA EvaluateSides ==
    ASSUME SignalTypeOK, SideInv, NEW p \in Processes, EvaluateTriggers(p)
    PROVE  SideInv'
  <1>1. /\ at[p] = "idle" /\ at' = [at EXCEPT ![p] = "recheck"]
        /\ UNCHANGED <<config, position, queued, decided, alone>>
    BY DEF EvaluateTriggers, marketVars, tableVars
  <1>2. OneLoop' /\ (alone => \A q \in Processes \ {p} : at'[q] = "off")
    BY <1>1, LoopGoesOn
  <1>3. PICK sides, state : /\ Reads(sides) /\ state \in PositionStates(sides)
                            /\ TakesUp(p, state)
    BY EvaluateTakesUp
  <1>4. PICK triggered \in Triggered(state) :
           \E chosen \in Selected(p, Candidates(state, triggered)) :
              IsTakenUp(p, chosen)
    BY <1>3 DEF TakesUp
  <1>5. PICK chosen \in Selected(p, Candidates(state, triggered)) :
           IsTakenUp(p, chosen)
    BY <1>4
  <1>6. at'[p] = "recheck" /\ batch'[p] = chosen
    BY <1>1, <1>5 DEF IsTakenUp, SignalTypeOK
  <1>7. Careful' => Careful
    BY <1>1, <1>3, ReadsSides
  <1>8. TakenUpFits'
    <2> SUFFICES ASSUME Careful', ~config.bot, misreads' = 0,
                        NEW q \in Processes, at'[q] = "recheck"
                 PROVE  Fitting(Head(batch[q]).type)'
      BY <1>1 DEF TakenUpFits
    <2>1. q = p
      BY <1>1, <1>2 DEF Careful
    <2>2. sides = position
      BY <1>1, <1>3, ReadsSides
    <2>3. PICK s \in Candidates(state, triggered) : chosen = <<s>>
      BY SelectedSignals
    <2>4. IsSignalAllowed(state, s.type)
      BY <2>3 DEF Candidates
    <2>5. Fitting(s.type)
      BY <1>3, <2>2, <2>4, AllowedFits
    <2>6. Head(batch'[q]).type = s.type
      BY <1>6, <2>1, <2>3
    <2> QED
      BY <1>1, <2>5, <2>6 DEF Fitting
  <1>9. DecidedFits'
    <2> SUFFICES ASSUME Careful', NEW q \in Processes,
                        at'[q] \in {"enqueue", "move"}
                 PROVE  FALSE
      BY DEF DecidedFits
    <2>1. q = p
      BY <1>1, <1>2 DEF Careful
    <2> QED
      BY <1>6, <2>1
  <1>10. OneSide' /\ NoQueue'
    BY <1>1, <1>7 DEF SideInv, OneSide, NoQueue
  <1> QED
    BY <1>2, <1>8, <1>9, <1>10 DEF SideInv

\* The end of a signal: an indicator strategy had no other.
LEMMA NextSignalSides ==
    ASSUME SignalTypeOK, KeyInv, SideInv, NEW p \in Processes, at[p] \in Busy,
           NextSignal(p), config' = config, alone' = alone,
           NoQueue', OneSide'
    PROVE  SideInv'
  <1>1. /\ at' = [at EXCEPT ![p] =
                     IF Len(batch[p]) = 1 THEN "idle" ELSE "recheck"]
        /\ at'[p] \in {"idle", "recheck"}
    BY DEF NextSignal, SignalTypeOK
  <1>2. OneLoop' /\ (alone => \A q \in Processes \ {p} : at'[q] = "off")
    BY <1>1, LoopGoesOn DEF Busy
  <1>3. TakenUpFits'
    <2>1. ~config.bot => at'[p] = "idle"
      BY <1>1 DEF KeyInv, OneAtATime, SignalTypeOK
    <2> QED
      BY <1>2, <2>1 DEF TakenUpFits, Careful
  <1>4. DecidedFits'
    BY <1>1, <1>2 DEF DecidedFits, Careful
  <1> QED
    BY <1>2, <1>3, <1>4 DEF SideInv

LEMMA RecheckSides ==
    ASSUME SignalTypeOK, KeyInv, SideInv, NEW p \in Processes, Recheck(p)
    PROVE  SideInv'
  <1> DEFINE signal == Head(batch[p])
  <1>1. /\ at[p] = "recheck" /\ at[p] \in Busy
        /\ UNCHANGED <<config, position, queued, alone>>
    BY DEF Recheck, marketVars, tableVars, Busy
  <1>2. PICK sides \in SUBSET PositionSides :
           /\ Reads(sides)
           /\ \E state \in PositionStates(sides) :
                 \/ NextSignal(p)
                 \/ /\ IsSignalAllowed(state, signal.type)
                    /\ \E type \in Executed(signal.type) : Decide(p, type, sides)
    BY DEF Recheck
  <1>3. Careful' => Careful
    BY <1>1, <1>2, ReadsSides
  <1>4. OneSide' /\ NoQueue'
    BY <1>1, <1>3 DEF SideInv, OneSide, NoQueue
  <1>5. CASE NextSignal(p)
    BY <1>1, <1>4, <1>5, NextSignalSides
  <1>6. ASSUME NEW state \in PositionStates(sides),
               IsSignalAllowed(state, signal.type),
               NEW type \in Executed(signal.type), Decide(p, type, sides)
        PROVE  SideInv'
    <2>1. /\ at' = [at EXCEPT ![p] = "enqueue"] /\ at'[p] = "enqueue"
          /\ batch' = batch /\ decided'[p] = [type |-> type, sides |-> sides]
      BY <1>6 DEF Decide, SignalTypeOK
    <2>2. OneLoop' /\ (alone => \A q \in Processes \ {p} : at'[q] = "off")
      BY <1>1, <2>1, LoopGoesOn
    <2>3. TakenUpFits'
      BY <1>1, <2>1, <2>2 DEF TakenUpFits, Careful
    <2>4. DecidedFits'
      <3> SUFFICES ASSUME Careful', NEW q \in Processes,
                          at'[q] \in {"enqueue", "move"}
                   PROVE  /\ Fitting(decided[q].type)'
                          /\ decided'[q].sides \subseteq position'
        BY DEF DecidedFits
      <3>1. q = p
        BY <1>1, <2>2 DEF Careful
      <3>2. Fitting(signal.type) /\ sides \subseteq position
        <4>1. CASE sides = position
          BY <1>6, <4>1, AllowedFits
        <4>2. CASE /\ ~config.bot /\ misreads = 0
                   /\ sides = {} /\ position # {}
          <5>1. Fitting(signal.type)
            BY <1>1, <1>3, <4>2 DEF SideInv, TakenUpFits
          <5>2. signal.type.act = "open"
            BY <1>6, <4>2 DEF PositionStates, IsSignalAllowed
          <5> QED
            BY <4>2, <5>1, <5>2 DEF Fitting
        <4> QED
          BY <1>1, <1>2, <4>1, <4>2, ReadsSides
      <3>3. Fitting(type)
        BY <1>6, <3>2 DEF Executed, Fitting
      <3> QED
        BY <1>1, <2>1, <3>1, <3>2, <3>3 DEF Fitting
    <2> QED
      BY <1>4, <2>2, <2>3, <2>4 DEF SideInv
  <1> QED
    BY <1>2, <1>5, <1>6

LEMMA EnqueueSides ==
    ASSUME SignalTypeOK, KeyInv, SideInv, NEW p \in Processes,
           EnqueuePendingOrder(p)
    PROVE  SideInv'
  <1>1. /\ at[p] = "enqueue" /\ at[p] \in Busy
        /\ UNCHANGED <<config, position, misreads, alone>>
    BY DEF EnqueuePendingOrder, marketVars, Busy
  <1>2. NoQueue'
    BY <1>1 DEF EnqueuePendingOrder, InsertRow, SideInv, NoQueue
  <1>3. OneSide'
    BY <1>1 DEF SideInv, OneSide, Careful, MayMisread
  <1>4. CASE NextSignal(p)
    BY <1>1, <1>2, <1>3, <1>4, NextSignalSides
  <1>5. CASE at' = [at EXCEPT ![p] = "move"] /\ UNCHANGED <<batch, decided>>
    <2>1. OneLoop'
      BY <1>1, <1>5, LoopGoesOn
    <2>2. \A q \in Processes :
             /\ at'[q] = "recheck" => at[q] = "recheck"
             /\ at'[q] \in {"enqueue", "move"} => at[q] \in {"enqueue", "move"}
      BY <1>1, <1>5 DEF SignalTypeOK
    <2> QED
      BY <1>1, <1>2, <1>5, <2>1, <2>2, SidesUntouched
  <1> QED
    BY <1>4, <1>5 DEF EnqueuePendingOrder

LEMMA MoveSides ==
    ASSUME SignalTypeOK, KeyInv, SideInv, NEW p \in Processes, MovePosition(p)
    PROVE  SideInv'
  <1>1. /\ at[p] = "move" /\ at[p] \in Busy /\ NextSignal(p)
        /\ UNCHANGED <<config, queued, misreads, alone>>
    BY DEF MovePosition, marketVars, signalHistory, Busy
  <1>2. NoQueue'
    BY <1>1 DEF SideInv, NoQueue
  <1>3. OneSide'
    <2> SUFFICES ASSUME Careful, NEW a \in position', NEW b \in position'
                 PROVE  a = b
      BY <1>1 DEF OneSide, Careful, MayMisread
    <2>1. \A x, y \in position : x = y
      BY DEF SideInv, OneSide
    <2>2. CASE position' = position
      BY <2>1, <2>2
    <2>3. CASE position' = Moved(position, decided[p].type, decided[p].sides)
      <3> DEFINE type == decided[p].type
      <3>1. Fitting(type) /\ decided[p].sides \subseteq position
        BY <1>1 DEF SideInv, DecidedFits
      <3>2. type.act \in {"close", "reduce", "open", "add"}
        BY <1>1 DEF SignalTypeOK, Decisions, TypeRecords
      <3>3. position' \subseteq position \/
            (position = {} /\ position' = {type.side})
        BY <2>3, <3>1, <3>2 DEF Moved, Fitting
      <3> QED
        BY <2>1, <3>3
    <2> QED
      BY <2>2, <2>3 DEF MovePosition
  <1> QED
    BY <1>1, <1>2, <1>3, NextSignalSides

LEMMA ProcessSides ==
    ASSUME SignalTypeOK, SideInv, NEW p \in Processes,
           StartLoop(p) \/ EndLoop(p) \/ Restart(p)
    PROVE  SideInv'
  <1>1. /\ UNCHANGED <<config, position, queued, misreads>>
        /\ alone' => alone
        /\ at' \in {[at EXCEPT ![p] = "idle"], [at EXCEPT ![p] = "off"]}
        /\ \A q \in Processes \ {p} : /\ batch'[q] = batch[q]
                                      /\ decided'[q] = decided[q]
    BY DEF StartLoop, EndLoop, Restart, marketVars, tableVars, boundVars,
       signalHistory, SignalTypeOK
  <1>2. NoQueue'
    BY <1>1 DEF SideInv, NoQueue
  <1>3. OneLoop'
    <2>1. CASE StartLoop(p)
      <3>1. alone' => \A q \in Processes : at[q] = "off"
        BY <2>1 DEF StartLoop
      <3>2. at' = [at EXCEPT ![p] = "idle"]
        BY <2>1 DEF StartLoop
      <3> QED
        BY <3>1, <3>2 DEF OneLoop, SignalTypeOK
    <2>2. CASE EndLoop(p) \/ Restart(p)
      <3>1. alone' = alone /\ at' = [at EXCEPT ![p] = "off"]
        BY <2>2 DEF EndLoop, Restart, signalHistory
      <3> QED
        BY <3>1 DEF SideInv, OneLoop, SignalTypeOK
    <2> QED
      BY <2>1, <2>2
  <1>4. \A q \in Processes :
           /\ at'[q] = "recheck" =>
                 at[q] = "recheck" /\ Head(batch'[q]).type = Head(batch[q]).type
           /\ at'[q] \in {"enqueue", "move"} =>
                 at[q] \in {"enqueue", "move"} /\ decided'[q] = decided[q]
    BY <1>1 DEF SignalTypeOK
  <1> QED
    BY <1>1, <1>2, <1>3, <1>4, SidesUntouched

LEMMA ClockSides ==
    ASSUME SignalTypeOK, SideInv, CandleCloses \/ TimePasses \/ PriceMoves
    PROVE  SideInv'
  <1>1. UNCHANGED <<config, position, queued, at, decided, misreads, alone>>
    BY DEF CandleCloses, TimePasses, PriceMoves, tableVars, loopVars,
       boundVars, signalHistory
  <1>2. OneLoop' /\ NoQueue'
    BY <1>1 DEF SideInv, OneLoop, NoQueue
  <1>3. ASSUME NEW p \in Processes, at[p] = "recheck"
        PROVE  Head(batch'[p]).type = Head(batch[p]).type
    <2>1. batch[p] \in Seq(Signals) /\ batch[p] # <<>>
      BY <1>3 DEF SignalTypeOK, Busy
    <2>2. CASE CandleCloses
      <3>1. batch'[p] = OneBack(batch[p])
        BY <2>2 DEF CandleCloses
      <3>2. OneBack(batch[p]) \in Seq(Signals) /\ OneBack(batch[p]) # <<>>
        BY <2>1, OneBackTypes
      <3>3. 1 \in 1..Len(batch[p])
        BY <2>1, EmptySeq
      <3>4. Head(batch'[p]) =
              [Head(batch[p]) EXCEPT !.candle = IF @ = Old THEN Old ELSE @ + 1]
        BY <2>1, <3>1, <3>2, <3>3, OneBackTypes
      <3>5. Head(batch[p]) \in Signals
        BY <2>1, HeadTailProperties
      <3> QED
        BY <3>4, <3>5 DEF Signals
    <2>3. CASE TimePasses \/ PriceMoves
      BY <2>3 DEF TimePasses, PriceMoves, loopVars
    <2> QED
      BY <2>2, <2>3
  <1> QED
    BY <1>1, <1>2, <1>3, SidesUntouched

LEMMA SideNextInv ==
    ASSUME SignalTypeOK, KeyInv, SideInv, [SignalNext]_signalVars
    PROVE  SideInv'
  <1>1. CASE UNCHANGED signalVars
    BY <1>1, SidesUntouched DEF signalVars, marketVars, tableVars, loopVars,
       signalHistory, SideInv, OneLoop, NoQueue
  <1>2. ASSUME NEW t \in Types, ExecuteOrder(t) PROVE SideInv'
    <2>1. /\ UNCHANGED <<config, at, alone>> /\ queued[t] > 0
      BY <1>2 DEF ExecuteOrder, marketVars, loopVars, signalHistory
    <2>2. config.mode # "signal"
      BY <2>1 DEF SideInv, NoQueue
    <2>3. OneLoop'
      BY <2>1 DEF SideInv, OneLoop
    <2> QED
      BY <2>1, <2>2, <2>3, LiveSides
  <1>3. CASE SignalNext
    BY <1>2, <1>3, ProcessSides, EvaluateSides, RecheckSides, EnqueueSides,
       MoveSides, ClockSides DEF SignalNext, Loop
  <1> QED
    BY <1>1, <1>3

(***************************************************************************)
(* In signal mode one loop never holds both sides at once, unless the      *)
(* reads of its position failed (_is_signal_allowed, asked by              *)
(* _run_strategy_loop and again by _execute_signal).                       *)
(***************************************************************************)
THEOREM OneSideAtATime == SignalSpec => []OneDirection
  <1>1. SignalTypeOK /\ KeyInv /\ SideInv => OneDirection
    BY OneSideSuffices DEF SideInv
  <1>2. SignalTypeOK /\ KeyInv /\ SideInv /\ [SignalNext]_signalVars
           => KeyInv' /\ SideInv'
    BY KeyNextInv, SideNextInv
  <1> QED
    BY <1>1, <1>2, KeyInitInv, SideInitInv, SignalTyped, PTL DEF SignalSpec

=============================================================================
