---------------------- MODULE StrategyLifecycle_proofs ----------------------
(***************************************************************************)
(* Proofs about StrategyLifecycle for any processes, strategies, threads and *)
(* handlers, and any limits.                                                *)
(***************************************************************************)
EXTENDS StrategyLifecycle, TLAPS

(* The inductive invariant.                                                  *)

\* A thread that lives has a process and a strategy.
ThreadsHaveWork ==
    \A t \in Threads : at[t] # "free" => home[t] \in Processes /\ of[t] \in Strategies

\* A handler with something left to do serves a process and a strategy.
HandlersHaveWork ==
    \A r \in Handlers : req[r] # "idle" => reqProc[r] \in Processes /\ reqOf[r] \in Strategies

Inv ==
    /\ TypeOK
    /\ ThreadsHaveWork
    /\ HandlersHaveWork
    /\ RegistryIsLive

USE ScriptsAssumption, BoundsAssumption, ThreadsAssumption, ScopeAssumption

LEMMA InitInv == Init => Inv
  BY DEF Init, Inv, TypeOK, Statuses, Places, Duties, ThreadsHaveWork, HandlersHaveWork,
         RegistryIsLive

-----------------------------------------------------------------------------
(* Starting a thread.                                                        *)

\* A purge drops entries and adds none.
LEMMA PurgedType ==
    ASSUME TypeOK, NEW p \in Processes
    PROVE  /\ Purged(p) \in [Strategies -> Threads \union {None}]
           /\ \A s \in Strategies :
                Purged(p)[s] # None => Purged(p)[s] = registry[p][s] /\ at[registry[p][s]] # "free"
  BY DEF TypeOK, Purged

\* What a start that went through, or was refused, leaves behind.
ThreadsKept ==
    /\ registry' \in [Processes -> [Strategies -> Threads \union {None}]]
    /\ at' \in [Threads -> Places]
    /\ home' \in [Threads -> Processes \union {None}]
    /\ of' \in [Threads -> Strategies \union {None}]
    /\ ThreadsHaveWork'
    /\ RegistryIsLive'

LEMMA StartedKeeps ==
    ASSUME Inv, NEW p \in Processes, NEW s \in Strategies, Started(p, s)
    PROVE  ThreadsKept
  <1>1. PICK t \in Threads :
          /\ at[t] = "free"
          /\ registry' = [registry EXCEPT ![p] = [Purged(p) EXCEPT ![s] = t]]
          /\ at'   = [at EXCEPT ![t] = "load"]
          /\ home' = [home EXCEPT ![t] = p]
          /\ of'   = [of EXCEPT ![t] = s]
    BY DEF Started, Free
  <1>2. Purged(p) \in [Strategies -> Threads \union {None}]
    BY PurgedType DEF Inv
  <1>3. /\ registry' \in [Processes -> [Strategies -> Threads \union {None}]]
        /\ at' \in [Threads -> Places]
        /\ home' \in [Threads -> Processes \union {None}]
        /\ of' \in [Threads -> Strategies \union {None}]
    BY <1>1, <1>2 DEF Inv, TypeOK, Places
  <1>4. ThreadsHaveWork'
    BY <1>1 DEF Inv, TypeOK, ThreadsHaveWork
  <1>5. RegistryIsLive'
    <2> SUFFICES ASSUME NEW q \in Processes, NEW r \in Strategies, registry'[q][r] # None
                 PROVE  LET u == registry'[q][r]
                        IN  at'[u] # "free" /\ home'[u] = q /\ of'[u] = r
      BY DEF RegistryIsLive
    <2>1. CASE q = p /\ r = s
      BY <1>1, <1>2, <2>1 DEF Inv, TypeOK
    <2>2. CASE ~(q = p /\ r = s)
      <3>1. registry'[q][r] = registry[q][r]
        BY <1>1, <1>2, <2>2, PurgedType DEF Inv, TypeOK
      <3>2. registry[q][r] \in Threads /\ at[registry[q][r]] # "free"
            /\ home[registry[q][r]] = q /\ of[registry[q][r]] = r
        BY <3>1 DEF Inv, TypeOK, RegistryIsLive
      <3> QED
        BY <1>1, <3>1, <3>2 DEF Inv, TypeOK
    <2> QED
      BY <2>1, <2>2
  <1> QED
    BY <1>3, <1>4, <1>5 DEF ThreadsKept

LEMMA RefusedKeeps ==
    ASSUME Inv, NEW p \in Processes, NEW s \in Strategies, Refused(p, s)
    PROVE  ThreadsKept
  <1>1. registry' = [registry EXCEPT ![p] = Purged(p)] /\ UNCHANGED threads
    BY DEF Refused
  <1>2. /\ Purged(p) \in [Strategies -> Threads \union {None}]
        /\ \A r \in Strategies : Purged(p)[r] # None => Purged(p)[r] = registry[p][r]
    BY PurgedType DEF Inv
  <1> QED
    BY <1>1, <1>2 DEF Inv, TypeOK, ThreadsKept, ThreadsHaveWork, RegistryIsLive, threads

\* Entries that are cleared, or threads that stay as they are, change nothing.
LEMMA ThreadsKeptByRest ==
    ASSUME Inv, UNCHANGED threads,
           registry' \in [Processes -> [Strategies -> Threads \union {None}]],
           \A p \in Processes, s \in Strategies : registry'[p][s] \in {registry[p][s], None}
    PROVE  ThreadsKept
  BY DEF Inv, TypeOK, ThreadsKept, ThreadsHaveWork, RegistryIsLive, threads

LEMMA FaultType ==
    ASSUME TypeOK, Fault \/ UNCHANGED faults
    PROVE  faults' \in 0..MaxFaults
  BY DEF TypeOK, Fault

LEMMA StatusType ==
    ASSUME TypeOK, NEW s, NEW value \in Statuses, UpdateStatus(s, value)
    PROVE  status' \in [Strategies -> Statuses] /\ faults' \in 0..MaxFaults
  BY FaultType DEF TypeOK, UpdateStatus, SetStatus

-----------------------------------------------------------------------------
(* The steps, by who takes them.                                             *)

LEMMA LoopKeepsInv ==
    ASSUME Inv, NEW t \in Threads, LoopStep(t)
    PROVE  Inv'
  <1> USE DEF Inv, TypeOK
  <1>1. CASE Load(t)
    BY <1>1, FaultType DEF Load, ThreadsHaveWork, HandlersHaveWork, RegistryIsLive, Places,
       restore, handlers
  <1>2. CASE ReadStatus(t)
    <2>1. of[t] \in Strategies
      BY <1>2 DEF ReadStatus, ThreadsHaveWork
    <2>2. faults' \in 0..MaxFaults
      BY <1>2, FaultType DEF ReadStatus
    <2>3. PICK place \in {"locked", "exit"} : at' = [at EXCEPT ![t] = place]
      BY <1>2 DEF ReadStatus
    <2>4. orphaned' \subseteq Strategies
      BY <1>2, <2>1 DEF ReadStatus
    <2> QED
      BY <1>2, <2>2, <2>3, <2>4 DEF ReadStatus, ThreadsHaveWork, HandlersHaveWork,
         RegistryIsLive, Places, restore, handlers
  <1>3. CASE CheckRegistry(t)
    <2>1. PICK place \in {"work", "fix"} : at' = [at EXCEPT ![t] = place]
      BY <1>3 DEF CheckRegistry
    <2> QED
      BY <1>3, <2>1 DEF CheckRegistry, ThreadsHaveWork, HandlersHaveWork, RegistryIsLive, Places,
         restore, handlers
  <1>4. CASE FixStatus(t)
    <2>1. of[t] \in Strategies
      BY <1>4 DEF FixStatus, ThreadsHaveWork
    <2>2. /\ status' \in [Strategies -> Statuses]
          /\ orphaned' \subseteq Strategies
          /\ faults' \in 0..MaxFaults
      BY <1>4, <2>1, FaultType DEF FixStatus, SetStatus, Statuses
    <2> QED
      BY <1>4, <2>2 DEF FixStatus, ThreadsHaveWork, HandlersHaveWork, RegistryIsLive, Places,
         restore, handlers
  <1>5. CASE Work(t)
    BY <1>5 DEF Work, ThreadsHaveWork, HandlersHaveWork, RegistryIsLive, Places,
       restore, handlers
  <1>6. CASE Exit(t)
    <2>1. home[t] \in Processes /\ of[t] \in Strategies
      BY <1>6 DEF Exit, ThreadsHaveWork
    <2>2. TypeOK' /\ ThreadsHaveWork' /\ HandlersHaveWork'
      BY <1>6, <2>1 DEF Exit, ThreadsHaveWork, HandlersHaveWork, Places, restore, handlers
    <2>3. RegistryIsLive'
      BY <1>6, <2>1 DEF Exit, RegistryIsLive
    <2> QED
      BY <2>2, <2>3
  <1> QED
    BY <1>1, <1>2, <1>3, <1>4, <1>5, <1>6 DEF LoopStep

LEMMA HandlerKeepsInv ==
    ASSUME Inv, NEW r \in Handlers, HandlerStep(r)
    PROVE  Inv'
  <1> USE DEF Inv
  <1>1. reqProc[r] \in Processes /\ reqOf[r] \in Strategies
    BY DEF HandlerStep, Launch, Revert, BatchLaunch, FinishStop, FinishDelete,
       HandlersHaveWork
  <1>2. CASE Launch(r)
    <2>1. ThreadsKept
      BY <1>1, <1>2, StartedKeeps, RefusedKeeps DEF Launch
    <2>2. faults' \in 0..MaxFaults
      BY <1>2, FaultType DEF Launch, Refused
    <2> QED
      BY <1>2, <2>1, <2>2 DEF Launch, Answer, ThreadsKept, TypeOK, HandlersHaveWork, Duties,
         restore
  <1>3. CASE BatchLaunch(r)
    <2>1. ThreadsKept
      BY <1>1, <1>3, StartedKeeps, RefusedKeeps DEF BatchLaunch
    <2>2. faults' \in 0..MaxFaults
      BY <1>3, FaultType DEF BatchLaunch, Refused
    <2> QED
      BY <1>1, <1>3, <2>1, <2>2 DEF BatchLaunch, Answer, ThreadsKept, TypeOK, HandlersHaveWork,
         Duties, restore
  <1>4. CASE Revert(r)
    <2>1. status' \in [Strategies -> Statuses] /\ faults' \in 0..MaxFaults
      BY <1>4, StatusType DEF Revert, Statuses
    <2>2. ThreadsKept
      BY <1>4, ThreadsKeptByRest DEF Revert, TypeOK
    <2> QED
      BY <1>1, <1>4, <2>1, <2>2 DEF Revert, Answer, ThreadsKept, TypeOK, HandlersHaveWork,
         Duties, restore
  <1>5. CASE FinishStop(r)
    <2>1. status' \in [Strategies -> Statuses] /\ faults' \in 0..MaxFaults
      BY <1>5, StatusType DEF FinishStop, Statuses
    <2>2. ThreadsKept
      BY <1>5, ThreadsKeptByRest DEF FinishStop, TypeOK
    <2> QED
      BY <1>5, <2>1, <2>2 DEF FinishStop, Answer, ThreadsKept, TypeOK, HandlersHaveWork,
         Duties, restore
  <1>6. CASE FinishDelete(r)
    <2>1. status' \in [Strategies -> Statuses] /\ faults' \in 0..MaxFaults
      BY <1>6, FaultType DEF FinishDelete, TypeOK, Statuses
    <2>2. ThreadsKept
      BY <1>6, ThreadsKeptByRest DEF FinishDelete, TypeOK
    <2> QED
      BY <1>6, <2>1, <2>2 DEF FinishDelete, Answer, ThreadsKept, TypeOK, HandlersHaveWork,
         Duties, restore
  <1> QED
    BY <1>2, <1>3, <1>4, <1>5, <1>6 DEF HandlerStep

\* What a request that was let in leaves in its handler.
LEMMA AcceptKeeps ==
    ASSUME Inv, NEW r \in Handlers, NEW p \in Processes, NEW s \in Strategies,
           NEW duty \in Duties, Accept(r, p, s, duty)
    PROVE  /\ req' \in [Handlers -> Duties]
           /\ reqProc' \in [Handlers -> Processes \union {None}]
           /\ reqOf' \in [Handlers -> Strategies \union {None}]
           /\ before' \in [Handlers -> Statuses \union {None}]
           /\ requests' \in 0..MaxRequests
           /\ HandlersHaveWork'
  BY DEF Accept, Inv, TypeOK, HandlersHaveWork

\* What the executor writes when it stops a strategy.
LEMMA StopExecutorKeeps ==
    ASSUME Inv, NEW p \in Processes, NEW s \in Strategies, StopExecutor(p, s)
    PROVE  /\ status' \in [Strategies -> Statuses] /\ faults' \in 0..MaxFaults
           /\ registry' \in [Processes -> [Strategies -> Threads \union {None}]]
           /\ \A q \in Processes, z \in Strategies :
                 registry'[q][z] \in {registry[q][z], None}
  <1>1. status' \in [Strategies -> Statuses] /\ faults' \in 0..MaxFaults
    BY FaultType DEF Inv, StopExecutor, SetStatus, Statuses, TypeOK
  <1>2. registry' \in [Processes -> [Strategies -> Threads \union {None}]]
    <2>1. registry \in [Processes -> [Strategies -> Threads \union {None}]]
      BY DEF Inv, TypeOK
    <2>2. UNCHANGED registry \/ registry' = [registry EXCEPT ![p][s] = None]
      BY DEF StopExecutor
    <2> QED
      BY <2>1, <2>2
  <1>3. ASSUME NEW q \in Processes, NEW z \in Strategies
        PROVE  registry'[q][z] \in {registry[q][z], None}
    BY <1>3 DEF Inv, StopExecutor, TypeOK
  <1> QED
    BY <1>1, <1>2, <1>3

LEMMA RequestKeepsInv ==
    ASSUME Inv, NEW r \in Handlers, NEW p \in Processes, NEW s \in Strategies,
           \/ RequestStart(r, p, s) \/ RequestBatchStart(r, p, s) \/ RequestStop(r, p, s)
           \/ RequestDelete(r, p, s) \/ RequestBatchDelete(r, p, s)
    PROVE  Inv'
  <1> USE DEF Inv
  <1>1. /\ \/ Accept(r, p, s, "launch")
           \/ Accept(r, p, s, "batchLaunch")
           \/ Accept(r, p, s, "stop")
           \/ Accept(r, p, s, "delete")
        /\ UNCHANGED <<restore, threads, orphaned>>
        /\ \/ UpdateStatus(s, "running") /\ UNCHANGED registry
           \/ StopExecutor(p, s)
           \/ UNCHANGED <<status, registry, faults>>
    BY DEF RequestStart, RequestBatchStart, RequestStop, RequestDelete, RequestBatchDelete
  <1>2. /\ req' \in [Handlers -> Duties]
        /\ reqProc' \in [Handlers -> Processes \union {None}]
        /\ reqOf' \in [Handlers -> Strategies \union {None}]
        /\ before' \in [Handlers -> Statuses \union {None}]
        /\ requests' \in 0..MaxRequests
        /\ HandlersHaveWork'
    BY <1>1, AcceptKeeps DEF Duties
  <1>3. /\ status' \in [Strategies -> Statuses] /\ faults' \in 0..MaxFaults
        /\ registry' \in [Processes -> [Strategies -> Threads \union {None}]]
        /\ \A q \in Processes, z \in Strategies : registry'[q][z] \in {registry[q][z], None}
    <2>1. CASE UpdateStatus(s, "running") /\ UNCHANGED registry
      BY <2>1, StatusType DEF Statuses, TypeOK
    <2>2. CASE StopExecutor(p, s)
      BY <2>2, StopExecutorKeeps
    <2>3. CASE UNCHANGED <<status, registry, faults>>
      BY <2>3 DEF TypeOK
    <2> QED
      BY <1>1, <2>1, <2>2, <2>3
  <1>4. ThreadsKept
    BY <1>1, <1>3, ThreadsKeptByRest
  <1> QED
    BY <1>1, <1>2, <1>3, <1>4 DEF TypeOK, ThreadsKept, restore

LEMMA BootKeepsInv ==
    ASSUME Inv, NEW p \in Processes, BootStep(p)
    PROVE  Inv'
  <1> USE DEF Inv
  <1>1. CASE Boot(p)
    <2>1. ThreadsKept /\ faults' \in 0..MaxFaults
      BY <1>1, ThreadsKeptByRest, FaultType DEF Boot, TypeOK
    <2>2. up' \in [Processes -> {"down", "restoring", "up"}]
      BY <1>1 DEF Boot, TypeOK
    <2>3. toRestore' \in [Processes -> SUBSET Strategies] /\ orphaned' \subseteq Strategies
      BY <1>1 DEF Boot, TypeOK
    <2>4. UNCHANGED <<status, failed, handlers, requests>>
      BY <1>1 DEF Boot
    <2>5. TypeOK'
      BY <2>1, <2>2, <2>3, <2>4 DEF TypeOK, ThreadsKept, handlers
    <2> QED
      BY <2>1, <2>4, <2>5 DEF ThreadsKept, HandlersHaveWork, handlers
  <1>2. CASE RestoreOne(p)
    <2>1. PICK s \in toRestore[p] :
            /\ toRestore' = [toRestore EXCEPT ![p] = @ \ {s}]
            /\ \/ /\ Started(p, s)
                  /\ orphaned' = orphaned \ {s}
                  /\ UNCHANGED <<failed, faults>>
               \/ /\ Refused(p, s)
                  /\ failed' = [failed EXCEPT ![p] = s]
                  /\ UNCHANGED orphaned
      BY <1>2 DEF RestoreOne
    <2>2. s \in Strategies
      BY DEF TypeOK
    <2>3. ThreadsKept
      BY <2>1, <2>2, StartedKeeps, RefusedKeeps
    <2>4. faults' \in 0..MaxFaults
      BY <2>1, FaultType DEF Refused
    <2>5. /\ toRestore' \in [Processes -> SUBSET Strategies]
          /\ failed' \in [Processes -> Strategies \union {None}]
          /\ orphaned' \subseteq Strategies
      BY <2>1, <2>2 DEF TypeOK
    <2>6. UNCHANGED <<status, up, handlers, requests>>
      BY <1>2 DEF RestoreOne
    <2>7. TypeOK'
      BY <2>3, <2>4, <2>5, <2>6 DEF TypeOK, ThreadsKept, handlers
    <2> QED
      BY <2>3, <2>6, <2>7 DEF ThreadsKept, HandlersHaveWork, handlers
  <1>3. CASE RestoreFailed(p)
    <2>1. failed[p] \in Strategies
      BY <1>3 DEF RestoreFailed, TypeOK
    <2>2. status' \in [Strategies -> Statuses] /\ faults' \in 0..MaxFaults
      BY <1>3, StatusType DEF RestoreFailed, Statuses
    <2>3. ThreadsKept
      BY <1>3, ThreadsKeptByRest DEF RestoreFailed, TypeOK
    <2> QED
      BY <1>3, <2>1, <2>2, <2>3 DEF RestoreFailed, TypeOK, ThreadsKept, HandlersHaveWork,
         handlers
  <1>4. CASE Serve(p)
    <2>1. ThreadsKept
      BY <1>4, ThreadsKeptByRest DEF Serve, TypeOK
    <2> QED
      BY <1>4, <2>1 DEF Serve, TypeOK, ThreadsKept, HandlersHaveWork, handlers
  <1> QED
    BY <1>1, <1>2, <1>3, <1>4 DEF BootStep

LEMMA CrashKeepsInv ==
    ASSUME Inv, NEW p \in Processes, Crash(p)
    PROVE  Inv'
  <1>1. TypeOK'
    BY FaultType DEF Inv, TypeOK, Crash, Places, Duties
  <1>2. ThreadsHaveWork' /\ HandlersHaveWork'
    BY DEF Inv, TypeOK, Crash, ThreadsHaveWork, HandlersHaveWork
  <1>3. RegistryIsLive'
    BY DEF Inv, TypeOK, Crash, RegistryIsLive
  <1> QED
    BY <1>1, <1>2, <1>3 DEF Inv

LEMMA InvStep == Inv /\ [Next]_vars => Inv'
  <1>1. ASSUME Inv, UNCHANGED vars
        PROVE  Inv'
    <2>1. UNCHANGED <<status, restore, registry, threads, handlers, orphaned, requests, faults>>
      BY <1>1 DEF vars
    <2>2. TypeOK'
      BY <1>1, <2>1 DEF Inv, TypeOK, restore, threads, handlers
    <2>3. ThreadsHaveWork' /\ HandlersHaveWork' /\ RegistryIsLive'
      BY <1>1, <2>1 DEF Inv, ThreadsHaveWork, HandlersHaveWork, RegistryIsLive, threads, handlers
    <2> QED
      BY <2>2, <2>3 DEF Inv
  <1> QED
    BY <1>1, LoopKeepsInv, HandlerKeepsInv, RequestKeepsInv, BootKeepsInv, CrashKeepsInv DEF Next

\* The inductive invariant holds of every reachable state.
THEOREM InvHolds == Spec => []Inv
  BY InitInv, InvStep, PTL DEF Spec

\* The tables, registries, threads and handlers keep their types.
THEOREM TypeCorrect == Spec => []TypeOK
  BY InvHolds, PTL DEF Inv

\* An entry of running_strategies stands for a live thread of that strategy in
\* that process, whichever loop's finally block or stop request cleared it before:
\* the cap on threads never counts a dead one.
THEOREM RegistryNamesLiveThreads == Spec => []RegistryIsLive
  BY InvHolds, PTL DEF Inv

-----------------------------------------------------------------------------
(* A strategy marked running has a loop.  The inductive invariant names, for    *)
(* each strategy marked running that nothing has orphaned, who accounts for it: *)
(* its loop, a handler that is about to start it or to take the mark back, or,  *)
(* if it is not a script, a process that restores it.                           *)

Looks == {"load", "check", "locked", "work", "fix"}

Looping(s)  == \E t \in Threads : of[t] = s /\ at[t] \in Looks
Starting(s) == \E r \in Handlers :
                  reqOf[r] = s /\ req[r] \in {"launch", "batchLaunch", "revert"}
Restoring(s) ==
    /\ s \notin Scripts
    /\ \E p \in Processes : up[p] = "down" \/ s \in toRestore[p] \/ failed[p] = s

Accounted(s) ==
    s \notin orphaned /\ status[s] = "running"
        => Looping(s) \/ Starting(s) \/ Restoring(s)

\* A process serves requests when it has restored, and restores no scripts.
RestoresFirst ==
    \A p \in Processes :
        /\ toRestore[p] \intersect Scripts = {}
        /\ up[p] = "up" => toRestore[p] = {} /\ failed[p] = None

RunInv ==
    /\ Inv
    /\ RestoresFirst
    /\ \A s \in Strategies : Accounted(s)

LEMMA InitAccounts == Init => RunInv
  <1> SUFFICES ASSUME Init PROVE RunInv
    OBVIOUS
  <1>1. RestoresFirst
    BY DEF Init, RestoresFirst
  <1>2. ASSUME NEW s \in Strategies PROVE Accounted(s)
    <2>1. CASE s \in Scripts
      BY <2>1 DEF Init, Accounted
    <2>2. CASE s \notin Scripts
      BY <2>2, ProcessesAssumption DEF Init, Accounted, Restoring
    <2> QED
      BY <2>1, <2>2
  <1> QED
    BY <1>1, <1>2, InitInv DEF RunInv

\* Who accounts for a strategy goes on doing so in every step that touches neither
\* its loops nor its handlers nor the restoring processes.
LEMMA LoopsStay ==
    ASSUME NEW s, Looping(s),
           \A t \in Threads : of[t] = s /\ at[t] \in Looks
                                  => of'[t] = s /\ at'[t] \in Looks
    PROVE  Looping(s)'
  BY DEF Looping

LEMMA StartsStay ==
    ASSUME NEW s, Starting(s), UNCHANGED handlers
    PROVE  Starting(s)'
  BY DEF Starting, handlers

LEMMA RestoresStay ==
    ASSUME NEW s, Restoring(s), UNCHANGED restore
    PROVE  Restoring(s)'
  BY DEF Restoring, restore

\* A thread that was free is taken for strategy z.
LEMMA StartedLoops ==
    ASSUME Inv, NEW p \in Processes, NEW z \in Strategies, Started(p, z)
    PROVE  /\ Looping(z)'
           /\ \A s \in Strategies : Looping(s) => Looping(s)'
  <1>1. PICK t \in Threads : /\ Free(t)
                             /\ at' = [at EXCEPT ![t] = "load"]
                             /\ of' = [of EXCEPT ![t] = z]
    BY DEF Started
  <1>2. at'[t] = "load" /\ of'[t] = z
    BY <1>1 DEF Inv, TypeOK
  <1>3. Looping(z)'
    BY <1>2 DEF Looping, Looks
  <1>4. ASSUME NEW s \in Strategies, Looping(s) PROVE Looping(s)'
    <2>1. PICK u \in Threads : of[u] = s /\ at[u] \in Looks
      BY <1>4 DEF Looping
    <2>2. u # t
      BY <1>1, <2>1 DEF Free, Looks
    <2>3. of'[u] = s /\ at'[u] \in Looks
      BY <1>1, <2>1, <2>2 DEF Inv, TypeOK
    <2> QED
      BY <2>3 DEF Looping
  <1> QED
    BY <1>3, <1>4

LEMMA RefusedLoops ==
    ASSUME NEW p, NEW z, Refused(p, z), NEW s, Looping(s)
    PROVE  Looping(s)'
  BY DEF Refused, Looping, threads

LEMMA LoopAccounts ==
    ASSUME RunInv, NEW t \in Threads, LoopStep(t), NEW s \in Strategies
    PROVE  Accounted(s)'
  <1> USE DEF RunInv
  <1>1. UNCHANGED <<restore, handlers>>
    BY DEF LoopStep, Load, ReadStatus, CheckRegistry, FixStatus, Work, Exit
  <1> SUFFICES ASSUME s \notin orphaned', status'[s] = "running"
               PROVE  Looping(s)' \/ Starting(s)' \/ Restoring(s)'
    BY DEF Accounted
  <1>3. s \notin orphaned /\ status[s] = "running"
    <2>1. s \notin orphaned
      BY DEF LoopStep, Load, ReadStatus, CheckRegistry, FixStatus, Work, Exit
    <2>2. CASE FixStatus(t)
      BY <2>2 DEF FixStatus, SetStatus, Inv, TypeOK
    <2>3. CASE ~FixStatus(t)
      BY <2>3 DEF LoopStep, Load, ReadStatus, CheckRegistry, Work, Exit
    <2> QED
      BY <2>1, <2>2, <2>3
  <1>4. ASSUME NEW u \in Threads, of[u] = s, at[u] \in Looks
        PROVE  of'[u] = s /\ at'[u] \in Looks
    <2>1. CASE u # t
      BY <1>4, <2>1 DEF LoopStep, Load, ReadStatus, CheckRegistry, FixStatus, Work, Exit,
         Inv, TypeOK
    <2>2. CASE u = t
      <3>1. CASE Load(t)
        BY <1>3, <1>4, <2>2, <3>1 DEF Load, Looks, Inv, TypeOK
      <3>2. CASE ReadStatus(t)
        BY <1>3, <1>4, <2>2, <3>2 DEF ReadStatus, Looks, Inv, TypeOK
      <3>3. CASE CheckRegistry(t)
        BY <1>4, <2>2, <3>3 DEF CheckRegistry, Looks, Inv, TypeOK
      <3>4. CASE FixStatus(t)
        BY <1>3, <1>4, <2>2, <3>4 DEF FixStatus, SetStatus, Inv, TypeOK
      <3>5. CASE Work(t)
        BY <1>4, <2>2, <3>5 DEF Work, Looks, Inv, TypeOK
      <3>6. CASE Exit(t)
        BY <1>4, <2>2, <3>6 DEF Exit, Looks
      <3> QED
        BY <3>1, <3>2, <3>3, <3>4, <3>5, <3>6 DEF LoopStep
    <2> QED
      BY <2>1, <2>2
  <1> QED
    BY <1>1, <1>3, <1>4, LoopsStay, StartsStay, RestoresStay DEF Accounted

\* A handler r that is not about to start s, or is idle, is none of those that
\* account for s.
LEMMA OtherStartsStay ==
    ASSUME Inv, NEW r \in Handlers, NEW s \in Strategies, Starting(s),
           reqOf[r] # s \/ req[r] \notin {"launch", "batchLaunch", "revert"},
           \A q \in Handlers \ {r} : reqOf'[q] = reqOf[q] /\ req'[q] = req[q]
    PROVE  Starting(s)'
  BY DEF Starting

LEMMA AnswerLeavesOthers ==
    ASSUME Inv, NEW r \in Handlers, Answer(r)
    PROVE  \A q \in Handlers \ {r} : reqOf'[q] = reqOf[q] /\ req'[q] = req[q]
  BY DEF Inv, TypeOK, Answer

LEMMA HandlerAccounts ==
    ASSUME RunInv, NEW r \in Handlers, HandlerStep(r), NEW s \in Strategies
    PROVE  Accounted(s)'
  <1> USE DEF RunInv
  <1>1. UNCHANGED restore
    BY DEF HandlerStep, Launch, Revert, BatchLaunch, FinishStop, FinishDelete
  <1>3. reqProc[r] \in Processes /\ reqOf[r] \in Strategies
    BY DEF HandlerStep, Launch, Revert, BatchLaunch, FinishStop, FinishDelete, Inv,
       HandlersHaveWork
  <1> SUFFICES ASSUME s \notin orphaned', status'[s] = "running"
               PROVE  Looping(s)' \/ Starting(s)' \/ Restoring(s)'
    BY DEF Accounted
  <1>4. CASE Launch(r)
    <2>1. CASE Started(reqProc[r], reqOf[r]) /\ Answer(r)
      <3>1. CASE s = reqOf[r]
        BY <1>3, <2>1, <3>1, StartedLoops
      <3>2. CASE s # reqOf[r]
        <4>1. Looping(s) \/ Starting(s) \/ Restoring(s)
          BY <1>4, <3>2 DEF Launch, Accounted
        <4> QED
          BY <1>1, <1>3, <2>1, <3>2, <4>1, StartedLoops, OtherStartsStay, AnswerLeavesOthers,
             RestoresStay
      <3> QED
        BY <3>1, <3>2
    <2>2. CASE /\ Refused(reqProc[r], reqOf[r])
               /\ req' = [req EXCEPT ![r] = "revert"]
               /\ UNCHANGED <<reqProc, reqOf, before>>
      <3>1. CASE s = reqOf[r]
        BY <2>2, <3>1 DEF Starting, Inv, TypeOK
      <3>2. CASE s # reqOf[r]
        <4>1. Looping(s) \/ Starting(s) \/ Restoring(s)
          BY <1>4, <3>2 DEF Launch, Accounted
        <4>2. \A q \in Handlers \ {r} : reqOf'[q] = reqOf[q] /\ req'[q] = req[q]
          BY <2>2 DEF Inv, TypeOK
        <4> QED
          BY <1>1, <1>3, <2>2, <3>2, <4>1, <4>2, RefusedLoops, OtherStartsStay, RestoresStay
      <3> QED
        BY <3>1, <3>2
    <2> QED
      BY <1>4, <2>1, <2>2 DEF Launch
  <1>5. CASE BatchLaunch(r)
    <2>1. CASE s = reqOf[r]
      BY <1>3, <1>5, <2>1, StartedLoops DEF BatchLaunch
    <2>2. CASE s # reqOf[r]
      <3>1. Looping(s) \/ Starting(s) \/ Restoring(s)
        BY <1>5, <2>2 DEF BatchLaunch, Accounted
      <3>2. Looping(s) => Looping(s)'
        BY <1>3, <1>5, StartedLoops, RefusedLoops DEF BatchLaunch
      <3>3. Starting(s) => Starting(s)'
        BY <1>5, <2>2, OtherStartsStay, AnswerLeavesOthers DEF BatchLaunch
      <3> QED
        BY <1>1, <3>1, <3>2, <3>3, RestoresStay
    <2> QED
      BY <2>1, <2>2
  <1>6. CASE Revert(r) \/ FinishStop(r) \/ FinishDelete(r)
    <2>1. UNCHANGED threads /\ Answer(r) /\ s \notin orphaned
      BY <1>6 DEF Revert, FinishStop, FinishDelete
    <2>2. status[s] = "running"
      BY <1>6 DEF Revert, FinishStop, FinishDelete, UpdateStatus, SetStatus, Inv, TypeOK
    <2>3. Revert(r) => s # reqOf[r]
      BY <2>1 DEF Revert, UpdateStatus, SetStatus, Fault, Inv, TypeOK
    <2>4. Starting(s) => Starting(s)'
      BY <1>6, <2>1, <2>3, OtherStartsStay, AnswerLeavesOthers DEF FinishStop, FinishDelete
    <2>5. Looping(s) => Looping(s)'
      BY <2>1 DEF Looping, threads
    <2> QED
      BY <1>1, <2>1, <2>2, <2>4, <2>5, RestoresStay DEF Accounted
  <1> QED
    BY <1>4, <1>5, <1>6 DEF HandlerStep

LEMMA RequestAccounts ==
    ASSUME RunInv, NEW r \in Handlers, NEW p \in Processes, NEW z \in Strategies,
           \/ RequestStart(r, p, z) \/ RequestBatchStart(r, p, z) \/ RequestStop(r, p, z)
           \/ RequestDelete(r, p, z) \/ RequestBatchDelete(r, p, z),
           NEW s \in Strategies
    PROVE  Accounted(s)'
  <1> USE DEF RunInv
  <1>1. UNCHANGED <<restore, threads, orphaned>>
    BY DEF RequestStart, RequestBatchStart, RequestStop, RequestDelete, RequestBatchDelete
  <1>3. PICK duty \in Duties : Accept(r, p, z, duty)
    BY DEF RequestStart, RequestBatchStart, RequestStop, RequestDelete, RequestBatchDelete,
       Duties
  <1> SUFFICES ASSUME s \notin orphaned', status'[s] = "running"
               PROVE  Looping(s)' \/ Starting(s)' \/ Restoring(s)'
    BY DEF Accounted
  <1>4. CASE status[s] = "running"
    <2>1. Looping(s) \/ Starting(s) \/ Restoring(s)
      BY <1>1, <1>4 DEF Accounted
    <2>2. Starting(s) => Starting(s)'
      <3>1. \A q \in Handlers \ {r} : reqOf'[q] = reqOf[q] /\ req'[q] = req[q]
        BY <1>3 DEF Accept, Inv, TypeOK
      <3>2. req[r] = "idle"
        BY <1>3 DEF Accept, Idle
      <3> QED
        BY <3>1, <3>2, OtherStartsStay
    <2>3. Looping(s) => Looping(s)'
      BY <1>1 DEF Looping, threads
    <2> QED
      BY <1>1, <2>1, <2>2, <2>3, RestoresStay
  <1>5. CASE status[s] # "running"
    <2>1. s = z /\ (RequestStart(r, p, z) \/ RequestBatchStart(r, p, z))
      BY <1>5 DEF RequestStart, RequestBatchStart, RequestStop, RequestDelete,
         RequestBatchDelete, StopExecutor, UpdateStatus, SetStatus, Inv, TypeOK
    <2>2. reqOf'[r] = s /\ req'[r] \in {"launch", "batchLaunch", "revert"}
      BY <2>1 DEF RequestStart, RequestBatchStart, Accept, Inv, TypeOK
    <2> QED
      BY <2>2 DEF Starting
  <1> QED
    BY <1>4, <1>5

LEMMA BootAccounts ==
    ASSUME RunInv, NEW p \in Processes, BootStep(p), NEW s \in Strategies
    PROVE  Accounted(s)'
  <1> USE DEF RunInv
  <1> SUFFICES ASSUME s \notin orphaned', status'[s] = "running"
               PROVE  Looping(s)' \/ Starting(s)' \/ Restoring(s)'
    BY DEF Accounted
  <1>2. UNCHANGED handlers
    BY DEF BootStep, Boot, RestoreOne, RestoreFailed, Serve
  <1>3. CASE Boot(p)
    <2>1. UNCHANGED threads /\ s \notin orphaned /\ status[s] = "running"
      BY <1>3 DEF Boot
    <2>2. Restoring(s) => Restoring(s)'
      BY <1>3, <2>1 DEF Boot, Restoring, Inv, TypeOK
    <2>3. Looping(s) => Looping(s)'
      BY <2>1 DEF Looping, threads
    <2> QED
      BY <1>2, <2>1, <2>2, <2>3, StartsStay DEF Accounted
  <1>4. CASE RestoreOne(p)
    <2>1. PICK z \in toRestore[p] :
             /\ toRestore' = [toRestore EXCEPT ![p] = @ \ {z}]
             /\ \/ Started(p, z) /\ orphaned' = orphaned \ {z} /\ UNCHANGED failed
                \/ /\ Refused(p, z) /\ failed' = [failed EXCEPT ![p] = z]
                   /\ UNCHANGED orphaned
      BY <1>4 DEF RestoreOne
    <2>2. z \in Strategies \ Scripts /\ failed[p] = None /\ UNCHANGED <<status, up>>
      BY <1>4, <2>1 DEF RestoreOne, RestoresFirst, Inv, TypeOK
    <2>3. CASE s = z
      <3>1. CASE Started(p, z)
        BY <2>2, <2>3, <3>1, StartedLoops DEF Inv
      <3>2. CASE failed' = [failed EXCEPT ![p] = z]
        BY <2>2, <2>3, <3>2 DEF Restoring, Inv, TypeOK
      <3> QED
        BY <2>1, <3>1, <3>2
    <2>4. CASE s # z
      <3>1. Looping(s) \/ Starting(s) \/ Restoring(s)
        BY <2>1, <2>2, <2>4 DEF Accounted
      <3>2. Looping(s) => Looping(s)'
        BY <2>1, <2>2, StartedLoops, RefusedLoops
      <3>3. Restoring(s) => Restoring(s)'
        BY <2>1, <2>2, <2>4, ScopeAssumption DEF Restoring, Inv, TypeOK
      <3> QED
        BY <1>2, <3>1, <3>2, <3>3, StartsStay
    <2> QED
      BY <2>3, <2>4
  <1>5. CASE RestoreFailed(p)
    <2>1. UNCHANGED threads /\ s \notin orphaned /\ status[s] = "running" /\ s # failed[p]
      BY <1>5 DEF RestoreFailed, UpdateStatus, SetStatus, Fault, Inv, TypeOK
    <2>2. Restoring(s) => Restoring(s)'
      BY <1>5, <2>1 DEF RestoreFailed, Restoring, Inv, TypeOK
    <2>3. Looping(s) => Looping(s)'
      BY <2>1 DEF Looping, threads
    <2> QED
      BY <1>2, <2>1, <2>2, <2>3, StartsStay DEF Accounted
  <1>6. CASE Serve(p)
    <2>1. UNCHANGED threads /\ s \notin orphaned /\ status[s] = "running"
      BY <1>6 DEF Serve
    <2>2. Restoring(s) => Restoring(s)'
      BY <1>6 DEF Serve, Restoring, Inv, TypeOK
    <2>3. Looping(s) => Looping(s)'
      BY <2>1 DEF Looping, threads
    <2> QED
      BY <1>2, <2>1, <2>2, <2>3, StartsStay DEF Accounted
  <1> QED
    BY <1>3, <1>4, <1>5, <1>6 DEF BootStep

LEMMA CrashAccounts ==
    ASSUME RunInv, NEW p \in Processes, Crash(p), NEW s \in Strategies
    PROVE  Accounted(s)'
  <1> USE DEF RunInv
  <1> SUFFICES ASSUME s \notin orphaned', status'[s] = "running"
               PROVE  Looping(s)' \/ Starting(s)' \/ Restoring(s)'
    BY DEF Accounted
  <1>2. CASE s \notin Scripts
    BY <1>2 DEF Crash, Restoring, Inv, TypeOK
  <1>3. CASE s \in Scripts
    <2>1. Looping(s) \/ Starting(s)
      BY <1>3 DEF Crash, Accounted, Restoring
    <2>2. ASSUME NEW t \in Threads, of[t] = s, at[t] \in Looks
          PROVE  of'[t] = s /\ at'[t] \in Looks
      BY <1>3, <2>2 DEF Crash
    <2>3. ASSUME NEW r \in Handlers, reqOf[r] = s,
                 req[r] \in {"launch", "batchLaunch", "revert"}
          PROVE  reqOf'[r] = s /\ req'[r] = req[r]
      BY <1>3, <2>3 DEF Crash
    <2>4. Starting(s) => Starting(s)'
      BY <2>3 DEF Starting
    <2> QED
      BY <2>1, <2>2, <2>4, LoopsStay
  <1> QED
    BY <1>2, <1>3

LEMMA RestoresFirstStep ==
    ASSUME Inv, RestoresFirst, [Next]_vars
    PROVE  RestoresFirst'
  <1>1. CASE UNCHANGED restore
    BY <1>1 DEF RestoresFirst, restore
  <1>2. CASE \E p \in Processes : BootStep(p)
    BY <1>2 DEF BootStep, Boot, RestoreOne, RestoreFailed, Serve, RestoresFirst, Inv, TypeOK
  <1>3. CASE \E p \in Processes : Crash(p)
    BY <1>3 DEF Crash, RestoresFirst, Inv, TypeOK
  <1>4. ASSUME NEW t \in Threads, LoopStep(t) PROVE UNCHANGED restore
    BY <1>4 DEF LoopStep, Load, ReadStatus, CheckRegistry, FixStatus, Work, Exit
  <1>5. ASSUME NEW r \in Handlers, HandlerStep(r) PROVE UNCHANGED restore
    BY <1>5 DEF HandlerStep, Launch, Revert, BatchLaunch, FinishStop, FinishDelete
  <1>6. ASSUME NEW r \in Handlers, NEW p \in Processes, NEW z \in Strategies,
               \/ RequestStart(r, p, z) \/ RequestBatchStart(r, p, z) \/ RequestStop(r, p, z)
               \/ RequestDelete(r, p, z) \/ RequestBatchDelete(r, p, z)
        PROVE  UNCHANGED restore
    BY <1>6 DEF RequestStart, RequestBatchStart, RequestStop, RequestDelete,
       RequestBatchDelete
  <1>7. UNCHANGED vars => UNCHANGED restore
    BY DEF vars
  <1> QED
    BY <1>1, <1>2, <1>3, <1>4, <1>5, <1>6, <1>7 DEF Next

LEMMA RunInvStep == RunInv /\ [Next]_vars => RunInv'
  <1> SUFFICES ASSUME RunInv, [Next]_vars PROVE RunInv'
    OBVIOUS
  <1>1. Inv' /\ RestoresFirst'
    BY InvStep, RestoresFirstStep DEF RunInv
  <1>2. ASSUME NEW s \in Strategies PROVE Accounted(s)'
    <2>1. CASE UNCHANGED vars
      <3>1. UNCHANGED <<status, restore, threads, handlers, orphaned>>
        BY <2>1 DEF vars
      <3> QED
        BY <3>1 DEF RunInv, Accounted, Looping, Starting, Restoring, restore, threads, handlers
    <2> QED
      BY <2>1, LoopAccounts, HandlerAccounts, RequestAccounts, BootAccounts, CrashAccounts
         DEF Next
  <1> QED
    BY <1>1, <1>2 DEF RunInv

\* Whatever starts, stops, deletions, ending loops, boots and crashes do to each
\* other, a strategy marked running has a loop as soon as all processes serve and no
\* request about it is under way, unless an error, a refused batch start or the
\* restart of a script left it so.
THEOREM RunningStrategiesHaveLoops == Spec => []RunningHasLoop
  <1>1. RunInv => RunningHasLoop
    <2> SUFFICES ASSUME RunInv, NEW s \in Strategies \ orphaned,
                        status[s] = "running", Quiet(s)
                 PROVE  Looping(s)
      BY DEF RunningHasLoop, Looping, Looks
    <2>1. ~Starting(s)
      BY DEF Quiet, Starting
    <2>2. ~Restoring(s)
      BY ScopeAssumption DEF RunInv, RestoresFirst, Quiet, Restoring
    <2> QED
      BY <2>1, <2>2 DEF RunInv, Accounted
  <1> QED
    BY <1>1, InitAccounts, RunInvStep, PTL DEF Spec
=============================================================================
