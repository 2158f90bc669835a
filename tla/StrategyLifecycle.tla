------------------------- MODULE StrategyLifecycle -------------------------
(***************************************************************************)
(* Starting, running and stopping strategies (services/trading_executor.py,  *)
(* routes/strategy.py, app/__init__.py).                                    *)
(*                                                                          *)
(* The table of strategies has a status column that all server processes     *)
(* share.  Each process has its own TradingExecutor: a registry from a        *)
(* strategy to its thread, guarded by a lock.  API handlers write the status  *)
(* and call the executor in separate steps, the loop of a strategy reads the  *)
(* status and looks into the registry in separate steps, a loop that ends     *)
(* clears the registry entry of its strategy, and a process that boots        *)
(* restores what the table says is running.  What a tick does is left out.    *)
(***************************************************************************)
EXTENDS Integers, FiniteSets

CONSTANTS Processes,    \* server processes, each with an executor of its own
          Strategies,
          Scripts,      \* strategies of type ScriptStrategy: not restored
          Threads,      \* strategy threads that may exist at one time
          Handlers,     \* API requests that may be in flight at one time
          MaxThreads,   \* STRATEGY_MAX_THREADS of one executor
          MaxRequests,  \* bound: API requests in a behaviour
          MaxFaults,    \* bound: crashes and errors in a behaviour
          None

ASSUME ScriptsAssumption   == Scripts \subseteq Strategies
ASSUME BoundsAssumption    == MaxThreads \in Nat /\ MaxRequests \in Nat /\ MaxFaults \in Nat
ASSUME ThreadsAssumption   == IsFiniteSet(Threads) /\ None \notin Threads
ASSUME ScopeAssumption     == None \notin Strategies /\ None \notin Processes
ASSUME ProcessesAssumption == Processes # {}

VARIABLES status,     \* the status column, as long as the row is there
          up,         \* "down", "restoring" in create_app, or "up"
          toRestore,  \* rows fetched by restore_running_strategies and not yet tried
          failed,     \* the row whose restore was refused, to be marked stopped
          registry,   \* running_strategies of each executor
          at,         \* where each strategy thread is
          home,       \* its process
          of,         \* its strategy
          req,        \* what each API handler has still to do
          reqProc,    \* the process that serves it
          reqOf,      \* the strategy it is about
          before,     \* the status when it began (history)
          orphaned,   \* strategies that a fault or a refused batch start left
                      \* marked running (history)
          requests,   \* API requests so far
          faults

threads  == <<at, home, of>>
handlers == <<req, reqProc, reqOf, before>>
restore  == <<up, toRestore, failed>>
vars     == <<status, restore, registry, threads, handlers, orphaned, requests, faults>>

\* "deleted": the strategy has no row any more.
Statuses == {"running", "stopped", "deleted"}
Places   == {"free", "load", "check", "locked", "work", "fix", "exit"}
Duties   == {"idle", "launch", "batchLaunch", "revert", "stop", "delete"}

TypeOK ==
    /\ status    \in [Strategies -> Statuses]
    /\ up        \in [Processes -> {"down", "restoring", "up"}]
    /\ toRestore \in [Processes -> SUBSET Strategies]
    /\ failed    \in [Processes -> Strategies \union {None}]
    /\ registry  \in [Processes -> [Strategies -> Threads \union {None}]]
    /\ at        \in [Threads -> Places]
    /\ home      \in [Threads -> Processes \union {None}]
    /\ of        \in [Threads -> Strategies \union {None}]
    /\ req       \in [Handlers -> Duties]
    /\ reqProc   \in [Handlers -> Processes \union {None}]
    /\ reqOf     \in [Handlers -> Strategies \union {None}]
    /\ before    \in [Handlers -> Statuses \union {None}]
    /\ orphaned  \subseteq Strategies
    /\ requests  \in 0..MaxRequests
    /\ faults    \in 0..MaxFaults

\* The server is down; the table is as it was left.
Init ==
    /\ status    \in [Strategies -> Statuses \ {"deleted"}]
    /\ up        = [p \in Processes |-> "down"]
    /\ toRestore = [p \in Processes |-> {}]
    /\ failed    = [p \in Processes |-> None]
    /\ registry  = [p \in Processes |-> [s \in Strategies |-> None]]
    /\ at        = [t \in Threads |-> "free"]
    /\ home      = [t \in Threads |-> None]
    /\ of        = [t \in Threads |-> None]
    /\ req       = [r \in Handlers |-> "idle"]
    /\ reqProc   = [r \in Handlers |-> None]
    /\ reqOf     = [r \in Handlers |-> None]
    /\ before    = [r \in Handlers |-> None]
    /\ orphaned  = {s \in Scripts : status[s] = "running"}
    /\ requests  = 0
    /\ faults    = 0

Fault == faults < MaxFaults /\ faults' = faults + 1

\* An UPDATE of a row that is gone changes nothing.
SetStatus(s, value) ==
    status' = [status EXCEPT ![s] = IF @ = "deleted" THEN @ ELSE value]

\* update_strategy_status: a database error is logged, and no caller looks at the
\* answer.
UpdateStatus(s, value) ==
    \/ SetStatus(s, value) /\ UNCHANGED faults
    \/ Fault /\ UNCHANGED status

-----------------------------------------------------------------------------
(* TradingExecutor.start_strategy and stop_strategy: the lock is held        *)
(* throughout.                                                              *)

\* The registry without the threads that have ended.
Purged(p) ==
    [s \in Strategies |->
        IF registry[p][s] # None /\ at[registry[p][s]] = "free" THEN None ELSE registry[p][s]]

Registered(reg) == {s \in Strategies : reg[s] # None}

Startable(p, s) ==
    /\ Cardinality(Registered(Purged(p))) < MaxThreads
    /\ s \notin Registered(Purged(p))

\* Threads and handlers are interchangeable: any free one will do.
Free(t) == at[t] = "free" /\ t = CHOOSE u \in Threads : at[u] = "free"

Idle(r) == req[r] = "idle" /\ r = CHOOSE q \in Handlers : req[q] = "idle"

Started(p, s) ==
    /\ Startable(p, s)
    /\ \E t \in Threads :
         /\ Free(t)
         /\ registry' = [registry EXCEPT ![p] = [Purged(p) EXCEPT ![s] = t]]
         /\ at'   = [at EXCEPT ![t] = "load"]
         /\ home' = [home EXCEPT ![t] = p]
         /\ of'   = [of EXCEPT ![t] = s]

\* The thread cap is reached, the strategy is registered already, or the thread
\* could not be created.
Refused(p, s) ==
    /\ (~Startable(p, s) /\ UNCHANGED faults) \/ Fault
    /\ registry' = [registry EXCEPT ![p] = Purged(p)]
    /\ UNCHANGED threads

-----------------------------------------------------------------------------
(* The loop of one strategy thread.                                         *)

\* _run_strategy_loop loads its configuration; what it cannot use ends it, and so
\* does a row that is gone.
Load(t) ==
    /\ at[t] = "load"
    /\ \/ /\ at' = [at EXCEPT ![t] = IF status[of[t]] = "deleted" THEN "exit" ELSE "check"]
          /\ UNCHANGED <<orphaned, faults>>
       \/ /\ Fault
          /\ at' = [at EXCEPT ![t] = "exit"]
          /\ orphaned' = orphaned \union {of[t]}
    /\ UNCHANGED <<status, restore, registry, home, of, handlers, requests>>

\* _is_strategy_running, first the table.  A database error counts as a no.
ReadStatus(t) ==
    /\ at[t] = "check"
    /\ \/ /\ at' = [at EXCEPT ![t] = IF status[of[t]] = "running" THEN "locked" ELSE "exit"]
          /\ UNCHANGED <<orphaned, faults>>
       \/ /\ Fault
          /\ at' = [at EXCEPT ![t] = "exit"]
          /\ orphaned' = orphaned \union {of[t]}
    /\ UNCHANGED <<status, restore, registry, home, of, handlers, requests>>

\* Then the registry: any live thread of the strategy will do.
CheckRegistry(t) ==
    /\ at[t] = "locked"
    /\ LET own == registry[home[t]][of[t]]
       IN  at' = [at EXCEPT ![t] = IF own # None /\ at[own] # "free" THEN "work" ELSE "fix"]
    /\ UNCHANGED <<status, restore, registry, home, of, handlers, orphaned, requests, faults>>

\* The table says running and no thread is registered: correct the table.
FixStatus(t) ==
    /\ at[t] = "fix"
    /\ \/ SetStatus(of[t], "stopped") /\ UNCHANGED <<orphaned, faults>>
       \/ Fault /\ orphaned' = orphaned \union {of[t]} /\ UNCHANGED status
    /\ at' = [at EXCEPT ![t] = "exit"]
    /\ UNCHANGED <<restore, registry, home, of, handlers, requests>>

\* Bug variant of Work: the status is not looked at again.
WorkOn(t) ==
    /\ at[t] = "work"
    /\ at' = at
    /\ UNCHANGED <<status, restore, registry, home, of, handlers, orphaned, requests, faults>>

\* One tick; its errors are logged and the loop goes on.
Work(t) ==
    /\ at[t] = "work"
    /\ at' = [at EXCEPT ![t] = "check"]
    /\ UNCHANGED <<status, restore, registry, home, of, handlers, orphaned, requests, faults>>

\* Bug variant of Exit: the finally block forgets the registry.
ExitRegistered(t) ==
    /\ at[t] = "exit"
    /\ at'   = [at EXCEPT ![t] = "free"]
    /\ home' = [home EXCEPT ![t] = None]
    /\ of'   = [of EXCEPT ![t] = None]
    /\ UNCHANGED <<status, restore, registry, handlers, orphaned, requests, faults>>

\* The finally block clears the entry of the strategy, whose thread it may be.
Exit(t) ==
    /\ at[t] = "exit"
    /\ registry' = [registry EXCEPT ![home[t]][of[t]] = None]
    /\ at'   = [at EXCEPT ![t] = "free"]
    /\ home' = [home EXCEPT ![t] = None]
    /\ of'   = [of EXCEPT ![t] = None]
    /\ UNCHANGED <<status, restore, handlers, orphaned, requests, faults>>

-----------------------------------------------------------------------------
(* API handlers.                                                            *)

Accept(r, p, s, duty) ==
    /\ Idle(r)
    /\ up[p] = "up"
    /\ requests < MaxRequests
    /\ requests' = requests + 1
    /\ req'     = [req EXCEPT ![r] = duty]
    /\ reqProc' = [reqProc EXCEPT ![r] = p]
    /\ reqOf'   = [reqOf EXCEPT ![r] = s]
    /\ before'  = [before EXCEPT ![r] = status[s]]

Answer(r) ==
    /\ req'     = [req EXCEPT ![r] = "idle"]
    /\ reqProc' = [reqProc EXCEPT ![r] = None]
    /\ reqOf'   = [reqOf EXCEPT ![r] = None]
    /\ before'  = [before EXCEPT ![r] = None]

\* POST /strategies/start looks whether there is a row and writes the status first.
RequestStart(r, p, s) ==
    /\ status[s] # "deleted"
    /\ Accept(r, p, s, "launch")
    /\ UpdateStatus(s, "running")
    /\ UNCHANGED <<restore, registry, threads, orphaned>>

\* POST /strategies/batch-start writes it too, for each of its strategies, and does
\* not look.
RequestBatchStart(r, p, s) ==
    /\ Accept(r, p, s, "batchLaunch")
    /\ UpdateStatus(s, "running")
    /\ UNCHANGED <<restore, registry, threads, orphaned>>

Launch(r) ==
    /\ req[r] = "launch"
    /\ \/ Started(reqProc[r], reqOf[r]) /\ Answer(r) /\ UNCHANGED faults
       \/ /\ Refused(reqProc[r], reqOf[r])
          /\ req' = [req EXCEPT ![r] = "revert"]
          /\ UNCHANGED <<reqProc, reqOf, before>>
    /\ orphaned' = orphaned \ {reqOf[r]}
    /\ UNCHANGED <<status, restore, requests>>

\* Bug variants of Revert: a status nobody reads, and the status left as it is.
RevertToError(r) ==
    /\ req[r] = "revert"
    /\ SetStatus(reqOf[r], "error")
    /\ Answer(r)
    /\ UNCHANGED <<restore, registry, threads, orphaned, requests, faults>>

RevertNothing(r) ==
    /\ req[r] = "revert"
    /\ Answer(r)
    /\ UNCHANGED <<status, restore, registry, threads, orphaned, requests, faults>>

\* "If start failed, restore status": it is set to stopped.
Revert(r) ==
    /\ req[r] = "revert"
    /\ UpdateStatus(reqOf[r], "stopped")
    /\ orphaned' = IF faults' # faults THEN orphaned \union {reqOf[r]} ELSE orphaned
    /\ Answer(r)
    /\ UNCHANGED <<restore, registry, threads, requests>>

\* A batch start ignores what the executor answers.
BatchLaunch(r) ==
    /\ req[r] = "batchLaunch"
    /\ \/ /\ Started(reqProc[r], reqOf[r])
          /\ orphaned' = orphaned \ {reqOf[r]}
          /\ UNCHANGED faults
       \/ /\ Refused(reqProc[r], reqOf[r])
          /\ orphaned' = orphaned \union {reqOf[r]}
    /\ Answer(r)
    /\ UNCHANGED <<status, restore, requests>>

\* The executor only stops a strategy that is registered in this process.
StopExecutor(p, s) ==
    \/ /\ registry[p][s] # None
       /\ SetStatus(s, "stopped")
       /\ registry' = [registry EXCEPT ![p][s] = None]
       /\ UNCHANGED faults
    \/ /\ (registry[p][s] = None /\ UNCHANGED faults) \/ Fault
       /\ UNCHANGED <<status, registry>>

\* POST /strategies/stop looks whether there is a row, calls the executor ...
RequestStop(r, p, s) ==
    /\ status[s] # "deleted"
    /\ Accept(r, p, s, "stop")
    /\ StopExecutor(p, s)
    /\ UNCHANGED <<restore, threads, orphaned>>

\* ... and then writes the status.
FinishStop(r) ==
    /\ req[r] = "stop"
    /\ UpdateStatus(reqOf[r], "stopped")
    /\ Answer(r)
    /\ UNCHANGED <<restore, registry, threads, orphaned, requests>>

\* DELETE /strategies/delete leaves the executors alone ...
RequestDelete(r, p, s) ==
    /\ Accept(r, p, s, "delete")
    /\ UNCHANGED <<status, restore, registry, threads, orphaned, faults>>

\* ... DELETE /strategies/batch-delete calls the one of its process first.
RequestBatchDelete(r, p, s) ==
    /\ Accept(r, p, s, "delete")
    /\ StopExecutor(p, s)
    /\ UNCHANGED <<restore, threads, orphaned>>

\* The DELETE; an error is logged.
FinishDelete(r) ==
    /\ req[r] = "delete"
    /\ \/ status' = [status EXCEPT ![reqOf[r]] = "deleted"] /\ UNCHANGED faults
       \/ Fault /\ UNCHANGED status
    /\ Answer(r)
    /\ UNCHANGED <<restore, registry, threads, orphaned, requests>>

-----------------------------------------------------------------------------
(* Processes.                                                               *)

\* create_app fetches the rows marked running; scripts among them are skipped, and
\* a database error is taken for an empty list.
Boot(p) ==
    LET marked == {s \in Strategies \ Scripts : status[s] = "running"}
    IN  /\ up[p] = "down"
        /\ up' = [up EXCEPT ![p] = "restoring"]
        /\ \/ toRestore' = [toRestore EXCEPT ![p] = marked] /\ UNCHANGED <<orphaned, faults>>
           \/ Fault /\ orphaned' = orphaned \union marked /\ UNCHANGED toRestore
        /\ UNCHANGED <<status, failed, registry, threads, handlers, requests>>

RestoreOne(p) ==
    /\ up[p] = "restoring" /\ failed[p] = None
    /\ \E s \in toRestore[p] :
         /\ toRestore' = [toRestore EXCEPT ![p] = @ \ {s}]
         /\ \/ /\ Started(p, s)
               /\ orphaned' = orphaned \ {s}
               /\ UNCHANGED <<failed, faults>>
            \/ /\ Refused(p, s)
               /\ failed' = [failed EXCEPT ![p] = s]
               /\ UNCHANGED orphaned
    /\ UNCHANGED <<status, up, handlers, requests>>

RestoreFailed(p) ==
    /\ failed[p] # None
    /\ UpdateStatus(failed[p], "stopped")
    /\ orphaned' = IF faults' # faults THEN orphaned \union {failed[p]} ELSE orphaned
    /\ failed' = [failed EXCEPT ![p] = None]
    /\ UNCHANGED <<up, toRestore, registry, threads, handlers, requests>>

Serve(p) ==
    /\ up[p] = "restoring" /\ failed[p] = None /\ toRestore[p] = {}
    /\ up' = [up EXCEPT ![p] = "up"]
    /\ UNCHANGED <<status, toRestore, failed, registry, threads, handlers, orphaned, requests, faults>>

\* The process dies with its threads, its registry and the requests it served.
\* Scripts it ran stay marked running: no boot restores them.
Crash(p) ==
    LET mine == {t \in Threads : home[t] = p}
        cut  == {r \in Handlers : reqProc[r] = p}
    IN  /\ Fault
        /\ up[p] # "down"
        /\ up'        = [up EXCEPT ![p] = "down"]
        /\ toRestore' = [toRestore EXCEPT ![p] = {}]
        /\ failed'    = [failed EXCEPT ![p] = None]
        /\ registry'  = [registry EXCEPT ![p] = [s \in Strategies |-> None]]
        /\ at'        = [t \in Threads |-> IF t \in mine THEN "free" ELSE at[t]]
        /\ home'      = [t \in Threads |-> IF t \in mine THEN None ELSE home[t]]
        /\ of'        = [t \in Threads |-> IF t \in mine THEN None ELSE of[t]]
        /\ req'       = [r \in Handlers |-> IF r \in cut THEN "idle" ELSE req[r]]
        /\ reqProc'   = [r \in Handlers |-> IF r \in cut THEN None ELSE reqProc[r]]
        /\ reqOf'     = [r \in Handlers |-> IF r \in cut THEN None ELSE reqOf[r]]
        /\ before'    = [r \in Handlers |-> IF r \in cut THEN None ELSE before[r]]
        /\ orphaned'  = orphaned \union
                        (Scripts \intersect ({of[t] : t \in mine} \union {reqOf[r] : r \in cut}))
        /\ UNCHANGED <<status, requests>>

-----------------------------------------------------------------------------
LoopStep(t) ==
    Load(t) \/ ReadStatus(t) \/ CheckRegistry(t) \/ FixStatus(t) \/ Work(t) \/ Exit(t)

HandlerStep(r) == Launch(r) \/ Revert(r) \/ BatchLaunch(r) \/ FinishStop(r) \/ FinishDelete(r)

BootStep(p) == Boot(p) \/ RestoreOne(p) \/ RestoreFailed(p) \/ Serve(p)

Next ==
    \/ \E t \in Threads : LoopStep(t)
    \/ \E r \in Handlers : HandlerStep(r)
    \/ \E r \in Handlers, p \in Processes, s \in Strategies :
         \/ RequestStart(r, p, s) \/ RequestBatchStart(r, p, s) \/ RequestStop(r, p, s)
         \/ RequestDelete(r, p, s) \/ RequestBatchDelete(r, p, s)
    \/ \E p \in Processes : BootStep(p) \/ Crash(p)

Spec == Init /\ [][Next]_vars

\* Threads that run are scheduled; nobody has to send a request, and a process
\* that is down need not come back.
Fairness ==
    /\ \A t \in Threads : WF_vars(LoopStep(t))
    /\ \A r \in Handlers : WF_vars(HandlerStep(r))

FairSpec == Spec /\ Fairness

-----------------------------------------------------------------------------
(* Properties.                                                              *)

\* An entry of an executor's registry always stands for a live thread of that
\* strategy in that process, although the loop that clears an entry may not be
\* the one it names: the cap on threads never counts a dead one.
RegistryIsLive ==
    \A p \in Processes, s \in Strategies :
        registry[p][s] # None =>
            LET t == registry[p][s] IN at[t] # "free" /\ home[t] = p /\ of[t] = s

Quiet(s) ==
    /\ \A p \in Processes : up[p] = "up"
    /\ \A r \in Handlers : reqOf[r] # s

\* A strategy marked running has a loop that has not decided to end, once every
\* process is up and no request about the strategy is in flight: however starts,
\* stops, ending loops, restores and crashes interleave, only a database or load
\* error, a refused batch start or the restart of a script leaves it marked
\* running with nothing behind it.
RunningHasLoop ==
    \A s \in Strategies \ orphaned :
        status[s] = "running" /\ Quiet(s) =>
            \E t \in Threads : of[t] = s /\ at[t] \in {"load", "check", "locked", "work", "fix"}

\* A strategy that stays stopped, or is deleted, ends up with no loop in any process,
\* wherever the request was served and whatever start was under way.
StopTakesEffect ==
    \A s \in Strategies :
        <>[](status[s] # "running" /\ \A r \in Handlers : reqOf[r] # s)
            => <>[](\A t \in Threads : of[t] # s)

\* What the comment of the start handler promises: a start that is refused
\* restores the status the strategy had.
RefusedStartRestoresStatus ==
    [][\A r \in Handlers : Revert(r) => status'[reqOf[r]] = before[r]]_vars
=============================================================================
