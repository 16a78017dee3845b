-------------------------------- MODULE RunLoop --------------------------------
(***************************************************************************)
(* The run loop of the scheduler (_run_started of service.py, with the     *)
(* ready queue and the AIMD controller it calls, the resource semaphores,  *)
(* the delivery and run()'s cancellation handler): it admits the tasks of  *)
(* a dependency graph, collects their results and writes the run's         *)
(* outcome, while `fg cancel` writes to the same rows.                     *)
(*                                                                         *)
(* The execution of one task, TaskRace, is here what its theorems promise: *)
(* it writes 'running' and 'verifying', wins unless its row is cancelled   *)
(* at that moment, returns TRUE only when it won, or fails, or raises.     *)
(*                                                                         *)
(* Between two awaits of the loop (loop = "top" or "closing") no coroutine *)
(* of the process takes a step; `fg cancel` and a crash can happen.        *)
(* X_Fault, right before X, is X with a plausible bug.                     *)
(***************************************************************************)
EXTENDS Lifecycle, Integers, FiniteSets

CONSTANTS
  Tasks,        \* task ids a manifest may use
  Keys,         \* resource keys
  Workloads,    \* the manifests and scheduler settings of the instance
  Environment   \* which of the events below the instance lets happen

Events == {"fg_cancel", "interrupt", "raise", "crash"}

\* rank is the position the ready-queue policy gives a task; every key has the
\* smallest capacity a manifest allows, 1.
Workload ==
  [tasks: SUBSET Tasks, deps: [Tasks -> SUBSET Tasks],
   keys: [Tasks -> SUBSET Keys], rank: [Tasks -> Nat],
   auto: BOOLEAN, min: Nat \ {0}, initial: Nat, max: Nat,
   threads: Nat, subagents: Nat]

\* What load_manifest has validated: the limits are ordered and the
\* dependencies are tasks of the manifest without a cycle.
Valid(w) ==
  /\ w.min <= w.initial /\ w.initial <= w.max /\ w.max <= w.threads
  /\ \A t \in w.tasks : w.deps[t] \subseteq w.tasks
  /\ \A S \in SUBSET w.tasks : S # {} => \E t \in S : w.deps[t] \cap S = {}
  /\ \A s, t \in w.tasks : w.rank[s] = w.rank[t] => s = t

ASSUME TasksAssumption == IsFiniteSet(Tasks)
ASSUME WorkloadsAssumption ==
  Workloads \subseteq Workload /\ \A w \in Workloads : Valid(w)
ASSUME EventsAssumption == Environment \subseteq Events

VARIABLES
  load,          \* the manifest of this run, fixed
  runStatus,     \* runs.status
  taskStatus,    \* tasks.status
  delivery,      \* deliveries.status, "none" while there is no row
  exec,          \* each task's coroutine (_run_task), or its result
  holds,         \* resource semaphores the task's coroutine holds
  pending,       \* tasks not admitted yet
  running,       \* admitted tasks whose result the loop has not collected
  verifiedKeys,  \* verified_keys
  failed,        \* failed
  limit,         \* concurrency_state.current_root
  cooling,       \* a change of the limit may still be in its cooldown
  loop           \* where the loop is

rows == <<runStatus, taskStatus, delivery>>
tasks == <<exec, holds>>
memory == <<pending, running, verifiedKeys, failed, limit, cooling>>
vars == <<load, rows, tasks, memory, loop>>

-------------------------------------------------------------------------------
AtWork == {"admitted", "working", "won"}
Collectable == {"true", "false", "raised"}
Stopped == {"returned", "cancelled", "dead", "reconciled"}

Midway == {"running", "verifying"}

Active == {t \in Tasks : exec[t] \in AtWork}

Init ==
  /\ load \in Workloads
  /\ runStatus = "running"
  /\ taskStatus = [t \in Tasks |-> CASE t \notin load.tasks -> "absent"
                                    [] load.deps[t] = {}  -> "ready"
                                    [] OTHER              -> "queued"]
  /\ delivery = "none"
  /\ exec = [t \in Tasks |-> "idle"]
  /\ holds = [t \in Tasks |-> {}]
  /\ pending = load.tasks
  /\ running = {}
  /\ verifiedKeys = {}
  /\ failed = 0
  /\ limit = load.initial
  /\ cooling = FALSE
  /\ loop = "top"

-------------------------------------------------------------------------------
(* One turn of the loop.                                                   *)

Larger(m, n) == IF m > n THEN m ELSE n
Smaller(m, n) == IF m < n THEN m ELSE n

Ready_AnyDependency ==
  {t \in pending : load.deps[t] = {} \/ load.deps[t] \cap verifiedKeys # {}}
Ready == {t \in pending : load.deps[t] \subseteq verifiedKeys}

Conflict(s, t) == load.keys[s] \cap load.keys[t] # {}

\* The nested threads each worker is granted, after one thread per root.
SubagentThreadsPerRoot ==
  Smaller(load.subagents, (load.threads - load.max) \div load.max)

Healthy ==
  /\ pending # {}
  /\ Cardinality(verifiedKeys) + failed >= 1
  /\ limit < load.max

\* AIMDController.decide.  The cooldown has elapsed before the first change.
DecideLimit(pressure) ==
  \/ /\ ~load.auto \/ cooling \/ ~(pressure \/ Healthy)
     /\ UNCHANGED <<limit, cooling>>
  \/ /\ load.auto /\ pressure
     /\ limit' = Larger(load.min, limit \div 2)
     /\ cooling' = TRUE
  \/ /\ load.auto /\ ~pressure /\ Healthy
     /\ limit' = limit + 1
     /\ cooling' = TRUE

\* Selection stops after a task is appended, so it takes one even at capacity 0.
Room_OneTooFew(n) == n < Larger(1, limit' - Cardinality(running) - 1)
Room(n) == n < Larger(1, limit' - Cardinality(running))

Fits_OnlySelected(t, before) ==
  Room(Cardinality(before)) /\ \A u \in before : ~Conflict(t, u)
Fits(t, before) ==
  Room(Cardinality(before)) /\ \A u \in running \cup before : ~Conflict(t, u)

\* The tasks the loop selects, best rank first.
Selection(S) ==
  \A t \in Ready :
    t \in S <=> Fits(t, {s \in S : load.rank[s] < load.rank[t]})

TurnAdmits ==
  /\ loop = "top"
  /\ running # {} \/ Ready # {}
  /\ \E pressure \in BOOLEAN : DecideLimit(pressure)
  /\ \E S \in SUBSET Ready :
       /\ Selection(S)
       /\ pending' = pending \ S
       /\ running' = running \cup S
       /\ exec' = [t \in Tasks |-> IF t \in S THEN "admitted" ELSE exec[t]]
  /\ loop' = "waiting"
  /\ UNCHANGED <<load, rows, holds, verifiedKeys, failed>>

\* Nothing is ready and nothing runs: what is left can never start.
TurnBlocks_KeepsWaiting ==
  /\ loop = "top"
  /\ running = {} /\ Ready = {} /\ pending # {}
  /\ loop' = "waiting"
  /\ UNCHANGED <<load, rows, tasks, memory>>
TurnBlocks ==
  /\ loop = "top"
  /\ running = {} /\ Ready = {} /\ pending # {}
  /\ taskStatus' = [t \in Tasks |-> IF t \in pending THEN "blocked" ELSE taskStatus[t]]
  /\ failed' = failed + Cardinality(pending)
  /\ loop' = "closing"
  /\ UNCHANGED <<load, runStatus, delivery, tasks, pending, running, verifiedKeys,
                 limit, cooling>>

\* The loop is over; a run of several tasks that all succeeded is delivered.
TurnEnds ==
  /\ loop = "top"
  /\ running = {} /\ pending = {}
  /\ IF failed = 0 /\ Cardinality(load.tasks) > 1
     THEN loop' = "assembling" /\ delivery' = "assembling"
     ELSE loop' = "closing" /\ UNCHANGED delivery
  /\ UNCHANGED <<load, runStatus, taskStatus, tasks, memory>>

Finished == {t \in running : exec[t] \in Collectable}

Collect ==
  /\ loop = "waiting"
  /\ Finished # {} /\ \A t \in Finished : exec[t] # "raised"
  /\ running' = running \ Finished
  /\ verifiedKeys' = verifiedKeys \cup {t \in Finished : exec[t] = "true"}
  /\ failed' = failed + Cardinality({t \in Finished : exec[t] = "false"})
  /\ loop' = "top"
  /\ UNCHANGED <<load, rows, tasks, pending, limit, cooling>>

\* future.result() raises out of run(); the run's row is not touched.
CollectRaises ==
  /\ loop = "waiting"
  /\ \E t \in Finished : exec[t] = "raised"
  /\ loop' = "raised"
  /\ UNCHANGED <<load, rows, tasks, memory>>

-------------------------------------------------------------------------------
(* The delivery of a run of several tasks and the end of the run.          *)

Sinks == {t \in load.tasks : \A u \in load.tasks : t \notin load.deps[u]}

DeliveryFails(stage) ==
  /\ loop = stage
  /\ delivery' = "failed"
  /\ failed' = failed + 1
  /\ loop' = "closing"
  /\ UNCHANGED <<load, runStatus, taskStatus, tasks, pending, running, verifiedKeys,
                 limit, cooling>>

\* _delivery_snapshots demands a winner for every sink.
DeliveryAssembled ==
  /\ loop = "assembling"
  /\ \A t \in Sinks : taskStatus[t] = "verified"
  /\ delivery' = "verifying"
  /\ loop' = "verifying"
  /\ UNCHANGED <<load, runStatus, taskStatus, tasks, memory>>

DeliveryVerified ==
  /\ loop = "verifying"
  /\ delivery' = "verified"
  /\ loop' = "closing"
  /\ UNCHANGED <<load, runStatus, taskStatus, tasks, memory>>

\* An exception its handlers do not name: the delivery's row stays as it is.
DeliveryRaises ==
  /\ "raise" \in Environment
  /\ loop \in {"assembling", "verifying"}
  /\ loop' = "raised"
  /\ UNCHANGED <<load, rows, tasks, memory>>

\* UPDATE runs SET status=... WHERE id=?, whatever the row says.
CloseRun_OnlyUnfinished ==
  /\ loop = "closing"
  /\ runStatus' = IF pending = {} THEN "completed" ELSE "failed"
  /\ loop' = "returned"
  /\ UNCHANGED <<load, taskStatus, delivery, tasks, memory>>
CloseRun ==
  /\ loop = "closing"
  /\ runStatus' = IF failed = 0 THEN "completed" ELSE "failed"
  /\ loop' = "returned"
  /\ UNCHANGED <<load, taskStatus, delivery, tasks, memory>>

Loop ==
  \/ TurnAdmits \/ TurnBlocks \/ TurnEnds \/ Collect \/ CollectRaises
  \/ DeliveryAssembled \/ DeliveryVerified
  \/ DeliveryFails("assembling") \/ DeliveryFails("verifying")
  \/ DeliveryRaises \/ CloseRun

-------------------------------------------------------------------------------
(* A task's coroutine.                                                     *)

Awaiting == loop \in {"waiting", "assembling", "verifying", "stopping", "raised"}

\* The coroutine ends; `async with` releases its semaphores.
Return(t, how) ==
  /\ exec' = [exec EXCEPT ![t] = how]
  /\ holds' = [holds EXCEPT ![t] = {}]
  /\ UNCHANGED <<load, runStatus, delivery, memory, loop>>

TakeResources(t) ==
  /\ Awaiting
  /\ exec[t] = "admitted"
  /\ \A u \in Tasks : holds[u] \cap load.keys[t] = {}
  /\ holds' = [holds EXCEPT ![t] = load.keys[t]]
  /\ exec' = [exec EXCEPT ![t] = "working"]
  /\ UNCHANGED <<load, rows, memory, loop>>

TaskWrites(t) ==
  /\ Awaiting
  /\ exec[t] = "working"
  /\ \E s \in {"running", "verifying"} : taskStatus' = [taskStatus EXCEPT ![t] = s]
  /\ UNCHANGED <<load, runStatus, delivery, tasks, memory, loop>>

TaskWins(t) ==
  /\ Awaiting
  /\ exec[t] = "working"
  /\ taskStatus[t] \notin {"cancelled", "blocked"}
  /\ taskStatus' = [taskStatus EXCEPT ![t] = "verified"]
  /\ exec' = [exec EXCEPT ![t] = "won"]
  /\ UNCHANGED <<load, runStatus, delivery, holds, memory, loop>>

\* After a lost claim the row stays 'cancelled'.
TaskFails(t) ==
  /\ Awaiting
  /\ exec[t] = "working"
  /\ \/ taskStatus' = [taskStatus EXCEPT ![t] = "failed"]
     \/ taskStatus[t] = "cancelled" /\ UNCHANGED taskStatus
  /\ Return(t, "false")

TaskReturns(t) ==
  /\ Awaiting
  /\ exec[t] = "won"
  /\ Return(t, "true")
  /\ UNCHANGED taskStatus

TaskRaises(t) ==
  /\ "raise" \in Environment
  /\ Awaiting
  /\ exec[t] = "working"
  /\ Return(t, "raised")
  /\ UNCHANGED taskStatus

\* By run()'s handler, or by asyncio.run after an exception.
TaskCancelled(t) ==
  /\ loop \in {"stopping", "raised"}
  /\ exec[t] \in AtWork
  /\ Return(t, "cancelled")
  /\ UNCHANGED taskStatus

\* Attempts of a race that was cancelled or raised are left running and may
\* still write.
Straggler(t) ==
  /\ \/ exec[t] = "cancelled" /\ loop \in {"stopping", "cancelled"}
     \/ exec[t] = "raised" /\ Awaiting
  /\ taskStatus[t] # "verified"
  /\ taskStatus' = [taskStatus EXCEPT ![t] = "verifying"]
  /\ UNCHANGED <<load, runStatus, delivery, tasks, memory, loop>>

Task(t) ==
  \/ TakeResources(t) \/ TaskWrites(t) \/ TaskWins(t) \/ TaskFails(t)
  \/ TaskReturns(t) \/ TaskRaises(t) \/ TaskCancelled(t)

-------------------------------------------------------------------------------
(* The other process, interruption and crash.                              *)

Cancellable == {"queued", "ready", "running", "verifying"}

FgCancelRun ==
  /\ "fg_cancel" \in Environment
  /\ runStatus' = IF runStatus = "running" THEN "cancelled" ELSE runStatus
  /\ taskStatus' = [t \in Tasks |-> IF taskStatus[t] \in Cancellable
                                    THEN "cancelled" ELSE taskStatus[t]]
  /\ UNCHANGED <<load, delivery, tasks, memory, loop>>

FgCancelTask(t) ==
  /\ "fg_cancel" \in Environment
  /\ taskStatus[t] \in Cancellable
  /\ taskStatus' = [taskStatus EXCEPT ![t] = "cancelled"]
  /\ UNCHANGED <<load, runStatus, delivery, tasks, memory, loop>>

\* Cancels the loop where it awaits; _finalize_delivery marks its row.
Interrupt ==
  /\ "interrupt" \in Environment
  /\ loop \in {"waiting", "assembling", "verifying"}
  /\ delivery' = IF loop = "waiting" THEN delivery ELSE "cancelled"
  /\ loop' = "stopping"
  /\ UNCHANGED <<load, runStatus, taskStatus, tasks, memory>>

PersistCancellation ==
  /\ loop = "stopping"
  /\ Active = {}
  /\ taskStatus' = [t \in Tasks |-> IF taskStatus[t] \in Cancellable
                                    THEN "cancelled" ELSE taskStatus[t]]
  /\ runStatus' = IF runStatus = "running" THEN "cancelled" ELSE runStatus
  /\ loop' = "cancelled"
  /\ UNCHANGED <<load, delivery, tasks, memory>>

Crash ==
  /\ "crash" \in Environment
  /\ loop \notin Stopped
  /\ loop' = "dead"
  /\ exec' = [t \in Tasks |-> IF exec[t] \in AtWork THEN "cancelled" ELSE exec[t]]
  /\ UNCHANGED <<load, rows, holds, memory>>

Reconcile ==
  /\ loop = "dead"
  /\ taskStatus' = [t \in Tasks |-> IF taskStatus[t] \in {"running", "verifying"}
                                    THEN "failed" ELSE taskStatus[t]]
  /\ loop' = "reconciled"
  /\ UNCHANGED <<load, runStatus, delivery, tasks, memory>>

\* Nothing is left to happen: the model stutters instead of deadlocking.
Settled == loop \in Stopped \cup {"raised"} /\ (loop = "raised" => Active = {})
Terminated == Settled /\ UNCHANGED vars

Next ==
  \/ Loop
  \/ \E t \in Tasks : Task(t) \/ Straggler(t) \/ FgCancelTask(t)
  \/ FgCancelRun \/ Interrupt \/ PersistCancellation \/ Crash \/ Reconcile
  \/ Terminated

\* The event loop runs what is ready; every task's execution ends (TaskSettles).
Fairness ==
  /\ WF_vars(Loop) /\ WF_vars(PersistCancellation)
  /\ \A t \in Tasks :
       /\ WF_vars(TakeResources(t))
       /\ WF_vars(TaskFails(t) \/ TaskReturns(t) \/ TaskRaises(t) \/ TaskCancelled(t))

Spec == Init /\ [][Next]_vars
FairSpec == Spec /\ Fairness

-------------------------------------------------------------------------------
(* Properties.                                                             *)

TypeOK ==
  /\ load \in Workloads
  /\ runStatus \in RunStatus
  /\ taskStatus \in [Tasks -> TaskStatus \cup {"absent"}]
  /\ delivery \in {"none", "assembling", "verifying", "verified", "failed",
                   "cancelled"}
  /\ exec \in [Tasks -> {"idle", "cancelled"} \cup AtWork \cup Collectable]
  /\ holds \in [Tasks -> SUBSET Keys]
  /\ pending \subseteq load.tasks
  /\ running \subseteq load.tasks
  /\ verifiedKeys \subseteq load.tasks
  /\ failed \in Nat
  /\ limit \in load.min..load.max
  /\ cooling \in BOOLEAN
  /\ loop \in {"top", "waiting", "assembling", "verifying", "closing", "stopping",
               "raised"} \cup Stopped

\* Tasks are at work only after all their dependencies are verified rows (the
\* loop decides from verified_keys, its own memory), never together with a task
\* that shares a resource key, never twice, and a verified row is never taken
\* back by `fg cancel`, by an interruption or by the loop.
Dag ==
  INSTANCE DagExecution WITH
    plan <- load,
    started <- {t \in Tasks : exec[t] # "idle"},
    active <- Active,
    verified <- {t \in Tasks : taskStatus[t] = "verified"}
ImplementsDag == Dag!Spec

\* An admitted task never waits for a resource semaphore while it occupies one
\* of the run's places: admission has already kept the conflicting tasks out, so
\* several semaphores taken one after the other cannot deadlock either.
ResourceWaitFree ==
  \A t, u \in Tasks : exec[t] = "admitted" => holds[u] \cap load.keys[t] = {}

\* The hard limit: whatever the AIMD controller does, no more tasks than max_root
\* are admitted, although selection admits a task even when it finds no room.
HardLimit == Cardinality(running) <= load.max

\* Agent threads: the roots that can run and the nested threads granted to each
\* of them stay within total_agent_thread_budget.
ThreadBudgetKept ==
  load.max * (1 + SubagentThreadsPerRoot) <= load.threads

\* What the loop remembers as verified is verified in the rows, and the loop has
\* lost track of no coroutine: the ones at work are all in `running`.
MemoryMatchesRows ==
  /\ \A t \in verifiedKeys : taskStatus[t] = "verified"
  /\ loop \notin Stopped => Active \subseteq running

\* A task is written off as blocked only when it never started and one of its
\* dependencies has really ended without a winner or is itself written off.
BlockedForAReason ==
  \A t \in Tasks : taskStatus[t] = "blocked" =>
    /\ exec[t] = "idle"
    /\ \E d \in load.deps[t] : taskStatus[d] \in {"failed", "cancelled", "blocked"}

\* What the run reports when it returns is what the rows say, whatever `fg cancel`
\* wrote meanwhile: 'completed' exactly when every task is verified and, for
\* several tasks, so is the delivery; and no task is left in the middle.
OutcomeMatchesRows ==
  loop = "returned" =>
    /\ runStatus # "running"
    /\ runStatus = "completed" =>
         /\ \A t \in load.tasks : taskStatus[t] = "verified"
         /\ delivery = IF Cardinality(load.tasks) > 1 THEN "verified" ELSE "none"
    /\ runStatus = "failed" =>
         \/ \E t \in load.tasks : taskStatus[t] # "verified"
         \/ delivery = "failed"
    /\ \A t \in load.tasks : taskStatus[t] \notin {"queued", "ready"} \cup Midway

\* The delivery is assembled only from a full set of winners: the check that
\* every sink of the graph has one never fails.
DeliveryHasWinners ==
  loop = "assembling" => \A t \in Sinks : taskStatus[t] = "verified"

\* What the loop remembers and what it wrote agree: the limits it keeps, the
\* rows of the tasks it has seen end, of those it wrote off, of the run and
\* of the delivery.
LoopConsistent ==
  /\ TypeOK /\ HardLimit /\ ThreadBudgetKept /\ MemoryMatchesRows
  /\ BlockedForAReason /\ OutcomeMatchesRows /\ DeliveryHasWinners

\* A turn leaves no room unused: after it, either the limit is reached or every
\* ready task shares a resource key with a running one.
WorkConserving ==
  [][loop = "top" /\ loop' = "waiting" =>
       \/ Cardinality(running') >= limit'
       \/ \A t \in Ready' : \E u \in running' : Conflict(t, u)]_vars

\* Every run comes to an end: it returns, is cancelled or raises.
RunSettles == <>[]Settled

===============================================================================
