----------------------------- MODULE RunLoopProofs -----------------------------
(***************************************************************************)
(* Proofs about RunLoop, for every set of tasks, keys, manifests and       *)
(* scheduler settings.                                                     *)
(*                                                                         *)
(* The argument.  The loop decides from its own memory (pending, running,  *)
(* verified_keys) what may start; the promise speaks of rows and           *)
(* coroutines.  The inductive invariant is what makes the memory a safe    *)
(* substitute: a pending task has no coroutine, every coroutine at work is *)
(* in `running` while the loop can still admit, every key in verified_keys *)
(* is a verified row, and only a task that has won has one, so that no     *)
(* unconditional update reaches it.  What the run reports needs a second   *)
(* invariant beside it (MemoryInv): a task is pending, running or          *)
(* collected with the result of its coroutine, `failed` is zero exactly    *)
(* while all collected tasks won, and the loop's position says what the    *)
(* rows of the run and the delivery are.  The hard limit rests on          *)
(* arithmetic: selection takes one task even without room, but the loop    *)
(* reaches its top only after a task was collected.                        *)
(***************************************************************************)
EXTENDS RunLoop, FiniteSetTheorems, TLAPS

PendingIsIdle == \A t \in pending : exec[t] = "idle"

\* The coroutines that may still write never belong to a verified task.
VerifiedHasWon ==
  \A t \in Tasks : taskStatus[t] = "verified" => exec[t] \in {"won", "true", "cancelled"}

WinnersVerified ==
  \A t \in Tasks : exec[t] \in {"won", "true"} => taskStatus[t] = "verified"

ActiveIsRunning == loop \notin Stopped => \A t \in Tasks : exec[t] \in AtWork => t \in running

\* A crash leaves no coroutine at work.
DeadAtRest == loop \in {"dead", "reconciled"} => \A t \in Tasks : exec[t] \notin AtWork

LoopInv ==
  /\ load \in Workloads
  /\ taskStatus \in [Tasks -> TaskStatus \cup {"absent"}]
  /\ exec \in [Tasks -> {"idle", "cancelled"} \cup AtWork \cup Collectable]
  /\ pending \subseteq load.tasks
  /\ running \subseteq load.tasks
  /\ \A t \in verifiedKeys : t \in Tasks /\ taskStatus[t] = "verified"
  /\ PendingIsIdle
  /\ VerifiedHasWon
  /\ WinnersVerified
  /\ ActiveIsRunning
  /\ DeadAtRest

-------------------------------------------------------------------------------
\* What load_manifest has validated, by name.
LEMMA WorkloadTyped ==
  ASSUME load \in Workloads
  PROVE  /\ load.tasks \subseteq Tasks
         /\ load.deps \in [Tasks -> SUBSET Tasks]
         /\ load.keys \in [Tasks -> SUBSET Keys]
         /\ \A s, t \in load.tasks : load.rank[s] = load.rank[t] => s = t
         /\ \A t \in Tasks : load.rank[t] \in Nat
<1>1. load \in Workload /\ Valid(load)
  BY WorkloadsAssumption
<1>2. QED
  BY <1>1 DEF Workload, Valid

\* At first nothing has a coroutine and nothing is verified.
LEMMA LoopInvInit == Init => LoopInv
<1> SUFFICES ASSUME Init PROVE LoopInv
  OBVIOUS
<1>1. load.tasks \subseteq Tasks
  BY WorkloadTyped DEF Init
<1>2. taskStatus \in [Tasks -> TaskStatus \cup {"absent"}]
  BY DEF Init, TaskStatus
<1>3. \A t \in Tasks : taskStatus[t] # "verified"
  BY DEF Init
<1>4. QED
  BY <1>1, <1>2, <1>3
     DEF Init, LoopInv, PendingIsIdle, VerifiedHasWon, WinnersVerified,
         ActiveIsRunning, DeadAtRest, AtWork, Collectable

\* Every step keeps the memory a safe substitute for the rows.
LEMMA LoopInvNext == LoopInv /\ [Next]_vars => LoopInv'
<1> SUFFICES ASSUME LoopInv, [Next]_vars PROVE LoopInv'
  OBVIOUS
<1> USE DEF LoopInv, PendingIsIdle, VerifiedHasWon, WinnersVerified,
            ActiveIsRunning, DeadAtRest, AtWork, Collectable, Stopped, TaskStatus, rows,
            tasks, memory
<1>0. load.tasks \subseteq Tasks
  BY WorkloadTyped
<1> USE <1>0
<1>1. CASE TurnAdmits
  <2>1. PICK S \in SUBSET Ready :
          /\ Selection(S)
          /\ pending' = pending \ S
          /\ running' = running \cup S
          /\ exec' = [t \in Tasks |-> IF t \in S THEN "admitted" ELSE exec[t]]
    BY <1>1 DEF TurnAdmits
  <2>2. S \subseteq pending
    BY DEF Ready
  <2>3. QED
    BY <1>1, <2>1, <2>2 DEF TurnAdmits
<1>2. CASE TurnBlocks
  BY <1>2 DEF TurnBlocks
<1>3. CASE TurnEnds
  BY <1>3 DEF TurnEnds
<1>4. CASE Collect
  BY <1>4 DEF Collect, Finished
<1>5. CASE CollectRaises
  BY <1>5 DEF CollectRaises
<1>6. CASE DeliveryAssembled \/ DeliveryVerified \/ DeliveryRaises
  BY <1>6 DEF DeliveryAssembled, DeliveryVerified, DeliveryRaises
<1>7. CASE DeliveryFails("assembling") \/ DeliveryFails("verifying")
  BY <1>7 DEF DeliveryFails
<1>8. CASE CloseRun
  BY <1>8 DEF CloseRun
<1>9. ASSUME NEW t \in Tasks, TakeResources(t) PROVE LoopInv'
  BY <1>9 DEF TakeResources
<1>10. ASSUME NEW t \in Tasks, TaskWrites(t) PROVE LoopInv'
  BY <1>10 DEF TaskWrites
<1>11. ASSUME NEW t \in Tasks, TaskWins(t) PROVE LoopInv'
  BY <1>11 DEF TaskWins
<1>12. ASSUME NEW t \in Tasks, TaskFails(t) PROVE LoopInv'
  BY <1>12 DEF TaskFails, Return
<1>13. ASSUME NEW t \in Tasks, TaskReturns(t) PROVE LoopInv'
  BY <1>13 DEF TaskReturns, Return
<1>14. ASSUME NEW t \in Tasks, TaskRaises(t) PROVE LoopInv'
  BY <1>14 DEF TaskRaises, Return
<1>15. ASSUME NEW t \in Tasks, TaskCancelled(t) PROVE LoopInv'
  BY <1>15 DEF TaskCancelled, Return
<1>16. ASSUME NEW t \in Tasks, Straggler(t) PROVE LoopInv'
  BY <1>16 DEF Straggler
<1>17. ASSUME NEW t \in Tasks, FgCancelTask(t) PROVE LoopInv'
  BY <1>17 DEF FgCancelTask, Cancellable
<1>18. CASE FgCancelRun
  BY <1>18 DEF FgCancelRun, Cancellable
<1>19. CASE Interrupt
  BY <1>19 DEF Interrupt
<1>20. CASE PersistCancellation
  BY <1>20 DEF PersistCancellation, Cancellable
<1>21. CASE Crash
  BY <1>21 DEF Crash
<1>22. CASE Reconcile
  BY <1>22 DEF Reconcile
<1>23. CASE UNCHANGED vars
  BY <1>23 DEF vars
<1>24. QED
  BY <1>1, <1>2, <1>3, <1>4, <1>5, <1>6, <1>7, <1>8, <1>9, <1>10, <1>11, <1>12,
     <1>13, <1>14, <1>15, <1>16, <1>17, <1>18, <1>19, <1>20, <1>21, <1>22, <1>23
  DEF Next, Loop, Task, Terminated

\* Every state of every run has it.
THEOREM LoopInvariant == Spec => []LoopInv
  BY LoopInvInit, LoopInvNext, PTL DEF Spec

-------------------------------------------------------------------------------
(* The refinement: every step of the loop is a step of DagExecution.       *)

Started == {t \in Tasks : exec[t] # "idle"}
VerifiedRows == {t \in Tasks : taskStatus[t] = "verified"}

\* The initial states map to initial states.
LEMMA DagInit == Init => Dag!Init
BY DEF Init, Dag!Init, Active, AtWork

\* Tasks selected in one turn respect the dependencies and exclude each other
\* and everything at work.
LEMMA SelectionIsSafe ==
  ASSUME LoopInv, loop \notin Stopped, NEW S \in SUBSET Ready, Selection(S)
  PROVE  /\ S \subseteq Tasks \ Started
         /\ \A t \in S : load.deps[t] \subseteq VerifiedRows
         /\ \A t \in S : \A u \in (Active \cup S) \ {t} : Dag!Exclusive(t, u)
<1>1. S \subseteq pending /\ pending \subseteq load.tasks /\ load.tasks \subseteq Tasks
  BY WorkloadTyped DEF Ready, LoopInv
<1>2. S \subseteq Tasks \ Started
  BY <1>1 DEF LoopInv, PendingIsIdle, Started
<1>3. \A t \in S : load.deps[t] \subseteq VerifiedRows
  BY DEF Ready, LoopInv, VerifiedRows
<1>4. ASSUME NEW t \in S, NEW u \in Active PROVE Dag!Exclusive(t, u)
  <2>1. u \in running
    BY DEF LoopInv, ActiveIsRunning, Active
  <2>2. ~Conflict(t, u)
    BY <2>1 DEF Selection, Fits
  <2>3. QED
    BY <2>2 DEF Conflict, Dag!Exclusive
<1>5. ASSUME NEW t \in S, NEW u \in S, load.rank[u] < load.rank[t]
      PROVE  ~Conflict(t, u)
  BY <1>5 DEF Selection, Fits
<1>6. ASSUME NEW t \in S, NEW u \in S, t # u PROVE Dag!Exclusive(t, u)
  <2>1. load.rank[t] # load.rank[u] /\ load.rank[t] \in Nat /\ load.rank[u] \in Nat
    BY <1>1, <1>6, WorkloadTyped DEF LoopInv
  <2>2. CASE load.rank[u] < load.rank[t]
    BY <1>5, <2>2 DEF Conflict, Dag!Exclusive
  <2>3. CASE load.rank[t] < load.rank[u]
    BY <1>5, <2>3 DEF Conflict, Dag!Exclusive
  <2>4. QED
    BY <2>1, <2>2, <2>3
<1>7. QED
  BY <1>2, <1>3, <1>4, <1>6

\* Every step maps to a step or a stutter.
LEMMA DagNext == LoopInv /\ [Next]_vars => [Dag!Next]_(Dag!vars)
<1> SUFFICES ASSUME LoopInv, [Next]_vars PROVE [Dag!Next]_(Dag!vars)
  OBVIOUS
<1> USE DEF Dag!vars, Active, AtWork
<1>0. load' = load
  BY DEF Next, Loop, Task, Terminated, vars, TurnAdmits, TurnBlocks, TurnEnds,
         Collect, CollectRaises, DeliveryAssembled, DeliveryVerified,
         DeliveryFails, DeliveryRaises, CloseRun, TakeResources, TaskWrites,
         TaskWins, TaskFails, TaskReturns, TaskRaises, TaskCancelled, Return,
         Straggler, FgCancelTask, FgCancelRun, Interrupt, PersistCancellation,
         Crash, Reconcile
<1>1. CASE TurnAdmits
  <2>1. PICK S \in SUBSET Ready :
          /\ Selection(S)
          /\ exec' = [t \in Tasks |-> IF t \in S THEN "admitted" ELSE exec[t]]
    BY <1>1 DEF TurnAdmits
  <2>2. /\ S \subseteq Tasks \ Started
        /\ \A t \in S : load.deps[t] \subseteq VerifiedRows
        /\ \A t \in S : \A u \in (Active \cup S) \ {t} : Dag!Exclusive(t, u)
    BY <1>1, <2>1, SelectionIsSafe DEF TurnAdmits, Stopped
  <2>3. Started' = Started \cup S /\ Active' = Active \cup S /\ taskStatus' = taskStatus
    BY <1>1, <2>1, <2>2 DEF TurnAdmits, Started, rows
  <2>4. Dag!Start(S)
    BY <1>0, <2>2, <2>3 DEF Dag!Start, Started, VerifiedRows
  <2>5. QED
    BY <2>2, <2>4 DEF Dag!Next
<1>2. ASSUME NEW t \in Tasks, TaskWins(t) PROVE Dag!Next
  <2>1. Dag!Verify(t)
    BY <1>0, <1>2 DEF TaskWins, Dag!Verify, LoopInv
  <2>2. QED
    BY <2>1 DEF Dag!Next
<1>3. ASSUME NEW t \in Tasks,
             TaskFails(t) \/ TaskReturns(t) \/ TaskRaises(t) \/ TaskCancelled(t)
      PROVE  Dag!Next
  <2>1. exec[t] \in AtWork /\ \E how \in {"false", "true", "raised", "cancelled"} : 
          exec' = [exec EXCEPT ![t] = how]
    BY <1>3 DEF TaskFails, TaskReturns, TaskRaises, TaskCancelled, Return
  <2>2. Active' = Active \ {t} /\ Started' = Started /\ {t} \subseteq Active
    BY <2>1 DEF LoopInv, Started
  <2>3. VerifiedRows' = VerifiedRows
    BY <1>3 DEF TaskFails, TaskReturns, TaskRaises, TaskCancelled, Return,
                VerifiedRows, LoopInv, VerifiedHasWon
  <2>4. Dag!Leave({t})
    BY <1>0, <2>2, <2>3 DEF Dag!Leave, Started, VerifiedRows
  <2>5. QED
    BY <2>4 DEF Dag!Next
<1>4. CASE Crash
  <2>1. Active' = {} /\ Started' = Started /\ taskStatus' = taskStatus
    BY <1>4 DEF Crash, LoopInv, Started, rows
  <2>2. PICK S \in SUBSET Tasks : S = Active
    OBVIOUS
  <2>3. Dag!Leave(S)
    BY <1>0, <2>1, <2>2 DEF Dag!Leave, Started
  <2>4. QED
    BY <2>3 DEF Dag!Next
<1>5. ASSUME exec' = exec, VerifiedRows' = VerifiedRows PROVE UNCHANGED Dag!vars
  BY <1>0, <1>5 DEF VerifiedRows
<1>6. ASSUME NEW t \in Tasks, TakeResources(t) PROVE UNCHANGED Dag!vars
  <2>1. Active' = Active /\ Started' = Started /\ taskStatus' = taskStatus
    BY <1>6 DEF TakeResources, LoopInv, Started, rows
  <2>2. QED
    BY <1>0, <2>1 DEF Started
<1>7. CASE TurnBlocks \/ TurnEnds \/ Collect \/ CollectRaises \/ CloseRun
  BY <1>5, <1>7 DEF TurnBlocks, TurnEnds, Collect, CollectRaises, CloseRun, rows,
     tasks, VerifiedRows, LoopInv, PendingIsIdle, VerifiedHasWon
<1>8. CASE DeliveryAssembled \/ DeliveryVerified \/ DeliveryRaises
           \/ DeliveryFails("assembling") \/ DeliveryFails("verifying")
  BY <1>5, <1>8 DEF DeliveryAssembled, DeliveryVerified, DeliveryRaises,
     DeliveryFails, rows, tasks, VerifiedRows
<1>9. ASSUME NEW t \in Tasks, TaskWrites(t) \/ Straggler(t) \/ FgCancelTask(t)
      PROVE  UNCHANGED Dag!vars
  BY <1>5, <1>9 DEF TaskWrites, Straggler, FgCancelTask, Cancellable, tasks,
     VerifiedRows, LoopInv, VerifiedHasWon
<1>10. CASE FgCancelRun \/ PersistCancellation \/ Reconcile
  BY <1>5, <1>10 DEF FgCancelRun, PersistCancellation, Reconcile, Cancellable,
     tasks, VerifiedRows, LoopInv
<1>11. CASE Interrupt \/ UNCHANGED vars
  BY <1>5, <1>11 DEF Interrupt, vars, tasks, rows, VerifiedRows
<1>12. QED
  BY <1>1, <1>2, <1>3, <1>4, <1>6, <1>7, <1>8, <1>9, <1>10, <1>11
  DEF Next, Loop, Task, Terminated

\* Whatever the manifest, the limits and the interruptions: tasks start only when
\* their dependencies are verified rows, tasks that share a resource key are
\* never at work together, and verified rows stay verified.
THEOREM LoopImplementsDag == Spec => ImplementsDag
<1>1. Spec => Dag!Init /\ [][Dag!Next]_(Dag!vars)
  BY DagInit, DagNext, LoopInvariant, PTL DEF Spec
<1>2. QED
  BY <1>1 DEF ImplementsDag, Dag!Spec

-------------------------------------------------------------------------------
(* Resources and threads.                                                  *)

\* Semaphores are held only by coroutines at work, each for its own keys, and
\* tasks at work exclude each other.
ResourceInv ==
  loop \notin {"dead", "reconciled"} =>
    /\ holds \in [Tasks -> SUBSET Keys]
    /\ \A t \in Tasks : /\ exec[t] \notin {"working", "won"} => holds[t] = {}
                        /\ holds[t] \subseteq load.keys[t]
    /\ \A t, u \in Active : t # u => ~Conflict(t, u)

\* At first nobody holds a semaphore.
LEMMA ResourceInvInit == Init => ResourceInv
<1> SUFFICES ASSUME Init PROVE ResourceInv
  OBVIOUS
<1>1. Active = {}
  BY DEF Init, Active, AtWork
<1>2. holds \in [Tasks -> SUBSET Keys] /\ \A t \in Tasks : holds[t] = {}
  BY DEF Init
<1>3. QED
  BY <1>1, <1>2 DEF ResourceInv

\* Every step keeps the semaphores with the coroutines at work.
LEMMA ResourceInvNext == LoopInv /\ ResourceInv /\ [Next]_vars => ResourceInv'
<1> SUFFICES ASSUME LoopInv, ResourceInv, [Next]_vars PROVE ResourceInv'
  OBVIOUS
<1>0. load.keys \in [Tasks -> SUBSET Keys]
  BY WorkloadTyped DEF LoopInv
<1>1. CASE TurnAdmits
  <2>1. PICK S \in SUBSET Ready :
          /\ Selection(S)
          /\ exec' = [t \in Tasks |-> IF t \in S THEN "admitted" ELSE exec[t]]
    BY <1>1 DEF TurnAdmits
  <2>2. /\ S \subseteq Tasks \ Started
        /\ \A t \in S : \A u \in (Active \cup S) \ {t} : Dag!Exclusive(t, u)
    BY <1>1, <2>1, SelectionIsSafe DEF TurnAdmits, Stopped
  <2>3. Active' = Active \cup S /\ load' = load /\ holds' = holds
    BY <1>1, <2>1, <2>2 DEF TurnAdmits, Active, AtWork, Started
  <2>4. \A t, u \in Active \cup S : t # u => ~Conflict(t, u)
    BY <1>1, <2>2 DEF ResourceInv, Conflict, Dag!Exclusive, TurnAdmits
  <2>5. \A t \in Tasks : exec'[t] \in {"working", "won"} <=> exec[t] \in {"working", "won"}
    BY <2>1, <2>2 DEF Started
  <2>6. QED
    BY <1>1, <2>3, <2>4, <2>5 DEF ResourceInv, Conflict, TurnAdmits
<1>2. ASSUME NEW t \in Tasks, TakeResources(t) PROVE ResourceInv'
  <2>1. Active' = Active /\ load' = load /\ loop' = loop
    BY <1>2 DEF TakeResources, Active, AtWork, LoopInv
  <2>2. holds' = [holds EXCEPT ![t] = load.keys[t]] /\ exec' = [exec EXCEPT ![t] = "working"]
    BY <1>2 DEF TakeResources
  <2>3. QED
    BY <1>0, <2>1, <2>2 DEF ResourceInv, Conflict, LoopInv
<1>3. ASSUME NEW t \in Tasks, TaskWins(t) PROVE ResourceInv'
  <2>1. Active' = Active /\ load' = load /\ loop' = loop /\ holds' = holds
    BY <1>3 DEF TaskWins, Active, AtWork, LoopInv
  <2>2. exec[t] = "working" /\ exec' = [exec EXCEPT ![t] = "won"]
    BY <1>3 DEF TaskWins
  <2>3. QED
    BY <2>1, <2>2 DEF ResourceInv, Conflict, LoopInv
<1>4. ASSUME NEW t \in Tasks,
             TaskFails(t) \/ TaskReturns(t) \/ TaskRaises(t) \/ TaskCancelled(t)
      PROVE  ResourceInv'
  <2>1. PICK how \in {"false", "true", "raised", "cancelled"} :
          Return(t, how)
    BY <1>4 DEF TaskFails, TaskReturns, TaskRaises, TaskCancelled
  <2>2. /\ exec' = [exec EXCEPT ![t] = how] /\ holds' = [holds EXCEPT ![t] = {}]
        /\ load' = load /\ loop' = loop
    BY <2>1 DEF Return
  <2>3. Active' \subseteq Active
    BY <2>2 DEF Active, AtWork, LoopInv
  <2>4. QED
    BY <2>2, <2>3 DEF ResourceInv, Conflict, LoopInv
<1>5. ASSUME exec' = exec, holds' = holds, load' = load,
             loop \in {"dead", "reconciled"} => loop' \in {"dead", "reconciled"}
      PROVE  ResourceInv'
  BY <1>5 DEF ResourceInv, Active, Conflict
<1>6. CASE TurnBlocks \/ TurnEnds \/ Collect \/ CollectRaises \/ CloseRun
  BY <1>5, <1>6 DEF TurnBlocks, TurnEnds, Collect, CollectRaises, CloseRun, tasks
<1>7. CASE DeliveryAssembled \/ DeliveryVerified \/ DeliveryRaises
           \/ DeliveryFails("assembling") \/ DeliveryFails("verifying")
  BY <1>5, <1>7 DEF DeliveryAssembled, DeliveryVerified, DeliveryRaises,
     DeliveryFails, tasks
<1>8. ASSUME NEW t \in Tasks, TaskWrites(t) \/ Straggler(t) \/ FgCancelTask(t)
      PROVE  ResourceInv'
  BY <1>5, <1>8 DEF TaskWrites, Straggler, FgCancelTask, tasks
<1>9. CASE FgCancelRun \/ Interrupt \/ PersistCancellation \/ Reconcile
  BY <1>5, <1>9 DEF FgCancelRun, Interrupt, PersistCancellation, Reconcile, tasks
<1>10. CASE Crash
  BY <1>10 DEF Crash, ResourceInv
<1>11. CASE UNCHANGED vars
  BY <1>5, <1>11 DEF vars, tasks
<1>12. QED
  BY <1>1, <1>2, <1>3, <1>4, <1>6, <1>7, <1>8, <1>9, <1>10, <1>11
  DEF Next, Loop, Task, Terminated

\* An admitted task finds its resource semaphores free: they never make a task
\* wait while it holds another, so they cannot deadlock.
THEOREM ResourcesNeverWait == Spec => []ResourceWaitFree
<1>1. LoopInv /\ ResourceInv => ResourceWaitFree
  <2> SUFFICES ASSUME LoopInv, ResourceInv, NEW t \in Tasks, NEW u \in Tasks,
                      exec[t] = "admitted"
               PROVE  holds[u] \cap load.keys[t] = {}
    BY DEF ResourceWaitFree
  <2>1. loop \notin {"dead", "reconciled"} /\ t \in Active
    BY DEF LoopInv, DeadAtRest, Active, AtWork
  <2>2. CASE holds[u] = {}
    BY <2>2
  <2>3. CASE holds[u] # {}
    <3>1. u \in Active /\ u # t /\ holds[u] \subseteq load.keys[u]
      BY <2>1, <2>3 DEF ResourceInv, Active, AtWork
    <3>2. ~Conflict(t, u)
      BY <2>1, <3>1 DEF ResourceInv
    <3>3. QED
      BY <3>1, <3>2 DEF Conflict
  <2>4. QED
    BY <2>2, <2>3
<1>2. Spec => []ResourceInv
  BY LoopInvariant, ResourceInvInit, ResourceInvNext, PTL DEF Spec
<1>3. QED
  BY <1>1, <1>2, LoopInvariant, PTL

\* Integer division hands out no more than there is.
LEMMA DivisionIsBounded ==
  ASSUME NEW n \in Nat, NEW d \in Nat \ {0}
  PROVE  n \div d \in Nat /\ d * (n \div d) <= n
OBVIOUS

\* One thread per root and the threads granted to each never exceed the budget.
THEOREM ThreadsWithinBudget == Spec => []ThreadBudgetKept
<1>1. LoopInv => ThreadBudgetKept
  <2> SUFFICES ASSUME LoopInv PROVE ThreadBudgetKept
    OBVIOUS
  <2> DEFINE q == (load.threads - load.max) \div load.max
  <2>1. /\ load.max \in Nat \ {0} /\ load.threads \in Nat /\ load.subagents \in Nat
        /\ load.max <= load.threads
    BY WorkloadsAssumption DEF LoopInv, Workload, Valid
  <2>2. load.threads - load.max \in Nat
    BY <2>1
  <2>3. q \in Nat /\ load.max * q <= load.threads - load.max
    BY <2>1, <2>2, DivisionIsBounded
  <2>4. SubagentThreadsPerRoot \in Nat /\ SubagentThreadsPerRoot <= q
    BY <2>1, <2>3 DEF SubagentThreadsPerRoot, Smaller
  <2>5. load.max * SubagentThreadsPerRoot <= load.max * q
    BY <2>1, <2>3, <2>4
  <2>6. QED
    BY <2>1, <2>3, <2>4, <2>5 DEF ThreadBudgetKept
<1>2. QED
  BY <1>1, LoopInvariant, PTL

-------------------------------------------------------------------------------
(* What the loop remembers, counts and reports.                            *)

\* Between two turns a collected task has made room for another.
RoomAtTheTop == loop = "top" => Cardinality(running) < load.max

\* The two sets the loop moves a task through, and what it was collected with.
Collected == load.tasks \ (pending \cup running)
CollectedHasEnded ==
  /\ \A t \in running : exec[t] # "idle"
  /\ \A t \in Collected : exec[t] \in {"true", "false"}
  /\ \A t \in Collected : exec[t] = "true" => t \in verifiedKeys

FalseHasFailed ==
  \A t \in Tasks : exec[t] = "false" => taskStatus[t] \in {"failed", "cancelled"}

\* Only the last turn writes tasks off, and what it blames stays as it is.
BlockedIsPending ==
  \A t \in Tasks : taskStatus[t] = "blocked" =>
    /\ t \in pending
    /\ loop \in {"closing", "returned", "dead", "reconciled"}

\* `failed` counts what did not become a winner, and nothing else.
FailedCounts ==
  /\ failed = 0 => \A t \in Collected : exec[t] = "true"
  /\ failed # 0 =>
       \/ delivery = "failed"
       \/ \E t \in load.tasks : exec[t] = "false" \/ taskStatus[t] = "blocked"

Delivered == IF Cardinality(load.tasks) > 1 THEN "verified" ELSE "none"
LoopMatchesRows ==
  /\ loop \in {"top", "waiting"} => delivery = "none"
  /\ loop \in {"assembling", "verifying"} =>
       pending = {} /\ running = {} /\ failed = 0 /\ Cardinality(load.tasks) > 1
  /\ loop \in {"closing", "returned"} =>
       /\ running = {}
       /\ \A t \in pending : taskStatus[t] = "blocked"
       /\ failed = 0 => pending = {} /\ delivery = Delivered
  /\ loop = "returned" => runStatus = IF failed = 0 THEN "completed" ELSE "failed"

MemoryInv ==
  /\ TypeOK /\ HardLimit /\ RoomAtTheTop
  /\ CollectedHasEnded /\ FalseHasFailed
  /\ BlockedIsPending /\ BlockedForAReason
  /\ FailedCounts /\ LoopMatchesRows

\* A finite set has an element that ranks highest.
LEMMA HighestExists ==
  ASSUME NEW S, IsFiniteSet(S), S # {}, NEW r, \A s \in S : r[s] \in Nat
  PROVE  \E t \in S : \A s \in S : r[s] <= r[t]
<1> DEFINE Above(t) == {s \in S : r[s] > r[t]}
           Aboves == {Above(t) : t \in S}
<1>1. Aboves \subseteq FiniteSubsetsOf(S) /\ Aboves # {}
  <2>1. \A t \in S : Above(t) \in SUBSET S
    OBVIOUS
  <2>2. Aboves \subseteq SUBSET S
    BY <2>1
  <2>3. FiniteSubsetsOf(S) = SUBSET S
    BY FS_FiniteSubsetsOfFinite
  <2>4. Aboves # {}
    OBVIOUS
  <2>5. QED
    BY <2>2, <2>3, <2>4
<1>2. PICK U \in Aboves : \A V \in Aboves : <<V, U>> \notin StrictSubsetOrdering(S)
  BY <1>1, FS_StrictSubsetOrderingWellFounded, WFMin
<1>3. PICK t \in S : U = Above(t)
  OBVIOUS
<1>4. ASSUME NEW u \in S, r[u] > r[t] PROVE FALSE
  <2>1. Above(u) \in SUBSET S /\ U \in SUBSET S
    BY <1>3
  <2>2. Above(u) \subseteq U /\ Above(u) # U
    <3>1. u \in U /\ u \notin Above(u)
      BY <1>3, <1>4
    <3>2. QED
      BY <1>3, <1>4, <3>1
  <2>3. <<Above(u), U>> \in StrictSubsetOrdering(S)
    BY <2>1, <2>2 DEF StrictSubsetOrdering
  <2>4. QED
    BY <1>2, <2>3
<1>5. QED
  BY <1>4

\* The sets of tasks the loop keeps are finite, and the limits are ordered.
LEMMA WorkloadBounds ==
  ASSUME load \in Workloads
  PROVE  /\ \A S \in SUBSET load.tasks : IsFiniteSet(S) /\ Cardinality(S) \in Nat
         /\ load.min \in Nat \ {0} /\ load.initial \in Nat /\ load.max \in Nat
         /\ load.min <= load.initial /\ load.initial <= load.max
         /\ load.auto \in BOOLEAN
<1>1. load \in Workload /\ Valid(load)
  BY WorkloadsAssumption
<1>2. IsFiniteSet(load.tasks)
  BY <1>1, TasksAssumption, FS_Subset DEF Workload
<1>3. QED
  BY <1>1, <1>2, FS_Subset, FS_CardinalityType DEF Workload, Valid

\* A turn selects at most as many tasks as there is room for, or one: the one
\* that ranks lowest has found room when all the others were selected.
LEMMA SelectionFitsTheRoom ==
  ASSUME LoopInv, limit' \in Nat, NEW S \in SUBSET Ready, Selection(S)
  PROVE  Cardinality(S) <= Larger(1, limit' - Cardinality(running))
<1>1. /\ S \subseteq pending /\ S \subseteq load.tasks /\ load.tasks \subseteq Tasks
      /\ running \subseteq load.tasks
  BY WorkloadTyped DEF Ready, LoopInv
<1>2. IsFiniteSet(S) /\ Cardinality(S) \in Nat /\ Cardinality(running) \in Nat
  BY <1>1, WorkloadBounds DEF LoopInv
<1>3. CASE S = {}
  BY <1>2, <1>3, FS_EmptySet DEF Larger
<1>4. CASE S # {}
  <2>1. \A s \in S : load.rank[s] \in Nat
    BY <1>1, WorkloadTyped DEF LoopInv
  <2>2. PICK t \in S : \A s \in S : load.rank[s] <= load.rank[t]
    BY <1>2, <1>4, <2>1, HighestExists
  <2>3. {s \in S : load.rank[s] < load.rank[t]} = S \ {t}
    <3>1. \A s \in S : s # t => load.rank[s] # load.rank[t]
      BY <1>1, WorkloadTyped DEF LoopInv
    <3>2. QED
      BY <2>1, <2>2, <3>1
  <2>4. Room(Cardinality(S \ {t}))
    BY <2>3 DEF Selection, Fits
  <2>5. Cardinality(S \ {t}) = Cardinality(S) - 1
    BY <1>2, FS_RemoveElement
  <2>6. QED
    BY <1>2, <2>4, <2>5 DEF Room, Larger
<1>5. QED
  BY <1>3, <1>4

\* The controller keeps the limit between the configured minimum and maximum.
LEMMA LimitStays ==
  ASSUME load \in Workloads, limit \in load.min..load.max, cooling \in BOOLEAN,
         NEW pressure \in BOOLEAN, DecideLimit(pressure)
  PROVE  limit' \in load.min..load.max /\ cooling' \in BOOLEAN
<1>1. load.min \in Nat \ {0} /\ load.max \in Nat
  BY WorkloadBounds
<1>2. limit \div 2 \in Nat /\ limit \div 2 <= limit
  BY <1>1
<1>3. Larger(load.min, limit \div 2) \in load.min..load.max
  BY <1>1, <1>2 DEF Larger
<1>4. \/ limit' = limit /\ cooling' = cooling
      \/ limit' = Larger(load.min, limit \div 2) /\ cooling' = TRUE
      \/ limit' = limit + 1 /\ limit < load.max /\ cooling' = TRUE
  BY DEF DecideLimit, Healthy
<1>5. cooling' \in BOOLEAN
  BY <1>4
<1>6. limit' \in load.min..load.max
  BY <1>1, <1>3, <1>4
<1>7. QED
  BY <1>5, <1>6

\* At first nothing is collected, counted or reported.
LEMMA MemoryInvInit == Init => MemoryInv
<1> SUFFICES ASSUME Init PROVE MemoryInv
  OBVIOUS
<1>1. /\ load.min \in Nat \ {0} /\ load.initial \in Nat /\ load.max \in Nat
      /\ load.min <= load.initial /\ load.initial <= load.max
  BY WorkloadBounds DEF Init
<1>2. Cardinality(running) = 0
  BY FS_EmptySet DEF Init
<1>3. TypeOK
  <2>1. LoopInv
    BY LoopInvInit
  <2>2. QED
    <3>1. load.initial \in load.min..load.max
      BY <1>1
    <3>2. holds \in [Tasks -> SUBSET Keys]
      BY DEF Init
    <3>3. QED
      BY <2>1, <3>1, <3>2 DEF Init, TypeOK, LoopInv, RunStatus
<1>4. HardLimit /\ RoomAtTheTop
  BY <1>1, <1>2 DEF HardLimit, RoomAtTheTop
<1>5. Collected = {}
  BY DEF Init, Collected
<1>6. \A t \in Tasks : taskStatus[t] # "blocked" /\ exec[t] = "idle"
  BY DEF Init
<1>7. CollectedHasEnded /\ FalseHasFailed /\ BlockedIsPending /\ BlockedForAReason
  BY <1>5, <1>6 DEF Init, CollectedHasEnded, FalseHasFailed, BlockedIsPending,
     BlockedForAReason
<1>8. FailedCounts /\ LoopMatchesRows
  BY <1>5 DEF Init, FailedCounts, LoopMatchesRows
<1>9. QED
  BY <1>3, <1>4, <1>7, <1>8 DEF MemoryInv

\* What a turn that admits does to the memory.
LEMMA Admitted ==
  ASSUME LoopInv, MemoryInv, TurnAdmits
  PROVE  \E S \in SUBSET Ready :
           /\ S \subseteq pending /\ S \cap running = {}
           /\ pending' = pending \ S /\ running' = running \cup S
           /\ exec' = [t \in Tasks |-> IF t \in S THEN "admitted" ELSE exec[t]]
           /\ Cardinality(running') = Cardinality(running) + Cardinality(S)
           /\ Cardinality(running) \in Nat /\ Cardinality(S) \in Nat
           /\ limit' \in load.min..load.max /\ cooling' \in BOOLEAN
           /\ Selection(S)
<1>1. PICK S \in SUBSET Ready :
        /\ Selection(S)
        /\ pending' = pending \ S /\ running' = running \cup S
        /\ exec' = [t \in Tasks |-> IF t \in S THEN "admitted" ELSE exec[t]]
  BY DEF TurnAdmits
<1>2. S \subseteq pending
  BY DEF Ready
<1>3. S \cap running = {}
  BY <1>2 DEF MemoryInv, CollectedHasEnded, LoopInv, PendingIsIdle
<1>4. limit' \in load.min..load.max /\ cooling' \in BOOLEAN
  BY LimitStays DEF TurnAdmits, MemoryInv, TypeOK
<1>5. /\ IsFiniteSet(S) /\ Cardinality(S) \in Nat
      /\ IsFiniteSet(running) /\ Cardinality(running) \in Nat
  BY <1>2, WorkloadBounds DEF LoopInv
<1>6. Cardinality(running \cup S) = Cardinality(running) + Cardinality(S)
  <2>1. running \cap S = {}
    BY <1>3
  <2>2. Cardinality(running \cup S)
          = Cardinality(running) + Cardinality(S) - Cardinality(running \cap S)
    BY <1>5, FS_Union
  <2>3. Cardinality(running \cap S) = 0
    BY <2>1, FS_EmptySet
  <2>4. QED
    BY <1>5, <2>2, <2>3
<1>7. QED
  BY <1>1, <1>2, <1>3, <1>4, <1>5, <1>6

\* The limits hold after every step: a turn takes a task beyond the limit only
\* where collecting one has made room below the maximum.
LEMMA LimitsNext ==
  ASSUME LoopInv, MemoryInv, [Next]_vars
  PROVE  HardLimit' /\ RoomAtTheTop'
<1> USE DEF HardLimit, RoomAtTheTop, memory, tasks, rows
<1>0. /\ load.max \in Nat /\ Cardinality(running) \in Nat /\ IsFiniteSet(running)
      /\ Cardinality(running) <= load.max
      /\ loop = "top" => Cardinality(running) < load.max
  BY WorkloadBounds DEF LoopInv, MemoryInv
<1>1. CASE TurnAdmits
  <2>1. PICK S \in SUBSET Ready :
           /\ Cardinality(running') = Cardinality(running) + Cardinality(S)
           /\ Cardinality(S) \in Nat
           /\ limit' \in load.min..load.max
           /\ Selection(S)
    BY <1>1, Admitted
  <2>2. limit' \in Nat /\ limit' <= load.max
    BY <2>1, WorkloadBounds DEF LoopInv
  <2>3. Cardinality(S) <= Larger(1, limit' - Cardinality(running))
    BY <2>1, <2>2, SelectionFitsTheRoom
  <2>4. loop = "top" /\ loop' = "waiting" /\ load' = load
    BY <1>1 DEF TurnAdmits
  <2>5. QED
    BY <1>0, <2>1, <2>2, <2>3, <2>4 DEF Larger
<1>2. CASE Collect
  <2>1. PICK t \in running : t \in Finished
    BY <1>2 DEF Collect, Finished
  <2>2. running' \in SUBSET (running \ {t}) /\ load' = load
    BY <1>2, <2>1 DEF Collect
  <2>3. /\ IsFiniteSet(running \ {t})
        /\ Cardinality(running \ {t}) = Cardinality(running) - 1
    BY <1>0, FS_RemoveElement
  <2>4. Cardinality(running') <= Cardinality(running) - 1 /\ Cardinality(running') \in Nat
    BY <2>2, <2>3, FS_Subset, FS_CardinalityType
  <2>5. QED
    BY <1>0, <2>2, <2>4
<1>3. CASE TurnBlocks \/ TurnEnds \/ CollectRaises \/ CloseRun
  BY <1>0, <1>3 DEF TurnBlocks, TurnEnds, CollectRaises, CloseRun
<1>4. CASE DeliveryAssembled \/ DeliveryVerified \/ DeliveryRaises
           \/ DeliveryFails("assembling") \/ DeliveryFails("verifying")
  BY <1>0, <1>4 DEF DeliveryAssembled, DeliveryVerified, DeliveryRaises, DeliveryFails
<1>5. ASSUME NEW t \in Tasks, Task(t) \/ Straggler(t) \/ FgCancelTask(t)
      PROVE  HardLimit' /\ RoomAtTheTop'
  <2>1. UNCHANGED <<load, running, loop>>
    BY <1>5 DEF Task, TakeResources, TaskWrites, TaskWins, TaskFails, TaskReturns,
       TaskRaises, TaskCancelled, Return, Straggler, FgCancelTask
  <2>2. QED
    BY <1>0, <2>1
<1>6. CASE FgCancelRun \/ Interrupt \/ PersistCancellation \/ Crash \/ Reconcile
  BY <1>0, <1>6 DEF FgCancelRun, Interrupt, PersistCancellation, Crash, Reconcile
<1>7. CASE UNCHANGED vars
  BY <1>0, <1>7 DEF vars
<1>8. QED
  BY <1>1, <1>2, <1>3, <1>4, <1>5, <1>6, <1>7 DEF Next, Loop, Terminated

\* Every variable keeps its type.
LEMMA TypedNext ==
  ASSUME LoopInv, MemoryInv, [Next]_vars
  PROVE  TypeOK'
<1> USE DEF memory, tasks, rows
<1>0. TypeOK /\ LoopInv' /\ load.keys \in [Tasks -> SUBSET Keys]
  BY LoopInvNext, WorkloadTyped DEF MemoryInv, LoopInv
<1>1. CASE TurnAdmits
  <2>1. limit' \in load.min..load.max /\ cooling' \in BOOLEAN /\ loop' = "waiting"
        /\ UNCHANGED <<load, rows, holds, verifiedKeys, failed>>
    BY <1>1, Admitted DEF TurnAdmits
  <2>2. QED
    BY <1>0, <2>1 DEF TypeOK, LoopInv
<1>2. CASE TurnBlocks
  <2>1. Cardinality(pending) \in Nat
    BY WorkloadBounds DEF LoopInv
  <2>2. QED
    BY <1>0, <1>2, <2>1 DEF TurnBlocks, TypeOK, LoopInv
<1>3. CASE TurnEnds \/ CollectRaises
  BY <1>0, <1>3 DEF TurnEnds, CollectRaises, TypeOK
<1>4. CASE Collect
  <2>1. {t \in Finished : exec[t] = "false"} \in SUBSET load.tasks
        /\ {t \in Finished : exec[t] = "true"} \subseteq load.tasks
    BY DEF Finished, LoopInv
  <2>2. Cardinality({t \in Finished : exec[t] = "false"}) \in Nat
    BY <2>1, WorkloadBounds DEF LoopInv
  <2>3. failed' \in Nat /\ verifiedKeys' \subseteq load.tasks /\ loop' = "top"
        /\ UNCHANGED <<load, runStatus, delivery, holds, limit, cooling>>
    BY <1>0, <1>4, <2>1, <2>2 DEF Collect, TypeOK
  <2>4. QED
    BY <1>0, <2>3 DEF TypeOK, LoopInv
<1>5. CASE DeliveryAssembled \/ DeliveryVerified \/ DeliveryRaises
           \/ DeliveryFails("assembling") \/ DeliveryFails("verifying")
  BY <1>0, <1>5 DEF DeliveryAssembled, DeliveryVerified, DeliveryRaises,
     DeliveryFails, TypeOK
<1>6. CASE CloseRun
  BY <1>0, <1>6 DEF CloseRun, TypeOK, RunStatus, Stopped
<1>7. ASSUME NEW t \in Tasks, Task(t) \/ Straggler(t) \/ FgCancelTask(t)
      PROVE  TypeOK'
  <2>1. UNCHANGED <<load, runStatus, delivery, memory, loop>>
    BY <1>7 DEF Task, TakeResources, TaskWrites, TaskWins, TaskFails, TaskReturns,
       TaskRaises, TaskCancelled, Return, Straggler, FgCancelTask
  <2>2. \/ holds' = holds
        \/ holds' = [holds EXCEPT ![t] = load.keys[t]]
        \/ holds' = [holds EXCEPT ![t] = {}]
    BY <1>7 DEF Task, TakeResources, TaskWrites, TaskWins, TaskFails, TaskReturns,
       TaskRaises, TaskCancelled, Return, Straggler, FgCancelTask
  <2>3. holds' \in [Tasks -> SUBSET Keys]
    BY <1>0, <2>2 DEF TypeOK
  <2>4. QED
    BY <1>0, <2>1, <2>3 DEF TypeOK, LoopInv
<1>8. CASE FgCancelRun \/ Interrupt \/ PersistCancellation \/ Crash \/ Reconcile
  <2>1. /\ UNCHANGED <<load, holds, memory>>
        /\ runStatus' \in {runStatus, "cancelled"}
        /\ delivery' \in {delivery, "cancelled"}
        /\ loop' \in {loop, "stopping"} \cup Stopped
    BY <1>8 DEF FgCancelRun, Interrupt, PersistCancellation, Crash, Reconcile, Stopped
  <2>2. QED
    BY <1>0, <2>1 DEF TypeOK, LoopInv, RunStatus
<1>9. CASE UNCHANGED vars
  BY <1>0, <1>9 DEF vars, TypeOK
<1>10. QED
  BY <1>1, <1>2, <1>3, <1>4, <1>5, <1>6, <1>7, <1>8, <1>9 DEF Next, Loop, Terminated

\* What a step of a coroutine, a straggler or `fg cancel` can do to a task.
LEMMA TaskSteps ==
  ASSUME LoopInv, NEW t \in Tasks, Task(t) \/ Straggler(t) \/ FgCancelTask(t)
  PROVE  /\ UNCHANGED <<load, runStatus, delivery, memory, loop>>
         /\ \A u \in Tasks : u # t => exec'[u] = exec[u] /\ taskStatus'[u] = taskStatus[u]
         /\ exec'[t] = exec[t] \/ (exec[t] \in AtWork /\ t \in running /\ exec'[t] # "idle")
         /\ exec[t] \in {"true", "false"} =>
              taskStatus'[t] = taskStatus[t] \/ taskStatus[t] \in Cancellable
         /\ exec'[t] = "false" /\ exec[t] # "false" =>
              taskStatus'[t] \in {"failed", "cancelled"}
         /\ taskStatus'[t] = "blocked" => taskStatus[t] = "blocked"
         /\ Awaiting \/ loop = "cancelled" \/ (exec' = exec
              /\ (taskStatus[t] \in Cancellable \/ taskStatus' = taskStatus))
<1> USE DEF LoopInv, ActiveIsRunning, AtWork, Awaiting, Stopped, rows, tasks, memory
<1>1. CASE TakeResources(t)
  BY <1>1 DEF TakeResources
<1>2. CASE TaskWrites(t)
  BY <1>2 DEF TaskWrites
<1>3. CASE TaskWins(t)
  BY <1>3 DEF TaskWins
<1>4. CASE TaskFails(t)
  BY <1>4 DEF TaskFails, Return
<1>5. CASE TaskReturns(t) \/ TaskRaises(t) \/ TaskCancelled(t)
  BY <1>5 DEF TaskReturns, TaskRaises, TaskCancelled, Return
<1>6. CASE Straggler(t)
  BY <1>6 DEF Straggler
<1>7. CASE FgCancelTask(t)
  BY <1>7 DEF FgCancelTask
<1>8. QED
  BY <1>1, <1>2, <1>3, <1>4, <1>5, <1>6, <1>7 DEF Task

\* A task is collected when its coroutine has ended, and what ended without a
\* winner says so in its row.
LEMMA EndedNext ==
  ASSUME LoopInv, MemoryInv, [Next]_vars
  PROVE  CollectedHasEnded' /\ FalseHasFailed'
<1> USE DEF memory, tasks, rows
<1>0. /\ CollectedHasEnded /\ FalseHasFailed
      /\ load.tasks \subseteq Tasks /\ running \subseteq load.tasks
      /\ exec \in [Tasks -> {"idle", "cancelled"} \cup AtWork \cup Collectable]
      /\ taskStatus \in [Tasks -> TaskStatus \cup {"absent"}]
  BY WorkloadTyped DEF MemoryInv, LoopInv
<1>1. CASE TurnAdmits
  <2>1. PICK S \in SUBSET Ready :
           /\ S \subseteq pending
           /\ pending' = pending \ S /\ running' = running \cup S
           /\ exec' = [t \in Tasks |-> IF t \in S THEN "admitted" ELSE exec[t]]
    BY <1>1, Admitted
  <2>2. UNCHANGED <<load, taskStatus, verifiedKeys>> /\ pending \subseteq load.tasks
    BY <1>1 DEF TurnAdmits, LoopInv
  <2>3. Collected' = Collected
    BY <2>1, <2>2 DEF Collected
  <2>4. \A t \in Collected : t \notin S /\ t \in Tasks
    BY <1>0, <2>1 DEF Collected
  <2>5. CollectedHasEnded'
    BY <1>0, <2>1, <2>2, <2>3, <2>4 DEF CollectedHasEnded
  <2>6. FalseHasFailed'
    BY <1>0, <2>1, <2>2 DEF FalseHasFailed
  <2>7. QED
    BY <2>5, <2>6
<1>2. CASE Collect
  <2>1. /\ UNCHANGED <<load, taskStatus, exec, pending>>
        /\ running' = running \ Finished
        /\ verifiedKeys' = verifiedKeys \cup {t \in Finished : exec[t] = "true"}
        /\ \A t \in Finished : exec[t] \in {"true", "false"}
    BY <1>2 DEF Collect, Finished, Collectable
  <2>2. Collected' \subseteq Collected \cup Finished
    BY <2>1 DEF Collected
  <2>3. QED
    BY <1>0, <2>1, <2>2 DEF CollectedHasEnded, FalseHasFailed
<1>3. ASSUME UNCHANGED <<load, exec, pending, running, verifiedKeys>>,
             \A t \in Tasks : taskStatus[t] \in {"failed", "cancelled"}
                                => taskStatus'[t] = taskStatus[t]
      PROVE  CollectedHasEnded' /\ FalseHasFailed'
  BY <1>0, <1>3 DEF CollectedHasEnded, FalseHasFailed, Collected
<1>4. CASE TurnBlocks
  <2>1. \A t \in Tasks : exec[t] = "false" => taskStatus'[t] = taskStatus[t]
    BY <1>4 DEF TurnBlocks, LoopInv, PendingIsIdle
  <2>2. UNCHANGED <<load, exec, pending, running, verifiedKeys>>
    BY <1>4 DEF TurnBlocks
  <2>3. QED
    BY <1>0, <2>1, <2>2 DEF CollectedHasEnded, FalseHasFailed, Collected
<1>5. CASE TurnEnds \/ CollectRaises \/ CloseRun
  BY <1>3, <1>5 DEF TurnEnds, CollectRaises, CloseRun
<1>6. CASE DeliveryAssembled \/ DeliveryVerified \/ DeliveryRaises
           \/ DeliveryFails("assembling") \/ DeliveryFails("verifying")
  BY <1>3, <1>6 DEF DeliveryAssembled, DeliveryVerified, DeliveryRaises, DeliveryFails
<1>7. ASSUME NEW t \in Tasks, Task(t) \/ Straggler(t) \/ FgCancelTask(t)
      PROVE  CollectedHasEnded' /\ FalseHasFailed'
  <2>1. /\ UNCHANGED <<load, pending, running, verifiedKeys>>
        /\ \A u \in Tasks : u # t => exec'[u] = exec[u] /\ taskStatus'[u] = taskStatus[u]
        /\ exec'[t] = exec[t] \/ (t \in running /\ exec'[t] # "idle")
        /\ exec[t] = "false" =>
             taskStatus'[t] = taskStatus[t] \/ taskStatus[t] \in Cancellable
        /\ exec'[t] = "false" /\ exec[t] # "false" =>
             taskStatus'[t] \in {"failed", "cancelled"}
    BY <1>7, TaskSteps
  <2>2. CollectedHasEnded'
    BY <1>0, <2>1 DEF CollectedHasEnded, Collected
  <2>3. FalseHasFailed'
    BY <1>0, <2>1 DEF FalseHasFailed, Cancellable
  <2>4. QED
    BY <2>2, <2>3
<1>8. CASE FgCancelRun \/ PersistCancellation \/ Reconcile
  <2>1. UNCHANGED <<load, exec, pending, running, verifiedKeys>>
    BY <1>8 DEF FgCancelRun, PersistCancellation, Reconcile
  <2>2. \A t \in Tasks : taskStatus[t] \in {"failed", "cancelled"}
                           => taskStatus'[t] = taskStatus[t]
    BY <1>8 DEF FgCancelRun, PersistCancellation, Reconcile, Cancellable
  <2>3. QED
    BY <1>3, <2>1, <2>2
<1>9. CASE Interrupt
  BY <1>3, <1>9 DEF Interrupt
<1>10. CASE Crash
  <2>1. /\ UNCHANGED <<load, taskStatus, pending, running, verifiedKeys>>
        /\ exec' = [t \in Tasks |-> IF exec[t] \in AtWork THEN "cancelled" ELSE exec[t]]
    BY <1>10 DEF Crash
  <2>2. QED
    BY <1>0, <2>1 DEF CollectedHasEnded, FalseHasFailed, Collected, AtWork
<1>11. CASE UNCHANGED vars
  BY <1>3, <1>11 DEF vars
<1>12. QED
  BY <1>1, <1>2, <1>4, <1>5, <1>6, <1>7, <1>8, <1>9, <1>10, <1>11
  DEF Next, Loop, Terminated

\* A task is written off for a reason, and the reason stays.
LEMMA BlockedNext ==
  ASSUME LoopInv, MemoryInv, [Next]_vars
  PROVE  /\ BlockedIsPending' /\ BlockedForAReason'
         /\ \A t \in Tasks : taskStatus[t] = "blocked" => taskStatus'[t] = "blocked"
<1> USE DEF memory, tasks, rows
<1> DEFINE Over == {"closing", "returned", "dead", "reconciled"}
           Kept == /\ BlockedIsPending' /\ BlockedForAReason'
                   /\ \A t \in Tasks : taskStatus[t] = "blocked" => taskStatus'[t] = "blocked"
<1>0. /\ BlockedIsPending /\ BlockedForAReason
      /\ load.tasks \subseteq Tasks /\ load.deps \in [Tasks -> SUBSET Tasks]
      /\ taskStatus \in [Tasks -> TaskStatus \cup {"absent"}]
  BY WorkloadTyped DEF MemoryInv, LoopInv
\* Until then no task is blocked.
<1>1. ASSUME loop \notin Over, \A t \in Tasks : taskStatus'[t] # "blocked" PROVE Kept
  BY <1>0, <1>1 DEF BlockedIsPending, BlockedForAReason
\* From then on nobody touches a task that failed, was cancelled or is blocked.
<1>2. ASSUME UNCHANGED <<load, pending>>, loop \in Over => loop' \in Over,
             \A t \in Tasks : exec[t] = "idle" => exec'[t] = "idle",
             \A t \in Tasks : taskStatus'[t] = "blocked" => taskStatus[t] = "blocked",
             \A t \in Tasks : taskStatus[t] \in {"failed", "cancelled", "blocked"}
                                => taskStatus'[t] = taskStatus[t]
      PROVE  Kept
  <2>1. BlockedIsPending'
    BY <1>0, <1>2 DEF BlockedIsPending
  <2>2. BlockedForAReason'
    BY <1>0, <1>2 DEF BlockedForAReason
  <2>3. QED
    BY <1>2, <2>1, <2>2
<1>3. CASE TurnBlocks
  <2>1. /\ loop = "top" /\ loop' = "closing" /\ running = {} /\ Ready = {}
        /\ UNCHANGED <<load, exec, pending>>
        /\ taskStatus' = [t \in Tasks |-> IF t \in pending THEN "blocked" ELSE taskStatus[t]]
    BY <1>3 DEF TurnBlocks
  <2>2. \A t \in Tasks : taskStatus'[t] = "blocked" <=> t \in pending
    BY <1>0, <2>1 DEF BlockedIsPending
  <2>3. BlockedIsPending'
    BY <2>1, <2>2 DEF BlockedIsPending
  <2>4. ASSUME NEW t \in pending
        PROVE  \E d \in load.deps[t] : taskStatus'[d] \in {"failed", "cancelled", "blocked"}
    <3>1. PICK d \in load.deps[t] : d \notin verifiedKeys
      BY <2>1 DEF Ready
    <3>2. t \in load.tasks /\ d \in load.tasks /\ d \in Tasks
      <4>1. t \in load.tasks
        BY DEF LoopInv
      <4>2. load.deps[t] \subseteq load.tasks
        BY <4>1, WorkloadsAssumption DEF LoopInv, Valid
      <4>3. QED
        BY <1>0, <4>1, <4>2
    <3>3. CASE d \in pending
      BY <2>2, <3>2, <3>3
    <3>4. CASE d \notin pending
      <4>1. d \in Collected
        BY <2>1, <3>2, <3>4 DEF Collected
      <4>2. exec[d] = "false"
        BY <3>1, <4>1 DEF MemoryInv, CollectedHasEnded
      <4>3. taskStatus[d] \in {"failed", "cancelled"}
        BY <3>2, <4>2 DEF MemoryInv, FalseHasFailed
      <4>4. QED
        BY <2>1, <3>2, <3>4, <4>3
    <3>5. QED
      BY <3>3, <3>4
  <2>5. BlockedForAReason'
    BY <2>1, <2>2, <2>4 DEF BlockedForAReason, LoopInv, PendingIsIdle
  <2>6. QED
    BY <1>0, <2>1, <2>3, <2>5 DEF BlockedIsPending
<1>4. CASE TurnAdmits \/ Collect
  <2>1. loop \notin Over /\ taskStatus' = taskStatus
    BY <1>4 DEF TurnAdmits, Collect
  <2>2. QED
    BY <1>0, <1>1, <2>1 DEF BlockedIsPending
<1>5. CASE TurnEnds \/ CollectRaises \/ CloseRun
  BY <1>2, <1>5 DEF TurnEnds, CollectRaises, CloseRun
<1>6. CASE DeliveryAssembled \/ DeliveryVerified \/ DeliveryRaises
           \/ DeliveryFails("assembling") \/ DeliveryFails("verifying")
  BY <1>2, <1>6 DEF DeliveryAssembled, DeliveryVerified, DeliveryRaises, DeliveryFails
<1>7. ASSUME NEW t \in Tasks, Task(t) \/ Straggler(t) \/ FgCancelTask(t) PROVE Kept
  <2>1. /\ UNCHANGED <<load, pending, loop>>
        /\ \A u \in Tasks : u # t => exec'[u] = exec[u] /\ taskStatus'[u] = taskStatus[u]
        /\ taskStatus'[t] = "blocked" => taskStatus[t] = "blocked"
        /\ Awaiting \/ loop = "cancelled" \/ (exec' = exec
             /\ (taskStatus[t] \in Cancellable \/ taskStatus' = taskStatus))
    BY <1>7, TaskSteps
  <2>2. CASE loop \notin Over
    BY <1>0, <1>1, <2>1, <2>2 DEF BlockedIsPending
  <2>3. CASE loop \in Over
    BY <1>2, <2>1, <2>3 DEF Awaiting, Cancellable
  <2>4. QED
    BY <2>2, <2>3
<1>8. CASE FgCancelRun \/ Interrupt \/ PersistCancellation \/ Crash \/ Reconcile
  <2>1. UNCHANGED <<load, pending>>
    BY <1>8 DEF FgCancelRun, Interrupt, PersistCancellation, Crash, Reconcile
  <2>2. loop \in Over => loop' \in Over
    BY <1>8 DEF FgCancelRun, Interrupt, PersistCancellation, Crash, Reconcile
  <2>3. \A t \in Tasks : exec[t] = "idle" => exec'[t] = "idle"
    BY <1>8 DEF FgCancelRun, Interrupt, PersistCancellation, Crash, Reconcile, AtWork
  <2>4. \A t \in Tasks :
          /\ taskStatus'[t] = "blocked" => taskStatus[t] = "blocked"
          /\ taskStatus[t] \in {"failed", "cancelled", "blocked"}
               => taskStatus'[t] = taskStatus[t]
    BY <1>8 DEF FgCancelRun, Interrupt, PersistCancellation, Crash, Reconcile, Cancellable
  <2>5. QED
    BY <1>2, <2>1, <2>2, <2>3, <2>4
<1>9. CASE UNCHANGED vars
  BY <1>2, <1>9 DEF vars
<1>10. QED
  BY <1>3, <1>4, <1>5, <1>6, <1>7, <1>8, <1>9 DEF Next, Loop, Terminated

\* `failed` and the rows of the run and the delivery tell the same story.
LEMMA CountsNext ==
  ASSUME LoopInv, MemoryInv, [Next]_vars
  PROVE  FailedCounts' /\ LoopMatchesRows'
<1> USE DEF memory, tasks, rows
<1>0. /\ FailedCounts /\ LoopMatchesRows /\ failed \in Nat
      /\ load.tasks \subseteq Tasks
      /\ \A t \in Tasks : taskStatus[t] = "blocked" =>
           taskStatus'[t] = "blocked" /\ loop \in {"closing", "returned", "dead", "reconciled"}
      /\ Collected \subseteq Tasks /\ running \cap Collected = {}
      /\ \A t \in load.tasks : t \in pending \/ t \in running \/ t \in Collected
  BY BlockedNext, WorkloadTyped DEF MemoryInv, TypeOK, Collected, LoopInv, BlockedIsPending
\* Whose end is counted keeps it.
<1>1. ASSUME UNCHANGED <<load, pending, running, failed>>,
             \A t \in Tasks \ running : exec'[t] = exec[t],
             \A t \in Tasks : exec[t] = "false" => exec'[t] = "false",
             delivery = "failed" => delivery' = "failed"
      PROVE  FailedCounts'
  BY <1>0, <1>1 DEF FailedCounts, Collected
<1>2. ASSUME UNCHANGED <<load, pending, running, failed, delivery, loop>>,
             loop = "returned" => runStatus' = runStatus
      PROVE  LoopMatchesRows'
  <2>1. pending \subseteq Tasks
    BY <1>0 DEF LoopInv
  <2>2. QED
    BY <1>0, <1>2, <2>1 DEF LoopMatchesRows, Delivered
<1>3. CASE TurnAdmits
  <2>1. PICK S \in SUBSET Ready :
           /\ S \subseteq pending
           /\ pending' = pending \ S /\ running' = running \cup S
           /\ exec' = [t \in Tasks |-> IF t \in S THEN "admitted" ELSE exec[t]]
    BY <1>3, Admitted
  <2>2. UNCHANGED <<load, taskStatus, failed, delivery>> /\ loop = "top" /\ loop' = "waiting"
    BY <1>3 DEF TurnAdmits
  <2>3. Collected' = Collected /\ pending \subseteq load.tasks
    BY <2>1, <2>2 DEF Collected, LoopInv
  <2>4. \A t \in Collected : exec'[t] = exec[t]
    BY <1>0, <2>1 DEF Collected
  <2>5. \A t \in Tasks : exec[t] = "false" => exec'[t] = "false"
    BY <2>1 DEF LoopInv, PendingIsIdle
  <2>6. FailedCounts'
    BY <1>0, <2>2, <2>3, <2>4, <2>5 DEF FailedCounts
  <2>7. QED
    BY <1>0, <2>2, <2>6 DEF LoopMatchesRows
<1>4. CASE TurnBlocks
  <2>1. /\ running = {} /\ pending # {} /\ loop' = "closing"
        /\ failed' = failed + Cardinality(pending)
        /\ UNCHANGED <<load, pending, running>>
        /\ \A t \in pending : taskStatus'[t] = "blocked"
    BY <1>0, <1>4 DEF TurnBlocks, LoopInv
  <2>2. Cardinality(pending) \in Nat /\ Cardinality(pending) # 0
    BY <2>1, WorkloadBounds, FS_EmptySet DEF LoopInv
  <2>3. failed' # 0
    BY <1>0, <2>1, <2>2
  <2>4. FailedCounts'
    BY <2>1, <2>3 DEF FailedCounts, LoopInv
  <2>5. QED
    BY <2>1, <2>3, <2>4 DEF LoopMatchesRows
<1>5. CASE TurnEnds
  <2>1. /\ running = {} /\ pending = {} /\ loop = "top"
        /\ UNCHANGED <<load, runStatus, taskStatus, exec, pending, running, failed>>
        /\ \/ /\ failed = 0 /\ Cardinality(load.tasks) > 1
              /\ loop' = "assembling" /\ delivery' = "assembling"
           \/ /\ ~(failed = 0 /\ Cardinality(load.tasks) > 1)
              /\ loop' = "closing" /\ delivery' = delivery
    BY <1>5 DEF TurnEnds
  <2>2. delivery = "none"
    BY <1>0, <2>1 DEF LoopMatchesRows
  <2>3. FailedCounts'
    BY <1>0, <1>1, <2>1, <2>2
  <2>4. LoopMatchesRows'
    BY <2>1, <2>2 DEF LoopMatchesRows, Delivered
  <2>5. QED
    BY <2>3, <2>4
<1>6. CASE Collect
  <2> DEFINE Lost == {t \in Finished : exec[t] = "false"}
  <2>1. /\ UNCHANGED <<load, taskStatus, delivery, exec, pending>>
        /\ running' = running \ Finished /\ failed' = failed + Cardinality(Lost)
        /\ \A t \in Finished : exec[t] \in {"true", "false"}
        /\ loop = "waiting" /\ loop' = "top"
    BY <1>6 DEF Collect, Finished, Collectable
  <2>2. Lost \in SUBSET load.tasks
    BY DEF Finished, LoopInv
  <2>3. IsFiniteSet(Lost) /\ Cardinality(Lost) \in Nat /\ (Cardinality(Lost) = 0 <=> Lost = {})
    BY <2>2, WorkloadBounds, FS_EmptySet DEF LoopInv
  <2>4. Collected' \subseteq Collected \cup Finished
    BY <2>1 DEF Collected
  <2>5. ASSUME failed' = 0 PROVE \A t \in Collected' : exec'[t] = "true"
    <3>1. failed = 0 /\ Lost = {}
      BY <1>0, <2>1, <2>3, <2>5
    <3>2. \A t \in Finished : exec[t] = "true"
      BY <2>1, <3>1
    <3>3. QED
      BY <1>0, <2>1, <2>4, <3>1, <3>2 DEF FailedCounts
  <2>6. ASSUME failed' # 0 PROVE \/ delivery = "failed"
                                 \/ \E t \in load.tasks : exec[t] = "false" \/ taskStatus[t] = "blocked"
    <3>1. failed # 0 \/ Lost # {}
      BY <1>0, <2>1, <2>3, <2>6
    <3>2. Lost # {} => \E t \in load.tasks : exec[t] = "false"
      BY <2>2
    <3>3. QED
      BY <1>0, <3>1, <3>2 DEF FailedCounts
  <2>7. FailedCounts'
    BY <2>1, <2>5, <2>6 DEF FailedCounts
  <2>8. QED
    BY <1>0, <2>1, <2>7 DEF LoopMatchesRows
<1>7. CASE CollectRaises \/ DeliveryRaises
  <2>1. UNCHANGED <<load, rows, tasks, memory>> /\ loop' = "raised"
    BY <1>7 DEF CollectRaises, DeliveryRaises
  <2>2. QED
    BY <1>1, <2>1 DEF LoopMatchesRows
<1>8. CASE DeliveryAssembled \/ DeliveryVerified \/ DeliveryFails("assembling")
           \/ DeliveryFails("verifying")
  <2>1. /\ loop \in {"assembling", "verifying"}
        /\ UNCHANGED <<load, taskStatus, exec, pending, running>>
        /\ \/ loop' = "verifying" /\ delivery' = "verifying" /\ failed' = failed
           \/ loop' = "closing" /\ delivery' = "verified" /\ failed' = failed
           \/ loop' = "closing" /\ delivery' = "failed" /\ failed' = failed + 1
    BY <1>8 DEF DeliveryAssembled, DeliveryVerified, DeliveryFails
  <2>2. pending = {} /\ running = {} /\ failed = 0 /\ Cardinality(load.tasks) > 1
    BY <1>0, <2>1 DEF LoopMatchesRows
  <2>3. FailedCounts'
    BY <1>0, <2>1, <2>2 DEF FailedCounts, Collected
  <2>4. LoopMatchesRows'
    BY <2>1, <2>2 DEF LoopMatchesRows, Delivered
  <2>5. QED
    BY <2>3, <2>4
<1>9. CASE CloseRun
  <2>1. /\ UNCHANGED <<load, taskStatus, delivery, exec, pending, running, failed>>
        /\ loop = "closing" /\ loop' = "returned"
        /\ runStatus' = IF failed = 0 THEN "completed" ELSE "failed"
    BY <1>9 DEF CloseRun
  <2>2. FailedCounts'
    BY <1>1, <2>1
  <2>3. LoopMatchesRows'
    BY <1>0, <2>1 DEF LoopMatchesRows, Delivered
  <2>4. QED
    BY <2>2, <2>3
<1>10. ASSUME NEW t \in Tasks, Task(t) \/ Straggler(t) \/ FgCancelTask(t)
       PROVE  FailedCounts' /\ LoopMatchesRows'
  <2>1. /\ UNCHANGED <<load, runStatus, delivery, memory, loop>>
        /\ \A u \in Tasks : u # t => exec'[u] = exec[u]
        /\ exec'[t] = exec[t] \/ (exec[t] \in AtWork /\ t \in running)
    BY <1>10, TaskSteps
  <2>2. FailedCounts'
    BY <1>1, <2>1 DEF AtWork
  <2>3. LoopMatchesRows'
    BY <1>2, <2>1
  <2>4. QED
    BY <2>2, <2>3
<1>11. CASE FgCancelRun
  <2>1. UNCHANGED <<load, exec, pending, running, failed, delivery, loop>>
        /\ runStatus' = IF runStatus = "running" THEN "cancelled" ELSE runStatus
    BY <1>11 DEF FgCancelRun
  <2>2. loop = "returned" => runStatus # "running"
    BY <1>0 DEF LoopMatchesRows
  <2>3. QED
    BY <1>1, <1>2, <2>1, <2>2
<1>12. CASE Interrupt
  <2>1. /\ UNCHANGED <<load, taskStatus, exec, pending, running, failed>>
        /\ loop \in {"waiting", "assembling", "verifying"} /\ loop' = "stopping"
        /\ delivery' = IF loop = "waiting" THEN delivery ELSE "cancelled"
    BY <1>12 DEF Interrupt
  <2>2. failed = 0 \/ delivery' = delivery
    BY <1>0, <2>1 DEF LoopMatchesRows
  <2>3. FailedCounts'
    BY <1>0, <2>1, <2>2 DEF FailedCounts, Collected
  <2>4. QED
    BY <2>1, <2>3 DEF LoopMatchesRows
<1>13. CASE PersistCancellation \/ Reconcile
  <2>1. /\ UNCHANGED <<load, exec, pending, running, failed, delivery>>
        /\ loop' \in {"cancelled", "reconciled"}
    BY <1>13 DEF PersistCancellation, Reconcile
  <2>2. QED
    BY <1>1, <2>1 DEF LoopMatchesRows
<1>14. CASE Crash
  <2>1. /\ UNCHANGED <<load, taskStatus, pending, running, failed, delivery>>
        /\ exec' = [t \in Tasks |-> IF exec[t] \in AtWork THEN "cancelled" ELSE exec[t]]
        /\ loop \notin Stopped /\ loop' = "dead"
    BY <1>14 DEF Crash
  <2>2. FailedCounts'
    BY <1>1, <2>1 DEF LoopInv, ActiveIsRunning, AtWork
  <2>3. QED
    BY <2>1, <2>2 DEF LoopMatchesRows
<1>15. CASE UNCHANGED vars
  BY <1>1, <1>2, <1>15 DEF vars
<1>16. QED
  BY <1>3, <1>4, <1>5, <1>6, <1>7, <1>8, <1>9, <1>10, <1>11, <1>12, <1>13, <1>14,
     <1>15 DEF Next, Loop, Terminated

\* Every state of every run keeps the memory and the rows in agreement.
THEOREM MemoryInvariant == Spec => []MemoryInv
<1>1. LoopInv /\ MemoryInv /\ [Next]_vars => MemoryInv'
  BY TypedNext, LimitsNext, EndedNext, BlockedNext, CountsNext DEF MemoryInv
<1>2. QED
  BY <1>1, LoopInvariant, MemoryInvInit, PTL DEF Spec

\* What the loop remembers and what it wrote agree, whatever `fg cancel` writes
\* meanwhile: no more tasks than the hard limit are admitted, their threads are
\* within the budget, what it takes for verified is verified, tasks are written
\* off only for a reason, the delivery finds its winners, and the outcome the
\* run reports is what the rows say.
THEOREM LoopReportsTheRows == Spec => []LoopConsistent
<1>1. LoopInv /\ MemoryInv /\ ThreadBudgetKept => LoopConsistent
  <2> SUFFICES ASSUME LoopInv, MemoryInv, ThreadBudgetKept PROVE LoopConsistent
    OBVIOUS
  <2>0. load.tasks \subseteq Tasks /\ load \in Workloads
    BY WorkloadTyped DEF LoopInv
  <2>1. TypeOK /\ HardLimit /\ BlockedForAReason
    BY DEF MemoryInv
  <2>2. MemoryMatchesRows
    BY DEF MemoryMatchesRows, LoopInv, ActiveIsRunning, Active
  <2>3. DeliveryHasWinners
    <3>1. ASSUME loop = "assembling", NEW t \in load.tasks PROVE taskStatus[t] = "verified"
      <4>1. t \in Collected /\ failed = 0
        BY <3>1 DEF MemoryInv, LoopMatchesRows, Collected
      <4>2. exec[t] = "true"
        BY <4>1 DEF MemoryInv, FailedCounts
      <4>3. QED
        BY <2>0, <4>2 DEF LoopInv, WinnersVerified
    <3>2. QED
      BY <3>1 DEF DeliveryHasWinners, Sinks
  <2>4. OutcomeMatchesRows
    <3> SUFFICES ASSUME loop = "returned"
                 PROVE  /\ runStatus # "running"
                        /\ runStatus = "completed" =>
                             /\ \A t \in load.tasks : taskStatus[t] = "verified"
                             /\ delivery = Delivered
                        /\ runStatus = "failed" =>
                             \/ \E t \in load.tasks : taskStatus[t] # "verified"
                             \/ delivery = "failed"
                        /\ \A t \in load.tasks : taskStatus[t] \notin {"queued", "ready"} \cup Midway
      BY DEF OutcomeMatchesRows, Delivered
    <3>1. /\ running = {} /\ \A t \in pending : taskStatus[t] = "blocked"
          /\ failed = 0 => pending = {} /\ delivery = Delivered
          /\ runStatus = IF failed = 0 THEN "completed" ELSE "failed"
      BY DEF MemoryInv, LoopMatchesRows
    <3>2. ASSUME NEW t \in load.tasks
          PROVE  \/ t \in pending /\ taskStatus[t] = "blocked"
                 \/ t \in Collected /\ exec[t] = "true" /\ taskStatus[t] = "verified"
                 \/ t \in Collected /\ exec[t] = "false"
                      /\ taskStatus[t] \in {"failed", "cancelled"}
      BY <2>0, <3>1 DEF Collected, MemoryInv, CollectedHasEnded, FalseHasFailed, LoopInv,
         WinnersVerified
    <3>3. ASSUME failed = 0, NEW t \in load.tasks PROVE taskStatus[t] = "verified"
      BY <3>1, <3>2, <3>3 DEF MemoryInv, FailedCounts
    <3>4. ASSUME failed # 0 PROVE \/ \E t \in load.tasks : taskStatus[t] # "verified"
                                  \/ delivery = "failed"
      <4>1. \/ delivery = "failed"
            \/ \E t \in load.tasks : exec[t] = "false" \/ taskStatus[t] = "blocked"
        BY <3>4 DEF MemoryInv, FailedCounts
      <4>2. \A t \in load.tasks : exec[t] = "false" => taskStatus[t] # "verified"
        BY <2>0 DEF MemoryInv, FalseHasFailed
      <4>3. QED
        BY <4>1, <4>2
    <3>5. \A t \in load.tasks : taskStatus[t] \notin {"queued", "ready"} \cup Midway
      BY <3>2 DEF Midway
    <3>6. QED
      BY <3>1, <3>3, <3>4, <3>5
  <2>5. QED
    BY <2>1, <2>2, <2>3, <2>4 DEF LoopConsistent
<1>2. QED
  BY <1>1, LoopInvariant, MemoryInvariant, ThreadsWithinBudget, PTL

\* A turn leaves no room unused: a ready task that is left waiting shares a
\* resource key with a running one, or the limit is reached.
THEOREM TurnsUseTheRoom == Spec => WorkConserving
<1> DEFINE Used == loop = "top" /\ loop' = "waiting" =>
                     \/ Cardinality(running') >= limit'
                     \/ \A t \in Ready' : \E u \in running' : Conflict(t, u)
<1>1. LoopInv /\ MemoryInv /\ [Next]_vars => [Used]_vars
  <2> SUFFICES ASSUME LoopInv, MemoryInv, Next, loop = "top", loop' = "waiting"
               PROVE  \/ Cardinality(running') >= limit'
                      \/ \A t \in Ready' : \E u \in running' : Conflict(t, u)
    OBVIOUS
  <2>1. TurnAdmits
    <3>1. ASSUME NEW t \in Tasks, Task(t) \/ Straggler(t) \/ FgCancelTask(t) PROVE FALSE
      BY <3>1, TaskSteps
    <3>2. QED
      BY <3>1 DEF Next, Loop, Terminated, vars, TurnBlocks, TurnEnds, Collect, CollectRaises,
         DeliveryAssembled, DeliveryVerified, DeliveryFails, DeliveryRaises, CloseRun,
         FgCancelRun, Interrupt, PersistCancellation, Crash, Reconcile
  <2>2. PICK S \in SUBSET Ready :
           /\ pending' = pending \ S /\ running' = running \cup S
           /\ Cardinality(running') = Cardinality(running) + Cardinality(S)
           /\ Cardinality(running) \in Nat /\ Cardinality(S) \in Nat
           /\ limit' \in load.min..load.max
           /\ S \subseteq pending /\ Selection(S)
    BY <2>1, Admitted
  <2>3. UNCHANGED <<load, verifiedKeys>> /\ limit' \in Nat /\ IsFiniteSet(S)
    BY <2>1, <2>2, WorkloadBounds DEF TurnAdmits, LoopInv
  <2>4. SUFFICES ASSUME Cardinality(running') < limit', NEW t \in Ready'
                 PROVE  \E u \in running' : Conflict(t, u)
    BY <2>2, <2>3
  <2>5. t \in Ready /\ t \notin S
    BY <2>2, <2>3 DEF Ready
  <2> DEFINE before == {s \in S : load.rank[s] < load.rank[t]}
  <2>6. ~Fits(t, before)
    BY <2>2, <2>5 DEF Selection
  <2>7. Cardinality(before) <= Cardinality(S) /\ Cardinality(before) \in Nat
    BY <2>3, FS_Subset, FS_CardinalityType
  <2>8. Room(Cardinality(before))
    BY <2>2, <2>3, <2>4, <2>7 DEF Room, Larger
  <2>9. QED
    BY <2>2, <2>6, <2>8 DEF Fits
<1>2. QED
  BY <1>1, LoopInvariant, MemoryInvariant, PTL DEF Spec, WorkConserving

===============================================================================
