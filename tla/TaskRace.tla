------------------------------- MODULE TaskRace -------------------------------
(***************************************************************************)
(* The execution of one task of a run (service.py, racing.py and the rows  *)
(* repository.py writes): a coordinator coroutine prepares the primary's   *)
(* worktree, races it against an optional backup, claims the winner,       *)
(* reaps the loser and repairs failed verifications, while                 *)
(*   - every attempt is a coroutine of its own on the same event loop,     *)
(*   - `fg cancel`, another operating-system process, writes to the same   *)
(*     SQLite rows at any time,                                            *)
(*   - the scheduler may be interrupted, crash, or be torn down because    *)
(*     another task of the run raised.                                     *)
(* An action is what a coroutine does between two awaits that suspend it.  *)
(*                                                                         *)
(* A definition named X_Fault, right before X, is X with a plausible bug:  *)
(* it is what a property that speaks about X has to detect.                *)
(***************************************************************************)
EXTENDS Lifecycle, Integers, FiniteSets

CONSTANTS
  Configs,      \* the task and scheduler settings a run may have
  MaxOrdinal,   \* bound on the ordinals of a task's attempts
  Environment   \* which of the events below the instance lets happen

Policies == {"single", "always-race", "delayed-hedge", "auto"}
Events == {"fg_cancel", "interrupt", "run_crash", "crash", "raise", "overlay"}

\* hedge: hedging is enabled, has a replica to use and a budget above zero.
Settings == [policy: Policies, replaySafe: BOOLEAN, hedge: BOOLEAN,
             maxAttempts: 1..MaxOrdinal, rootSlots: Nat \ {0}]

ASSUME ConfigsAssumption == Configs \subseteq Settings
ASSUME OrdinalAssumption == MaxOrdinal \in Nat /\ MaxOrdinal >= 2
ASSUME EventsAssumption == Environment \subseteq Events

Attempts == 1..MaxOrdinal   \* an attempt is named by its ordinal
None == 0

VARIABLES
  cfg,           \* the settings of this run, fixed
  taskStatus,    \* tasks.status
  winner,        \* tasks.winner_attempt_id and the task_winners row
  status,        \* attempts.status, "absent" while there is no row
  verdict,       \* verification_runs of the attempt
  workspace,     \* the attempt's worktree on disk
  coord,         \* where the coordinator (_run_task_with_resources) awaits
  waiting,       \* `tasks` of first_verified_wins
  used,          \* attempts_used
  source,        \* the attempt whose feedback the next repair uses
  phase,         \* where each attempt's coroutine awaits, or how it ended
  cancelReq,     \* attempts whose asyncio task has a pending cancel()
  proc,          \* the scheduler process
  late,          \* attempts that may still step once before the teardown
  fgCancelled    \* history: `fg cancel` has changed this task

db == <<taskStatus, winner, status, verdict>>
control == <<coord, waiting, used, source>>
vars == <<cfg, db, workspace, control, phase, cancelReq, proc, late, fgCancelled>>

-------------------------------------------------------------------------------
Holding == {"starting", "streaming", "verifying", "cancelling", "cleaning"}
Alive == {"prep", "slot"} \cup Holding
Finished == {"verified", "feedback", "nofeedback", "cancelled", "raised"}
Returned == {"true", "false"}
Ended == Returned \cup {"raised", "cancelled"}

Live == {a \in Attempts : phase[a] \in Alive}
Done == {a \in waiting : phase[a] \in Finished}

\* Attempts of the race that have not ended: the ones a winner cancels.
Pending_NobodyCancelled == {}
Pending == waiting \ Done

EffectivePolicy ==
  CASE cfg.policy \in {"delayed-hedge", "auto"} /\ ~cfg.hedge -> "single"
    [] cfg.maxAttempts < 2 \/ ~cfg.replaySafe                 -> "single"
    [] OTHER                                                  -> cfg.policy

Init ==
  /\ cfg \in Configs
  /\ taskStatus \in {"queued", "ready"}
  /\ winner = None
  /\ status = [a \in Attempts |-> "absent"]
  /\ verdict = [a \in Attempts |-> "none"]
  /\ workspace = [a \in Attempts |-> "absent"]
  /\ coord = "prep"
  /\ waiting = {}
  /\ used = 0
  /\ source = None
  /\ phase = [a \in Attempts |-> "idle"]
  /\ cancelReq = {}
  /\ proc = "up"
  /\ late = {}
  /\ fgCancelled = FALSE

-------------------------------------------------------------------------------
(* The winner claim: one compare-and-set transaction.                      *)

Claimable_NotWhileVerifying ==
  winner = None /\ taskStatus \notin {"cancelled", "blocked", "verifying"}
Claimable == winner = None /\ taskStatus \notin {"cancelled", "blocked"}

Superseded(b) == IF status[b] \in {"passed", "verifying", "agent_completed"}
                 THEN "superseded" ELSE status[b]

ClaimWinner(a) ==
  /\ Claimable
  /\ winner' = a
  /\ taskStatus' = "verified"
  /\ status' = [b \in Attempts |-> IF b = a THEN "winner" ELSE Superseded(b)]
  /\ UNCHANGED verdict

FailTask_NotWritten == UNCHANGED db
FailTask ==
  /\ taskStatus' = IF winner = None THEN "failed" ELSE taskStatus
  /\ UNCHANGED <<winner, status, verdict>>

-------------------------------------------------------------------------------
(* The coordinator.  It is cancelled the moment the process stops being    *)
(* "up", so every step it takes by itself is taken while it is.            *)

Reach(c) == proc = "up" /\ coord = c

PrepareRejected ==
  /\ Reach("prep")
  /\ \E w \in {"absent", "removed"} : workspace' = [workspace EXCEPT ![1] = w]
  /\ taskStatus' = "failed"
  /\ coord' = "false"
  /\ UNCHANGED <<cfg, winner, status, verdict, waiting, used, source, phase,
                 cancelReq, proc, late, fgCancelled>>

\* Creates the primary's coroutine and, under always-race, the backup's.
PrepareTask ==
  /\ Reach("prep")
  /\ workspace' = [workspace EXCEPT ![1] = "present"]
  /\ taskStatus' = "running"
  /\ LET both == EffectivePolicy = "always-race"
         hedged == EffectivePolicy \in {"delayed-hedge", "auto"}
     IN /\ phase' = [phase EXCEPT ![1] = "slot",
                                  ![2] = IF both THEN "prep" ELSE @]
        /\ waiting' = IF both THEN {1, 2} ELSE {1}
        /\ coord' = IF hedged THEN "hedge_timer" ELSE "racing"
  /\ UNCHANGED <<cfg, winner, status, verdict, used, source, cancelReq, proc,
                 late, fgCancelled>>

LaunchBackup(others) ==
  /\ phase' = [phase EXCEPT ![2] = "prep"]
  /\ waiting' = others \cup {2}
  /\ coord' = "racing"
  /\ UNCHANGED <<cfg, db, workspace, used, source, cancelReq, proc, late,
                 fgCancelled>>

HedgeTimeout ==
  /\ Reach("hedge_timer")
  /\ phase[1] \notin Finished
  /\ LaunchBackup({1})

\* The primary ended first without winning: a backup is launched all the same.
HedgeAfterPrimary ==
  /\ Reach("hedge_timer")
  /\ phase[1] \in Finished \ {"raised"}
  /\ ~(phase[1] = "verified" /\ Claimable)
  /\ LaunchBackup({})

\* A verified attempt claims the task; the pending ones get cancel() at once.
RaceClaim(a) ==
  /\ Reach("racing") \/ (Reach("hedge_timer") /\ a = 1)
  /\ a \in waiting
  /\ phase[a] = "verified"
  /\ ClaimWinner(a)
  /\ cancelReq' = cancelReq \cup Pending
  /\ coord' = IF Pending = {} THEN "true" ELSE "reaping"
  /\ waiting' = {}
  /\ UNCHANGED <<cfg, workspace, used, source, phase, proc, late, fgCancelled>>

\* finished.result() raises; the other attempt is left running.
RaceRaises ==
  /\ Reach("racing") \/ Reach("hedge_timer")
  /\ \E a \in waiting : phase[a] = "raised"
  /\ coord' = "raised"
  /\ waiting' = {}
  /\ UNCHANGED <<cfg, db, workspace, used, source, phase, cancelReq, proc, late,
                 fgCancelled>>

\* The head and the exit of the repair loop.
RepairOrFail(src, n) ==
  /\ source' = src
  /\ used' = n
  /\ \/ /\ src # None /\ n < cfg.maxAttempts
        /\ coord' = "repair_prep"
        /\ UNCHANGED db
     \/ /\ ~(src # None /\ n < cfg.maxAttempts)
        /\ coord' = "false"
        /\ FailTask

FeedbackSource_LatestEnded ==
  IF phase[2] \in {"feedback", "nofeedback"} THEN 2
  ELSE IF phase[1] = "feedback" THEN 1 ELSE None
FeedbackSource == CASE phase[2] = "feedback" -> 2
                    [] phase[1] = "feedback" -> 1
                    [] OTHER                 -> None

RaceContinues ==
  /\ Reach("racing")
  /\ Done # {}
  /\ \A a \in Done : \/ phase[a] \in {"feedback", "nofeedback"}
                     \/ phase[a] = "verified" /\ ~Claimable
  /\ waiting' = waiting \ Done
  /\ IF waiting' = {}
     THEN RepairOrFail(FeedbackSource, IF phase[2] # "idle" THEN 2 ELSE 1)
     ELSE UNCHANGED <<db, coord, used, source>>
  /\ UNCHANGED <<cfg, workspace, phase, cancelReq, proc, late, fgCancelled>>

ReapLosers ==
  /\ proc # "down" /\ proc # "reconciled"
  /\ coord \in {"reaping", "abandoning"}
  /\ Live = {}
  /\ coord' = IF coord = "reaping" THEN "true" ELSE "cancelled"
  /\ UNCHANGED <<cfg, db, workspace, waiting, used, source, phase, cancelReq,
                 proc, late, fgCancelled>>

\* require_transition(current task status, RUNNING) guards every repair.
RepairStarts ==
  /\ Reach("repair_prep")
  /\ workspace' = [workspace EXCEPT ![used + 1] = "present"]
  /\ IF Allowed(taskStatus, "running", TASK_TRANSITIONS)
     THEN /\ taskStatus' = "running"
          /\ phase' = [phase EXCEPT ![used + 1] = "slot"]
          /\ coord' = "repairing"
     ELSE /\ coord' = "raised"
          /\ UNCHANGED <<taskStatus, phase>>
  /\ UNCHANGED <<cfg, winner, status, verdict, waiting, used, source, cancelReq,
                 proc, late, fgCancelled>>

\* The overlay of the failed attempt is refused: the loop is left.
RepairSkipped ==
  /\ "overlay" \in Environment
  /\ Reach("repair_prep")
  /\ workspace' = [workspace EXCEPT ![used + 1] = "removed"]
  /\ coord' = "false"
  /\ FailTask
  /\ UNCHANGED <<cfg, waiting, used, source, phase, cancelReq, proc, late,
                 fgCancelled>>

\* Any other exception while the repair worktree is created or filled.
RepairPrepRaises ==
  /\ "raise" \in Environment
  /\ Reach("repair_prep")
  /\ \E w \in {"absent", "present"} :
       workspace' = [workspace EXCEPT ![used + 1] = w]
  /\ coord' = "raised"
  /\ UNCHANGED <<cfg, db, waiting, used, source, phase, cancelReq, proc, late,
                 fgCancelled>>

Repairing(p) == coord = "repairing" /\ phase[used + 1] \in p

RepairClaims ==
  /\ proc = "up" /\ Repairing({"verified"})
  /\ ClaimWinner(used + 1)
  /\ used' = used + 1
  /\ coord' = "true"
  /\ UNCHANGED <<cfg, workspace, waiting, source, phase, cancelReq, proc, late,
                 fgCancelled>>

\* `return claim_winner(...)` returns False without touching the task.
RepairClaimLost ==
  /\ proc = "up" /\ Repairing({"verified"})
  /\ ~Claimable
  /\ used' = used + 1
  /\ coord' = "false"
  /\ UNCHANGED <<cfg, db, workspace, waiting, source, phase, cancelReq, proc,
                 late, fgCancelled>>

RepairFails ==
  /\ proc = "up" /\ Repairing({"feedback", "nofeedback"})
  /\ RepairOrFail(IF phase[used + 1] = "feedback" THEN used + 1 ELSE None,
                  used + 1)
  /\ UNCHANGED <<cfg, workspace, waiting, phase, cancelReq, proc, late,
                 fgCancelled>>

\* The repair runs in the coordinator's own asyncio task.
RepairAborts ==
  /\ proc # "down" /\ proc # "reconciled"
  /\ Repairing({"raised", "cancelled"})
  /\ coord' = phase[used + 1]
  /\ UNCHANGED <<cfg, db, workspace, waiting, used, source, phase, cancelReq,
                 proc, late, fgCancelled>>

Coordinator ==
  \/ PrepareRejected \/ PrepareTask
  \/ HedgeAfterPrimary
  \/ \E a \in Attempts : RaceClaim(a)
  \/ RaceRaises \/ RaceContinues \/ ReapLosers
  \/ RepairStarts \/ RepairSkipped \/ RepairPrepRaises
  \/ RepairClaims \/ RepairClaimLost \/ RepairFails \/ RepairAborts

-------------------------------------------------------------------------------
(* An attempt's coroutine: backup(), primary() and _execute_attempt.       *)

Step(a, from) ==
  /\ phase[a] = from
  /\ a \notin cancelReq
  /\ proc \in {"up", "stopping"} \/ (proc = "unwinding" /\ a \in late)
  /\ late' = late \ {a}
  /\ UNCHANGED <<cfg, winner, control, cancelReq, proc, fgCancelled>>

Goto(a, to) == phase' = [phase EXCEPT ![a] = to]

PrepareBackup(a) ==
  /\ Step(a, "prep")
  /\ workspace' = [workspace EXCEPT ![a] = "present"]
  /\ Goto(a, "slot")
  /\ UNCHANGED <<taskStatus, status, verdict>>

\* The row is inserted as 'starting' and set to 'running' in one transaction.
AcquireSlot(a) ==
  /\ Step(a, "slot")
  /\ Cardinality({b \in Attempts : phase[b] \in Holding}) < cfg.rootSlots
  /\ status' = [status EXCEPT ![a] = "running"]
  /\ Goto(a, "starting")
  /\ UNCHANGED <<taskStatus, verdict, workspace>>

WorkerStarted(a) ==
  /\ Step(a, "starting")
  /\ Goto(a, "streaming")
  /\ UNCHANGED <<taskStatus, status, verdict, workspace>>

StreamIncomplete(a) ==
  /\ Step(a, "streaming")
  /\ status' = [status EXCEPT ![a] = "failed"]
  /\ Goto(a, "nofeedback")
  /\ UNCHANGED <<taskStatus, verdict, workspace>>

WorkerCompleted(a) ==
  /\ Step(a, "streaming")
  /\ status' = [status EXCEPT ![a] = "verifying"]
  /\ taskStatus' = "verifying"
  /\ Goto(a, "verifying")
  /\ UNCHANGED <<verdict, workspace>>

Verified(a) ==
  /\ Step(a, "verifying")
  /\ verdict' = [verdict EXCEPT ![a] = "passed"]
  /\ status' = [status EXCEPT ![a] = "passed"]
  /\ Goto(a, "verified")
  /\ UNCHANGED <<taskStatus, workspace>>

NotVerified_StillPasses(a) ==
  /\ Step(a, "verifying")
  /\ verdict' = [verdict EXCEPT ![a] = "failed"]
  /\ status' = [status EXCEPT ![a] = "passed"]
  /\ Goto(a, "verified")
  /\ UNCHANGED <<taskStatus, workspace>>
NotVerified(a) ==
  /\ Step(a, "verifying")
  /\ verdict' = [verdict EXCEPT ![a] = "failed"]
  /\ status' = [status EXCEPT ![a] = "failed"]
  /\ Goto(a, "feedback")
  /\ UNCHANGED <<taskStatus, workspace>>

\* An exception none of the handlers catches: the rows stay as they are.
AttemptRaises(a) ==
  /\ "raise" \in Environment
  /\ \E from \in {"prep", "starting", "streaming", "verifying"} :
       /\ Step(a, from)
       /\ \/ UNCHANGED workspace
          \/ from = "prep" /\ workspace' = [workspace EXCEPT ![a] = "present"]
  /\ Goto(a, "raised")
  /\ UNCHANGED <<taskStatus, status, verdict>>

\* Where _execute_attempt has no handler for CancelledError.
Unprotected_NotQueued == {"prep", "starting", "cancelling", "cleaning"}
Unprotected == {"prep", "slot", "starting", "cancelling", "cleaning"}

\* CancelledError outside the handlers of _execute_attempt: nothing is undone.
CancelledEarly(a) ==
  /\ a \in cancelReq
  /\ phase[a] \in Unprotected
  /\ \/ UNCHANGED workspace
     \/ phase[a] = "prep" /\ workspace' = [workspace EXCEPT ![a] = "present"]
     \/ phase[a] = "cleaning" /\ workspace' = [workspace EXCEPT ![a] = "removed"]
  /\ Goto(a, "cancelled")
  /\ cancelReq' = cancelReq \ {a}
  /\ UNCHANGED <<cfg, db, control, proc, late, fgCancelled>>

\* CancelledError inside them starts _cancel_attempt.
CancelledInFlight(a) ==
  /\ a \in cancelReq
  /\ phase[a] \in {"streaming", "verifying"}
  /\ Goto(a, "cancelling")
  /\ cancelReq' = cancelReq \ {a}
  /\ UNCHANGED <<cfg, db, workspace, control, proc, late, fgCancelled>>

WorkerCancelled(a) ==
  /\ phase[a] = "cancelling"
  /\ a \notin cancelReq
  /\ status' = [status EXCEPT ![a] = "cancelled"]
  /\ Goto(a, "cleaning")
  /\ UNCHANGED <<cfg, taskStatus, winner, verdict, workspace, control, cancelReq,
                 proc, late, fgCancelled>>

CleanUp_PrimaryWorkspace(a) ==
  /\ phase[a] = "cleaning"
  /\ a \notin cancelReq
  /\ workspace' = [workspace EXCEPT ![1] = "removed"]
  /\ Goto(a, "cancelled")
  /\ UNCHANGED <<cfg, db, control, cancelReq, proc, late, fgCancelled>>
CleanUp(a) ==
  /\ phase[a] = "cleaning"
  /\ a \notin cancelReq
  /\ \/ /\ workspace' = [workspace EXCEPT ![a] = "removed"]
        /\ Goto(a, "cancelled")
     \/ /\ "raise" \in Environment      \* cleanup refused
        /\ Goto(a, "raised")
        /\ UNCHANGED workspace
  /\ UNCHANGED <<cfg, db, control, cancelReq, proc, late, fgCancelled>>

Attempt(a) ==
  /\ proc \in {"up", "stopping", "unwinding", "exiting"}
  /\ \/ PrepareBackup(a) \/ AcquireSlot(a) \/ WorkerStarted(a)
     \/ StreamIncomplete(a) \/ WorkerCompleted(a)
     \/ Verified(a) \/ NotVerified(a) \/ AttemptRaises(a)
     \/ CancelledEarly(a) \/ CancelledInFlight(a)
     \/ WorkerCancelled(a) \/ CleanUp(a)

-------------------------------------------------------------------------------
(* The process around the event loop, and the other process.               *)

\* cli.py cancel, on this task or on its whole run, from a second process.
FgCancel ==
  /\ "fg_cancel" \in Environment
  /\ taskStatus \notin {"verified", "failed", "blocked", "cancelled"}
  /\ taskStatus' = "cancelled"
  /\ fgCancelled' = TRUE
  /\ UNCHANGED <<cfg, winner, status, verdict, workspace, control, phase,
                 cancelReq, proc, late>>

\* What cancel() on the coordinator's asyncio task does where it awaits.
\* A worktree being created may be left behind.
CancelCoordinator ==
  /\ ~Repairing(Finished)           \* no await after a repair returns
  /\ coord' = CASE coord = "reaping"                                -> "abandoning"
                [] coord \in Ended \cup {"abandoning", "repairing"} -> coord
                [] OTHER                                            -> "cancelled"
  /\ \/ UNCHANGED workspace
     \/ coord = "prep" /\ workspace' = [workspace EXCEPT ![1] = "present"]
     \/ coord = "repair_prep"
        /\ workspace' = [workspace EXCEPT ![used + 1] = "present"]
  /\ UNCHANGED <<cfg, db, waiting, used, source, phase, late, fgCancelled>>

\* run() is cancelled: it cancels the coordinator but not the race's attempts.
Interrupt ==
  /\ "interrupt" \in Environment
  /\ proc = "up"
  /\ proc' = "stopping"
  /\ cancelReq' = IF coord \in {"reaping", "repairing"} THEN cancelReq \cup Live
                  ELSE cancelReq
  /\ CancelCoordinator

\* The handler of run(), once the coordinator has ended.
PersistCancellation ==
  /\ proc = "stopping"
  /\ coord \in Ended
  /\ status' = [a \in Attempts |->
                  IF status[a] \in {"starting", "running", "verifying",
                                    "agent_completed"}
                  THEN "cancelled" ELSE status[a]]
  /\ taskStatus' = IF winner = None
                      /\ taskStatus \notin {"failed", "blocked", "cancelled"}
                   THEN "cancelled" ELSE taskStatus
  /\ proc' = "unwinding"
  /\ late' = Live
  /\ UNCHANGED <<cfg, winner, verdict, workspace, control, phase, cancelReq,
                 fgCancelled>>

\* asyncio.run cancels every coroutine that is left.
Teardown ==
  /\ proc = "unwinding"
  /\ proc' = "exiting"
  /\ cancelReq' = cancelReq \cup Live
  /\ late' = {}
  /\ UNCHANGED <<cfg, db, workspace, control, phase, fgCancelled>>

\* run() raises because of this task: no handler, straight to the teardown.
RunRaises(cause) ==
  /\ proc = "up"
  /\ cause
  /\ proc' = "exiting"
  /\ cancelReq' = cancelReq \cup Live
  /\ CancelCoordinator

TaskRaised == RunRaises(coord = "raised")
OtherTaskRaised == "run_crash" \in Environment /\ RunRaises(TRUE)

Exit ==
  /\ proc = "exiting"
  /\ Live = {}
  /\ coord \in Ended
  /\ proc' = "down"
  /\ UNCHANGED <<cfg, db, workspace, control, phase, cancelReq, late, fgCancelled>>

Crash ==
  /\ "crash" \in Environment
  /\ proc \notin {"down", "reconciled"}
  /\ proc' = "down"
  /\ UNCHANGED <<cfg, db, workspace, control, phase, cancelReq, late, fgCancelled>>

\* The process dies after _persist_verification, before the status is written.
CrashBeforeStatus(a) ==
  /\ "crash" \in Environment
  /\ proc \notin {"down", "reconciled"}
  /\ phase[a] = "verifying" /\ a \notin cancelReq
  /\ \E v \in {"passed", "failed"} : verdict' = [verdict EXCEPT ![a] = v]
  /\ proc' = "down"
  /\ UNCHANGED <<cfg, taskStatus, winner, status, workspace, control, phase,
                 cancelReq, late, fgCancelled>>

\* reconcile_orphans at a later start.
Reconcile ==
  /\ proc = "down"
  /\ proc' = "reconciled"
  /\ status' = [a \in Attempts |->
                  CASE status[a] = "running"                    -> "orphaned"
                    [] status[a] \in {"starting", "verifying"}  -> "failed"
                    [] OTHER                                    -> status[a]]
  /\ taskStatus' = IF winner = None /\ taskStatus \in {"running", "verifying"}
                   THEN "failed" ELSE taskStatus
  /\ UNCHANGED <<cfg, winner, verdict, workspace, control, phase, cancelReq, late,
                 fgCancelled>>

Process == PersistCancellation \/ Teardown \/ TaskRaised \/ Exit

\* Nothing is left to happen: the model stutters instead of deadlocking.
Settled ==
  \/ proc \in {"down", "reconciled"}
  \/ coord \in Returned /\ Live = {}
Terminated == Settled /\ UNCHANGED vars

Next ==
  \/ Coordinator \/ HedgeTimeout
  \/ \E a \in Attempts : Attempt(a) \/ CrashBeforeStatus(a)
  \/ FgCancel \/ Interrupt \/ OtherTaskRaised \/ Crash
  \/ Process \/ Reconcile
  \/ Terminated

\* The event loop runs every ready coroutine; agents and verifiers time out.
Fairness ==
  /\ WF_vars(Coordinator)
  /\ \A a \in Attempts : WF_vars(Attempt(a))
  /\ WF_vars(Process)

Spec == Init /\ [][Next]_vars
FairSpec == Spec /\ Fairness

-------------------------------------------------------------------------------
(* Properties.                                                             *)

TypeOK ==
  /\ cfg \in Configs
  /\ taskStatus \in TaskStatus
  /\ winner \in Attempts \cup {None}
  /\ status \in [Attempts -> AttemptStatus \cup {"absent"}]
  /\ verdict \in [Attempts -> {"none", "passed", "failed"}]
  /\ workspace \in [Attempts -> {"absent", "present", "removed"}]
  /\ coord \in {"prep", "hedge_timer", "racing", "reaping", "abandoning",
                "repair_prep", "repairing"} \cup Ended
  /\ waiting \subseteq {1, 2}
  /\ used \in 0..MaxOrdinal
  /\ source \in Attempts \cup {None}
  /\ phase \in [Attempts -> {"idle"} \cup Alive \cup Finished]
  /\ cancelReq \subseteq Attempts
  /\ proc \in {"up", "stopping", "unwinding", "exiting", "down", "reconciled"}
  /\ late \subseteq Attempts
  /\ fgCancelled \in BOOLEAN

\* The winner is an attempt whose own verification commands all passed, its row
\* is the only one with status 'winner', and no later write to a row (a loser's
\* cancellation, the run's cancellation handler, the reconciliation of orphans,
\* all of them unconditional or keyed by status alone) takes it away.
WinnerPassedVerification ==
  /\ winner # None => verdict[winner] = "passed"
  /\ \A a \in Attempts : status[a] = "winner" <=> a = winner

\* tasks.status is 'verified' exactly while the task has a winner.  Four writers
\* set the status without reading it (task failed, running, verifying, and the
\* cancellations); none may hit a task that has been won.
VerifiedIffWinner == taskStatus = "verified" <=> winner # None

\* The winner's worktree is on disk from the claim on: dependants and the
\* delivery are built from it, while losers clean theirs up concurrently.
WinnerWorkspaceKept == winner # None => workspace[winner] = "present"

\* When _run_task returns, none of the task's coroutines is left: the task's
\* resource keys are released at that point and may go to another task.
NoWorkAfterReturn == coord \in Returned => Live = {}

\* The value _run_task returns, from which the run decides what to start next
\* and whether it succeeded, agrees with the rows, whatever `fg cancel` wrote
\* meanwhile.
ReturnMatchesRows ==
  /\ coord = "true" => winner # None
  /\ coord = "false" => winner = None /\ taskStatus \in {"failed", "cancelled"}

\* limits.max_attempts bounds primary, hedge and repairs together, and a task
\* that is not replay-safe never has two attempts at work at the same time.
AttemptLimits ==
  /\ \A a \in Attempts : phase[a] # "idle" => a <= cfg.maxAttempts
  /\ cfg.replaySafe \/ Cardinality(Live) <= 1

\* A repair starts from the worktree of an attempt whose verification failed:
\* nobody has removed that worktree, and the verdict it repairs is on record.
RepairSourceIntact ==
  coord \in {"repair_prep", "repairing"} =>
    /\ source \in 1..used
    /\ workspace[source] = "present"
    /\ verdict[source] = "failed"

\* The transition check in front of a repair can only fail, and take the whole
\* run down with a TransitionError, after an `fg cancel`.
RepairAdmissible ==
  proc = "up" /\ coord = "repair_prep" /\ taskStatus # "verifying" => fgCancelled

\* What passed verification is not thrown away: a task that returns without a
\* winner although one of its attempts passed has been cancelled by `fg cancel`.
PassNotWasted ==
  coord = "false" /\ (\E a \in Attempts : verdict[a] = "passed") => fgCancelled

\* No ordinal is given to two attempts (UNIQUE(task_id, ordinal) would raise in
\* the middle of the run): a coroutine about to insert its row finds none.
FreshOrdinals ==
  \A a \in Attempts : phase[a] \in {"prep", "slot"} =>
    status[a] = "absent" /\ verdict[a] = "none"

\* The attempts of a task add up after any race and any repairs: as many as
\* the settings allow, no ordinal twice, and a repair starts only from a
\* failed attempt that may be repaired and whose worktree is still there.
AttemptsConsistent == TypeOK /\ AttemptLimits /\ FreshOrdinals /\ RepairSourceIntact /\ RepairAdmissible

\* The detailed execution implements the award promised in WinnerArbitration.
Arbitration ==
  INSTANCE WinnerArbitration WITH
    kept <- {a \in Attempts : workspace[a] = "present"},
    passed <- {a \in Attempts : verdict[a] = "passed"}
ImplementsArbitration == Arbitration!Spec

\* Every execution of the task comes to rest: the coordinator returns and no
\* attempt is left, or the process has ended.
TaskSettles == <>[]Settled

-------------------------------------------------------------------------------
(* What the documents say and the code does not do.                        *)

\* "The only legal source of domain state transitions" (the table) lets no
\* cancelled task change again.
CancelledIsFinal == [][taskStatus = "cancelled" => taskStatus' = "cancelled"]_vars

===============================================================================
