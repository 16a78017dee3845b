---------------------------- MODULE Reverification ----------------------------
(***************************************************************************)
(* `fg reverify` (service.py reverify and the rows repository.py writes):  *)
(* the verifier runs once more on the preserved worktree of an attempt of  *)
(* a failed single-task run, without a worker.  Every invocation is an     *)
(* operating-system process of its own; a second one, `fg cancel` and the  *)
(* reconciliation after a crash write to the same SQLite rows between any  *)
(* two of its transactions.                                                *)
(*                                                                         *)
(* A definition named X_Fault, right before X, is X with a plausible bug.  *)
(***************************************************************************)
EXTENDS Lifecycle, Integers, Sequences, FiniteSets

CONSTANTS
  Processes,     \* the `fg reverify` processes
  Attempts,      \* the attempts of the run's only task
  NoAttempt,     \* no attempt
  MaxRounds,     \* MAX_VERIFICATION_ROUNDS
  MaxLaunches,   \* bound on the invocations of `fg reverify`
  Environment    \* which of the events below the instance lets happen

Events == {"fg_cancel", "interrupt", "crash"}

ASSUME AttemptsAssumption == NoAttempt \notin Attempts
ASSUME RoundsAssumption == MaxRounds \in Nat \ {0}
ASSUME LaunchesAssumption == MaxLaunches \in Nat
ASSUME EnvironmentAssumption == Environment \subseteq Events

VARIABLES
  run, task, winner,   \* runs.status, tasks.status, tasks.winner_attempt_id
  attempt,             \* attempts.status
  rounds,              \* verification_runs: the verdict of each round
  preserved,           \* attempts whose worktree still has its identity
  proc,                \* every process: where it is and what it remembers
  launches,            \* how many invocations there have been
  reconciled           \* reconcile_orphans has run after a crash

rows == <<run, task, winner, attempt, rounds>>
vars == <<rows, preserved, proc, launches, reconciled>>

-------------------------------------------------------------------------------
Active == {"inspecting", "verifying", "numbering", "recording", "failing",
           "passing", "claiming", "closing"}
Ended == {"idle", "refused", "lost", "won", "failed"}
Places == Active \cup Ended \cup {"admitting", "crashed"}
Verdicts == {"passed", "failed"}

\* What a process remembers between two of its transactions.
Fresh == [at |-> "idle", target |-> NoAttempt, verdict |-> "failed", round |-> 0]

Quiet == \A p \in Processes : proc[p].at \notin Active
Crashed == \E p \in Processes : proc[p].at = "crashed"

Goto(p, place) == proc' = [proc EXCEPT ![p].at = place]

\* A run the scheduler left failed: its attempts failed, with a round of
\* their own or (the worker's events could not be read) without one.
Init ==
  /\ run = "failed" /\ task = "failed" /\ winner = NoAttempt
  /\ attempt \in [Attempts -> {"failed", "cancelled"}]
  /\ rounds \in [Attempts -> {<<>>, <<"failed">>}]
  /\ preserved \in SUBSET Attempts
  /\ proc = [p \in Processes |-> Fresh]
  /\ launches = 0
  /\ reconciled = FALSE

-------------------------------------------------------------------------------
\* The row is read and checked against the command line, the manifest and the
\* repository; the rounds are counted here, before the transaction.
Launch(p) ==
  /\ proc[p].at \in Ended /\ launches < MaxLaunches
  /\ launches' = launches + 1
  /\ \E a \in Attempts, matches \in BOOLEAN :
       LET checked == matches /\ Len(rounds[a]) < MaxRounds
       IN proc' = [proc EXCEPT ![p] =
            [Fresh EXCEPT !.target = a, !.at = IF checked THEN "admitting" ELSE "refused"]]
  /\ UNCHANGED <<rows, preserved, reconciled>>

\* One transaction: only a failed run, task and attempt with no winner reopen.
Admissible_OnlyNoWinner(a) == winner = NoAttempt
Admissible(a) ==
  run = "failed" /\ task = "failed" /\ attempt[a] = "failed" /\ winner = NoAttempt

Reopens(a) ==
  /\ Allowed("failed", "running", RUN_TRANSITIONS)
  /\ Allowed("failed", "verifying", TASK_TRANSITIONS)
  /\ Allowed("failed", "verifying", ATTEMPT_TRANSITIONS)

Admit(p) ==
  LET a == proc[p].target IN
  /\ proc[p].at = "admitting"
  /\ \/ /\ Admissible(a) /\ Reopens(a)
        /\ run' = "running" /\ task' = "verifying"
        /\ attempt' = [attempt EXCEPT ![a] = "verifying"]
        /\ Goto(p, "inspecting")
     \/ /\ ~Admissible(a)
        /\ Goto(p, "refused")
        /\ UNCHANGED <<run, task, attempt>>
  /\ UNCHANGED <<winner, rounds, preserved, launches, reconciled>>

\* The persisted identity, the marker and git's registration must agree.
Inspect_ReturnsEarly(p) ==
  /\ proc[p].at = "inspecting"
  /\ Goto(p, IF proc[p].target \in preserved THEN "verifying" ELSE "refused")
  /\ UNCHANGED <<rows, preserved, launches, reconciled>>
Inspect(p) ==
  /\ proc[p].at = "inspecting"
  /\ Goto(p, IF proc[p].target \in preserved THEN "verifying" ELSE "failing")
  /\ UNCHANGED <<rows, preserved, launches, reconciled>>

\* The verifier passes, fails or raises; the commands all have timeouts.
Verify(p) ==
  /\ proc[p].at = "verifying"
  /\ \/ \E v \in Verdicts :
          proc' = [proc EXCEPT ![p].at = "numbering", ![p].verdict = v]
     \/ Goto(p, "failing")
  /\ UNCHANGED <<rows, preserved, launches, reconciled>>

\* _persist_verification: a transaction numbers the round, the output files
\* are written, a second transaction inserts the rows (unique per round).
NumberRound(p) ==
  /\ proc[p].at = "numbering"
  /\ proc' = [proc EXCEPT ![p].at = "recording",
                          ![p].round = Len(rounds[proc[p].target]) + 1]
  /\ UNCHANGED <<rows, preserved, launches, reconciled>>

RecordRound(p) ==
  LET a == proc[p].target
      inserted == proc[p].round \notin DOMAIN rounds[a]   \* or IntegrityError
  IN
  /\ proc[p].at = "recording"
  /\ rounds' = IF inserted THEN [rounds EXCEPT ![a] = Append(@, proc[p].verdict)]
                           ELSE rounds
  /\ Goto(p, IF inserted /\ proc[p].verdict = "passed" THEN "passing" ELSE "failing")
  /\ UNCHANGED <<run, task, winner, attempt, preserved, launches, reconciled>>

\* _finish_reverification_failure, after a failed verdict or an exception.
FinishFailure_LeavesRun(p) ==
  LET a == proc[p].target IN
  /\ proc[p].at = "failing"
  /\ attempt' = [attempt EXCEPT ![a] = IF @ = "verifying" THEN "failed" ELSE @]
  /\ task' = IF task = "verifying" /\ winner = NoAttempt THEN "failed" ELSE task
  /\ Goto(p, "failed")
  /\ UNCHANGED <<run, winner, rounds, preserved, launches, reconciled>>
FinishFailure(p) ==
  LET a == proc[p].target IN
  /\ proc[p].at = "failing"
  /\ attempt' = [attempt EXCEPT ![a] = IF @ = "verifying" THEN "failed" ELSE @]
  /\ task' = IF task = "verifying" /\ winner = NoAttempt THEN "failed" ELSE task
  /\ run' = IF run = "running" THEN "failed" ELSE run
  /\ Goto(p, "failed")
  /\ UNCHANGED <<winner, rounds, preserved, launches, reconciled>>

\* A passing round takes three transactions: the attempt passes, ...
MarkPassed(p) ==
  /\ proc[p].at = "passing"
  /\ attempt' = [attempt EXCEPT ![proc[p].target] = "passed"]
  /\ Goto(p, "claiming")
  /\ UNCHANGED <<run, task, winner, rounds, preserved, launches, reconciled>>

\* ... claims the task as any other attempt does, ...
Claim(p) ==
  LET a == proc[p].target IN
  /\ proc[p].at = "claiming"
  /\ \/ /\ winner = NoAttempt /\ task \notin {"cancelled", "blocked"}
        /\ winner' = a /\ task' = "verified"
        /\ attempt' = [b \in Attempts |->
             IF b = a THEN "winner"
             ELSE IF attempt[b] \in {"passed", "verifying", "agent_completed"} THEN "superseded"
             ELSE attempt[b]]
     \/ /\ winner # NoAttempt \/ task \in {"cancelled", "blocked"}
        /\ UNCHANGED <<winner, task, attempt>>
  /\ Goto(p, "closing")
  /\ UNCHANGED <<run, rounds, preserved, launches, reconciled>>

\* ... and the run is closed with the outcome, whatever its status is now.
Close_AlwaysCompletes(p) ==
  LET a == proc[p].target
      claimed == winner = a
  IN
  /\ proc[p].at = "closing"
  /\ run' = "completed"
  /\ attempt' = [attempt EXCEPT ![a] = IF ~claimed /\ @ = "passed" THEN "superseded" ELSE @]
  /\ Goto(p, "won")
  /\ UNCHANGED <<task, winner, rounds, preserved, launches, reconciled>>
Close(p) ==
  LET a == proc[p].target
      claimed == winner = a
  IN
  /\ proc[p].at = "closing"
  /\ run' = IF claimed THEN "completed" ELSE "failed"
  /\ attempt' = [attempt EXCEPT ![a] = IF ~claimed /\ @ = "passed" THEN "superseded" ELSE @]
  /\ Goto(p, IF claimed THEN "won" ELSE "lost")
  /\ UNCHANGED <<task, winner, rounds, preserved, launches, reconciled>>

Step(p) ==
  \/ Admit(p) \/ Inspect(p) \/ Verify(p) \/ NumberRound(p) \/ RecordRound(p)
  \/ FinishFailure(p) \/ MarkPassed(p) \/ Claim(p) \/ Close(p)

-------------------------------------------------------------------------------
\* CancelledError reaches the two awaits of the try block.
Interrupt(p) ==
  /\ "interrupt" \in Environment
  /\ proc[p].at \in {"inspecting", "verifying"}
  /\ Goto(p, "failing")
  /\ UNCHANGED <<rows, preserved, launches, reconciled>>

Crash(p) ==
  /\ "crash" \in Environment
  /\ proc[p].at \in Active
  /\ Goto(p, "crashed")
  /\ UNCHANGED <<rows, preserved, launches, reconciled>>

\* reconcile_orphans, after a crash: attempts and tasks, not runs.
Reconcile ==
  /\ Crashed /\ ~reconciled
  /\ attempt' = [a \in Attempts |->
       CASE attempt[a] = "running"                    -> "orphaned"
         [] attempt[a] \in {"starting", "verifying"}  -> "failed"
         [] OTHER                                     -> attempt[a]]
  /\ task' = IF task \in {"running", "verifying"} /\ winner = NoAttempt
             THEN "failed" ELSE task
  /\ reconciled' = TRUE
  /\ UNCHANGED <<run, winner, rounds, preserved, proc, launches>>

Cancellable == task \notin {"verified", "failed", "blocked", "cancelled"}

\* `fg cancel RUN`: the run while it is running, and its unfinished tasks.
FgCancelRun ==
  /\ "fg_cancel" \in Environment
  /\ run = "running"
  /\ run' = "cancelled"
  /\ task' = IF Cancellable THEN "cancelled" ELSE task
  /\ UNCHANGED <<winner, attempt, rounds, preserved, proc, launches, reconciled>>

\* `fg cancel RUN --task TASK` leaves the run's row alone.
FgCancelTask ==
  /\ "fg_cancel" \in Environment
  /\ Cancellable
  /\ task' = "cancelled"
  /\ UNCHANGED <<run, winner, attempt, rounds, preserved, proc, launches, reconciled>>

\* Nobody invokes the command any more.
Settled ==
  /\ \A p \in Processes : proc[p].at \in Ended \cup {"crashed"}
  /\ UNCHANGED vars

Next ==
  \/ \E p \in Processes : Launch(p) \/ Step(p) \/ Interrupt(p) \/ Crash(p)
  \/ Reconcile \/ FgCancelRun \/ FgCancelTask
  \/ Settled

Spec == Init /\ [][Next]_vars

\* A process that is not killed goes on to its next transaction; nothing makes
\* anybody launch, interrupt, cancel or crash one.
FairSpec == Spec /\ \A p \in Processes : WF_vars(Step(p))

-------------------------------------------------------------------------------
\* Types of the rows and of what the processes remember.
TypeOK ==
  /\ run \in RunStatus /\ task \in TaskStatus
  /\ winner \in Attempts \cup {NoAttempt}
  /\ attempt \in [Attempts -> AttemptStatus]
  /\ rounds \in [Attempts -> Seq(Verdicts)]
  /\ preserved \subseteq Attempts
  /\ proc \in [Processes -> [at: Places, target: Attempts \cup {NoAttempt},
                             verdict: Verdicts, round: Nat]]
  /\ launches \in 0..MaxLaunches
  /\ reconciled \in BOOLEAN

\* However many processes were started, at most one of them is between its
\* admission and its end, so a round number is never used twice and two
\* rounds never share a directory (round-NNN) of output files.
OneVerification ==
  /\ \A p, q \in Processes :
       proc[p].at \in Active /\ proc[q].at \in Active => p = q
  /\ \A p \in Processes : proc[p].at = "recording" =>
       proc[p].round = Len(rounds[proc[p].target]) + 1

\* The award of the task and its evidence belong together: the winner's last
\* recorded round is the one that passed, and its status says so.
WinnerIsVerified ==
  /\ winner # NoAttempt =>
       /\ rounds[winner] # <<>> /\ rounds[winner][Len(rounds[winner])] = "passed"
       /\ attempt[winner] = "winner" /\ task = "verified"
  /\ \A a \in Attempts : attempt[a] = "winner" => winner = a

\* Whenever no process is at work and none was killed, the rows are at rest
\* and agree with each other: nothing is left running, verifying or passed,
\* and the run is completed exactly when the task has a winner.
RestsConsistent ==
  Quiet /\ ~Crashed =>
    /\ run # "running" /\ task # "verifying"
    /\ (run = "completed") <=> (winner # NoAttempt)
    /\ \A a \in Attempts : attempt[a] \notin {"verifying", "passed"}

\* The rows make sense to whoever reads them between two transactions, and
\* those of an award and of a run at rest agree with each other.
RowsConsistent == TypeOK /\ WinnerIsVerified /\ RestsConsistent

\* What the command told its user stays true: after "won" the attempt is the
\* winner of a completed run; after "lost" its task is cancelled and the attempt
\* superseded.
OutcomeIsTrue ==
  \A p \in Processes :
    /\ proc[p].at = "won" => winner = proc[p].target /\ run = "completed"
    /\ proc[p].at = "lost" => task = "cancelled" /\ attempt[proc[p].target] = "superseded"

\* No attempt is verified more than MAX_VERIFICATION_ROUNDS times (README.md,
\* "capped at three total verification rounds").
RoundLimit == \A a \in Attempts : Len(rounds[a]) <= MaxRounds

\* A reverification that was admitted ends unless it is killed: it does not
\* stay between two of its transactions, whatever is cancelled or interrupted.
ReverificationEnds ==
  \A p \in Processes :
    proc[p].at \in Active ~> proc[p].at \in {"won", "lost", "failed", "crashed"}

===============================================================================
