---------------------------- MODULE TaskRaceProofs ----------------------------
(***************************************************************************)
(* Proofs about TaskRace, for every set of settings, every bound on the    *)
(* ordinals and every environment.                                         *)
(*                                                                         *)
(* The argument.  The writes that could damage an award are unconditional  *)
(* SQL updates; what keeps them away is where the coroutines are when they *)
(* execute them.  So the inductive invariant ties rows to coroutines: the  *)
(* winner's coroutine has ended 'verified' and so can neither clean up nor *)
(* write any more; every other coroutine that is still at work while there *)
(* is a winner has a cancel() pending, so its next step is the             *)
(* cancellation; and the coordinator's position says which coroutines can  *)
(* be alive, so that a claim leaves none out.                              *)
(***************************************************************************)
EXTENDS TaskRace, FiniteSetTheorems, TLAPS

\* An attempt that has its worktree works in it; one that ended verified passed.
PhaseMatchesDisk ==
  \A a \in Attempts :
    /\ phase[a] \in {"slot", "starting", "streaming", "verifying", "verified"}
         => workspace[a] = "present"
    /\ phase[a] = "verified" => verdict[a] = "passed"

WinnerEndedVerified == winner # None => phase[winner] = "verified"

OneWinnerRow == \A a \in Attempts : status[a] = "winner" <=> a = winner

\* While there is a winner, whoever could still write has a cancel() pending.
LosersCancelled ==
  winner # None =>
    \A a \in Attempts :
      phase[a] \in {"prep", "slot", "starting", "streaming", "verifying"}
        => a \in cancelReq

\* What the coordinator's position says about the award and the coroutines.
CoordinatorShape ==
  /\ coord \in {"prep", "hedge_timer", "racing", "repair_prep", "repairing",
                "false"} => winner = None
  /\ coord \in {"true", "reaping"} => winner # None
  /\ coord = "prep" => \A a \in Attempts : phase[a] = "idle"
  /\ coord \in {"hedge_timer", "racing"} =>
       /\ \A a \in Attempts : phase[a] \in Alive => a \in waiting
       /\ \A a \in Attempts : a > 2 => phase[a] = "idle"
  /\ coord = "hedge_timer" => waiting = {1}
  /\ coord = "repair_prep" =>
       /\ used + 1 \in Attempts
       /\ \A a \in Attempts : a > used => phase[a] = "idle"
       /\ \A a \in Attempts : phase[a] \notin Alive
  /\ coord = "repairing" =>
       /\ used + 1 \in Attempts
       /\ \A a \in Attempts : a > used + 1 => phase[a] = "idle"
       /\ \A a \in Attempts : phase[a] \in Alive => a = used + 1
  /\ coord \in Returned => \A a \in Attempts : phase[a] \notin Alive
  /\ coord = "false" => taskStatus \in {"failed", "cancelled"}

RaceInv ==
  /\ TypeOK
  /\ taskStatus # "blocked"
  /\ PhaseMatchesDisk
  /\ WinnerEndedVerified
  /\ OneWinnerRow
  /\ VerifiedIffWinner
  /\ LosersCancelled
  /\ CoordinatorShape
-------------------------------------------------------------------------------
\* It holds before anything has started.
LEMMA RaceInvInit == Init => RaceInv
<1> SUFFICES ASSUME Init PROVE RaceInv
  OBVIOUS
<1> USE ConfigsAssumption, OrdinalAssumption
    DEF RaceInv, Init, Attempts, None, Alive, Holding, Finished, Returned, Ended
<1>1. TypeOK
  <2>1. fgCancelled \in BOOLEAN
    BY Zenon
  <2>2. /\ status \in [Attempts -> AttemptStatus \cup {"absent"}]
        /\ verdict \in [Attempts -> {"none", "passed", "failed"}]
        /\ workspace \in [Attempts -> {"absent", "present", "removed"}]
        /\ phase \in [Attempts -> {"idle"} \cup Alive \cup Finished]
    OBVIOUS
  <2>3. taskStatus \in TaskStatus
    BY DEF TaskStatus
  <2>4. QED
    BY <2>1, <2>2, <2>3 DEF TypeOK
<1>2. taskStatus # "blocked" /\ VerifiedIffWinner
  BY DEF VerifiedIffWinner
<1>3. OneWinnerRow
  BY DEF OneWinnerRow
<1>4. PhaseMatchesDisk /\ WinnerEndedVerified /\ LosersCancelled
  BY DEF PhaseMatchesDisk, WinnerEndedVerified, LosersCancelled
<1>5. CoordinatorShape
  BY DEF CoordinatorShape
<1>6. QED
  BY <1>1, <1>2, <1>3, <1>4, <1>5

\* What the cancellation of the coordinator can change.
LEMMA CancelledWhere ==
  ASSUME TypeOK, CancelCoordinator
  PROVE  /\ UNCHANGED <<cfg, db, waiting, used, source, phase, late, fgCancelled>>
         /\ workspace' \in [Attempts -> {"absent", "present", "removed"}]
         /\ \A a \in Attempts : workspace'[a] \in {workspace[a], "present"}
         /\ coord' = coord \/ coord' = "cancelled" \/ (coord = "reaping" /\ coord' = "abandoning")
BY DEF CancelCoordinator, TypeOK

\* Every step of a coroutine, of the process and of another process keeps it.
LEMMA RaceInvNext == RaceInv /\ [Next]_vars => RaceInv'
<1> SUFFICES ASSUME RaceInv, [Next]_vars PROVE RaceInv'
  OBVIOUS
<1> USE ConfigsAssumption, OrdinalAssumption
    DEF RaceInv, TypeOK, PhaseMatchesDisk, WinnerEndedVerified, OneWinnerRow,
        VerifiedIffWinner, LosersCancelled, CoordinatorShape, Attempts, None,
        Alive, Holding, Finished, Returned, Ended, TaskStatus, AttemptStatus,
        Settings, Reach, db, control
<1>1. CASE PrepareRejected
  BY <1>1 DEF PrepareRejected
<1>2. CASE PrepareTask
  BY <1>2 DEF PrepareTask
<1>3. CASE HedgeTimeout
  BY <1>3 DEF HedgeTimeout, LaunchBackup
<1>4. CASE HedgeAfterPrimary
  BY <1>4 DEF HedgeAfterPrimary, LaunchBackup
<1>5. CASE RaceRaises
  BY <1>5 DEF RaceRaises
<1>6. CASE RaceContinues
  <2> USE <1>6 DEF RaceContinues, RepairOrFail, FailTask, FeedbackSource, Done
  <2>1. TypeOK'
    OBVIOUS
  <2>2. (taskStatus # "blocked")'
    OBVIOUS
  <2>3. PhaseMatchesDisk'
    OBVIOUS
  <2>4. WinnerEndedVerified'
    OBVIOUS
  <2>5. OneWinnerRow'
    OBVIOUS
  <2>6. VerifiedIffWinner'
    OBVIOUS
  <2>7. LosersCancelled'
    OBVIOUS
  <2>8. CoordinatorShape'
    <3>1. \A a \in Attempts : phase[a] \in Alive => a \in waiting'
      OBVIOUS
    <3>2. CASE waiting' # {}
      BY <3>1, <3>2
    <3>3. CASE waiting' = {}
      <4>1. \A a \in Attempts : phase[a] \notin Alive
        BY <3>1, <3>3
      <4>2. used' \in {1, 2} /\ (used' = 1 => phase[2] = "idle")
        BY <3>3
      <4>3. \A a \in Attempts : a > used' => phase[a] = "idle"
        BY <4>2
      <4>4. coord' = "repair_prep" => used' + 1 \in Attempts
        BY <3>3, <4>2
      <4>5. coord' = "false" => taskStatus' = "failed" /\ winner' = None
        BY <3>3
      <4>6. coord' \in {"repair_prep", "false"} /\ phase' = phase
        BY <3>3
      <4>7. winner' = None
        BY <3>3
      <4>8. QED
        BY <4>1, <4>3, <4>4, <4>5, <4>6, <4>7
    <3>4. QED
      BY <3>2, <3>3
  <2>9. QED
    BY <2>1, <2>2, <2>3, <2>4, <2>5, <2>6, <2>7, <2>8
<1>7. CASE ReapLosers
  <2> USE <1>7 DEF ReapLosers, Live
  <2>1. TypeOK'
    OBVIOUS
  <2>2. (taskStatus # "blocked")'
    OBVIOUS
  <2>3. PhaseMatchesDisk'
    OBVIOUS
  <2>4. WinnerEndedVerified'
    OBVIOUS
  <2>5. OneWinnerRow'
    OBVIOUS
  <2>6. VerifiedIffWinner'
    OBVIOUS
  <2>7. LosersCancelled'
    OBVIOUS
  <2>8. CoordinatorShape'
    <3>1. \A a \in Attempts : phase[a] \notin Alive
      OBVIOUS
    <3>2. phase' = phase /\ winner' = winner /\ coord' \in {"true", "cancelled"}
      OBVIOUS
    <3>3. coord = "reaping" => winner # None
      OBVIOUS
    <3>4. QED
      BY <3>1, <3>2, <3>3
  <2>9. QED
    BY <2>1, <2>2, <2>3, <2>4, <2>5, <2>6, <2>7, <2>8
<1>8. CASE RepairStarts
  BY <1>8 DEF RepairStarts
<1>9. CASE RepairSkipped
  BY <1>9 DEF RepairSkipped, FailTask
<1>10. CASE RepairPrepRaises
  BY <1>10 DEF RepairPrepRaises
<1>11. CASE RepairClaims
  BY <1>11 DEF RepairClaims, Repairing, ClaimWinner, Claimable, Superseded
<1>12. CASE RepairClaimLost
  BY <1>12 DEF RepairClaimLost, Repairing, Claimable
<1>13. CASE RepairFails
  <2> USE <1>13 DEF RepairFails, Repairing, RepairOrFail, FailTask
  <2>1. TypeOK'
    OBVIOUS
  <2>2. (taskStatus # "blocked")'
    OBVIOUS
  <2>3. PhaseMatchesDisk'
    OBVIOUS
  <2>4. WinnerEndedVerified'
    OBVIOUS
  <2>5. OneWinnerRow'
    OBVIOUS
  <2>6. VerifiedIffWinner'
    OBVIOUS
  <2>7. LosersCancelled'
    OBVIOUS
  <2>8. CoordinatorShape'
    <3>1. used' = used + 1 /\ phase' = phase /\ winner' = None
      OBVIOUS
    <3>2. \A a \in Attempts : phase[a] \notin Alive /\ (a > used' => phase[a] = "idle")
      OBVIOUS
    <3>3. coord' = "repair_prep" => used' + 1 \in Attempts
      <4>1. cfg.maxAttempts \in 1..MaxOrdinal
        OBVIOUS
      <4>2. QED
        BY <3>1, <4>1
    <3>4. \/ coord' = "repair_prep"
          \/ coord' = "false" /\ taskStatus' = "failed"
      BY <3>1
    <3>5. QED
      BY <3>1, <3>2, <3>3, <3>4
  <2>9. QED
    BY <2>1, <2>2, <2>3, <2>4, <2>5, <2>6, <2>7, <2>8
<1>14. CASE RepairAborts
  BY <1>14 DEF RepairAborts, Repairing
<1>15. CASE FgCancel
  BY <1>15 DEF FgCancel
<1>16. CASE Interrupt \/ TaskRaised \/ OtherTaskRaised
  <2>0. /\ UNCHANGED <<cfg, db, waiting, used, source, phase, late, fgCancelled>>
        /\ cancelReq \subseteq cancelReq' /\ cancelReq' \subseteq Attempts
        /\ proc' \in {"stopping", "exiting"}
        /\ workspace' \in [Attempts -> {"absent", "present", "removed"}]
        /\ \A a \in Attempts : workspace'[a] \in {workspace[a], "present"}
        /\ coord' = coord \/ coord' = "cancelled" \/ (coord = "reaping" /\ coord' = "abandoning")
    <3>1. CancelCoordinator
      BY <1>16 DEF Interrupt, TaskRaised, OtherTaskRaised, RunRaises
    <3>2. Live \subseteq Attempts
      BY DEF Live
    <3>3. /\ cancelReq' \in {cancelReq, cancelReq \cup Live}
          /\ proc' \in {"stopping", "exiting"}
      BY <1>16 DEF Interrupt, TaskRaised, OtherTaskRaised, RunRaises
    <3>4. QED
      BY <3>1, <3>2, <3>3, CancelledWhere
  <2>1. TypeOK'
    BY <2>0
  <2>2. (taskStatus # "blocked")'
    BY <2>0
  <2>3. PhaseMatchesDisk'
    BY <2>0
  <2>4. WinnerEndedVerified'
    BY <2>0
  <2>5. OneWinnerRow'
    BY <2>0
  <2>6. VerifiedIffWinner'
    BY <2>0
  <2>7. LosersCancelled'
    BY <2>0
  <2>8. CoordinatorShape'
    BY <2>0
  <2>9. QED
    BY <2>1, <2>2, <2>3, <2>4, <2>5, <2>6, <2>7, <2>8
<1>17. CASE PersistCancellation
  BY <1>17 DEF PersistCancellation, Live
<1>18. CASE Teardown
  <2> USE <1>18 DEF Teardown, Live
  <2>1. TypeOK'
    OBVIOUS
  <2>2. (taskStatus # "blocked")'
    OBVIOUS
  <2>3. PhaseMatchesDisk'
    OBVIOUS
  <2>4. WinnerEndedVerified'
    OBVIOUS
  <2>5. OneWinnerRow'
    OBVIOUS
  <2>6. VerifiedIffWinner'
    OBVIOUS
  <2>7. LosersCancelled'
    OBVIOUS
  <2>8. CoordinatorShape'
    OBVIOUS
  <2>9. QED
    BY <2>1, <2>2, <2>3, <2>4, <2>5, <2>6, <2>7, <2>8
<1>19. CASE Exit
  BY <1>19 DEF Exit
<1>20. CASE Crash
  BY <1>20 DEF Crash
<1>21. CASE Reconcile
  BY <1>21 DEF Reconcile
<1>22. ASSUME NEW a \in Attempts, RaceClaim(a) PROVE RaceInv'
  <2> USE <1>22 DEF RaceClaim, ClaimWinner, Claimable, Superseded, Pending, Done
  <2>1. TypeOK'
    <3>1. Pending \subseteq Attempts
      <4>1. Pending \subseteq {1, 2}
        OBVIOUS
      <4>2. {1, 2} \subseteq 1..MaxOrdinal
        OBVIOUS
      <4>3. QED
        BY <4>1, <4>2
    <3>2. status' \in [Attempts -> AttemptStatus \cup {"absent"}]
      OBVIOUS
    <3>3. coord' \in Returned \cup {"reaping"} /\ waiting' = {} /\ winner' = a
      OBVIOUS
    <3>4. cancelReq' \subseteq Attempts
      BY <3>1
    <3>5. QED
      BY <3>2, <3>3, <3>4
  <2>2. (taskStatus # "blocked")'
    OBVIOUS
  <2>3. PhaseMatchesDisk'
    OBVIOUS
  <2>4. WinnerEndedVerified'
    OBVIOUS
  <2>5. OneWinnerRow'
    OBVIOUS
  <2>6. VerifiedIffWinner'
    OBVIOUS
  <2>7. LosersCancelled'
    OBVIOUS
  <2>8. CoordinatorShape'
    <3>1. \A b \in Attempts : phase[b] \in Alive => b \in Pending
      OBVIOUS
    <3>2. winner' # None /\ phase' = phase /\ coord' \in {"true", "reaping"}
      OBVIOUS
    <3>3. coord' = "true" => \A b \in Attempts : phase[b] \notin Alive
      BY <3>1
    <3>4. QED
      BY <3>2, <3>3
  <2>9. QED
    BY <2>1, <2>2, <2>3, <2>4, <2>5, <2>6, <2>7, <2>8
<1>23. ASSUME NEW a \in Attempts, PrepareBackup(a) PROVE RaceInv'
  BY <1>23 DEF PrepareBackup, Step, Goto
<1>24. ASSUME NEW a \in Attempts, AcquireSlot(a) PROVE RaceInv'
  BY <1>24 DEF AcquireSlot, Step, Goto
<1>25. ASSUME NEW a \in Attempts, WorkerStarted(a) PROVE RaceInv'
  BY <1>25 DEF WorkerStarted, Step, Goto
<1>26. ASSUME NEW a \in Attempts, StreamIncomplete(a) PROVE RaceInv'
  BY <1>26 DEF StreamIncomplete, Step, Goto
<1>27. ASSUME NEW a \in Attempts, WorkerCompleted(a) PROVE RaceInv'
  BY <1>27 DEF WorkerCompleted, Step, Goto
<1>28. ASSUME NEW a \in Attempts, Verified(a) PROVE RaceInv'
  BY <1>28 DEF Verified, Step, Goto
<1>29. ASSUME NEW a \in Attempts, NotVerified(a) PROVE RaceInv'
  BY <1>29 DEF NotVerified, Step, Goto
<1>30. ASSUME NEW a \in Attempts, AttemptRaises(a) PROVE RaceInv'
  BY <1>30 DEF AttemptRaises, Step, Goto
<1>31. ASSUME NEW a \in Attempts, CancelledEarly(a) PROVE RaceInv'
  BY <1>31 DEF CancelledEarly, Goto, Unprotected
<1>32. ASSUME NEW a \in Attempts, CancelledInFlight(a) PROVE RaceInv'
  BY <1>32 DEF CancelledInFlight, Goto
<1>33. ASSUME NEW a \in Attempts, WorkerCancelled(a) PROVE RaceInv'
  BY <1>33 DEF WorkerCancelled, Goto
<1>34. ASSUME NEW a \in Attempts, CleanUp(a) PROVE RaceInv'
  <2> USE <1>34 DEF CleanUp, Goto
  <2>1. TypeOK'
    <3>1. workspace' \in [Attempts -> {"absent", "present", "removed"}]
      OBVIOUS
    <3>2. phase' \in [Attempts -> {"idle"} \cup Alive \cup Finished]
      OBVIOUS
    <3>3. UNCHANGED <<cfg, db, control, cancelReq, proc, late, fgCancelled>>
      OBVIOUS
    <3>4. QED
      BY <3>1, <3>2, <3>3
  <2>2. (taskStatus # "blocked")'
    OBVIOUS
  <2>3. PhaseMatchesDisk'
    OBVIOUS
  <2>4. WinnerEndedVerified'
    OBVIOUS
  <2>5. OneWinnerRow'
    OBVIOUS
  <2>6. VerifiedIffWinner'
    OBVIOUS
  <2>7. LosersCancelled'
    OBVIOUS
  <2>8. CoordinatorShape'
    OBVIOUS
  <2>9. QED
    BY <2>1, <2>2, <2>3, <2>4, <2>5, <2>6, <2>7, <2>8
<1>35. ASSUME NEW a \in Attempts, CrashBeforeStatus(a) PROVE RaceInv'
  BY <1>35 DEF CrashBeforeStatus
<1>36. CASE UNCHANGED vars
  BY <1>36 DEF vars
<1>37. QED
  BY <1>1, <1>2, <1>3, <1>4, <1>5, <1>6, <1>7, <1>8, <1>9, <1>10, <1>11, <1>12, <1>13, <1>14, <1>15, <1>16, <1>17, <1>18, <1>19, <1>20, <1>21, <1>22, <1>23, <1>24, <1>25, <1>26, <1>27, <1>28, <1>29, <1>30, <1>31, <1>32, <1>33, <1>34, <1>35, <1>36
  DEF Next, Coordinator, Attempt, Process, Terminated

\* The invariant holds in every reachable state.
THEOREM RaceInvariant == Spec => []RaceInv
  BY RaceInvInit, RaceInvNext, PTL DEF Spec

-------------------------------------------------------------------------------
(* The properties of TaskRace that follow.                                 *)

\* Every variable keeps to its type: in particular the ordinals handed out stay
\* within the bound and only ordinals 1 and 2 ever race.
THEOREM TypeCorrect == Spec => []TypeOK
  BY RaceInvariant, PTL DEF RaceInv

\* ADR-004: only a verifier pass followed by the atomic claim makes a winner, and
\* no concurrent writer takes the award away or makes a second one.
THEOREM WinnerIsVerified == Spec => []WinnerPassedVerification
<1>1. RaceInv => WinnerPassedVerification
  BY DEF RaceInv, TypeOK, PhaseMatchesDisk, WinnerEndedVerified, OneWinnerRow,
         WinnerPassedVerification, None
<1>2. QED
  BY <1>1, RaceInvariant, PTL

\* The task row says 'verified' exactly while there is a winner.
THEOREM VerifiedMeansWon == Spec => []VerifiedIffWinner
  BY RaceInvariant, PTL DEF RaceInv

\* No loser's clean-up removes the winner's worktree.
THEOREM WinnerWorkspaceSurvives == Spec => []WinnerWorkspaceKept
<1>1. RaceInv => WinnerWorkspaceKept
  BY DEF RaceInv, TypeOK, PhaseMatchesDisk, WinnerEndedVerified,
         WinnerWorkspaceKept, None
<1>2. QED
  BY <1>1, RaceInvariant, PTL

\* Nothing of the task is still at work when its resources are released.
THEOREM ReturnsAlone == Spec => []NoWorkAfterReturn
<1>1. RaceInv => NoWorkAfterReturn
  BY DEF RaceInv, CoordinatorShape, NoWorkAfterReturn, Live
<1>2. QED
  BY <1>1, RaceInvariant, PTL

\* What the run loop is told agrees with the rows.
THEOREM ReturnsTheRows == Spec => []ReturnMatchesRows
<1>1. RaceInv => ReturnMatchesRows
  BY DEF RaceInv, CoordinatorShape, ReturnMatchesRows
<1>2. QED
  BY <1>1, RaceInvariant, PTL

-------------------------------------------------------------------------------
(* The refinement: every step is a step of WinnerArbitration or stutters.  *)

\* While the process lives, an attempt has no verdict before its verification
\* ends, and nothing but the primary has started when the hedge timer runs.
VerdictInv ==
  proc \notin {"down", "reconciled"} =>
    /\ \A a \in Attempts :
         phase[a] \in {"idle", "prep", "slot", "starting", "streaming", "verifying"}
           => verdict[a] = "none"
    /\ coord \in {"prep", "hedge_timer"} => \A a \in Attempts : a # 1 => phase[a] = "idle"

\* There is no verdict at first.
LEMMA VerdictInvInit == Init => VerdictInv
BY DEF Init, VerdictInv

\* A verdict comes with the end of a verification.
LEMMA VerdictInvNext == RaceInv /\ VerdictInv /\ [Next]_vars => VerdictInv'
<1> SUFFICES ASSUME RaceInv, VerdictInv, [Next]_vars PROVE VerdictInv'
  OBVIOUS
<1>0. /\ phase \in [Attempts -> {"idle"} \cup Alive \cup Finished]
      /\ verdict \in [Attempts -> {"none", "passed", "failed"}]
  BY DEF RaceInv, TypeOK
<1> USE <1>0, OrdinalAssumption
    DEF VerdictInv, Attempts, Alive, Holding, Finished, Returned, Ended, Reach,
        db, control
<1>1. CASE PrepareRejected
  BY <1>1 DEF PrepareRejected
<1>2. CASE PrepareTask
  <2>1. \A a \in Attempts : phase[a] = "idle" /\ verdict[a] = "none"
    BY <1>2 DEF PrepareTask, RaceInv, CoordinatorShape
  <2>2. QED
    BY <1>2, <2>1 DEF PrepareTask
<1>3. CASE HedgeTimeout \/ HedgeAfterPrimary
  BY <1>3 DEF HedgeTimeout, HedgeAfterPrimary, LaunchBackup
<1>4. ASSUME NEW a \in Attempts, RaceClaim(a) PROVE VerdictInv'
  BY <1>4 DEF RaceClaim, ClaimWinner
<1>5. CASE RaceRaises \/ RaceContinues \/ ReapLosers
  BY <1>5 DEF RaceRaises, RaceContinues, RepairOrFail, FailTask, ReapLosers
<1>6. CASE RepairStarts
  <2>1. used + 1 \in Attempts /\ phase[used + 1] = "idle" /\ verdict[used + 1] = "none"
    BY <1>6 DEF RepairStarts, RaceInv, CoordinatorShape, TypeOK
  <2>2. verdict' = verdict /\ proc' = proc /\ coord' \in {"repairing", "raised"}
    BY <1>6 DEF RepairStarts
  <2>3. phase' = phase \/ phase' = [phase EXCEPT ![used + 1] = "slot"]
    BY <1>6 DEF RepairStarts
  <2>4. QED
    BY <1>6, <2>1, <2>2, <2>3
<1>7. CASE RepairSkipped \/ RepairPrepRaises \/ RepairClaims \/ RepairClaimLost
  BY <1>7 DEF RepairSkipped, RepairPrepRaises, RepairClaims, RepairClaimLost,
     ClaimWinner, FailTask
<1>8. CASE RepairFails \/ RepairAborts
  <2>1. /\ phase' = phase /\ verdict' = verdict /\ proc' = proc
        /\ coord' \notin {"prep", "hedge_timer"}
    BY <1>8 DEF RepairFails, RepairAborts, RepairOrFail, FailTask, Repairing
  <2>2. QED
    BY <2>1
<1>9. ASSUME NEW a \in Attempts, PrepareBackup(a) \/ AcquireSlot(a)
             \/ WorkerStarted(a) \/ StreamIncomplete(a) \/ WorkerCompleted(a)
      PROVE  VerdictInv'
  BY <1>9 DEF PrepareBackup, AcquireSlot, WorkerStarted, StreamIncomplete,
     WorkerCompleted, Step, Goto
<1>10. ASSUME NEW a \in Attempts, Verified(a) \/ NotVerified(a) \/ AttemptRaises(a)
       PROVE  VerdictInv'
  BY <1>10 DEF Verified, NotVerified, AttemptRaises, Step, Goto
<1>11. ASSUME NEW a \in Attempts, CancelledEarly(a) \/ CancelledInFlight(a)
              \/ WorkerCancelled(a) \/ CleanUp(a)
       PROVE  VerdictInv'
  BY <1>11 DEF CancelledEarly, CancelledInFlight, WorkerCancelled, CleanUp, Goto,
     Unprotected
<1>12. CASE FgCancel \/ PersistCancellation \/ Teardown \/ Exit \/ Crash
            \/ Reconcile \/ UNCHANGED vars
  BY <1>12 DEF FgCancel, PersistCancellation, Teardown, Exit, Crash, Reconcile, vars
<1>13. CASE Interrupt \/ TaskRaised \/ OtherTaskRaised
  <2>1. /\ phase' = phase /\ verdict' = verdict
        /\ coord' = coord \/ coord' \in {"abandoning", "cancelled"}
    BY <1>13 DEF Interrupt, TaskRaised, OtherTaskRaised, RunRaises, CancelCoordinator
  <2>2. proc = "up"
    BY <1>13 DEF Interrupt, TaskRaised, OtherTaskRaised, RunRaises
  <2>3. QED
    BY <2>1, <2>2
<1>14. ASSUME NEW a \in Attempts, CrashBeforeStatus(a) PROVE VerdictInv'
  BY <1>14 DEF CrashBeforeStatus
<1>15. QED
  BY <1>1, <1>2, <1>3, <1>4, <1>5, <1>6, <1>7, <1>8, <1>9, <1>10, <1>11, <1>12,
     <1>13, <1>14
  DEF Next, Coordinator, Attempt, Process, Terminated

\* No worktree, no verdict and no award: where WinnerArbitration starts.
LEMMA ArbitrationInit == Init => Arbitration!Init
BY DEF Init, Arbitration!Init

\* How a write to one worktree, one verdict or the award looks from outside.
LEMMA Untouched ==
  ASSUME workspace' = workspace, verdict' = verdict, winner' = winner
  PROVE  UNCHANGED Arbitration!vars
BY DEF Arbitration!vars

\* A worktree is created.
LEMMA WorktreeMade ==
  ASSUME RaceInv, NEW a \in Attempts, verdict' = verdict, winner' = winner,
         workspace' = [workspace EXCEPT ![a] = "present"]
  PROVE  Arbitration!Next
<1>1. Arbitration!Provide(a)
  BY DEF Arbitration!Provide, RaceInv, TypeOK
<1>2. QED
  BY <1>1 DEF Arbitration!Next

\* A worktree that is not the winner's goes.
LEMMA WorktreeGone ==
  ASSUME RaceInv, NEW a \in Attempts, verdict' = verdict, winner' = winner,
         a # winner, NEW w \in {"absent", "removed"},
         workspace' = [workspace EXCEPT ![a] = w]
  PROVE  Arbitration!Next
<1>1. Arbitration!Discard(a)
  BY DEF Arbitration!Discard, RaceInv, TypeOK
<1>2. QED
  BY <1>1 DEF Arbitration!Next

\* A verification passes.
LEMMA AttemptPassed ==
  ASSUME RaceInv, NEW a \in Attempts, workspace' = workspace, winner' = winner,
         phase[a] = "verifying", verdict' = [verdict EXCEPT ![a] = "passed"]
  PROVE  Arbitration!Next
<1>1. Arbitration!Pass(a)
  BY DEF Arbitration!Pass, RaceInv, TypeOK, PhaseMatchesDisk
<1>2. QED
  BY <1>1 DEF Arbitration!Next

\* A verification fails: nothing to see from outside.
LEMMA AttemptFailed ==
  ASSUME RaceInv, NEW a \in Attempts, workspace' = workspace, winner' = winner,
         verdict[a] = "none", verdict' = [verdict EXCEPT ![a] = "failed"]
  PROVE  UNCHANGED Arbitration!vars
BY DEF Arbitration!vars, RaceInv, TypeOK

\* The claim is the award.
LEMMA TaskAwarded ==
  ASSUME RaceInv, NEW a \in Attempts, phase[a] = "verified", ClaimWinner(a),
         workspace' = workspace
  PROVE  Arbitration!Next
<1>1. Arbitration!Award(a)
  BY DEF Arbitration!Award, RaceInv, PhaseMatchesDisk, ClaimWinner, Claimable
<1>2. QED
  BY <1>1 DEF Arbitration!Next

\* A cancelled coordinator may leave a worktree behind.
LEMMA CoordinatorCancelled ==
  ASSUME RaceInv, CancelCoordinator
  PROVE  [Arbitration!Next]_(Arbitration!vars)
<1>1. verdict' = verdict /\ winner' = winner
  BY DEF CancelCoordinator, db
<1>2. CASE workspace' = workspace
  BY <1>1, <1>2, Untouched
<1>3. CASE coord = "prep" /\ workspace' = [workspace EXCEPT ![1] = "present"]
  <2>1. 1 \in Attempts
    BY OrdinalAssumption DEF Attempts
  <2>2. QED
    BY <1>1, <1>3, <2>1, WorktreeMade
<1>4. CASE coord = "repair_prep" /\ workspace' = [workspace EXCEPT ![used + 1] = "present"]
  <2>1. used + 1 \in Attempts
    BY <1>4 DEF RaceInv, CoordinatorShape
  <2>2. QED
    BY <1>1, <1>4, <2>1, WorktreeMade
<1>5. QED
  BY <1>2, <1>3, <1>4 DEF CancelCoordinator

\* Every step is one of WinnerArbitration's or none.
LEMMA ArbitrationNext ==
  RaceInv /\ VerdictInv /\ [Next]_vars => [Arbitration!Next]_(Arbitration!vars)
<1> SUFFICES ASSUME RaceInv, VerdictInv, [Next]_vars
             PROVE  [Arbitration!Next]_(Arbitration!vars)
  OBVIOUS
<1>0. 1 \in Attempts /\ None \notin Attempts
  BY OrdinalAssumption DEF Attempts, None
<1>1. CASE PrepareRejected
  <2>1. winner = None /\ winner' = winner /\ verdict' = verdict
    BY <1>1 DEF PrepareRejected, Reach, RaceInv, CoordinatorShape
  <2>2. PICK w \in {"absent", "removed"} : workspace' = [workspace EXCEPT ![1] = w]
    BY <1>1 DEF PrepareRejected
  <2>3. QED
    BY <1>0, <2>1, <2>2, WorktreeGone
<1>2. CASE PrepareTask
  BY <1>0, <1>2, WorktreeMade DEF PrepareTask
<1>3. CASE HedgeTimeout \/ HedgeAfterPrimary \/ RaceRaises \/ RaceContinues
           \/ ReapLosers \/ RepairClaimLost \/ RepairFails \/ RepairAborts
  BY <1>3, Untouched DEF HedgeTimeout, HedgeAfterPrimary, LaunchBackup, RaceRaises,
     RaceContinues, RepairOrFail, FailTask, ReapLosers, RepairClaimLost,
     RepairFails, RepairAborts, db
<1>4. ASSUME NEW a \in Attempts, RaceClaim(a) PROVE Arbitration!Next
  BY <1>4, TaskAwarded DEF RaceClaim
<1>5. CASE RepairStarts
  <2>1. used + 1 \in Attempts
    BY <1>5 DEF RepairStarts, Reach, RaceInv, CoordinatorShape
  <2>2. QED
    BY <1>5, <2>1, WorktreeMade DEF RepairStarts
<1>6. CASE RepairSkipped \/ RepairPrepRaises
  <2>1. /\ used + 1 \in Attempts /\ used + 1 # winner
        /\ verdict' = verdict /\ winner' = winner
    BY <1>0, <1>6 DEF RepairSkipped, RepairPrepRaises, Reach, RaceInv,
       CoordinatorShape, FailTask, db
  <2>2. PICK w \in {"absent", "removed", "present"} :
          workspace' = [workspace EXCEPT ![used + 1] = w]
    BY <1>6 DEF RepairSkipped, RepairPrepRaises
  <2>3. QED
    BY <2>1, <2>2, WorktreeMade, WorktreeGone
<1>7. CASE RepairClaims
  <2>1. coord = "repairing" /\ used + 1 \in Attempts /\ phase[used + 1] = "verified"
    BY <1>7 DEF RepairClaims, Repairing, RaceInv, CoordinatorShape
  <2>2. QED
    BY <1>7, <2>1, TaskAwarded DEF RepairClaims
<1>8. ASSUME NEW a \in Attempts, PrepareBackup(a) PROVE Arbitration!Next
  BY <1>8, WorktreeMade DEF PrepareBackup, Step
<1>9. ASSUME NEW a \in Attempts, AcquireSlot(a) \/ WorkerStarted(a)
             \/ StreamIncomplete(a) \/ WorkerCompleted(a) \/ CancelledInFlight(a)
             \/ WorkerCancelled(a)
      PROVE  UNCHANGED Arbitration!vars
  BY <1>9, Untouched DEF AcquireSlot, WorkerStarted, StreamIncomplete,
     WorkerCompleted, CancelledInFlight, WorkerCancelled, Step, db
<1>10. ASSUME NEW a \in Attempts, Attempt(a), Verified(a) PROVE Arbitration!Next
  BY <1>10, AttemptPassed DEF Verified, Step
<1>11. ASSUME NEW a \in Attempts, Attempt(a), NotVerified(a)
       PROVE  UNCHANGED Arbitration!vars
  <2>1. verdict[a] = "none"
    BY <1>11 DEF Attempt, NotVerified, Step, VerdictInv
  <2>2. QED
    BY <1>11, <2>1, AttemptFailed DEF NotVerified, Step
<1>12. ASSUME NEW a \in Attempts, AttemptRaises(a)
       PROVE  [Arbitration!Next]_(Arbitration!vars)
  <2>1. verdict' = verdict /\ winner' = winner
    BY <1>12 DEF AttemptRaises, Step
  <2>2. \/ workspace' = workspace
        \/ workspace' = [workspace EXCEPT ![a] = "present"]
    BY <1>12 DEF AttemptRaises
  <2>3. QED
    BY <2>1, <2>2, Untouched, WorktreeMade
<1>13. ASSUME NEW a \in Attempts, CancelledEarly(a) \/ CleanUp(a)
       PROVE  [Arbitration!Next]_(Arbitration!vars)
  <2>1. verdict' = verdict /\ winner' = winner
    BY <1>13 DEF CancelledEarly, CleanUp, db
  <2>2. CASE workspace' = workspace
    BY <2>1, <2>2, Untouched
  <2>3. CASE workspace' = [workspace EXCEPT ![a] = "present"]
    BY <2>1, <2>3, WorktreeMade
  <2>4. CASE phase[a] = "cleaning" /\ workspace' = [workspace EXCEPT ![a] = "removed"]
    <3>1. a # winner
      BY <1>0, <2>4 DEF RaceInv, WinnerEndedVerified
    <3>2. QED
      BY <2>1, <2>4, <3>1, WorktreeGone
  <2>5. QED
    BY <1>13, <2>2, <2>3, <2>4 DEF CancelledEarly, CleanUp
<1>14. ASSUME NEW a \in Attempts, CrashBeforeStatus(a)
       PROVE  [Arbitration!Next]_(Arbitration!vars)
  <2>1. workspace' = workspace /\ winner' = winner /\ phase[a] = "verifying"
    BY <1>14 DEF CrashBeforeStatus
  <2>2. verdict[a] = "none"
    BY <1>14 DEF CrashBeforeStatus, VerdictInv
  <2>3. PICK v \in {"passed", "failed"} : verdict' = [verdict EXCEPT ![a] = v]
    BY <1>14 DEF CrashBeforeStatus
  <2>4. QED
    BY <2>1, <2>2, <2>3, AttemptPassed, AttemptFailed
<1>15. CASE FgCancel \/ PersistCancellation \/ Teardown \/ Exit \/ Crash
            \/ Reconcile \/ UNCHANGED vars
  BY <1>15, Untouched DEF FgCancel, PersistCancellation, Teardown, Exit, Crash,
     Reconcile, vars, db
<1>16. CASE Interrupt \/ TaskRaised \/ OtherTaskRaised
  BY <1>16, CoordinatorCancelled DEF Interrupt, TaskRaised, OtherTaskRaised, RunRaises
<1>17. QED
  BY <1>1, <1>2, <1>3, <1>4, <1>5, <1>6, <1>7, <1>8, <1>9, <1>10, <1>11, <1>12,
     <1>13, <1>14, <1>15, <1>16
  DEF Next, Coordinator, Attempt, Process, Terminated

\* The execution of a task keeps what WinnerArbitration promises: one award, to a
\* verified attempt, never withdrawn or moved, with its worktree in place.
THEOREM RaceImplementsArbitration == Spec => ImplementsArbitration
<1>1. Spec => []VerdictInv
  BY RaceInvariant, VerdictInvInit, VerdictInvNext, PTL DEF Spec
<1>2. Spec => Arbitration!Init /\ [][Arbitration!Next]_(Arbitration!vars)
  BY <1>1, RaceInvariant, ArbitrationInit, ArbitrationNext, PTL DEF Spec
<1>3. QED
  BY <1>2 DEF ImplementsArbitration, Arbitration!Spec

-------------------------------------------------------------------------------
(* Attempts that add up, repairs and passes: what holds beside RaceInv.    *)

\* Only replay-safe settings with two attempts hedge, no attempt is beyond the
\* limit, and two attempts are at work only if the task may be replayed.
WithinLimits ==
  /\ \A a \in Attempts : phase[a] # "idle" => a <= cfg.maxAttempts
  /\ coord = "hedge_timer" => cfg.replaySafe /\ cfg.maxAttempts >= 2
  /\ coord = "repair_prep" => used + 1 <= cfg.maxAttempts
  /\ ~cfg.replaySafe =>
       \A a, b \in Attempts : phase[a] \in Alive /\ phase[b] \in Alive => a = b

\* An attempt has no rows before its slot.
NoRowsYet ==
  \A a \in Attempts : phase[a] \in {"idle", "prep", "slot"} =>
    status[a] = "absent" /\ verdict[a] = "none"

\* Who ended with feedback keeps the worktree and the verdict it is about, and
\* a repair's source is such an attempt.
FeedbackStays ==
  /\ \A a \in Attempts : phase[a] = "feedback" =>
       workspace[a] = "present" /\ verdict[a] = "failed"
  /\ coord \in {"repair_prep", "repairing"} =>
       source \in Attempts /\ source <= used /\ phase[source] = "feedback"

\* While the process is up only `fg cancel` takes 'verifying' from the task of an
\* attempt that has been verified.
Judged == {"verifying", "verified", "feedback"}
VerifyingStays ==
  proc = "up" /\ ~fgCancelled =>
    /\ taskStatus # "cancelled"
    /\ coord \in {"hedge_timer", "racing", "repair_prep"} =>
         \A a \in Attempts : phase[a] \in Judged => taskStatus = "verifying"
    /\ coord = "repairing" /\ phase[used + 1] \in Judged => taskStatus = "verifying"

\* A verdict 'passed' belongs to a coroutine that ended so, and the coordinator
\* turns away from it only when the task is cancelled.
PassIsSeen ==
  \A a \in Attempts : verdict[a] = "passed" =>
    /\ proc \in {"down", "reconciled"} \/ phase[a] = "verified"
    /\ coord \in {"prep", "repair_prep", "false"} => fgCancelled
    /\ coord \in {"hedge_timer", "racing"} => fgCancelled \/ a \in waiting
    /\ coord = "repairing" => fgCancelled \/ a = used + 1

AttemptInv == WithinLimits /\ NoRowsYet /\ FeedbackStays /\ VerifyingStays /\ PassIsSeen

\* All five hold before anything has started.
LEMMA AttemptInvInit == Init => AttemptInv
<1> SUFFICES ASSUME Init PROVE AttemptInv
  OBVIOUS
<1>1. \A a \in Attempts : phase[a] = "idle" /\ status[a] = "absent" /\ verdict[a] = "none"
  BY DEF Init
<1>2. coord = "prep" /\ taskStatus \in {"queued", "ready"}
  BY DEF Init
<1>3. WithinLimits /\ FeedbackStays
  BY <1>1, <1>2 DEF WithinLimits, FeedbackStays, Alive, Holding
<1>4. NoRowsYet /\ VerifyingStays /\ PassIsSeen
  BY <1>1, <1>2 DEF NoRowsYet, VerifyingStays, PassIsSeen
<1>5. QED
  BY <1>3, <1>4 DEF AttemptInv

\* The hedge timer runs beside the primary only.
LEMMA HedgeAlone ==
  ASSUME RaceInv, VerdictInv, coord = "hedge_timer", proc = "up"
  PROVE  phase[2] = "idle"
BY OrdinalAssumption DEF VerdictInv, Attempts

\* An attempt that is verified has its worktree.
LEMMA PresentAtWork ==
  ASSUME RaceInv, NEW a \in Attempts, phase[a] = "verifying"
  PROVE  workspace[a] = "present"
BY DEF RaceInv, PhaseMatchesDisk

\* While the coordinator awaits a race or a repair, the claim fails only after
\* an `fg cancel`.
LEMMA NotClaimable ==
  ASSUME RaceInv, AttemptInv, proc = "up", ~Claimable,
         coord \in {"hedge_timer", "racing", "repairing"}
  PROVE  fgCancelled
BY DEF RaceInv, CoordinatorShape, TypeOK, AttemptInv, VerifyingStays, Claimable

\* Where the coordinator may be while an attempt is at work.
AtWorkOnly(a) ==
  /\ coord \notin {"prep", "repair_prep", "false"}
  /\ coord \in {"hedge_timer", "racing"} => a \in waiting
  /\ coord = "repairing" => a = used + 1
LEMMA AliveWhere ==
  ASSUME RaceInv, NEW a \in Attempts, phase[a] \in Alive
  PROVE  AtWorkOnly(a)
BY DEF RaceInv, CoordinatorShape, AtWorkOnly, Alive, Holding, Returned

\* Attempts are added within the limits.
LEMMA WithinLimitsNext == RaceInv /\ VerdictInv /\ AttemptInv /\ [Next]_vars => WithinLimits'
<1> SUFFICES ASSUME RaceInv, VerdictInv, AttemptInv, [Next]_vars PROVE WithinLimits'
  OBVIOUS
<1>0. /\ TypeOK /\ CoordinatorShape
      /\ WithinLimits /\ NoRowsYet /\ FeedbackStays /\ VerifyingStays /\ PassIsSeen
  BY DEF RaceInv, AttemptInv
<1>t. /\ phase \in [Attempts -> {"idle"} \cup Alive \cup Finished]
      /\ verdict \in [Attempts -> {"none", "passed", "failed"}]
      /\ status \in [Attempts -> AttemptStatus \cup {"absent"}]
      /\ workspace \in [Attempts -> {"absent", "present", "removed"}]
      /\ used \in Nat /\ 1 \in Attempts /\ 2 \in Attempts
  BY <1>0, OrdinalAssumption DEF TypeOK, Attempts
<1> USE <1>0, <1>t DEF WithinLimits, None, Alive, Holding, Finished, Returned, Ended, Reach, db, control
<1>1. CASE PrepareRejected
  BY <1>1 DEF PrepareRejected
<1>2. CASE PrepareTask
  <2>1. \A a \in Attempts : phase[a] = "idle"
    BY <1>2 DEF PrepareTask, CoordinatorShape
  <2>2. cfg.maxAttempts \in Nat /\ cfg.maxAttempts >= 1
    BY <1>0, ConfigsAssumption DEF TypeOK, Settings
  <2>3. EffectivePolicy # "single" => cfg.maxAttempts >= 2 /\ cfg.replaySafe
    BY <2>2 DEF EffectivePolicy
  <2>4. /\ cfg' = cfg /\ coord' \in {"hedge_timer", "racing"}
        /\ coord' = "hedge_timer" => EffectivePolicy # "single"
        /\ \A a \in Attempts : phase'[a] # "idle" =>
             a = 1 \/ (a = 2 /\ EffectivePolicy # "single")
    BY <1>2, <2>1 DEF PrepareTask
  <2>5. QED
    BY <2>2, <2>3, <2>4
<1>3. CASE HedgeTimeout \/ HedgeAfterPrimary
  BY <1>3 DEF HedgeTimeout, HedgeAfterPrimary, LaunchBackup
<1>4. ASSUME NEW a \in Attempts, RaceClaim(a) PROVE WithinLimits'
  BY <1>4 DEF RaceClaim, ClaimWinner, Superseded
<1>5. CASE RaceRaises \/ ReapLosers
  BY <1>5 DEF RaceRaises, ReapLosers
<1>6. CASE RaceContinues
  <2>1. UNCHANGED <<cfg, phase>>
    BY <1>6 DEF RaceContinues
  <2>2. \/ UNCHANGED <<coord, used>>
        \/ coord' = "false"
        \/ coord' = "repair_prep" /\ used' < cfg.maxAttempts /\ used' \in Nat
    BY <1>6 DEF RaceContinues, RepairOrFail
  <2>3. cfg.maxAttempts \in Nat
    BY <1>0, ConfigsAssumption DEF TypeOK, Settings
  <2>4. QED
    BY <2>1, <2>2, <2>3
<1>7. CASE RepairStarts
  <2>1. used + 1 \in Attempts /\ \A a \in Attempts : phase[a] \notin Alive
    BY <1>7 DEF RepairStarts, CoordinatorShape
  <2>2. /\ cfg' = cfg /\ used' = used /\ coord' \in {"repairing", "raised"}
        /\ phase' = phase \/ phase' = [phase EXCEPT ![used + 1] = "slot"]
    BY <1>7 DEF RepairStarts
  <2>3. used + 1 <= cfg.maxAttempts
    BY <1>7 DEF RepairStarts
  <2>4. QED
    BY <2>1, <2>2, <2>3
<1>8. CASE RepairSkipped \/ RepairPrepRaises \/ RepairClaims \/ RepairClaimLost
  BY <1>8 DEF RepairSkipped, RepairPrepRaises, RepairClaims, RepairClaimLost,
     ClaimWinner, Superseded, FailTask, Repairing
<1>9. CASE RepairFails \/ RepairAborts
  <2>1. UNCHANGED <<cfg, phase>>
    BY <1>9 DEF RepairFails, RepairAborts
  <2>2. \/ coord' \notin {"hedge_timer", "repair_prep"}
        \/ coord' = "repair_prep" /\ used' < cfg.maxAttempts /\ used' \in Nat
    BY <1>9 DEF RepairFails, RepairAborts, RepairOrFail, Repairing
  <2>3. cfg.maxAttempts \in Nat
    BY <1>0, ConfigsAssumption DEF TypeOK, Settings
  <2>4. QED
    BY <2>1, <2>2, <2>3
<1>10. ASSUME NEW a \in Attempts, PrepareBackup(a) \/ AcquireSlot(a)
              \/ WorkerStarted(a) \/ StreamIncomplete(a) \/ WorkerCompleted(a)
       PROVE  WithinLimits'
  BY <1>10 DEF PrepareBackup, AcquireSlot, WorkerStarted, StreamIncomplete,
     WorkerCompleted, Step, Goto
<1>11. ASSUME NEW a \in Attempts, Verified(a) \/ NotVerified(a) \/ AttemptRaises(a)
       PROVE  WithinLimits'
  BY <1>11 DEF Verified, NotVerified, AttemptRaises, Step, Goto
<1>12. ASSUME NEW a \in Attempts, CancelledEarly(a) \/ CancelledInFlight(a)
              \/ WorkerCancelled(a) \/ CleanUp(a)
       PROVE  WithinLimits'
  BY <1>12 DEF CancelledEarly, CancelledInFlight, WorkerCancelled, CleanUp, Goto,
     Unprotected
<1>13. CASE FgCancel \/ PersistCancellation \/ Teardown \/ Exit \/ Crash
            \/ Reconcile \/ UNCHANGED vars
  BY <1>13 DEF FgCancel, PersistCancellation, Teardown, Exit, Crash, Reconcile, vars
<1>14. CASE Interrupt \/ TaskRaised \/ OtherTaskRaised
  BY <1>14 DEF Interrupt, TaskRaised, OtherTaskRaised, RunRaises, CancelCoordinator
<1>15. ASSUME NEW a \in Attempts, CrashBeforeStatus(a) PROVE WithinLimits'
  BY <1>15 DEF CrashBeforeStatus
<1>16. QED
  BY <1>1, <1>2, <1>3, <1>4, <1>5, <1>6, <1>7, <1>8, <1>9, <1>10, <1>11, <1>12,
     <1>13, <1>14, <1>15
  DEF Next, Coordinator, Attempt, Process, Terminated

\* An ordinal is used once.
LEMMA NoRowsYetNext == RaceInv /\ VerdictInv /\ AttemptInv /\ [Next]_vars => NoRowsYet'
<1> SUFFICES ASSUME RaceInv, VerdictInv, AttemptInv, [Next]_vars PROVE NoRowsYet'
  OBVIOUS
<1>0. /\ TypeOK /\ CoordinatorShape
      /\ WithinLimits /\ NoRowsYet /\ FeedbackStays /\ VerifyingStays /\ PassIsSeen
  BY DEF RaceInv, AttemptInv
<1>t. /\ phase \in [Attempts -> {"idle"} \cup Alive \cup Finished]
      /\ verdict \in [Attempts -> {"none", "passed", "failed"}]
      /\ status \in [Attempts -> AttemptStatus \cup {"absent"}]
      /\ workspace \in [Attempts -> {"absent", "present", "removed"}]
      /\ used \in Nat /\ 1 \in Attempts /\ 2 \in Attempts
  BY <1>0, OrdinalAssumption DEF TypeOK, Attempts
<1> USE <1>0, <1>t DEF NoRowsYet, None, Alive, Holding, Finished, Returned, Ended, Reach, db, control
<1>1. CASE PrepareRejected
  BY <1>1 DEF PrepareRejected
<1>2. CASE PrepareTask
  <2>1. \A a \in Attempts : phase[a] = "idle"
    BY <1>2 DEF PrepareTask, CoordinatorShape
  <2>2. UNCHANGED <<status, verdict>>
    BY <1>2 DEF PrepareTask
  <2>3. QED
    BY <2>1, <2>2
<1>3. CASE HedgeTimeout \/ HedgeAfterPrimary
  <2>1. phase[2] = "idle"
    BY <1>3, HedgeAlone DEF HedgeTimeout, HedgeAfterPrimary
  <2>2. UNCHANGED <<status, verdict>> /\ phase' = [phase EXCEPT ![2] = "prep"]
    BY <1>3 DEF HedgeTimeout, HedgeAfterPrimary, LaunchBackup
  <2>3. QED
    BY <2>1, <2>2
<1>4. ASSUME NEW a \in Attempts, RaceClaim(a) PROVE NoRowsYet'
  BY <1>4 DEF RaceClaim, ClaimWinner, Superseded
<1>5. CASE RaceRaises \/ ReapLosers
  BY <1>5 DEF RaceRaises, ReapLosers
<1>6. CASE RaceContinues
  BY <1>6 DEF RaceContinues, RepairOrFail, FailTask, Done, FeedbackSource
<1>7. CASE RepairStarts
  <2>1. used + 1 \in Attempts /\ phase[used + 1] = "idle"
    BY <1>7 DEF RepairStarts, CoordinatorShape
  <2>2. /\ UNCHANGED <<status, verdict>>
        /\ phase' = phase \/ phase' = [phase EXCEPT ![used + 1] = "slot"]
    BY <1>7 DEF RepairStarts
  <2>3. QED
    BY <2>1, <2>2
<1>8. CASE RepairSkipped \/ RepairPrepRaises \/ RepairClaims \/ RepairClaimLost
  BY <1>8 DEF RepairSkipped, RepairPrepRaises, RepairClaims, RepairClaimLost,
     ClaimWinner, Superseded, FailTask, Repairing
<1>9. CASE RepairFails \/ RepairAborts
  BY <1>9 DEF RepairFails, RepairAborts, RepairOrFail, FailTask, Repairing
<1>10. ASSUME NEW a \in Attempts, PrepareBackup(a) \/ AcquireSlot(a)
              \/ WorkerStarted(a) \/ StreamIncomplete(a) \/ WorkerCompleted(a)
       PROVE  NoRowsYet'
  BY <1>10 DEF PrepareBackup, AcquireSlot, WorkerStarted, StreamIncomplete,
     WorkerCompleted, Step, Goto
<1>11. ASSUME NEW a \in Attempts, Verified(a) \/ NotVerified(a) \/ AttemptRaises(a)
       PROVE  NoRowsYet'
  BY <1>11 DEF Verified, NotVerified, AttemptRaises, Step, Goto
<1>12. ASSUME NEW a \in Attempts, CancelledEarly(a) \/ CancelledInFlight(a)
              \/ WorkerCancelled(a) \/ CleanUp(a)
       PROVE  NoRowsYet'
  BY <1>12 DEF CancelledEarly, CancelledInFlight, WorkerCancelled, CleanUp, Goto,
     Unprotected
<1>13. CASE FgCancel \/ PersistCancellation \/ Teardown \/ Exit \/ Crash
            \/ Reconcile \/ UNCHANGED vars
  BY <1>13 DEF FgCancel, PersistCancellation, Teardown, Exit, Crash, Reconcile, vars
<1>14. CASE Interrupt \/ TaskRaised \/ OtherTaskRaised
  BY <1>14 DEF Interrupt, TaskRaised, OtherTaskRaised, RunRaises, CancelCoordinator
<1>15. ASSUME NEW a \in Attempts, CrashBeforeStatus(a) PROVE NoRowsYet'
  BY <1>15 DEF CrashBeforeStatus
<1>16. QED
  BY <1>1, <1>2, <1>3, <1>4, <1>5, <1>6, <1>7, <1>8, <1>9, <1>10, <1>11, <1>12,
     <1>13, <1>14, <1>15
  DEF Next, Coordinator, Attempt, Process, Terminated

\* Nobody takes the worktree or the verdict of a failed attempt away.
LEMMA FeedbackStaysNext == RaceInv /\ VerdictInv /\ AttemptInv /\ [Next]_vars => FeedbackStays'
<1> SUFFICES ASSUME RaceInv, VerdictInv, AttemptInv, [Next]_vars PROVE FeedbackStays'
  OBVIOUS
<1>0. /\ TypeOK /\ CoordinatorShape
      /\ WithinLimits /\ NoRowsYet /\ FeedbackStays /\ VerifyingStays /\ PassIsSeen
  BY DEF RaceInv, AttemptInv
<1>t. /\ phase \in [Attempts -> {"idle"} \cup Alive \cup Finished]
      /\ verdict \in [Attempts -> {"none", "passed", "failed"}]
      /\ status \in [Attempts -> AttemptStatus \cup {"absent"}]
      /\ workspace \in [Attempts -> {"absent", "present", "removed"}]
      /\ used \in Nat /\ 1 \in Attempts /\ 2 \in Attempts
  BY <1>0, OrdinalAssumption DEF TypeOK, Attempts
<1> USE <1>0, <1>t DEF FeedbackStays, None, Alive, Holding, Finished, Returned, Ended, Reach, db, control
<1>1. CASE PrepareRejected
  <2>1. \A a \in Attempts : phase'[a] = "idle"
    BY <1>1 DEF PrepareRejected, CoordinatorShape
  <2>2. coord' = "false"
    BY <1>1 DEF PrepareRejected
  <2>3. QED
    BY <2>1, <2>2
<1>2. CASE PrepareTask
  <2>1. \A a \in Attempts : phase'[a] # "feedback"
    BY <1>2 DEF PrepareTask, CoordinatorShape
  <2>2. coord' \in {"hedge_timer", "racing"}
    BY <1>2 DEF PrepareTask
  <2>3. QED
    BY <2>1, <2>2
<1>3. CASE HedgeTimeout \/ HedgeAfterPrimary
  BY <1>3 DEF HedgeTimeout, HedgeAfterPrimary, LaunchBackup
<1>4. ASSUME NEW a \in Attempts, RaceClaim(a) PROVE FeedbackStays'
  BY <1>4 DEF RaceClaim, ClaimWinner, Superseded
<1>5. CASE RaceRaises \/ ReapLosers
  BY <1>5 DEF RaceRaises, ReapLosers
<1>6. CASE RaceContinues
  BY <1>6 DEF RaceContinues, RepairOrFail, FailTask, Done, FeedbackSource
<1>7. CASE RepairStarts
  <2>1. used + 1 \in Attempts /\ phase[used + 1] = "idle" /\ coord = "repair_prep"
    BY <1>7 DEF RepairStarts, CoordinatorShape
  <2>2. /\ UNCHANGED <<verdict, source, used>>
        /\ workspace' = [workspace EXCEPT ![used + 1] = "present"]
        /\ phase' = phase \/ phase' = [phase EXCEPT ![used + 1] = "slot"]
    BY <1>7 DEF RepairStarts
  <2>3. source \in Attempts /\ source # used + 1
    BY <2>1
  <2>4. QED
    BY <2>1, <2>2, <2>3
<1>8. CASE RepairSkipped \/ RepairPrepRaises \/ RepairClaims \/ RepairClaimLost
  <2>1. phase' = phase /\ verdict' = verdict /\ coord' \in {"false", "raised", "true"}
    BY <1>8 DEF RepairSkipped, RepairPrepRaises, RepairClaims, RepairClaimLost,
       ClaimWinner, FailTask
  <2>2. \/ workspace' = workspace
        \/ phase[used + 1] = "idle" /\ \E w : workspace' = [workspace EXCEPT ![used + 1] = w]
    BY <1>8 DEF RepairSkipped, RepairPrepRaises, RepairClaims, RepairClaimLost,
       CoordinatorShape
  <2>3. QED
    BY <2>1, <2>2
<1>9. CASE RepairFails \/ RepairAborts
  <2>1. UNCHANGED <<phase, workspace, verdict>>
    BY <1>9 DEF RepairFails, RepairAborts, RepairOrFail, FailTask
  <2>2. \/ coord' \notin {"repair_prep", "repairing"}
        \/ /\ coord' = "repair_prep" /\ used' = used + 1 /\ source' = used + 1
           /\ phase[used + 1] = "feedback" /\ used + 1 \in Attempts
    BY <1>9 DEF RepairFails, RepairAborts, RepairOrFail, Repairing, CoordinatorShape
  <2>3. QED
    BY <2>1, <2>2
<1>10. ASSUME NEW a \in Attempts, PrepareBackup(a) \/ AcquireSlot(a)
              \/ WorkerStarted(a) \/ StreamIncomplete(a) \/ WorkerCompleted(a)
       PROVE  FeedbackStays'
  BY <1>10 DEF PrepareBackup, AcquireSlot, WorkerStarted, StreamIncomplete,
     WorkerCompleted, Step, Goto
<1>11. ASSUME NEW a \in Attempts, Verified(a) \/ NotVerified(a) \/ AttemptRaises(a)
       PROVE  FeedbackStays'
  <2>1. /\ phase[a] \notin Finished /\ UNCHANGED <<coord, source, used>>
        /\ \A b \in Attempts : b # a =>
             phase'[b] = phase[b] /\ verdict'[b] = verdict[b] /\ workspace'[b] = workspace[b]
    BY <1>11 DEF Verified, NotVerified, AttemptRaises, Step, Goto
  <2>2. phase'[a] = "feedback" => workspace'[a] = "present" /\ verdict'[a] = "failed"
    <3>1. CASE NotVerified(a)
      BY <3>1, PresentAtWork DEF NotVerified, Step, Goto
    <3>2. CASE Verified(a) \/ AttemptRaises(a)
      BY <3>2 DEF Verified, AttemptRaises, Step, Goto
    <3>3. QED
      BY <1>11, <3>1, <3>2
  <2>3. QED
    BY <2>1, <2>2
<1>12. ASSUME NEW a \in Attempts, CancelledEarly(a) \/ CancelledInFlight(a)
              \/ WorkerCancelled(a) \/ CleanUp(a)
       PROVE  FeedbackStays'
  BY <1>12 DEF CancelledEarly, CancelledInFlight, WorkerCancelled, CleanUp, Goto,
     Unprotected
<1>13. CASE FgCancel \/ PersistCancellation \/ Teardown \/ Exit \/ Crash
            \/ Reconcile \/ UNCHANGED vars
  BY <1>13 DEF FgCancel, PersistCancellation, Teardown, Exit, Crash, Reconcile, vars
<1>14. CASE Interrupt \/ TaskRaised \/ OtherTaskRaised
  BY <1>14 DEF Interrupt, TaskRaised, OtherTaskRaised, RunRaises, CancelCoordinator
<1>15. ASSUME NEW a \in Attempts, CrashBeforeStatus(a) PROVE FeedbackStays'
  BY <1>15 DEF CrashBeforeStatus
<1>16. QED
  BY <1>1, <1>2, <1>3, <1>4, <1>5, <1>6, <1>7, <1>8, <1>9, <1>10, <1>11, <1>12,
     <1>13, <1>14, <1>15
  DEF Next, Coordinator, Attempt, Process, Terminated

\* Nobody but `fg cancel` takes 'verifying' away.
LEMMA VerifyingStaysNext == RaceInv /\ VerdictInv /\ AttemptInv /\ [Next]_vars => VerifyingStays'
<1> SUFFICES ASSUME RaceInv, VerdictInv, AttemptInv, [Next]_vars PROVE VerifyingStays'
  OBVIOUS
<1>0. /\ TypeOK /\ CoordinatorShape
      /\ WithinLimits /\ NoRowsYet /\ FeedbackStays /\ VerifyingStays /\ PassIsSeen
  BY DEF RaceInv, AttemptInv
<1>t. /\ phase \in [Attempts -> {"idle"} \cup Alive \cup Finished]
      /\ verdict \in [Attempts -> {"none", "passed", "failed"}]
      /\ status \in [Attempts -> AttemptStatus \cup {"absent"}]
      /\ workspace \in [Attempts -> {"absent", "present", "removed"}]
      /\ used \in Nat /\ 1 \in Attempts /\ 2 \in Attempts
  BY <1>0, OrdinalAssumption DEF TypeOK, Attempts
<1> USE <1>0, <1>t DEF VerifyingStays, Judged, None, Alive, Holding, Finished, Returned, Ended, Reach, db, control
<1>1. CASE PrepareRejected
  BY <1>1 DEF PrepareRejected
<1>2. CASE PrepareTask
  <2>1. \A a \in Attempts : phase'[a] \notin Judged
    BY <1>2 DEF PrepareTask, CoordinatorShape
  <2>2. coord' \in {"hedge_timer", "racing"} /\ taskStatus' = "running"
    BY <1>2 DEF PrepareTask
  <2>3. QED
    BY <2>1, <2>2
<1>3. CASE HedgeTimeout \/ HedgeAfterPrimary
  BY <1>3 DEF HedgeTimeout, HedgeAfterPrimary, LaunchBackup
<1>4. ASSUME NEW a \in Attempts, RaceClaim(a) PROVE VerifyingStays'
  BY <1>4 DEF RaceClaim, ClaimWinner, Superseded
<1>5. CASE RaceRaises \/ ReapLosers
  BY <1>5 DEF RaceRaises, ReapLosers
<1>6. CASE RaceContinues
  BY <1>6 DEF RaceContinues, RepairOrFail, FailTask, Done, FeedbackSource
<1>7. CASE RepairStarts
  <2>1. \/ coord' = "raised" /\ taskStatus' = taskStatus
        \/ coord' = "repairing" /\ taskStatus' = "running" /\ used' = used
           /\ used + 1 \in Attempts /\ phase'[used + 1] = "slot"
    BY <1>7 DEF RepairStarts, CoordinatorShape
  <2>2. proc' = proc /\ fgCancelled' = fgCancelled
    BY <1>7 DEF RepairStarts
  <2>3. QED
    BY <2>1, <2>2
<1>8. CASE RepairSkipped \/ RepairPrepRaises \/ RepairClaims \/ RepairClaimLost
  BY <1>8 DEF RepairSkipped, RepairPrepRaises, RepairClaims, RepairClaimLost,
     ClaimWinner, Superseded, FailTask, Repairing
<1>9. CASE RepairFails \/ RepairAborts
  BY <1>9 DEF RepairFails, RepairAborts, RepairOrFail, FailTask, Repairing
<1>10. ASSUME NEW a \in Attempts, PrepareBackup(a) \/ AcquireSlot(a)
              \/ WorkerStarted(a) \/ StreamIncomplete(a) \/ WorkerCompleted(a)
       PROVE  VerifyingStays'
  <2>1. /\ UNCHANGED <<coord, used, proc, fgCancelled>>
        /\ \A b \in Attempts : b # a => phase'[b] = phase[b]
        /\ \/ taskStatus' = taskStatus /\ phase'[a] \notin Judged
           \/ taskStatus' = "verifying"
    BY <1>10 DEF PrepareBackup, AcquireSlot, WorkerStarted, StreamIncomplete,
       WorkerCompleted, Step, Goto
  <2>2. coord = "repairing" => used + 1 \in Attempts
    BY DEF CoordinatorShape
  <2>3. QED
    BY <2>1, <2>2
<1>11. ASSUME NEW a \in Attempts, Verified(a) \/ NotVerified(a) \/ AttemptRaises(a)
       PROVE  VerifyingStays'
  <2>1. /\ UNCHANGED <<coord, used, proc, fgCancelled, taskStatus>>
        /\ \A b \in Attempts : phase'[b] \in Judged => phase[b] \in Judged
    BY <1>11 DEF Verified, NotVerified, AttemptRaises, Step, Goto
  <2>2. coord = "repairing" => used + 1 \in Attempts
    BY DEF CoordinatorShape
  <2>3. QED
    BY <2>1, <2>2
<1>12. ASSUME NEW a \in Attempts, CancelledEarly(a) \/ CancelledInFlight(a)
              \/ WorkerCancelled(a) \/ CleanUp(a)
       PROVE  VerifyingStays'
  <2>1. /\ UNCHANGED <<coord, used, proc, fgCancelled, taskStatus>>
        /\ \A b \in Attempts : phase'[b] \in Judged => phase[b] \in Judged
    BY <1>12 DEF CancelledEarly, CancelledInFlight, WorkerCancelled, CleanUp, Goto
  <2>2. coord = "repairing" => used + 1 \in Attempts
    BY DEF CoordinatorShape
  <2>3. QED
    BY <2>1, <2>2
<1>13. CASE FgCancel \/ PersistCancellation \/ Teardown \/ Exit \/ Crash
            \/ Reconcile \/ UNCHANGED vars
  BY <1>13 DEF FgCancel, PersistCancellation, Teardown, Exit, Crash, Reconcile, vars
<1>14. CASE Interrupt \/ TaskRaised \/ OtherTaskRaised
  BY <1>14 DEF Interrupt, TaskRaised, OtherTaskRaised, RunRaises, CancelCoordinator
<1>15. ASSUME NEW a \in Attempts, CrashBeforeStatus(a) PROVE VerifyingStays'
  BY <1>15 DEF CrashBeforeStatus
<1>16. QED
  BY <1>1, <1>2, <1>3, <1>4, <1>5, <1>6, <1>7, <1>8, <1>9, <1>10, <1>11, <1>12,
     <1>13, <1>14, <1>15
  DEF Next, Coordinator, Attempt, Process, Terminated

\* A pass is claimed unless the task is cancelled.
LEMMA PassIsSeenNext == RaceInv /\ VerdictInv /\ AttemptInv /\ [Next]_vars => PassIsSeen'
<1> SUFFICES ASSUME RaceInv, VerdictInv, AttemptInv, [Next]_vars PROVE PassIsSeen'
  OBVIOUS
<1>0. /\ TypeOK /\ CoordinatorShape
      /\ WithinLimits /\ NoRowsYet /\ FeedbackStays /\ VerifyingStays /\ PassIsSeen
  BY DEF RaceInv, AttemptInv
<1>t. /\ phase \in [Attempts -> {"idle"} \cup Alive \cup Finished]
      /\ verdict \in [Attempts -> {"none", "passed", "failed"}]
      /\ status \in [Attempts -> AttemptStatus \cup {"absent"}]
      /\ workspace \in [Attempts -> {"absent", "present", "removed"}]
      /\ used \in Nat /\ 1 \in Attempts /\ 2 \in Attempts
  BY <1>0, OrdinalAssumption DEF TypeOK, Attempts
<1> USE <1>0, <1>t DEF PassIsSeen, None, Alive, Holding, Finished, Returned, Ended, Reach, db, control
<1>1. CASE PrepareRejected
  BY <1>1 DEF PrepareRejected
<1>2. CASE PrepareTask
  <2>1. \A a \in Attempts : verdict[a] = "none"
    BY <1>2 DEF PrepareTask, CoordinatorShape, NoRowsYet
  <2>2. verdict' = verdict
    BY <1>2 DEF PrepareTask
  <2>3. QED
    BY <2>1, <2>2
<1>3. CASE HedgeTimeout \/ HedgeAfterPrimary
  <2>1. phase[2] = "idle" /\ waiting = {1} /\ proc = "up" /\ coord = "hedge_timer"
    BY <1>3, HedgeAlone DEF HedgeTimeout, HedgeAfterPrimary, CoordinatorShape
  <2>2. UNCHANGED <<verdict, proc, fgCancelled>> /\ coord' = "racing"
    BY <1>3 DEF HedgeTimeout, HedgeAfterPrimary, LaunchBackup
  <2>3. \A a \in Attempts : verdict[a] = "passed" => phase'[a] = "verified"
    BY <1>3, <2>1 DEF HedgeTimeout, HedgeAfterPrimary, LaunchBackup, NoRowsYet
  <2>4. verdict[1] = "passed" => fgCancelled \/ 1 \in waiting'
    <3>1. CASE HedgeTimeout
      BY <3>1 DEF HedgeTimeout, LaunchBackup
    <3>2. CASE HedgeAfterPrimary
      <4>1. verdict[1] = "passed" => ~Claimable
        BY <2>1, <3>2 DEF HedgeAfterPrimary
      <4>2. ~Claimable => fgCancelled
        BY <2>1, NotClaimable
      <4>3. QED
        BY <4>1, <4>2
    <3>3. QED
      BY <1>3, <3>1, <3>2
  <2>5. QED
    BY <2>1, <2>2, <2>3, <2>4
<1>4. ASSUME NEW a \in Attempts, RaceClaim(a) PROVE PassIsSeen'
  BY <1>4 DEF RaceClaim, ClaimWinner, Superseded
<1>5. CASE RaceRaises \/ ReapLosers
  BY <1>5 DEF RaceRaises, ReapLosers
<1>6. CASE RaceContinues
  <2>1. /\ UNCHANGED <<phase, verdict, proc, fgCancelled>> /\ proc = "up" /\ coord = "racing"
        /\ waiting' = waiting \ Done
        /\ \A a \in Done : phase[a] \in {"feedback", "nofeedback"} \/ ~Claimable
    BY <1>6 DEF RaceContinues, RepairOrFail, FailTask
  <2>2. ~Claimable => fgCancelled
    BY <2>1, NotClaimable
  <2>3. \A a \in Attempts : verdict[a] = "passed" => fgCancelled \/ a \in waiting'
    BY <2>1, <2>2
  <2>4. \/ coord' = "racing"
        \/ coord' \in {"repair_prep", "false"} /\ waiting' = {}
    BY <1>6 DEF RaceContinues, RepairOrFail
  <2>5. QED
    BY <2>1, <2>3, <2>4
<1>7. CASE RepairStarts
  <2>1. \A a \in Attempts : verdict[a] = "passed" => fgCancelled /\ phase[a] = "verified"
    BY <1>7 DEF RepairStarts
  <2>2. /\ UNCHANGED <<verdict, proc, fgCancelled>> /\ coord' \in {"repairing", "raised"}
        /\ phase' = phase \/ phase' = [phase EXCEPT ![used + 1] = "slot"]
    BY <1>7 DEF RepairStarts
  <2>3. used + 1 \in Attempts /\ phase[used + 1] = "idle"
    BY <1>7 DEF RepairStarts, CoordinatorShape
  <2>4. QED
    BY <2>1, <2>2, <2>3
<1>8. CASE RepairSkipped \/ RepairPrepRaises \/ RepairClaims \/ RepairClaimLost
  <2>1. UNCHANGED <<phase, verdict, proc, fgCancelled>>
    BY <1>8 DEF RepairSkipped, RepairPrepRaises, RepairClaims, RepairClaimLost,
       ClaimWinner, FailTask
  <2>2. \/ coord' \in {"true", "raised"}
        \/ coord = "repair_prep" /\ coord' = "false"
        \/ fgCancelled /\ coord' = "false"
    <3>1. CASE RepairClaimLost
      <4>1. proc = "up" /\ coord = "repairing" /\ ~Claimable /\ coord' = "false"
        BY <3>1 DEF RepairClaimLost, Repairing
      <4>2. QED
        BY <4>1, NotClaimable
    <3>2. CASE RepairSkipped \/ RepairPrepRaises \/ RepairClaims
      BY <3>2 DEF RepairSkipped, RepairPrepRaises, RepairClaims
    <3>3. QED
      BY <1>8, <3>1, <3>2
  <2>3. QED
    BY <2>1, <2>2
<1>9. CASE RepairFails \/ RepairAborts
  <2>1. /\ UNCHANGED <<phase, verdict, proc, fgCancelled>> /\ coord = "repairing"
        /\ proc \notin {"down", "reconciled"}
    BY <1>9 DEF RepairFails, RepairAborts, RepairOrFail, FailTask, Repairing
  <2>2. \/ coord' \in {"raised", "cancelled"}
        \/ coord' \in {"repair_prep", "false"} /\ phase[used + 1] # "verified"
    BY <1>9 DEF RepairFails, RepairAborts, RepairOrFail, Repairing
  <2>3. QED
    BY <2>1, <2>2
<1>10. ASSUME NEW a \in Attempts, PrepareBackup(a) \/ AcquireSlot(a)
              \/ WorkerStarted(a) \/ StreamIncomplete(a) \/ WorkerCompleted(a)
       PROVE  PassIsSeen'
  BY <1>10 DEF PrepareBackup, AcquireSlot, WorkerStarted, StreamIncomplete,
     WorkerCompleted, Step, Goto
<1>11. ASSUME NEW a \in Attempts, Verified(a) \/ NotVerified(a) \/ AttemptRaises(a)
       PROVE  PassIsSeen'
  <2>1. /\ UNCHANGED <<coord, used, waiting, proc, fgCancelled>>
        /\ \A b \in Attempts : b # a => phase'[b] = phase[b] /\ verdict'[b] = verdict[b]
        /\ verdict'[a] = "passed" =>
             phase'[a] = "verified" \/ (verdict'[a] = verdict[a] /\ phase[a] \in Alive)
        /\ phase[a] \in Alive
    BY <1>11 DEF Verified, NotVerified, AttemptRaises, Step, Goto
  <2>2. AtWorkOnly(a)
    BY <2>1, AliveWhere
  <2>3. proc \notin {"down", "reconciled"}
    BY <1>11 DEF Verified, NotVerified, AttemptRaises, Step
  <2>4. QED
    BY <2>1, <2>2, <2>3 DEF AtWorkOnly
<1>12. ASSUME NEW a \in Attempts, CancelledEarly(a) \/ CancelledInFlight(a)
              \/ WorkerCancelled(a) \/ CleanUp(a)
       PROVE  PassIsSeen'
  BY <1>12 DEF CancelledEarly, CancelledInFlight, WorkerCancelled, CleanUp, Goto,
     Unprotected
<1>13. CASE FgCancel \/ PersistCancellation \/ Teardown \/ Exit \/ Crash
            \/ Reconcile \/ UNCHANGED vars
  BY <1>13 DEF FgCancel, PersistCancellation, Teardown, Exit, Crash, Reconcile, vars
<1>14. CASE Interrupt \/ TaskRaised \/ OtherTaskRaised
  BY <1>14 DEF Interrupt, TaskRaised, OtherTaskRaised, RunRaises, CancelCoordinator
<1>15. ASSUME NEW a \in Attempts, CrashBeforeStatus(a) PROVE PassIsSeen'
  <2>1. /\ UNCHANGED <<coord, used, waiting, phase, fgCancelled>> /\ proc' = "down"
        /\ \A b \in Attempts : b # a => verdict'[b] = verdict[b]
        /\ phase[a] \in Alive
    BY <1>15 DEF CrashBeforeStatus
  <2>2. AtWorkOnly(a)
    BY <2>1, AliveWhere
  <2>3. QED
    BY <2>1, <2>2 DEF AtWorkOnly
<1>16. QED
  BY <1>1, <1>2, <1>3, <1>4, <1>5, <1>6, <1>7, <1>8, <1>9, <1>10, <1>11, <1>12,
     <1>13, <1>14, <1>15
  DEF Next, Coordinator, Attempt, Process, Terminated

\* Every step keeps all five.
LEMMA AttemptInvNext == RaceInv /\ VerdictInv /\ AttemptInv /\ [Next]_vars => AttemptInv'
BY WithinLimitsNext, NoRowsYetNext, FeedbackStaysNext, VerifyingStaysNext, PassIsSeenNext
DEF AttemptInv

\* Every state of every execution has the five parts.
THEOREM AttemptInvariant == Spec => []AttemptInv
<1>1. Spec => []VerdictInv
  BY RaceInvariant, VerdictInvInit, VerdictInvNext, PTL DEF Spec
<1>2. QED
  BY RaceInvariant, <1>1, AttemptInvInit, AttemptInvNext, PTL DEF Spec

\* The attempts of a task add up after any race and any repairs: as many as the
\* settings allow, at most one at work where the task may not be replayed, no
\* ordinal twice, and a repair works on a failed attempt whose worktree and
\* verdict are still there.
THEOREM AttemptsAddUp == Spec => []AttemptsConsistent
<1>1. RaceInv /\ AttemptInv => AttemptsConsistent
  <2> SUFFICES ASSUME RaceInv, AttemptInv PROVE AttemptsConsistent
    OBVIOUS
  <2>1. TypeOK
    BY DEF RaceInv
  <2>2. AttemptLimits
    <3>1. \A a \in Attempts : phase[a] # "idle" => a <= cfg.maxAttempts
      BY DEF AttemptInv, WithinLimits
    <3>2. ASSUME ~cfg.replaySafe PROVE Cardinality(Live) <= 1
      <4>1. CASE Live = {}
        BY <4>1, FS_EmptySet
      <4>2. ASSUME NEW a \in Live PROVE Cardinality(Live) <= 1
        <5>1. Live = {a}
          BY <3>2, <4>2 DEF AttemptInv, WithinLimits, Live
        <5>2. Cardinality({a}) = 1
          BY FS_Singleton, Zenon
        <5>3. QED
          BY <5>1, <5>2
      <4>3. QED
        BY <4>1, <4>2
    <3>3. QED
      BY <3>1, <3>2 DEF AttemptLimits
  <2>3. FreshOrdinals
    BY DEF FreshOrdinals, AttemptInv, NoRowsYet
  <2>4. RepairSourceIntact
    BY <2>1, OrdinalAssumption
    DEF RepairSourceIntact, AttemptInv, FeedbackStays, TypeOK, Attempts
  <2>5. RepairAdmissible
    <3> SUFFICES ASSUME proc = "up", coord = "repair_prep", ~fgCancelled
                 PROVE  taskStatus = "verifying"
      BY DEF RepairAdmissible
    <3>1. source \in Attempts /\ phase[source] \in Judged
      BY DEF AttemptInv, FeedbackStays, Judged
    <3>2. QED
      BY <3>1 DEF AttemptInv, VerifyingStays
  <2>6. QED
    BY <2>1, <2>2, <2>3, <2>4, <2>5 DEF AttemptsConsistent
<1>2. QED
  BY <1>1, RaceInvariant, AttemptInvariant, PTL

\* What passed verification is not thrown away: a task that returns without a
\* winner although an attempt passed has been cancelled by `fg cancel`.
THEOREM PassesCount == Spec => []PassNotWasted
<1>1. AttemptInv => PassNotWasted
  BY DEF AttemptInv, PassIsSeen, PassNotWasted
<1>2. QED
  BY <1>1, AttemptInvariant, PTL

===============================================================================
