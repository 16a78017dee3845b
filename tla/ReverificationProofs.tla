-------------------------- MODULE ReverificationProofs --------------------------
(***************************************************************************)
(* Proofs about Reverification, for every number of processes, attempts,   *)
(* rounds and invocations and for every choice of events.                  *)
(*                                                                         *)
(* The argument.  No lock joins the transactions of one invocation: what   *)
(* keeps a second one out is the run's status.  An admission leaves it     *)
(* "running", `fg cancel` makes it "cancelled" and nothing but the end of  *)
(* the admitted invocation makes it "failed" again, so that the process    *)
(* which admitted itself holds the rows until it ends, and for ever if it  *)
(* is killed (Reserved, Alone).  The rest says, for the one process that   *)
(* holds them, what the rows are at each of its places.                    *)
(***************************************************************************)
EXTENDS Reverification, TLAPS

\* Between its admission and its end, or killed in between.
Holding == Active \cup {"crashed"}

\* The places before the verdict counts.
Early == {"inspecting", "verifying", "numbering", "recording", "failing"}

\* What is admitted is reserved through the status of the run.
Reserved == \A p \in Processes : proc[p].at \in Holding => run \in {"running", "cancelled"}

Alone ==
  \A p, q \in Processes : proc[p].at \in Holding /\ proc[q].at \in Holding => p = q

TargetKnown ==
  \A p \in Processes :
    proc[p].at \in Holding \cup {"admitting", "won", "lost"} => proc[p].target \in Attempts

NumberIsNext ==
  \A p \in Processes : proc[p].at = "recording" =>
    proc[p].round = Len(rounds[proc[p].target]) + 1

LastPassed(a) == rounds[a] # <<>> /\ rounds[a][Len(rounds[a])] = "passed"

\* The attempt passes, and is awarded the task, only after a passing round.
RoundBeforeAward ==
  \A p \in Processes : proc[p].at \in {"passing", "claiming"} => LastPassed(proc[p].target)

NoWinnerYet ==
  \A p \in Processes : proc[p].at \in Active \ {"closing"} => winner = NoAttempt

\* What a claim leaves to the transaction that closes the run.
Claimed ==
  \A p \in Processes : proc[p].at = "closing" =>
    \/ winner = proc[p].target
    \/ winner = NoAttempt /\ task = "cancelled" /\ attempt[proc[p].target] = "passed"

\* Only the attempt under verification is open.
OpenIsHeld ==
  \A a \in Attempts : attempt[a] \in {"verifying", "passed"} =>
    \E p \in Processes : proc[p].at \in Holding /\ proc[p].target = a

StatusIsPlace ==
  \A p \in Processes :
    /\ proc[p].at \in Early \cup {"passing"} => attempt[proc[p].target] = "verifying"
    /\ proc[p].at = "claiming" => attempt[proc[p].target] = "passed"

\* A row is open only while somebody holds it.
TaskIsHeld ==
  /\ task = "verifying" =>
       \E p \in Processes : proc[p].at \in Holding \ {"closing"}
  /\ task # "blocked"

RunIsHeld ==
  /\ run = "running" => \E p \in Processes : proc[p].at \in Holding
  /\ run = "completed" => winner # NoAttempt
  /\ winner # NoAttempt /\ run # "completed" =>
       \E p \in Processes : \/ proc[p].at = "closing" /\ proc[p].target = winner
                            \/ proc[p].at = "crashed"

RevInv ==
  /\ TypeOK /\ Reserved /\ Alone /\ TargetKnown /\ NumberIsNext /\ RoundBeforeAward
  /\ NoWinnerYet /\ WinnerIsVerified /\ Claimed /\ OpenIsHeld /\ StatusIsPlace
  /\ TaskIsHeld /\ RunIsHeld /\ OutcomeIsTrue

-------------------------------------------------------------------------------
\* What a process is: where it stands and what it remembers.
Process == [at: Places, target: Attempts \cup {NoAttempt}, verdict: Verdicts, round: Nat]

\* A transaction moves its own process, and nobody forgets what is verified.
Moved(p, place) ==
  /\ proc' \in [Processes -> Process]
  /\ proc'[p].at = place
  /\ proc'[p].target = proc[p].target
  /\ \A q \in Processes : q # p => proc'[q] = proc[q]

\* Going to a place changes nothing else that a process remembers.
LEMMA GotoMoves ==
  ASSUME proc \in [Processes -> Process], NEW p \in Processes, NEW place \in Places,
         Goto(p, place)
  PROVE  Moved(p, place)
<1> DEFINE new == [proc[p] EXCEPT !.at = place]
<1>1. \A q \in Processes : proc'[q] = IF q = p THEN new ELSE proc[q]
  BY DEF Goto
<1>2. new \in Process /\ new.at = place /\ new.target = proc[p].target
  BY DEF Process
<1>3. QED
  BY <1>1, <1>2 DEF Goto, Moved

\* Nor does the end of the verifier, but for the verdict.
LEMMA VerdictMoves ==
  ASSUME proc \in [Processes -> Process], NEW p \in Processes, NEW v \in Verdicts,
         proc' = [proc EXCEPT ![p].at = "numbering", ![p].verdict = v]
  PROVE  Moved(p, "numbering")
<1> DEFINE new == [[proc[p] EXCEPT !.at = "numbering"] EXCEPT !.verdict = v]
<1>1. \A q \in Processes : proc'[q] = IF q = p THEN new ELSE proc[q]
  OBVIOUS
<1>2. new \in Process /\ new.at = "numbering" /\ new.target = proc[p].target
  BY DEF Process, Places, Active
<1>3. QED
  BY <1>1, <1>2 DEF Moved

\* Nor does the numbering of a round, but for the number.
LEMMA NumberMoves ==
  ASSUME proc \in [Processes -> Process], NEW p \in Processes, NEW n \in Nat,
         proc' = [proc EXCEPT ![p].at = "recording", ![p].round = n]
  PROVE  Moved(p, "recording") /\ proc'[p].round = n
<1> DEFINE new == [[proc[p] EXCEPT !.at = "recording"] EXCEPT !.round = n]
<1>1. \A q \in Processes : proc'[q] = IF q = p THEN new ELSE proc[q]
  OBVIOUS
<1>2. new \in Process /\ new.at = "recording" /\ new.target = proc[p].target /\ new.round = n
  BY DEF Process, Places, Active
<1>3. QED
  BY <1>1, <1>2 DEF Moved

\* An invocation starts from what the command line says.
LEMMA LaunchMoves ==
  ASSUME proc \in [Processes -> Process], NEW p \in Processes, Launch(p)
  PROVE  /\ proc' \in [Processes -> Process]
         /\ proc'[p].at \in {"admitting", "refused"} /\ proc'[p].target \in Attempts
         /\ \A q \in Processes : q # p => proc'[q] = proc[q]
<1>1. PICK a \in Attempts, place \in {"admitting", "refused"} :
        proc' = [proc EXCEPT ![p] = [Fresh EXCEPT !.target = a, !.at = place]]
  BY DEF Launch
<1> DEFINE new == [[Fresh EXCEPT !.target = a] EXCEPT !.at = place]
<1>2. Fresh \in Process
  BY DEF Fresh, Process, Places, Verdicts, Ended
<1>3. new \in Process /\ new.at = place /\ new.target = a
  BY <1>2 DEF Process, Places, Ended
<1>4. \A q \in Processes : proc'[q] = IF q = p THEN new ELSE proc[q]
  BY <1>1
<1>5. proc' \in [Processes -> Process]
  BY <1>1, <1>3
<1>6. QED
  BY <1>3, <1>4, <1>5

\* The rows a failed run leaves are a state of the invariant.
LEMMA RevInvInit == Init => RevInv
<1> SUFFICES ASSUME Init PROVE RevInv
  OBVIOUS
<1>1. /\ Fresh \in Process /\ Fresh.at = "idle"
  BY DEF Fresh, Process, Places, Verdicts, Ended
<1>2. \A p \in Processes : proc[p] \in Process /\ proc[p].at = "idle"
  BY <1>1 DEF Init
<1>3. <<"failed">> \in Seq(Verdicts) /\ <<>> \in Seq(Verdicts)
  BY DEF Verdicts
<1>4. /\ proc \in [Processes -> Process]
      /\ attempt \in [Attempts -> AttemptStatus]
      /\ rounds \in [Attempts -> Seq(Verdicts)]
      /\ preserved \subseteq Attempts
  BY <1>1, <1>3 DEF Init, AttemptStatus
<1>5. /\ run = "failed" /\ task = "failed" /\ winner = NoAttempt
      /\ launches = 0 /\ reconciled \in BOOLEAN
      /\ \A a \in Attempts : attempt[a] \in {"failed", "cancelled"}
  BY DEF Init
<1>6. TypeOK
  BY <1>4, <1>5, LaunchesAssumption DEF TypeOK, Process, RunStatus, TaskStatus
<1>7. QED
  BY <1>2, <1>5, <1>6
     DEF RevInv, Reserved, Alone, TargetKnown, NumberIsNext, RoundBeforeAward, NoWinnerYet,
         WinnerIsVerified, Claimed, OpenIsHeld, StatusIsPlace, TaskIsHeld, RunIsHeld,
         OutcomeIsTrue, Holding, Active, Early

\* What is recorded last is the last round.
LEMMA LastOfAppend ==
  ASSUME NEW S, NEW s \in Seq(S), NEW e \in S
  PROVE  LET t == Append(s, e) IN t # <<>> /\ t[Len(t)] = e
OBVIOUS

\* The steps that only move their process: a launch, a refusal, the inspection,
\* the verifier, the numbering of a round, an interrupt, a crash.
LEMMA MovesKeep ==
  ASSUME RevInv, TypeOK', UNCHANGED rows, NEW p \in Processes,
         \A q \in Processes : q # p => proc'[q] = proc[q],
         \/ /\ proc[p].at \in Ended \cup {"admitting"}
            /\ proc'[p].at \in {"admitting", "refused"} /\ proc'[p].target \in Attempts
         \/ /\ proc'[p].target = proc[p].target
            /\ \/ proc[p].at \in Early /\ proc'[p].at \in Early \ {"recording"}
               \/ /\ proc[p].at \in Early /\ proc'[p].at = "recording"
                  /\ proc'[p].round = Len(rounds[proc[p].target]) + 1
               \/ proc[p].at \in Active /\ proc'[p].at = "crashed"
  PROVE  RevInv'
<1>0. /\ proc \in [Processes -> Process] /\ proc' \in [Processes -> Process]
      /\ attempt \in [Attempts -> AttemptStatus] /\ rounds \in [Attempts -> Seq(Verdicts)]
      /\ winner \in Attempts \cup {NoAttempt}
  BY DEF RevInv, TypeOK, Process
<1> USE AttemptsAssumption, <1>0
    DEF RevInv, Early, Active, Ended, Verdicts, Holding, rows, LastPassed
<1>h. \A q \in Processes : proc[q].at \in Holding =>
         proc'[q].at \in Holding /\ proc'[q].target = proc[q].target
  OBVIOUS
<1>1. Reserved' /\ Alone' /\ TargetKnown'
  <2>1. Reserved'
    BY <1>h DEF Reserved
  <2>2. Alone'
    BY <1>h DEF Alone
  <2>3. TargetKnown'
    BY <1>h DEF TargetKnown
  <2>4. QED
    BY <2>1, <2>2, <2>3
<1>2. NumberIsNext'
  BY <1>h DEF TargetKnown, NumberIsNext
<1>3. RoundBeforeAward' /\ NoWinnerYet' /\ WinnerIsVerified'
  <2>1. RoundBeforeAward'
    BY <1>h DEF TargetKnown, RoundBeforeAward
  <2>2. NoWinnerYet'
    BY <1>h DEF NoWinnerYet
  <2>3. WinnerIsVerified'
    BY DEF WinnerIsVerified
  <2>4. QED
    BY <2>1, <2>2, <2>3
<1>4. Claimed'
  BY <1>h DEF TargetKnown, Claimed
<1>5. StatusIsPlace'
  BY SMTT(30), <1>h DEF TargetKnown, StatusIsPlace
<1>6. OpenIsHeld'
  BY <1>h DEF TargetKnown, OpenIsHeld
<1>7. TaskIsHeld'
  BY <1>h DEF NoWinnerYet, TaskIsHeld
<1>8. RunIsHeld'
  BY <1>h DEF NoWinnerYet, Claimed, RunIsHeld
<1>9. OutcomeIsTrue'
  BY <1>h DEF Reserved, TargetKnown, WinnerIsVerified, RunIsHeld, OutcomeIsTrue
<1>10. QED
  BY <1>1, <1>2, <1>3, <1>4, <1>5, <1>6, <1>7, <1>8, <1>9

\* Each transaction, whoever ran the one before it.
LEMMA RevInvNext == RevInv /\ [Next]_vars => RevInv'
<1> SUFFICES ASSUME RevInv, [Next]_vars PROVE RevInv'
  OBVIOUS
<1>0. /\ proc \in [Processes -> Process]
      /\ attempt \in [Attempts -> AttemptStatus] /\ rounds \in [Attempts -> Seq(Verdicts)]
      /\ winner \in Attempts \cup {NoAttempt}
  BY DEF RevInv, TypeOK, Process
<1> USE AttemptsAssumption, <1>0
    DEF RevInv, Moved, Early, Active, Ended, Places, Verdicts, Holding, rows, LastPassed
<1>1. ASSUME NEW p \in Processes, Launch(p) PROVE RevInv'
  <2>1. /\ proc' \in [Processes -> Process]
        /\ proc'[p].at \in {"admitting", "refused"} /\ proc'[p].target \in Attempts
        /\ \A q \in Processes : q # p => proc'[q] = proc[q]
    BY <1>1, LaunchMoves
  <2>2. proc[p].at \in Ended /\ UNCHANGED <<rows, preserved, reconciled>>
    BY <1>1 DEF Launch
  <2>3. launches' \in 0..MaxLaunches
    BY <1>1, LaunchesAssumption DEF Launch, TypeOK
  <2>4. TypeOK'
    BY <2>1, <2>2, <2>3 DEF TypeOK, Process
  <2>5. QED
    BY <2>1, <2>2, <2>4, MovesKeep
<1>2. ASSUME NEW p \in Processes, Admit(p), ~Admissible(proc[p].target) PROVE RevInv'
  <2>1. proc[p].at = "admitting" /\ UNCHANGED <<rows, preserved, launches, reconciled>>
    BY <1>2 DEF Admit
  <2>2. Moved(p, "refused")
    BY <1>2, GotoMoves DEF Admit
  <2>3. TypeOK' /\ proc[p].target \in Attempts
    BY <2>1, <2>2 DEF TypeOK, Process, TargetKnown
  <2>4. QED
    BY <2>1, <2>2, <2>3, MovesKeep
<1>3. ASSUME NEW p \in Processes, Inspect(p) PROVE RevInv'
  <2>1. proc[p].at = "inspecting" /\ UNCHANGED <<rows, preserved, launches, reconciled>>
    BY <1>3 DEF Inspect
  <2>2. PICK place \in {"verifying", "failing"} : Moved(p, place)
    BY <1>3, GotoMoves DEF Inspect
  <2>3. TypeOK'
    BY <2>1, <2>2 DEF TypeOK, Process
  <2>4. QED
    BY <2>1, <2>2, <2>3, MovesKeep
<1>4. ASSUME NEW p \in Processes, Verify(p) PROVE RevInv'
  <2>1. proc[p].at = "verifying" /\ UNCHANGED <<rows, preserved, launches, reconciled>>
    BY <1>4 DEF Verify
  <2>2. PICK place \in {"numbering", "failing"} : Moved(p, place)
    BY <1>4, GotoMoves, VerdictMoves DEF Verify
  <2>3. TypeOK'
    BY <2>1, <2>2 DEF TypeOK, Process
  <2>4. QED
    BY <2>1, <2>2, <2>3, MovesKeep
<1>5. ASSUME NEW p \in Processes, NumberRound(p) PROVE RevInv'
  <2>1. proc[p].at = "numbering" /\ UNCHANGED <<rows, preserved, launches, reconciled>>
    BY <1>5 DEF NumberRound
  <2>2. Len(rounds[proc[p].target]) + 1 \in Nat
    BY <2>1 DEF TargetKnown
  <2>3. Moved(p, "recording") /\ proc'[p].round = Len(rounds[proc[p].target]) + 1
    BY <1>5, <2>2, NumberMoves DEF NumberRound
  <2>4. TypeOK'
    BY <2>1, <2>3 DEF TypeOK, Process
  <2>5. QED
    BY <2>1, <2>3, <2>4, MovesKeep
<1>6. ASSUME NEW p \in Processes, Interrupt(p) PROVE RevInv'
  <2>1. proc[p].at \in {"inspecting", "verifying"} /\ UNCHANGED <<rows, preserved, launches, reconciled>>
    BY <1>6 DEF Interrupt
  <2>2. Moved(p, "failing")
    BY <1>6, GotoMoves DEF Interrupt
  <2>3. TypeOK'
    BY <2>1, <2>2 DEF TypeOK, Process
  <2>4. QED
    BY <2>1, <2>2, <2>3, MovesKeep
<1>7. ASSUME NEW p \in Processes, Crash(p) PROVE RevInv'
  <2>1. proc[p].at \in Active /\ UNCHANGED <<rows, preserved, launches, reconciled>>
    BY <1>7 DEF Crash
  <2>2. Moved(p, "crashed")
    BY <1>7, GotoMoves DEF Crash
  <2>3. TypeOK'
    BY <2>1, <2>2 DEF TypeOK, Process
  <2>4. QED
    BY <2>1, <2>2, <2>3, MovesKeep
<1>8. ASSUME NEW p \in Processes, Admit(p), Admissible(proc[p].target) PROVE RevInv'
  <2> DEFINE a == proc[p].target
  <2>1. proc[p].at = "admitting" /\ a \in Attempts
    BY <1>8 DEF Admit, TargetKnown
  <2>2. /\ run = "failed" /\ task = "failed" /\ attempt[a] = "failed" /\ winner = NoAttempt
        /\ run' = "running" /\ task' = "verifying" /\ winner' = winner /\ rounds' = rounds
        /\ attempt' = [attempt EXCEPT ![a] = "verifying"]
        /\ UNCHANGED <<preserved, launches, reconciled>> /\ Goto(p, "inspecting")
    BY <1>8 DEF Admit, Admissible
  <2>3. Moved(p, "inspecting")
    BY <2>2, GotoMoves
  <2>4. \A q \in Processes : proc[q].at \notin Holding
    BY <2>2 DEF Reserved
  <2>5. "verifying" \in AttemptStatus /\ run' \in RunStatus /\ task' \in TaskStatus
    BY <2>2 DEF AttemptStatus, RunStatus, TaskStatus
  <2>6. TypeOK'
    BY <2>2, <2>3, <2>5 DEF TypeOK, Process
  <2>7. Reserved' /\ Alone' /\ TargetKnown'
    BY <2>1, <2>2, <2>3, <2>4 DEF Reserved, Alone, TargetKnown
  <2>8. NumberIsNext'
    BY <2>1, <2>2, <2>3, <2>4 DEF TargetKnown, NumberIsNext
  <2>9. RoundBeforeAward' /\ NoWinnerYet' /\ WinnerIsVerified'
    BY <2>1, <2>2, <2>3, <2>4 DEF TargetKnown, RoundBeforeAward, NoWinnerYet,
        WinnerIsVerified
  <2>10. Claimed'
    BY <2>1, <2>2, <2>3, <2>4 DEF TargetKnown, Claimed
  <2>11. StatusIsPlace'
    BY <2>1, <2>2, <2>3, <2>4 DEF TargetKnown, StatusIsPlace
  <2>12. OpenIsHeld'
    BY <2>1, <2>2, <2>3, <2>4 DEF TargetKnown, OpenIsHeld
  <2>13. TaskIsHeld'
    BY <2>1, <2>2, <2>3, <2>4 DEF NoWinnerYet, TaskIsHeld
  <2>14. RunIsHeld'
    BY <2>1, <2>2, <2>3, <2>4 DEF NoWinnerYet, Claimed, RunIsHeld
  <2>15. OutcomeIsTrue'
    BY <2>1, <2>2, <2>3, <2>4 DEF Reserved, TargetKnown, OutcomeIsTrue
  <2>16. QED
    BY <2>6, <2>7, <2>8, <2>9, <2>10, <2>11, <2>12, <2>13, <2>14, <2>15
<1>9. ASSUME NEW p \in Processes, RecordRound(p) PROVE RevInv'
  <2> DEFINE a == proc[p].target
  <2>1. proc[p].at = "recording" /\ a \in Attempts
    BY <1>9 DEF RecordRound, TargetKnown
  <2>2. /\ proc[p].round = Len(rounds[a]) + 1 /\ winner = NoAttempt
        /\ rounds' = [rounds EXCEPT ![a] = Append(@, proc[p].verdict)]
        /\ UNCHANGED <<run, task, winner, attempt, preserved, launches, reconciled>>
        /\ Goto(p, IF proc[p].verdict = "passed" THEN "passing" ELSE "failing")
    BY <1>9, <2>1 DEF RecordRound, NumberIsNext, NoWinnerYet
  <2>3. \/ proc[p].verdict = "passed" /\ Moved(p, "passing")
        \/ Moved(p, "failing")
    BY <1>9, GotoMoves DEF RecordRound
  <2>4. \A q \in Processes : q # p => proc[q].at \notin Holding
    BY <2>1 DEF Alone
  <2>5. rounds' \in [Attempts -> Seq(Verdicts)]
    BY <2>1, <2>2 DEF Process
  <2>6. TypeOK'
    BY <2>2, <2>3, <2>5 DEF TypeOK, Process
  <2>7. \A q \in Processes : proc[q].at \in Holding =>
          proc'[q].at \in Holding /\ proc'[q].target = proc[q].target
    BY <2>3
  <2>8. rounds'[a] = Append(rounds[a], proc[p].verdict)
    BY <2>1, <2>2
  <2>9. proc[p].verdict = "passed" => LastPassed(a)'
    BY <2>1, <2>3, <2>8, LastOfAppend DEF Process
  <2>10. Reserved' /\ Alone' /\ TargetKnown'
    BY <2>1, <2>2, <2>3, <2>4, <2>7, <2>8, <2>9 DEF Reserved, Alone, TargetKnown
  <2>11. NumberIsNext'
    BY <2>1, <2>2, <2>3, <2>4, <2>7, <2>8, <2>9 DEF TargetKnown, NumberIsNext
  <2>12. RoundBeforeAward' /\ NoWinnerYet' /\ WinnerIsVerified'
    BY <2>1, <2>2, <2>3, <2>4, <2>7, <2>8, <2>9 DEF TargetKnown, RoundBeforeAward,
        NoWinnerYet, WinnerIsVerified
  <2>13. Claimed'
    BY <2>1, <2>2, <2>3, <2>4, <2>7, <2>8, <2>9 DEF TargetKnown, Claimed
  <2>14. StatusIsPlace'
    BY <2>1, <2>2, <2>3, <2>4, <2>7, <2>8, <2>9 DEF TargetKnown, StatusIsPlace
  <2>15. OpenIsHeld'
    BY <2>1, <2>2, <2>3, <2>4, <2>7, <2>8, <2>9 DEF TargetKnown, OpenIsHeld
  <2>16. TaskIsHeld'
    BY <2>1, <2>2, <2>3, <2>4, <2>7, <2>8, <2>9 DEF NoWinnerYet, TaskIsHeld
  <2>17. RunIsHeld'
    BY <2>1, <2>2, <2>3, <2>4, <2>7, <2>8, <2>9 DEF NoWinnerYet, Claimed, RunIsHeld
  <2>18. OutcomeIsTrue'
    BY <2>1, <2>2, <2>3, <2>4, <2>7, <2>8, <2>9 DEF Reserved, TargetKnown, OutcomeIsTrue
  <2>19. QED
    BY <2>6, <2>10, <2>11, <2>12, <2>13, <2>14, <2>15, <2>16, <2>17, <2>18
<1>10. ASSUME NEW p \in Processes, FinishFailure(p) PROVE RevInv'
  <2> DEFINE a == proc[p].target
  <2>1. proc[p].at = "failing" /\ a \in Attempts
    BY <1>10 DEF FinishFailure, TargetKnown
  <2>2. /\ winner = NoAttempt /\ attempt[a] = "verifying"
        /\ attempt' = [attempt EXCEPT ![a] = IF @ = "verifying" THEN "failed" ELSE @]
        /\ task' = IF task = "verifying" THEN "failed" ELSE task
        /\ run' = IF run = "running" THEN "failed" ELSE run
        /\ UNCHANGED <<winner, rounds, preserved, launches, reconciled>>
    BY <1>10, <2>1 DEF FinishFailure, NoWinnerYet, StatusIsPlace
  <2>3. Moved(p, "failed")
    BY <1>10, GotoMoves DEF FinishFailure
  <2>4. \A q \in Processes : q # p => proc[q].at \notin Holding
    BY <2>1 DEF Alone
  <2>5. "failed" \in AttemptStatus /\ run' \in RunStatus /\ task' \in TaskStatus
    BY <2>2 DEF AttemptStatus, RunStatus, TaskStatus, TypeOK
  <2>6. TypeOK'
    BY <2>2, <2>3, <2>5 DEF TypeOK, Process
  <2>7. Reserved' /\ Alone' /\ TargetKnown'
    BY <2>1, <2>2, <2>3, <2>4 DEF Reserved, Alone, TargetKnown
  <2>8. NumberIsNext'
    BY <2>1, <2>2, <2>3, <2>4 DEF TargetKnown, NumberIsNext
  <2>9. RoundBeforeAward' /\ NoWinnerYet' /\ WinnerIsVerified'
    BY <2>1, <2>2, <2>3, <2>4 DEF TargetKnown, RoundBeforeAward, NoWinnerYet,
        WinnerIsVerified
  <2>10. Claimed'
    BY <2>1, <2>2, <2>3, <2>4 DEF TargetKnown, Claimed
  <2>11. StatusIsPlace'
    BY <2>1, <2>2, <2>3, <2>4 DEF TargetKnown, StatusIsPlace
  <2>12. OpenIsHeld'
    BY <2>1, <2>2, <2>3, <2>4 DEF TargetKnown, OpenIsHeld
  <2>13. TaskIsHeld'
    BY <2>1, <2>2, <2>3, <2>4 DEF NoWinnerYet, TaskIsHeld
  <2>14. RunIsHeld'
    BY <2>1, <2>2, <2>3, <2>4 DEF Reserved, NoWinnerYet, Claimed, RunIsHeld
  <2>15. OutcomeIsTrue'
    BY <2>1, <2>2, <2>3, <2>4 DEF Reserved, TargetKnown, OutcomeIsTrue
  <2>16. QED
    BY <2>6, <2>7, <2>8, <2>9, <2>10, <2>11, <2>12, <2>13, <2>14, <2>15
<1>11. ASSUME NEW p \in Processes, MarkPassed(p) PROVE RevInv'
  <2> DEFINE a == proc[p].target
  <2>1. proc[p].at = "passing" /\ a \in Attempts
    BY <1>11 DEF MarkPassed, TargetKnown
  <2>2. /\ winner = NoAttempt /\ attempt[a] = "verifying"
        /\ attempt' = [attempt EXCEPT ![a] = "passed"]
        /\ UNCHANGED <<run, task, winner, rounds, preserved, launches, reconciled>>
    BY <1>11, <2>1 DEF MarkPassed, NoWinnerYet, StatusIsPlace
  <2>3. Moved(p, "claiming")
    BY <1>11, GotoMoves DEF MarkPassed
  <2>4. \A q \in Processes : q # p => proc[q].at \notin Holding
    BY <2>1 DEF Alone
  <2>5. "passed" \in AttemptStatus
    BY DEF AttemptStatus
  <2>6. TypeOK'
    BY <2>2, <2>3, <2>5 DEF TypeOK, Process
  <2>7. \A q \in Processes : proc[q].at \in Holding =>
          proc'[q].at \in Holding /\ proc'[q].target = proc[q].target
    BY <2>3
  <2>8. Reserved' /\ Alone' /\ TargetKnown'
    BY <2>1, <2>2, <2>3, <2>4, <2>7 DEF Reserved, Alone, TargetKnown
  <2>9. NumberIsNext'
    BY <2>1, <2>2, <2>3, <2>4, <2>7 DEF TargetKnown, NumberIsNext
  <2>10. RoundBeforeAward' /\ NoWinnerYet' /\ WinnerIsVerified'
    <3>1. RoundBeforeAward'
      BY <2>1, <2>2, <2>3, <2>4, <2>7 DEF TargetKnown, RoundBeforeAward
    <3>2. NoWinnerYet'
      BY <2>1, <2>2, <2>3, <2>4, <2>7 DEF NoWinnerYet
    <3>3. WinnerIsVerified'
      BY <2>1, <2>2, <2>3, <2>4, <2>7 DEF NoWinnerYet, WinnerIsVerified
    <3>4. QED
      BY <3>1, <3>2, <3>3
  <2>11. Claimed'
    BY <2>1, <2>2, <2>3, <2>4, <2>7 DEF TargetKnown, Claimed
  <2>12. StatusIsPlace'
    BY <2>1, <2>2, <2>3, <2>4, <2>7 DEF TargetKnown, StatusIsPlace
  <2>13. OpenIsHeld'
    BY <2>1, <2>2, <2>3, <2>4, <2>7 DEF TargetKnown, OpenIsHeld
  <2>14. TaskIsHeld'
    BY <2>1, <2>2, <2>3, <2>4, <2>7 DEF NoWinnerYet, TaskIsHeld
  <2>15. RunIsHeld'
    BY <2>1, <2>2, <2>3, <2>4, <2>7 DEF NoWinnerYet, Claimed, RunIsHeld
  <2>16. OutcomeIsTrue'
    BY <2>1, <2>2, <2>3, <2>4, <2>7 DEF Reserved, TargetKnown, OutcomeIsTrue
  <2>17. QED
    BY <2>6, <2>8, <2>9, <2>10, <2>11, <2>12, <2>13, <2>14, <2>15, <2>16
<1>12. ASSUME NEW p \in Processes, Claim(p), winner = NoAttempt, task \notin {"cancelled", "blocked"} PROVE RevInv'
  <2> DEFINE a == proc[p].target
  <2>1. proc[p].at = "claiming" /\ a \in Attempts
    BY <1>12 DEF Claim, TargetKnown
  <2>2. /\ winner' = a /\ task' = "verified" /\ LastPassed(a)
        /\ attempt' = [b \in Attempts |->
             IF b = a THEN "winner"
             ELSE IF attempt[b] \in {"passed", "verifying", "agent_completed"} THEN "superseded"
             ELSE attempt[b]]
        /\ UNCHANGED <<run, rounds, preserved, launches, reconciled>>
    BY <1>12, <2>1 DEF Claim, RoundBeforeAward
  <2>3. Moved(p, "closing")
    BY <1>12, GotoMoves DEF Claim
  <2>4. \A q \in Processes : q # p => proc[q].at \notin Holding
    BY <2>1 DEF Alone
  <2>5. "superseded" \in AttemptStatus /\ "winner" \in AttemptStatus /\ task' \in TaskStatus
    BY <2>2 DEF AttemptStatus, TaskStatus
  <2>6. TypeOK'
    BY <2>2, <2>3, <2>5 DEF TypeOK, Process
  <2>7. \A q \in Processes : proc[q].at \in Holding =>
          proc'[q].at \in Holding /\ proc'[q].target = proc[q].target
    BY <2>3
  <2>8. \A q \in Processes : proc[q].at \notin {"won", "lost"}
    BY <1>12 DEF OutcomeIsTrue, TargetKnown
  <2>9. Reserved' /\ Alone' /\ TargetKnown'
    BY <2>1, <2>2, <2>3, <2>4, <2>7, <2>8 DEF Reserved, Alone, TargetKnown
  <2>10. NumberIsNext'
    BY <2>1, <2>2, <2>3, <2>4, <2>7, <2>8 DEF TargetKnown, NumberIsNext
  <2>11. RoundBeforeAward' /\ NoWinnerYet' /\ WinnerIsVerified'
    BY <2>1, <2>2, <2>3, <2>4, <2>7, <2>8 DEF TargetKnown, RoundBeforeAward, NoWinnerYet,
        WinnerIsVerified
  <2>12. Claimed'
    BY <2>1, <2>2, <2>3, <2>4, <2>7, <2>8 DEF TargetKnown, Claimed
  <2>13. StatusIsPlace'
    BY <2>1, <2>2, <2>3, <2>4, <2>7, <2>8 DEF TargetKnown, StatusIsPlace
  <2>14. OpenIsHeld'
    BY <2>1, <2>2, <2>3, <2>4, <2>7, <2>8 DEF TargetKnown, OpenIsHeld
  <2>15. TaskIsHeld'
    BY <2>1, <2>2, <2>3, <2>4, <2>7, <2>8 DEF NoWinnerYet, TaskIsHeld
  <2>16. RunIsHeld'
    BY <2>1, <2>2, <2>3, <2>4, <2>7, <2>8 DEF Reserved, NoWinnerYet, Claimed, RunIsHeld
  <2>17. OutcomeIsTrue'
    BY <2>1, <2>2, <2>3, <2>4, <2>7, <2>8 DEF Reserved, TargetKnown, OutcomeIsTrue
  <2>18. QED
    BY <2>6, <2>9, <2>10, <2>11, <2>12, <2>13, <2>14, <2>15, <2>16, <2>17
<1>13. ASSUME NEW p \in Processes, Claim(p), winner # NoAttempt \/ task \in {"cancelled", "blocked"} PROVE RevInv'
  <2> DEFINE a == proc[p].target
  <2>1. proc[p].at = "claiming" /\ a \in Attempts
    BY <1>13 DEF Claim, TargetKnown
  <2>2. /\ winner = NoAttempt /\ task = "cancelled" /\ attempt[a] = "passed"
        /\ UNCHANGED <<run, task, winner, attempt, rounds, preserved, launches, reconciled>>
    BY <1>13, <2>1 DEF Claim, NoWinnerYet, TaskIsHeld, StatusIsPlace
  <2>3. Moved(p, "closing")
    BY <1>13, GotoMoves DEF Claim
  <2>4. \A q \in Processes : q # p => proc[q].at \notin Holding
    BY <2>1 DEF Alone
  <2>5. "superseded" \in AttemptStatus /\ "winner" \in AttemptStatus
    BY <2>2 DEF AttemptStatus, TaskStatus
  <2>6. TypeOK'
    BY <2>2, <2>3, <2>5 DEF TypeOK, Process
  <2>7. \A q \in Processes : proc[q].at \in Holding =>
          proc'[q].at \in Holding /\ proc'[q].target = proc[q].target
    BY <2>3
  <2>8. Reserved' /\ Alone' /\ TargetKnown'
    BY <2>1, <2>2, <2>3, <2>4, <2>7 DEF Reserved, Alone, TargetKnown
  <2>9. NumberIsNext'
    BY <2>1, <2>2, <2>3, <2>4, <2>7 DEF TargetKnown, NumberIsNext
  <2>10. RoundBeforeAward' /\ NoWinnerYet' /\ WinnerIsVerified'
    BY <2>1, <2>2, <2>3, <2>4, <2>7 DEF TargetKnown, RoundBeforeAward, NoWinnerYet,
        WinnerIsVerified
  <2>11. Claimed'
    BY <2>1, <2>2, <2>3, <2>4, <2>7 DEF TargetKnown, Claimed
  <2>12. StatusIsPlace'
    BY <2>1, <2>2, <2>3, <2>4, <2>7 DEF TargetKnown, StatusIsPlace
  <2>13. OpenIsHeld'
    BY <2>1, <2>2, <2>3, <2>4, <2>7 DEF TargetKnown, OpenIsHeld
  <2>14. TaskIsHeld'
    BY <2>1, <2>2, <2>3, <2>4, <2>7 DEF NoWinnerYet, TaskIsHeld
  <2>15. RunIsHeld'
    BY <2>1, <2>2, <2>3, <2>4, <2>7 DEF Reserved, NoWinnerYet, Claimed, RunIsHeld
  <2>16. OutcomeIsTrue'
    BY <2>1, <2>2, <2>3, <2>4, <2>7 DEF Reserved, TargetKnown, OutcomeIsTrue
  <2>17. QED
    BY <2>6, <2>8, <2>9, <2>10, <2>11, <2>12, <2>13, <2>14, <2>15, <2>16
<1>14. ASSUME NEW p \in Processes, Close(p), winner = proc[p].target PROVE RevInv'
  <2> DEFINE a == proc[p].target
  <2>1. proc[p].at = "closing" /\ a \in Attempts
    BY <1>14 DEF Close, TargetKnown
  <2>2. /\ winner = a /\ run' = "completed"
        /\ UNCHANGED <<task, winner, attempt, rounds, preserved, launches, reconciled>>
    BY <1>14, <2>1 DEF Close
  <2>3. Moved(p, "won")
    BY <1>14, GotoMoves DEF Close
  <2>4. \A q \in Processes : q # p => proc[q].at \notin Holding
    BY <2>1 DEF Alone
  <2>5. run' \in RunStatus
    BY <2>2 DEF RunStatus
  <2>6. TypeOK'
    BY <2>2, <2>3, <2>5 DEF TypeOK, Process
  <2>7. attempt[a] = "winner"
    BY <2>1, <2>2 DEF WinnerIsVerified
  <2>8. Reserved' /\ Alone' /\ TargetKnown'
    BY <2>1, <2>2, <2>3, <2>4, <2>7 DEF Reserved, Alone, TargetKnown
  <2>9. NumberIsNext'
    BY <2>1, <2>2, <2>3, <2>4, <2>7 DEF TargetKnown, NumberIsNext
  <2>10. RoundBeforeAward' /\ NoWinnerYet' /\ WinnerIsVerified'
    BY <2>1, <2>2, <2>3, <2>4, <2>7 DEF TargetKnown, RoundBeforeAward, NoWinnerYet,
        WinnerIsVerified
  <2>11. Claimed'
    BY <2>1, <2>2, <2>3, <2>4, <2>7 DEF TargetKnown, Claimed
  <2>12. StatusIsPlace'
    BY <2>1, <2>2, <2>3, <2>4, <2>7 DEF TargetKnown, StatusIsPlace
  <2>13. OpenIsHeld'
    BY <2>1, <2>2, <2>3, <2>4, <2>7 DEF TargetKnown, OpenIsHeld
  <2>14. TaskIsHeld'
    BY <2>1, <2>2, <2>3, <2>4, <2>7 DEF NoWinnerYet, TaskIsHeld
  <2>15. RunIsHeld'
    BY <2>1, <2>2, <2>3, <2>4, <2>7 DEF NoWinnerYet, Claimed, RunIsHeld
  <2>16. OutcomeIsTrue'
    BY <2>1, <2>2, <2>3, <2>4, <2>7 DEF Reserved, TargetKnown, OutcomeIsTrue
  <2>17. QED
    BY <2>6, <2>8, <2>9, <2>10, <2>11, <2>12, <2>13, <2>14, <2>15, <2>16
<1>15. ASSUME NEW p \in Processes, Close(p), winner # proc[p].target PROVE RevInv'
  <2> DEFINE a == proc[p].target
  <2>1. proc[p].at = "closing" /\ a \in Attempts
    BY <1>15 DEF Close, TargetKnown
  <2>2. /\ winner = NoAttempt /\ task = "cancelled" /\ attempt[a] = "passed" /\ run' = "failed"
        /\ attempt' = [attempt EXCEPT ![a] = "superseded"]
        /\ UNCHANGED <<task, winner, rounds, preserved, launches, reconciled>>
    BY <1>15, <2>1 DEF Close, Claimed
  <2>3. Moved(p, "lost")
    BY <1>15, GotoMoves DEF Close
  <2>4. \A q \in Processes : q # p => proc[q].at \notin Holding
    BY <2>1 DEF Alone
  <2>5. "superseded" \in AttemptStatus /\ "winner" \in AttemptStatus /\ run' \in RunStatus
    BY <2>2 DEF AttemptStatus, RunStatus
  <2>6. TypeOK'
    BY <2>2, <2>3, <2>5 DEF TypeOK, Process
  <2>7. \A b \in Attempts : attempt[b] \in {"verifying", "passed"} => b = a
    BY <2>1, <2>4 DEF OpenIsHeld
  <2>8. Reserved' /\ Alone' /\ TargetKnown'
    BY <2>1, <2>2, <2>3, <2>4, <2>7 DEF Reserved, Alone, TargetKnown
  <2>9. NumberIsNext'
    BY <2>1, <2>2, <2>3, <2>4, <2>7 DEF TargetKnown, NumberIsNext
  <2>10. RoundBeforeAward' /\ NoWinnerYet' /\ WinnerIsVerified'
    BY <2>1, <2>2, <2>3, <2>4, <2>7 DEF TargetKnown, RoundBeforeAward, NoWinnerYet,
        WinnerIsVerified
  <2>11. Claimed'
    BY <2>1, <2>2, <2>3, <2>4, <2>7 DEF TargetKnown, Claimed
  <2>12. StatusIsPlace'
    BY <2>1, <2>2, <2>3, <2>4, <2>7 DEF TargetKnown, StatusIsPlace
  <2>13. OpenIsHeld'
    BY <2>1, <2>2, <2>3, <2>4, <2>7 DEF TargetKnown, OpenIsHeld
  <2>14. TaskIsHeld'
    BY <2>1, <2>2, <2>3, <2>4, <2>7 DEF NoWinnerYet, TaskIsHeld
  <2>15. RunIsHeld'
    BY <2>1, <2>2, <2>3, <2>4, <2>7 DEF NoWinnerYet, Claimed, RunIsHeld
  <2>16. OutcomeIsTrue'
    BY SMTT(30), <2>1, <2>2, <2>3, <2>4, <2>7 DEF Reserved, TargetKnown, OutcomeIsTrue
  <2>17. QED
    BY <2>6, <2>8, <2>9, <2>10, <2>11, <2>12, <2>13, <2>14, <2>15, <2>16
<1>16. CASE Reconcile
  <2>1. PICK c \in Processes : proc[c].at = "crashed"
    BY <1>16 DEF Reconcile, Crashed
  <2>2. /\ \A q \in Processes : q # c => proc[q].at \notin Holding
        /\ proc' = proc /\ rounds' = rounds /\ winner' = winner /\ run' = run
        /\ preserved' = preserved /\ launches' = launches /\ reconciled' \in BOOLEAN
        /\ task' = IF task \in {"running", "verifying"} /\ winner = NoAttempt
                   THEN "failed" ELSE task
    BY <1>16, <2>1 DEF Reconcile, Alone
  <2>3. /\ attempt' \in [Attempts -> AttemptStatus]
        /\ \A b \in Attempts : attempt'[b] = attempt[b] \/ attempt'[b] \in {"failed", "orphaned"}
        /\ \A b \in Attempts :
             attempt[b] \in {"winner", "superseded"} => attempt'[b] = attempt[b]
    BY <1>16 DEF Reconcile, AttemptStatus
  <2>4. task' \in TaskStatus
    BY <2>2 DEF TypeOK, TaskStatus
  <2>5. TypeOK'
    BY <2>2, <2>3, <2>4 DEF TypeOK, Process
  <2>6. Reserved' /\ Alone' /\ TargetKnown'
    BY <2>1, <2>2, <2>3 DEF Reserved, Alone, TargetKnown
  <2>7. NumberIsNext'
    BY <2>1, <2>2, <2>3 DEF TargetKnown, NumberIsNext
  <2>8. RoundBeforeAward' /\ NoWinnerYet' /\ WinnerIsVerified'
    BY <2>1, <2>2, <2>3 DEF TargetKnown, RoundBeforeAward, NoWinnerYet, WinnerIsVerified
  <2>9. Claimed'
    BY <2>1, <2>2, <2>3 DEF TargetKnown, Claimed
  <2>10. StatusIsPlace'
    BY <2>1, <2>2, <2>3 DEF TargetKnown, StatusIsPlace
  <2>11. OpenIsHeld'
    BY <2>1, <2>2, <2>3 DEF TargetKnown, OpenIsHeld
  <2>12. TaskIsHeld'
    BY <2>1, <2>2, <2>3 DEF NoWinnerYet, TaskIsHeld
  <2>13. RunIsHeld'
    BY <2>1, <2>2, <2>3 DEF NoWinnerYet, Claimed, RunIsHeld
  <2>14. OutcomeIsTrue'
    BY <2>1, <2>2, <2>3 DEF Reserved, TargetKnown, OutcomeIsTrue
  <2>15. QED
    BY <2>5, <2>6, <2>7, <2>8, <2>9, <2>10, <2>11, <2>12, <2>13, <2>14
<1>17. CASE FgCancelRun \/ FgCancelTask
  <2>1. /\ UNCHANGED <<winner, attempt, rounds, preserved, proc, launches, reconciled>>
        /\ \/ run' = run
           \/ run = "running" /\ run' = "cancelled"
        /\ \/ task' = task
           \/ task' = "cancelled" /\ task \notin {"verified", "cancelled"}
    BY <1>17 DEF FgCancelRun, FgCancelTask, Cancellable
  <2>2. TypeOK'
    BY <2>1 DEF TypeOK, RunStatus, TaskStatus
  <2>3. Reserved' /\ Alone' /\ TargetKnown'
    BY <2>1 DEF Reserved, Alone, TargetKnown
  <2>4. NumberIsNext'
    BY <2>1 DEF TargetKnown, NumberIsNext
  <2>5. RoundBeforeAward' /\ NoWinnerYet' /\ WinnerIsVerified'
    BY <2>1 DEF TargetKnown, RoundBeforeAward, NoWinnerYet, WinnerIsVerified
  <2>6. Claimed'
    BY <2>1 DEF TargetKnown, Claimed
  <2>7. StatusIsPlace'
    BY <2>1 DEF TargetKnown, StatusIsPlace
  <2>8. OpenIsHeld'
    BY <2>1 DEF TargetKnown, OpenIsHeld
  <2>9. TaskIsHeld'
    BY <2>1 DEF NoWinnerYet, TaskIsHeld
  <2>10. RunIsHeld'
    BY <2>1 DEF NoWinnerYet, Claimed, RunIsHeld
  <2>11. OutcomeIsTrue'
    BY <2>1 DEF Reserved, TargetKnown, OutcomeIsTrue
  <2>12. QED
    BY <2>2, <2>3, <2>4, <2>5, <2>6, <2>7, <2>8, <2>9, <2>10, <2>11
<1>18. CASE UNCHANGED vars
  BY <1>18 DEF vars, TypeOK, Reserved, Alone, TargetKnown, NumberIsNext, RoundBeforeAward,
     NoWinnerYet, WinnerIsVerified, Claimed, OpenIsHeld, StatusIsPlace, TaskIsHeld, RunIsHeld,
     OutcomeIsTrue
<1>19. QED
  BY <1>1, <1>2, <1>3, <1>4, <1>5, <1>6, <1>7, <1>8, <1>9, <1>10, <1>11, <1>12, <1>13,
     <1>14, <1>15, <1>16, <1>17, <1>18 DEF Next, Step, Settled, Claim, Close

-------------------------------------------------------------------------------
\* The invariant holds in every state of every behaviour.
THEOREM Invariant == Spec => []RevInv
BY RevInvInit, RevInvNext, PTL DEF Spec

\* However many invocations, cancellations and crashes there are, the rows
\* agree with each other whenever nobody is at work on them.
THEOREM RowsAgree == Spec => []RowsConsistent
<1>1. RevInv => RowsConsistent
  <2> SUFFICES ASSUME RevInv PROVE RowsConsistent
    OBVIOUS
  <2>1. TypeOK /\ WinnerIsVerified
    BY DEF RevInv
  <2>2. ASSUME Quiet, ~Crashed PROVE \A p \in Processes : proc[p].at \notin Holding
    BY <2>2 DEF Quiet, Crashed, Holding
  <2>3. RestsConsistent
    BY <2>2 DEF RestsConsistent, RevInv, TaskIsHeld, RunIsHeld, OpenIsHeld, Holding, Active
  <2>4. QED
    BY <2>1, <2>3 DEF RowsConsistent
<1>2. QED
  BY <1>1, Invariant, PTL

\* The status of the run is enough to keep a second verification out.
THEOREM AtMostOne == Spec => []OneVerification
<1>1. RevInv => OneVerification
  BY DEF RevInv, Alone, NumberIsNext, OneVerification, Holding
<1>2. QED
  BY <1>1, Invariant, PTL

\* What the command printed is not contradicted later by anybody.
THEOREM OutcomeStaysTrue == Spec => []OutcomeIsTrue
<1>1. RevInv => OutcomeIsTrue
  BY DEF RevInv
<1>2. QED
  BY <1>1, Invariant, PTL

\* An award is final: the winner is not replaced, its row is not rewritten
\* and a completed run does not reopen, whatever is invoked later.
AwardStands ==
  [][winner # NoAttempt =>
       /\ winner' = winner /\ attempt'[winner] = "winner"
       /\ run = "completed" => run' = "completed"]_vars

\* Only the process that holds the rows could write to them, and it claims
\* once.
THEOREM AwardIsFinal == Spec => AwardStands
<1>1. RevInv /\ RevInv' /\ [Next]_vars =>
        [winner # NoAttempt =>
           /\ winner' = winner /\ attempt'[winner] = "winner"
           /\ run = "completed" => run' = "completed"]_vars
  <2> SUFFICES ASSUME RevInv, RevInv', [Next]_vars, winner # NoAttempt
               PROVE  /\ winner' = winner /\ attempt'[winner] = "winner"
                      /\ run = "completed" => run' = "completed"
    OBVIOUS
  <2>1. winner' = winner
    <3>1. ASSUME NEW p \in Processes, Claim(p) PROVE winner' = winner
      BY <3>1 DEF Claim
    <3>2. QED
      BY <3>1 DEF Next, Step, vars, rows, Launch, Admit, Inspect, Verify, NumberRound,
         RecordRound, FinishFailure, MarkPassed, Close, Interrupt, Crash, Reconcile,
         FgCancelRun, FgCancelTask, Settled
  <2>2. attempt'[winner] = "winner"
    BY <2>1 DEF RevInv, WinnerIsVerified
  <2>3. ASSUME run = "completed" PROVE run' = "completed"
    <3>1. \A p \in Processes : proc[p].at \notin Holding
      BY <2>3 DEF RevInv, Reserved
    <3>2. QED
      BY <2>3, <3>1 DEF Next, Step, vars, rows, Launch, Admit, Admissible, Inspect, Verify,
         NumberRound, RecordRound, FinishFailure, MarkPassed, Claim, Close, Interrupt, Crash,
         Reconcile, FgCancelRun, FgCancelTask, Settled, Holding, Active
  <2>4. QED
    BY <2>1, <2>2, <2>3
<1>2. QED
  BY <1>1, Invariant, RevInvNext, PTL DEF Spec, AwardStands

-------------------------------------------------------------------------------
(* The same promise as that of a task's execution (WinnerArbitration).       *)

\* An attempt has passed when one of its rounds has.
EverPassed == {a \in Attempts : \E i \in DOMAIN rounds[a] : rounds[a][i] = "passed"}

Arbitration ==
  INSTANCE WinnerArbitration WITH
    kept <- preserved, passed <- EverPassed, None <- NoAttempt
ImplementsArbitration == Arbitration!Spec

\* Where the verifier is about to run, or has run, on the preserved worktree.
Judging == {"verifying", "numbering", "recording", "passing", "claiming", "closing"}
WorktreeKept ==
  \A p \in Processes : proc[p].at \in Judging => proc[p].target \in preserved

\* What a step makes of a process: nobody gets to the verifier without the
\* inspection of the worktree it verifies.
Led(p) ==
  \/ proc'[p] = proc[p]
  \/ proc'[p].at \notin Judging
  \/ /\ proc'[p].target = proc[p].target
     /\ proc[p].at \in Judging \/ proc[p].target \in preserved

\* It holds of every step.
LEMMA EveryoneIsLed ==
  ASSUME RevInv, [Next]_vars
  PROVE  preserved' = preserved /\ \A q \in Processes : Led(q)
<1>0. proc \in [Processes -> Process]
  BY DEF RevInv, TypeOK, Process
<1>1. preserved' = preserved
  BY DEF Next, Step, vars, rows, Launch, Admit, Inspect, Verify, NumberRound, RecordRound,
     FinishFailure, MarkPassed, Claim, Close, Interrupt, Crash, Reconcile, FgCancelRun,
     FgCancelTask, Settled
<1>2. ASSUME NEW p \in Processes, NEW place \in Places, Moved(p, place),
             proc[p].at \in Judging \/ place \notin Judging
      PROVE  \A q \in Processes : Led(q)
  BY <1>2 DEF Moved, Led
<1>3. ASSUME NEW p \in Processes, NEW place \in Places \ Judging, Goto(p, place)
      PROVE  \A q \in Processes : Led(q)
  BY <1>0, <1>2, <1>3, GotoMoves
<1>4. ASSUME NEW p \in Processes, NEW place \in Places, Goto(p, place), proc[p].at \in Judging
      PROVE  \A q \in Processes : Led(q)
  BY <1>0, <1>2, <1>4, GotoMoves
<1>5. ASSUME proc' = proc PROVE \A q \in Processes : Led(q)
  <2>1. \A q \in Processes : proc'[q] = proc[q]
    BY <1>5
  <2>2. QED
    BY <2>1 DEF Led
<1>6. ASSUME NEW p \in Processes, Launch(p) PROVE \A q \in Processes : Led(q)
  BY <1>0, <1>6, LaunchMoves DEF Led, Judging
<1>7. ASSUME NEW p \in Processes, Admit(p) PROVE \A q \in Processes : Led(q)
  BY <1>3, <1>7 DEF Admit, Places, Active, Ended, Judging
<1>8. ASSUME NEW p \in Processes, Inspect(p) PROVE \A q \in Processes : Led(q)
  <2>1. CASE proc[p].target \in preserved
    <3>1. Moved(p, "verifying")
      BY <1>0, <1>8, <2>1, GotoMoves DEF Inspect, Places, Active
    <3>2. QED
      BY <2>1, <3>1 DEF Moved, Led
  <2>2. CASE proc[p].target \notin preserved
    BY <1>3, <1>8, <2>2 DEF Inspect, Places, Active, Judging
  <2>3. QED
    BY <2>1, <2>2
<1>9. ASSUME NEW p \in Processes, Verify(p) PROVE \A q \in Processes : Led(q)
  <2>1. ASSUME NEW v \in Verdicts,
               proc' = [proc EXCEPT ![p].at = "numbering", ![p].verdict = v]
        PROVE  Moved(p, "numbering")
    BY <1>0, <2>1, VerdictMoves
  <2>2. ASSUME Goto(p, "failing") PROVE \A q \in Processes : Led(q)
    BY <1>3, <2>2 DEF Places, Active, Judging
  <2>3. proc[p].at \in Judging /\ "numbering" \in Places
    BY <1>9 DEF Verify, Judging, Places, Active
  <2>4. QED
    BY <1>2, <1>9, <2>1, <2>2, <2>3 DEF Verify
<1>10. ASSUME NEW p \in Processes, NumberRound(p) PROVE \A q \in Processes : Led(q)
  <2>1. proc[p].at = "numbering" /\ proc[p].target \in Attempts
    BY <1>10 DEF NumberRound, RevInv, TargetKnown, Holding, Active
  <2>2. Len(rounds[proc[p].target]) + 1 \in Nat
    BY <2>1 DEF RevInv, TypeOK
  <2>3. Moved(p, "recording")
    BY <1>0, <1>10, <2>2, NumberMoves DEF NumberRound
  <2>4. QED
    BY <1>2, <2>1, <2>3 DEF Judging, Places, Active
<1>11. ASSUME NEW p \in Processes, RecordRound(p) PROVE \A q \in Processes : Led(q)
  BY <1>4, <1>11 DEF RecordRound, Places, Active, Judging
<1>12. ASSUME NEW p \in Processes, FinishFailure(p) PROVE \A q \in Processes : Led(q)
  BY <1>3, <1>12 DEF FinishFailure, Places, Ended, Judging
<1>13. ASSUME NEW p \in Processes, MarkPassed(p) PROVE \A q \in Processes : Led(q)
  BY <1>4, <1>13 DEF MarkPassed, Places, Active, Judging
<1>14. ASSUME NEW p \in Processes, Claim(p) PROVE \A q \in Processes : Led(q)
  BY <1>4, <1>14 DEF Claim, Places, Active, Judging
<1>15. ASSUME NEW p \in Processes, Close(p) PROVE \A q \in Processes : Led(q)
  BY <1>3, <1>15 DEF Close, Places, Ended, Judging
<1>16. ASSUME NEW p \in Processes, Interrupt(p) PROVE \A q \in Processes : Led(q)
  BY <1>3, <1>16 DEF Interrupt, Places, Active, Judging
<1>17. ASSUME NEW p \in Processes, Crash(p) PROVE \A q \in Processes : Led(q)
  BY <1>3, <1>17 DEF Crash, Places, Judging
<1>18. CASE Reconcile \/ FgCancelRun \/ FgCancelTask \/ Settled \/ UNCHANGED vars
  <2>1. proc' = proc
    BY <1>18 DEF Reconcile, FgCancelRun, FgCancelTask, Settled, vars
  <2>2. QED
    BY <1>1, <1>5, <2>1
<1>19. QED
  BY <1>1, <1>6, <1>7, <1>8, <1>9, <1>10, <1>11, <1>12, <1>13, <1>14, <1>15, <1>16, <1>17,
     <1>18 DEF Next, Step

\* So the worktree is there.
LEMMA WorktreeStays ==
  ASSUME RevInv, WorktreeKept, [Next]_vars
  PROVE  WorktreeKept'
BY EveryoneIsLed DEF WorktreeKept, Led

\* At first no round has passed.
LEMMA PromiseInit == Init => Arbitration!Init /\ WorktreeKept
<1> SUFFICES ASSUME Init PROVE Arbitration!Init /\ WorktreeKept
  OBVIOUS
<1>1. \A p \in Processes : proc[p].at = "idle"
  BY DEF Init, Fresh
<1>2. EverPassed = {}
  <2>1. \A a \in Attempts : rounds[a] \in {<<>>, <<"failed">>}
    BY DEF Init
  <2>2. \A a \in Attempts : \A i \in DOMAIN rounds[a] : rounds[a][i] = "failed"
    BY <2>1
  <2>3. QED
    BY <2>2 DEF EverPassed
<1>3. QED
  BY <1>1, <1>2 DEF Init, Arbitration!Init, WorktreeKept, Judging

\* Whoever writes neither rounds nor winner is not seen.
LEMMA NotSeen ==
  ASSUME rounds' = rounds, winner' = winner, preserved' = preserved
  PROVE  UNCHANGED Arbitration!vars
BY DEF Arbitration!vars, EverPassed

\* Recording a passing round is the verifier's pass, and a failing one nothing.
LEMMA RecordingPasses ==
  ASSUME RevInv, WorktreeKept, NEW p \in Processes, RecordRound(p)
  PROVE  Arbitration!Next \/ UNCHANGED Arbitration!vars
<1> DEFINE a == proc[p].target
           v == proc[p].verdict
<1>1. /\ a \in Attempts /\ a \in preserved /\ v \in Verdicts
      /\ winner' = winner /\ preserved' = preserved
  BY DEF RecordRound, RevInv, TypeOK, TargetKnown, WorktreeKept, Judging, Holding, Active
<1>2. CASE rounds' = rounds
  BY <1>1, <1>2, NotSeen
<1>3. CASE rounds' = [rounds EXCEPT ![a] = Append(@, v)]
  <2>1. rounds \in [Attempts -> Seq(Verdicts)]
    BY DEF RevInv, TypeOK
  <2>2. /\ rounds'[a] = Append(rounds[a], v)
        /\ \A b \in Attempts : b # a => rounds'[b] = rounds[b]
    BY <1>1, <1>3, <2>1
  <2>3. /\ rounds[a] \in Seq(Verdicts) /\ Len(rounds[a]) \in Nat
        /\ DOMAIN rounds[a] = 1..Len(rounds[a])
        /\ DOMAIN rounds'[a] = 1..(Len(rounds[a]) + 1)
        /\ \A i \in 1..Len(rounds[a]) : rounds'[a][i] = rounds[a][i]
        /\ rounds'[a][Len(rounds[a]) + 1] = v
    BY <1>1, <2>1, <2>2
  <2>4. (\E i \in DOMAIN rounds'[a] : rounds'[a][i] = "passed")
          <=> (\E i \in DOMAIN rounds[a] : rounds[a][i] = "passed") \/ v = "passed"
    <3> DEFINE n == Len(rounds[a])
    <3>1. \A i \in 1..(n + 1) : i \in 1..n \/ i = n + 1
      BY <2>3
    <3>2. (1..n) \subseteq 1..(n + 1) /\ n + 1 \in 1..(n + 1)
      BY <2>3
    <3>3. QED
      BY ONLY <2>3, <3>1, <3>2, Zenon
  <2>5. CASE v = "passed"
    <3>1. EverPassed' = EverPassed \cup {a}
      BY <1>1, <2>2, <2>4, <2>5 DEF EverPassed
    <3>2. Arbitration!Pass(a)
      BY <1>1, <3>1 DEF Arbitration!Pass
    <3>3. QED
      BY <1>1, <3>2 DEF Arbitration!Next
  <2>6. CASE v # "passed"
    <3>1. EverPassed' = EverPassed
      BY <1>1, <2>2, <2>4, <2>6 DEF EverPassed
    <3>2. QED
      BY <1>1, <3>1 DEF Arbitration!vars
  <2>7. QED
    BY <2>5, <2>6
<1>4. QED
  BY <1>2, <1>3 DEF RecordRound

\* A claim is the award, to an attempt whose last round passed, or changes nothing.
LEMMA ClaimingAwards ==
  ASSUME RevInv, WorktreeKept, NEW p \in Processes, Claim(p)
  PROVE  Arbitration!Next \/ UNCHANGED Arbitration!vars
<1> DEFINE a == proc[p].target
<1>1. /\ a \in Attempts /\ a \in preserved /\ LastPassed(a)
      /\ rounds' = rounds /\ preserved' = preserved
  BY DEF Claim, RevInv, TargetKnown, RoundBeforeAward, WorktreeKept, Judging, Holding, Active
<1>2. a \in EverPassed
  <2>1. rounds[a] \in Seq(Verdicts) /\ rounds[a] # <<>>
    BY <1>1 DEF RevInv, TypeOK, LastPassed
  <2>2. Len(rounds[a]) \in DOMAIN rounds[a]
    BY <2>1
  <2>3. QED
    BY <1>1, <2>2 DEF LastPassed, EverPassed
<1>3. EverPassed' = EverPassed
  BY <1>1 DEF EverPassed
<1>4. CASE winner' = winner
  BY <1>1, <1>4, NotSeen
<1>5. CASE winner = NoAttempt /\ winner' = a
  <2>1. Arbitration!Award(a)
    BY <1>1, <1>2, <1>3, <1>5 DEF Arbitration!Award
  <2>2. QED
    BY <1>1, <2>1 DEF Arbitration!Next
<1>6. QED
  BY <1>4, <1>5 DEF Claim

\* Every step is one of the promise's, or is not seen.
LEMMA PromiseNext ==
  ASSUME RevInv, WorktreeKept, [Next]_vars
  PROVE  [Arbitration!Next]_(Arbitration!vars)
<1>1. preserved' = preserved
  BY EveryoneIsLed
<1>2. ASSUME NEW p \in Processes, RecordRound(p)
      PROVE  Arbitration!Next \/ UNCHANGED Arbitration!vars
  BY <1>2, RecordingPasses
<1>3. ASSUME NEW p \in Processes, Claim(p)
      PROVE  Arbitration!Next \/ UNCHANGED Arbitration!vars
  BY <1>3, ClaimingAwards
<1>4. CASE \A p \in Processes : ~RecordRound(p) /\ ~Claim(p)
  <2>1. rounds' = rounds /\ winner' = winner
    BY <1>4 DEF Next, Step, vars, rows, Launch, Admit, Inspect, Verify, NumberRound,
       FinishFailure, MarkPassed, Close, Interrupt, Crash, Reconcile, FgCancelRun,
       FgCancelTask, Settled
  <2>2. QED
    BY <1>1, <2>1, NotSeen
<1>5. QED
  BY <1>2, <1>3, <1>4

\* Verifying once more keeps what the first execution promised: one award, to an
\* attempt that passed in its own worktree, never withdrawn or moved, whoever is
\* invoked, interrupted, cancelled or killed meanwhile.
THEOREM ReverificationImplementsArbitration == Spec => ImplementsArbitration
<1>1. Spec => []WorktreeKept
  BY Invariant, PromiseInit, WorktreeStays, PTL DEF Spec
<1>2. Spec => Arbitration!Init /\ [][Arbitration!Next]_(Arbitration!vars)
  BY <1>1, Invariant, PromiseInit, PromiseNext, PTL DEF Spec
<1>3. QED
  BY <1>2 DEF ImplementsArbitration, Arbitration!Spec
===============================================================================
