-------------------------- MODULE WinnerArbitration --------------------------
(***************************************************************************)
(* What the execution of one task promises to everyone who reads its       *)
(* result (dependent tasks, the delivery worktree, the user who reviews    *)
(* the winner's branch): at most one attempt is ever awarded the task, it  *)
(* is one a verifier passed, the award is never withdrawn or moved, and    *)
(* the winner's worktree stays on disk from the award on.  TaskRace        *)
(* implements this module, and Reverification, which starts from what a    *)
(* failed run has left.                                                    *)
(***************************************************************************)
CONSTANTS Attempts,   \* the attempts a task can have
          None        \* no attempt

VARIABLES kept,       \* attempts whose worktree is on disk
          passed,     \* attempts a verifier passed
          winner      \* the attempt awarded the task, or None

vars == <<kept, passed, winner>>

\* Worktrees may be left from earlier; nothing in them has passed.
Init == kept \subseteq Attempts /\ passed = {} /\ winner = None

\* A worktree is created for an attempt.
Provide(a) == kept' = kept \cup {a} /\ UNCHANGED <<passed, winner>>

\* A worktree is removed; never the winner's.
Discard(a) == a # winner /\ kept' = kept \ {a} /\ UNCHANGED <<passed, winner>>

\* A verifier passes what is in the attempt's worktree.
Pass(a) == a \in kept /\ passed' = passed \cup {a} /\ UNCHANGED <<kept, winner>>

\* The task is awarded, once, to an attempt that passed.
Award(a) ==
  /\ winner = None
  /\ a \in passed \cap kept
  /\ winner' = a
  /\ UNCHANGED <<kept, passed>>

Next == \E a \in Attempts : Provide(a) \/ Discard(a) \/ Pass(a) \/ Award(a)

Spec == Init /\ [][Next]_vars

==============================================================================
