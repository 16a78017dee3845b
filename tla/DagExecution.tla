----------------------------- MODULE DagExecution -----------------------------
(***************************************************************************)
(* What running a manifest promises: a task is at work only when all its   *)
(* dependencies are verified, two tasks that share a resource key are      *)
(* never at work together, a task is at work at most once, and what is     *)
(* verified stays verified.  RunLoop implements this module.               *)
(***************************************************************************)
CONSTANT Tasks

VARIABLES plan,      \* dependencies and resource keys of the tasks, fixed
          started,   \* tasks that are or have been at work
          active,    \* tasks at work
          verified   \* verified tasks

vars == <<plan, started, active, verified>>

Init == started = {} /\ active = {} /\ verified = {}

Exclusive(s, t) == plan.keys[s] \cap plan.keys[t] = {}

Start(S) ==
  /\ S \subseteq Tasks \ started
  /\ \A t \in S : plan.deps[t] \subseteq verified
  /\ \A t \in S : \A u \in (active \cup S) \ {t} : Exclusive(t, u)
  /\ started' = started \cup S
  /\ active' = active \cup S
  /\ UNCHANGED <<plan, verified>>

Verify(t) ==
  /\ t \in active
  /\ verified' = verified \cup {t}
  /\ UNCHANGED <<plan, started, active>>

Leave(S) ==
  /\ S \subseteq active
  /\ active' = active \ S
  /\ UNCHANGED <<plan, started, verified>>

Next == \/ \E S \in SUBSET Tasks : Start(S) \/ Leave(S)
        \/ \E t \in Tasks : Verify(t)

Spec == Init /\ [][Next]_vars

===============================================================================
