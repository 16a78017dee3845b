------------------------------- MODULE WorkSpan -------------------------------
(***************************************************************************)
(* Work/span analysis of a task graph: what the planner shows for approval *)
(* and sizes the run with (planning/parallelism.py), and how the scheduler *)
(* ranks ready tasks (scheduler/queue.py).  A graph is a set of records    *)
(* with an id, the ids it depends on, resource keys and a duration.        *)
(***************************************************************************)
EXTENDS Naturals, FiniteSets, FiniteSetsExt

CONSTANT MaxRootSlots    \* the product's limit on root slots

Ids(G) == {t.id : t \in G}
TaskOf(G, i) == CHOOSE t \in G : t.id = i
Depends(G) == [i \in Ids(G) |-> TaskOf(G, i).deps]
Largest(S) == IF S = {} THEN 0 ELSE Max(S)

\* Strict ancestors: to those known of a task come those known of them, as many
\* times as there are tasks.
Further(a) == [i \in DOMAIN a |-> a[i] \cup UNION {a[d] : d \in a[i] \cap DOMAIN a}]
Rounds(G) ==
  LET known[n \in 0..Cardinality(Ids(G))] ==
        IF n = 0 THEN Depends(G) ELSE Further(known[n - 1])
  IN known
Ancestors(G) == Rounds(G)[Cardinality(Ids(G))]

\* The analysis refuses unknown dependencies and cycles with an exception.
Analysable(G) ==
  /\ \A t \in G : t.deps \subseteq Ids(G)
  /\ \A i \in Ids(G) : i \notin Ancestors(G)[i]

\* Earliest finish of every task, and the finish of the last one.
Finish(G) ==
  LET finish[i \in Ids(G)] ==
        TaskOf(G, i).duration + Largest({finish[d] : d \in TaskOf(G, i).deps})
  IN finish
Work(G) == MapThenSumSet(LAMBDA t : t.duration, G)
Span(G) == Largest({Finish(G)[i] : i \in Ids(G)})

\* The critical path: from the last task to finish back to the dependency that
\* finishes last, until there is none (the code breaks ties by name).
LastOf(G, S) == LET finish == Finish(G) IN CHOOSE i \in S : \A j \in S : finish[j] <= finish[i]
Backwards(G) ==
  LET cursor[n \in 1..Cardinality(G)] ==
        IF n = 1 THEN LastOf(G, Ids(G))
        ELSE LET deps == TaskOf(G, cursor[n - 1]).deps
             IN IF deps = {} THEN cursor[n - 1] ELSE LastOf(G, deps)
  IN cursor
CriticalPath(G) == {Backwards(G)[n] : n \in 1..Cardinality(G)}

Together_NoKeys(G, group) ==   \* fault: common keys are not looked at
  \A t, u \in group : t # u => t.id \notin Ancestors(G)[u.id]

\* Tasks that can run at the same time: none before another, no common key.
Together(G, group) ==
  LET ancestors == Ancestors(G) IN
  \A t, u \in group :
    t # u => t.id \notin ancestors[u.id] /\ t.resources \cap u.resources = {}

ReadyWidth(G) == Largest({Cardinality(group) : group \in {g \in SUBSET G : Together(G, g)}})

\* W/L rounded to three places, and then up.
Exposed(G) ==
  LET thousandths == (2000 * Work(G) + Span(G)) \div (2 * Span(G))
  IN (thousandths + 999) \div 1000

RecommendedSlots(G) ==
  Max({1, Min({ReadyWidth(G), Max({1, Min({MaxRootSlots, Cardinality(G)})}), Exposed(G)})})


\* Bottom level: a task's duration and its longest chain of successors.
BottomLevels(G) ==
  LET level[i \in Ids(G)] ==
        TaskOf(G, i).duration + Largest({level[t.id] : t \in {u \in G : i \in u.deps}})
  IN level

\* The ready tasks of largest bottom level come first.
FirstReady(G, green) ==
  LET ready == {t \in G : t.id \notin green /\ t.deps \subseteq green}
      level == BottomLevels(G)
  IN {t \in ready : \A u \in ready : level[u.id] <= level[t.id]}

===============================================================================
