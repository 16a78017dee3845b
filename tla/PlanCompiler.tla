----------------------------- MODULE PlanCompiler -----------------------------
(***************************************************************************)
(* compile_plan: a planner's proposal becomes a task graph.  Artifacts     *)
(* become dependencies, cycles and boundaries with too much common write   *)
(* scope are merged away, remaining overlaps become resource keys, the     *)
(* result is validated, and what is not valid falls back to one task.      *)
(*                                                                         *)
(* A compiled task is named by the set of proposed tasks it stands for.  A *)
(* path is the sequence of its parts as they are written: "./src" is not   *)
(* "src" to the compiler, but it is to the path patterns.  The order in    *)
(* which overlapping pairs are merged depends on the names; here any order *)
(* may be taken.  Left out are duplicate names and the checks of wording   *)
(* (objectives, hints, isolated tests); the fallback is allowed, as every  *)
(* caller has it.                                                          *)
(***************************************************************************)
EXTENDS WorkSpan, PathPatterns, SequencesExt

CONSTANTS
  Proposals,      \* proposals: [tasks, maxTasks, allowed, denied, external, verifier]
  PathOrder,      \* every likely path, in the order of its text
  Files,          \* files of the repository, and files a worker may add
  OverlapPercent  \* maximum_write_overlap, in percent

Paths == Range(PathOrder)

ASSUME CompilerAssumption == OverlapPercent \in 0..100 /\ MaxRootSlots \in Nat \ {0}

\* A likely path names a file or a directory, with or without "./" in front;
\* patterns as likely paths are not modelled.  git names files without it.
ASSUME PathsAssumption ==
  /\ PathOrder \in Seq(Paths)
  /\ \A path \in Paths \cup Files : path \in Seq(STRING) /\ path # <<>>
  /\ \A path \in Paths : \A n \in DOMAIN path :
       path[n] \notin {"*", "**"} /\ (path[n] = "." => n = 1)
  /\ \A file \in Files : file[1] # "."

\* The limits of PlannerProposal and DecompositionConfig.
ASSUME ProposalsAssumption ==
  \A p \in Proposals :
    /\ p.maxTasks \in Nat \ {0} /\ p.tasks \in Seq(Range(p.tasks)) /\ p.tasks # <<>>
    /\ \A task \in Range(p.tasks) : task.paths \subseteq Paths /\ task.readOnly \in BOOLEAN

VARIABLES
  proposal,   \* the planner's proposal and what the command line adds
  tasks,      \* the compiled tasks
  repaired,   \* the plan records a repair
  phase       \* "cycles", "overlaps", "plan", "single" or "raised"

vars == <<proposal, tasks, repaired, phase>>

Rank(path) == CHOOSE n \in DOMAIN PathOrder : PathOrder[n] = path

\* The directory or file two paths have in common, if one holds the other as
\* they are written (_normal takes no "./" away).
Common(a, b) == IF IsPrefix(a, b) THEN {a} ELSE IF IsPrefix(b, a) THEN {b} ELSE {}

Overlaps(l, r) ==
  IF l.readOnly \/ r.readOnly THEN {}
  ELSE UNION {Common(pair[1], pair[2]) : pair \in l.paths \X r.paths}

Exceeds_AnyOverlap(l, r) == Overlaps(l, r) # {}   \* fault: no threshold
Exceeds(l, r) ==
  100 * Cardinality(Overlaps(l, r)) >
    OverlapPercent * Max({1, Cardinality(l.paths \cup r.paths)})

\* The heuristic duration, in hundredths of the minimum.
Estimate(t) ==
  (IF t.readOnly THEN 75 ELSE 100) + Min({60, 10 * Max({0, Cardinality(t.paths) - 1})})

\* An artifact's producer is the last task that names it.
Producers(p, artifact) == {i \in DOMAIN p.tasks : artifact \in p.tasks[i].produces}
Requires(p, i) ==
  {Max(Producers(p, a)) : a \in {x \in p.tasks[i].requires : Producers(p, x) # {}}}

\* One compiled task per proposed one, up to the limit; a task named an
\* integration or a verification waits for all the others.
Kept(p) == 1..Min({p.maxTasks, Len(p.tasks)})
EdgesOf(p) ==
  {[id |-> {i}, paths |-> p.tasks[i].paths, produces |-> p.tasks[i].produces,
    requires |-> p.tasks[i].requires, readOnly |-> p.tasks[i].readOnly,
    deps |-> {{j} : j \in Requires(p, i) \cup (IF p.tasks[i].join THEN Kept(p) \ {i} ELSE {})},
    resources |-> {}, duration |-> Estimate(p.tasks[i])] : i \in Kept(p)}

Init ==
  /\ proposal \in Proposals
  /\ tasks = EdgesOf(proposal)
  /\ repaired = FALSE
  /\ phase = "cycles"

-------------------------------------------------------------------------------
\* _cycle_nodes: depth first, the nodes of every path that comes back to
\* itself.  A node left before is not entered again, so a node whose only
\* cycle leads through one is missed.
OnPathsBack(graph) ==
  LET nodes == DOMAIN graph
      inOrder(S) == SetToSortSeq(S, LAMBDA a, b : Min(a) < Min(b))
      Search == [path : Seq(nodes), left : SUBSET nodes, cycle : SUBSET nodes]
      visit[i \in nodes, st \in Search] ==
        IF i \in Range(st.path)
        THEN [st EXCEPT !.cycle = @ \cup
                {st.path[n] : n \in {m \in DOMAIN st.path : \E k \in 1..m : st.path[k] = i}}]
        ELSE IF i \in st.left THEN st
        ELSE LET within == [st EXCEPT !.path = Append(@, i)]
                 after == FoldLeft(LAMBDA s, d : visit[d, s], within, inOrder(graph[i] \cap nodes))
             IN [after EXCEPT !.path = st.path, !.left = @ \cup {i}]
  IN FoldLeft(LAMBDA s, i : visit[i, s], [path |-> <<>>, left |-> {}, cycle |-> {}],
              inOrder(nodes)).cycle
CycleNodes(G) == {i \in Ids(G) : i \in OnPathsBack(Depends(G))}

\* Fault: the dependencies of the merged tasks are forgotten.
Merge_NoDeps(G, ids) ==
  LET parts == {t \in G : t.id \in ids}
  IN {[t EXCEPT !.deps = IF @ \cap ids = {} THEN @ ELSE (@ \ ids) \cup {UNION ids}] :
        t \in G \ parts} \cup
     {[id |-> UNION ids, paths |-> UNION {t.paths : t \in parts},
       produces |-> UNION {t.produces : t \in parts}, requires |-> {},
       readOnly |-> \A t \in parts : t.readOnly, deps |-> {},
       resources |-> {}, duration |-> Work(parts)]}

\* One task instead of several; whoever depended on one depends on it.
Merge(G, ids) ==
  LET parts == {t \in G : t.id \in ids}
      made == UNION {t.produces : t \in parts}
  IN {[t EXCEPT !.deps = IF @ \cap ids = {} THEN @ ELSE (@ \ ids) \cup {UNION ids}] :
        t \in G \ parts} \cup
     {[id |-> UNION ids, paths |-> UNION {t.paths : t \in parts}, produces |-> made,
       requires |-> (UNION {t.requires : t \in parts}) \ made,
       readOnly |-> \A t \in parts : t.readOnly,
       deps |-> (UNION {t.deps : t \in parts}) \ ids,
       resources |-> UNION {t.resources : t \in parts}, duration |-> Work(parts)]}

\* Fault: the repair of a cycle is not recorded.
MergeCycle_Silent ==
  /\ phase = "cycles"
  /\ LET cycle == CycleNodes(tasks)
     IN tasks' = IF Cardinality(cycle) >= 2 THEN Merge(tasks, cycle) ELSE tasks
  /\ phase' = "overlaps"
  /\ UNCHANGED <<proposal, repaired>>

\* All nodes found on cycles are merged into one task, if they are several.
MergeCycle ==
  /\ phase = "cycles"
  /\ LET cycle == CycleNodes(tasks) IN
       IF Cardinality(cycle) >= 2
       THEN tasks' = Merge(tasks, cycle) /\ repaired' = TRUE
       ELSE UNCHANGED <<tasks, repaired>>
  /\ phase' = "overlaps"
  /\ UNCHANGED proposal

\* Two tasks that share too much of their scope are merged, unless both
\* produce something.
TooClose(l, r) == l # r /\ Exceeds(l, r) /\ (l.produces = {} \/ r.produces = {})

MergeOverlap ==
  /\ phase = "overlaps"
  /\ \E l, r \in tasks : TooClose(l, r) /\ tasks' = Merge(tasks, {l.id, r.id})
  /\ repaired' = TRUE
  /\ UNCHANGED <<proposal, phase>>

-------------------------------------------------------------------------------
\* Every remaining overlap gets a key, the first path in common.
Conflict(l, r) == l # r /\ Overlaps(l, r) # {}
WriteKey(l, r) ==
  CHOOSE p \in Overlaps(l, r) : \A q \in Overlaps(l, r) : Rank(p) <= Rank(q)

WithKeys_LeftOnly(G) ==   \* fault: only one of the two gets the key
  {[t EXCEPT !.resources =
      {WriteKey(t, u) : u \in {v \in G : Conflict(t, v) /\ Min(t.id) < Min(v.id)}}] : t \in G}
WithKeys(G) ==
  {[t EXCEPT !.resources = @ \cup {WriteKey(t, u) : u \in {v \in G : Conflict(t, v)}}] :
     t \in G}

\* validate_plan.
Invalid(G, p) ==
  \/ G = {} \/ Cardinality(G) > p.maxTasks
  \/ CycleNodes(G) # {}
  \/ \E t, u \in G : t # u /\ t.produces \cap u.produces # {}
  \/ ~p.verifier
  \/ \E t \in G :
       \/ ~t.readOnly /\ t.paths = {}
       \/ ~(t.requires \subseteq p.external \cup UNION {u.produces : u \in G})
       \/ ~(t.deps \subseteq Ids(G))
       \/ \E path \in t.paths :
            \/ \E pattern \in p.denied : PathMatches(path, pattern)
            \/ p.allowed # {} /\ ~ \E pattern \in p.allowed : PathMatches(path, pattern)

\* The one task of the fallback may write in every top-level directory; its
\* validation is not given the path policy.
Whole(p) ==
  [id |-> DOMAIN p.tasks, paths |-> {<<file[1]>> : file \in Files}, produces |-> {"request-result"},
   requires |-> {}, readOnly |-> FALSE, deps |-> {}, resources |-> {},
   duration |-> 100]

\* _candidate analyses the tasks, valid or not; the analysis raises.
CandidateRaises(G) == ~Analysable(G)

\* No pair is left: keys, validation, the candidate, and only then the fallback.
Conclude ==
  /\ phase = "overlaps"
  /\ ~ \E l, r \in tasks : TooClose(l, r)
  /\ LET G == WithKeys(tasks) IN
       CASE CandidateRaises(G) -> phase' = "raised" /\ tasks' = G /\ UNCHANGED repaired
         [] ~CandidateRaises(G) /\ Invalid(G, proposal) ->
              phase' = "single" /\ tasks' = {Whole(proposal)} /\ repaired' = TRUE
         [] OTHER -> phase' = "plan" /\ tasks' = G /\ UNCHANGED repaired
  /\ UNCHANGED proposal

Compiled == phase \in {"plan", "single", "raised"}
Next == MergeCycle \/ MergeOverlap \/ Conclude \/ (Compiled /\ UNCHANGED vars)

Spec == Init /\ [][Next]_vars

-------------------------------------------------------------------------------
IsPlan == phase = "plan"

\* Two tasks of a plan of which one names, letter for letter, a path that the
\* other names or that lies below one the other names, never run at the same
\* time: unless one is read-only they share a key (of capacity one), even where
\* none waits for the other.
WritersExclusive ==
  IsPlan =>
    \A t, u \in tasks :
      t # u /\ ~t.readOnly /\ ~u.readOnly
        /\ (\E a \in t.paths, b \in u.paths : IsPrefix(a, b) \/ IsPrefix(b, a))
      => t.resources \cap u.resources # {}

\* Whatever was merged, a task still comes after the producer of what it
\* requires, or has become one with it.
ProducersFirst ==
  IsPlan =>
    \A i \in Kept(proposal) : \A j \in Requires(proposal, i) :
      \E t, u \in tasks : i \in t.id /\ j \in u.id /\ (t = u \/ u.id \in Ancestors(tasks)[t.id])

\* No task kept of a proposal (those beyond the limit are cut) is lost or done
\* twice, and the scope of a compiled task is that of the tasks it stands for,
\* neither more nor less.
ScopePreserved ==
  IsPlan =>
    /\ \A i \in Kept(proposal) : Cardinality({t \in tasks : i \in t.id}) = 1
    /\ \A t \in tasks :
         /\ t.paths = UNION {proposal.tasks[i].paths : i \in t.id}
         /\ t.produces = UNION {proposal.tasks[i].produces : i \in t.id}

\* The compiled graph does what was proposed, in the order that needs.
ProposalPreserved == ProducersFirst /\ ScopePreserved

\* A task and everything whose changes it inherits.
Inherited(G, t) == {u \in G : u = t \/ u.id \in Ancestors(G)[t.id]}

\* The patterns a task's verifier is given: the scope of all of them; an empty
\* list lets everything pass.
AllowedPatterns(G, t) == UNION {ScopePatterns(u.paths) : u \in Inherited(G, t)}
Admits(patterns, file) ==
  patterns = {} \/ \E pattern \in patterns : PathMatches(file, pattern)

\* The verifier of a task of a plan lets a changed file pass exactly when it is
\* at or below a likely path of the task or of one before it; but a path with a
\* dot in its name is taken for a file, one at the top for a file of that name
\* anywhere, and where no path is named every file passes.  That happens only
\* to a task that is read-only and comes after none but read-only ones.
PolicyIsTheScope ==
  IsPlan =>
    \A t \in tasks :
      LET scope == UNION {u.paths : u \in Inherited(tasks, t)} IN
      /\ \A file \in Files :
           Admits(AllowedPatterns(tasks, t), file) <=>
             \/ scope = {}
             \/ \E path \in scope : LET name == PartsOf(path) IN
                  \/ name = file
                  \/ ~NamesFile(path) /\ IsPrefix(name, file)
                  \/ Len(name) = 1 /\ LastPart(file) = name[1]
      /\ scope = {} => \A u \in Inherited(tasks, t) : u.readOnly

\* What --yes may approve without a human (no repairs) is the tasks kept of the
\* proposal as they are: nothing was merged and nothing fell back.  A proposal
\* longer than the limit is cut, and that is no repair.
AutoApprovedAsProposed ==
  Compiled /\ phase # "raised" /\ ~repaired => IsPlan /\ \A t \in tasks : Cardinality(t.id) = 1

\* A valid proposal whose tasks share at most a third of their scope (the
\* limit is 0.35 by default) is kept as it is: safety does not cost it its
\* parallelism.
CleanIsKept ==
  LET kept == EdgesOf(proposal) IN
  Compiled /\ Analysable(kept) /\ ~Invalid(WithKeys(kept), proposal)
    /\ (\A t, u \in kept : t # u =>
          3 * Cardinality(Overlaps(t, u)) <= Cardinality(t.paths \cup u.paths))
  => IsPlan /\ Ids(tasks) = Ids(kept)

-------------------------------------------------------------------------------
(* The numbers shown with the plan.                                        *)

Chains(G) ==
  {c \in SUBSET G : \A t, u \in c :
     t = u \/ t.id \in Ancestors(G)[u.id] \/ u.id \in Ancestors(G)[t.id]}

\* The span is the longest chain of dependencies, the critical path is such
\* a chain, and the scheduler's ranks agree: their largest is the span, and
\* the task it starts first is one that begins a longest chain.
SpanIsLongestChain ==
  IsPlan =>
    LET path == {t \in tasks : t.id \in CriticalPath(tasks)}
        level == BottomLevels(tasks)
    IN /\ Span(tasks) = Max({Work(c) : c \in Chains(tasks)})
       /\ path \in Chains(tasks) /\ Work(path) = Span(tasks)
       /\ \A t \in FirstReady(tasks, {}) : level[t.id] = Span(tasks)

\* Once everything they wait for is verified, as many tasks as slots are
\* recommended can run at the same time, so no recommended slot is idle from
\* the beginning to the end of the run.
SlotsAreUsable ==
  IsPlan =>
    \E green \in SUBSET tasks :
      /\ \A t \in green : t.deps \subseteq Ids(green)
      /\ \E group \in SUBSET {t \in tasks \ green : t.deps \subseteq Ids(green)} :
           /\ Cardinality(group) >= RecommendedSlots(tasks)
           /\ \A t, u \in group : t # u => t.resources \cap u.resources = {}

\* The numbers a user approves and the run is sized with are true.
AnalysisIsTrue == SpanIsLongestChain /\ SlotsAreUsable

===============================================================================
