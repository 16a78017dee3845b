---------------------------- MODULE VerifiedOverlay ----------------------------
(***************************************************************************)
(* What travels between worktrees.  Every attempt works in a worktree of   *)
(* its own, made from the run's base; the files its dependencies' winners  *)
(* changed are copied into it, a repair also gets those of the attempt it  *)
(* repairs, and the delivery gets those of the graph's sinks.  A worktree  *)
(* counts when the verifier's commands pass and the paths git reports as   *)
(* changed are allowed.                                                    *)
(*                                                                         *)
(* Links are followed on both sides of a copy.  Left out are links to      *)
(* links and to directories, directories in the way of files, and names    *)
(* git quotes.  One attempt of a task is at work at a time (races are in   *)
(* TaskRace), and scopes are those of a compiled plan.                     *)
(***************************************************************************)
EXTENDS GitTrees, Naturals

CONSTANTS
  Tasks, Deps,     \* the graph: Deps[t] is what t waits for
  Scope,           \* Scope[t]: likely paths of the plan's task
  Delivery,        \* the delivery, as a task of its own
  Base, Parent,    \* trees of the base commit and of the commit before it
  Leads, Outside,  \* Leads[l]: the path link l leads to, or Outside the worktree
  Turn,            \* Turn[<<t, p>>]: when a copy comes to path p of t's winner
  Filtered,        \* paths whose names changed_paths drops: bytecode, the marker
  Outputs,         \* paths the verifier's commands may write
  Edits,           \* Edits[t]: contents a worker of t may give to paths
  Habits,          \* git commands workers use
  Failures,        \* sets of git commands a worker may make fail
  MaxAttempts,     \* MaxAttempts[t]: attempts of a task
  MaxSteps         \* bound: MaxSteps[t], the steps a worker of t takes

Commands == {"diff base...HEAD", "diff --cached", "diff", "ls-files --others"}

MayBeLink ==
  {p \in Paths : \/ Base[p] \in Links \/ Parent[p] \in Links
                 \/ \E t \in Tasks : \E x \in Edits[t] : x[1] = p /\ x[2] \in Links}

ASSUME OverlayAssumption ==
  /\ Deps \in [Tasks -> SUBSET Tasks] /\ Scope \in [Tasks -> SUBSET Paths]
  /\ Delivery \notin Tasks
  /\ Base \in Trees /\ Parent \in Trees
  /\ Filtered \subseteq Paths /\ Outputs \subseteq Paths
  /\ Edits \in [Tasks -> SUBSET ((Paths \ Outputs) \X Values)]
  /\ Failures \subseteq SUBSET Commands
  /\ MaxSteps \in [Tasks -> Nat] /\ MaxAttempts \in [Tasks -> Nat \ {0}]
ASSUME LinkAssumption ==
  Outside \notin Paths /\ Leads \in [Links -> (Paths \ MayBeLink) \cup {Outside}]
\* Copies are made one after the other, so one of several is the last.
ASSUME TurnAssumption ==
  /\ Turn \in [Tasks \X Paths -> Nat]
  /\ \A S \in SUBSET (Tasks \X Paths) : S # {} => \E x \in S : \A y \in S : Turn[y] <= Turn[x]

VARIABLES
  worktree,   \* worktree[w]: the checkout of a task's nth attempt
  state,      \* state[w]: "none", "working", "checking", "verified", "failed" or "refused"
  listed,     \* listed[w]: the changed paths the verifier read
  failing,    \* failing[w]: the git commands that fail in it
  steps       \* steps[w]: steps its worker has taken

vars == <<worktree, state, listed, failing, steps>>

AttemptsOf(t) == {t} \X (1..MaxAttempts[t])
Works == (UNION {AttemptsOf(t) : t \in Tasks}) \cup {<<Delivery, 1>>}

Init ==
  /\ worktree = [w \in Works |-> Fresh(Base)]
  /\ state = [w \in Works |-> "none"]
  /\ listed = [w \in Works |-> {}]
  /\ failing = [w \in Works |-> {}]
  /\ steps = [w \in Works |-> 0]

\* changed_paths: what the four commands name, less the names it drops; the
\* output of a command that fails is taken for empty.
Changed(c, fail) ==
  ((IF "diff base...HEAD" \in fail THEN {} ELSE Committed(c))
   \cup (IF "diff --cached" \in fail THEN {} ELSE Staged(c))
   \cup (IF "diff" \in fail THEN {} ELSE Unstaged(c))
   \cup (IF "ls-files --others" \in fail THEN {} ELSE Untracked(c))) \ Filtered
Reported(w) == Changed(worktree[w], failing[w])

\* The tasks a task builds on.
Ancestors == [t \in Tasks |->
  {u \in Tasks : \A S \in SUBSET Tasks :
     Deps[t] \subseteq S /\ (\A x \in S : Deps[x] \subseteq S) => u \in S}]
Sinks == {t \in Tasks : \A u \in Tasks : t \notin Deps[u]}

\* Fault: what a task inherits is not among its paths.
TaskScope_OwnOnly(t) == Scope[t]
\* The paths a task's verifier is given: its own and those of everything it
\* inherits.
TaskScope(t) == UNION {Scope[u] : u \in {t} \cup Ancestors[t]}

\* The delivery may hold what any task may write.
DeliveryScope ==
  IF \E u \in Tasks : TaskScope(u) = {} THEN {} ELSE UNION {TaskScope(u) : u \in Tasks}

Allowed(t) == IF t = Delivery THEN DeliveryScope ELSE TaskScope(t)

\* An empty list allows every path.
Permits(t, p) == Allowed(t) = {} \/ p \in Allowed(t)

Needs(t) == IF t = Delivery THEN Sinks ELSE Deps[t]
Winners(t) == {w \in Works : w[1] = t /\ state[w] = "verified"}
Sources(t) == UNION {Winners(d) : d \in Needs(t)}

-------------------------------------------------------------------------------
\* _bounded_child: the file behind a path, and what a program reads there.
Resolve(tree, p) == IF tree[p] \in Links THEN Leads[tree[p]] ELSE p
Read(tree, p) ==
  IF Resolve(tree, p) = Outside THEN tree[p] ELSE tree[Resolve(tree, p)]

\* A link out of a worktree, on either side of the copy, raises.
Escapes(sources) ==
  \E w \in sources : \E p \in Reported(w) :
    Outside \in {Resolve(worktree[w].files, p), Resolve(Base, p)}

\* VerifiedDependencyOverlay: the same path with two contents is a conflict.
Conflict_SamePath(sources) ==     \* fault: equal contents conflict as well
  \E v, w \in sources : v # w /\ Reported(v) \cap Reported(w) # {}
Conflict_LastWins(sources) == FALSE     \* fault: silently resolved by order
Conflict(sources) ==
  \E v, w \in sources : \E p \in Reported(v) \cap Reported(w) :
    Read(worktree[v].files, p) # Read(worktree[w].files, p)

\* The copies, and deletions, that reach a file: the path is that of the
\* source, the file the one behind it in the target.  Links of the target are
\* those of the base: no copy makes or removes one.
Reaching(sources, q) ==
  {x \in sources \X Paths : x[2] \in Reported(x[1]) /\ Resolve(Base, x[2]) = q}
Last(copies) ==
  CHOOSE x \in copies : \A y \in copies : Turn[<<y[1][1], y[2]>>] <= Turn[<<x[1][1], x[2]>>]

\* The files of a tree after those the sources changed are copied over it.
Overlaid(tree, sources) ==
  [q \in Paths |->
    LET copies == Reaching(sources, q) IN
    IF copies = {} THEN tree[q]
    ELSE Read(worktree[Last(copies)[1]].files, Last(copies)[2])]

Open(w, files) ==
  /\ worktree' = [worktree EXCEPT ![w] = [Fresh(Base) EXCEPT !.files = files]]
  /\ state' = [state EXCEPT ![w] = "working"]
  /\ UNCHANGED <<listed, failing, steps>>
\* A worktree that cannot be prepared is removed; the delivery's stays.
Refuse(w) ==
  /\ state' = [state EXCEPT ![w] = "refused"]
  /\ UNCHANGED <<worktree, listed, failing, steps>>

\* A task starts when its dependencies have winners.  The delivery is made when
\* the graph has more than one task.
Prepare(w) ==
  LET t == w[1] IN
  /\ state[w] = "none" /\ w[2] = 1
  /\ \A d \in Needs(t) : Winners(d) # {}
  /\ t = Delivery => Cardinality(Tasks) > 1 /\ \A u \in Tasks : Winners(u) # {}
  /\ IF Conflict(Sources(t)) \/ Escapes(Sources(t)) THEN Refuse(w)
     ELSE Open(w, Overlaid(Base, Sources(t)))

Failed(w) == <<w[1], w[2] - 1>>
Unrepairable(w) ==
  Conflict(Sources(w[1])) \/ Escapes(Sources(w[1])) \/ Escapes({Failed(w)})

\* Fault: the dependencies are copied over the failed attempt's work.
Repair_DepsLast(w) ==
  /\ state[w] = "none" /\ w[2] > 1 /\ state[Failed(w)] = "failed"
  /\ IF Unrepairable(w) THEN Refuse(w)
     ELSE Open(w, Overlaid(Overlaid(Base, {Failed(w)}), Sources(w[1])))

\* A repair: the dependencies once more, then what the failed attempt changed.
Repair(w) ==
  /\ state[w] = "none" /\ w[2] > 1 /\ state[Failed(w)] = "failed"
  /\ IF Unrepairable(w) THEN Refuse(w)
     ELSE Open(w, Overlaid(Overlaid(Base, Sources(w[1])), {Failed(w)}))

-------------------------------------------------------------------------------
\* One step of the worker.
Moves(t, c) ==
  {Edit(c, x[1], x[2]) : x \in Edits[t]}
  \cup (IF "stage" \in Habits THEN {Stage(c)} ELSE {})
  \cup (IF "commit" \in Habits THEN {Commit(Stage(c))} ELSE {})
  \cup (IF "reset" \in Habits THEN {ResetTo(c, Parent)} ELSE {})
  \cup (IF "orphan" \in Habits THEN {Orphan(Stage(c))} ELSE {})
Work(w) ==
  /\ state[w] = "working" /\ w[1] # Delivery /\ steps[w] < MaxSteps[w[1]]
  /\ \/ /\ \E next \in Moves(w[1], worktree[w]) :
             next # worktree[w] /\ worktree' = [worktree EXCEPT ![w] = next]
        /\ UNCHANGED failing
     \/ /\ \E fail \in Failures :
             fail # failing[w] /\ failing' = [failing EXCEPT ![w] = fail]
        /\ UNCHANGED worktree
  /\ steps' = [steps EXCEPT ![w] = @ + 1]
  /\ UNCHANGED <<state, listed>>

\* CommandVerifier.verify reads the changed paths, runs the commands (which
\* may write), and decides.
Check(w) ==
  /\ state[w] = "working"
  /\ state' = [state EXCEPT ![w] = "checking"]
  /\ listed' = [listed EXCEPT ![w] = Reported(w)]
  /\ UNCHANGED <<worktree, failing, steps>>

Disallowed(w) == {p \in listed[w] : ~Permits(w[1], p)}

\* Fault: the policy is not part of the verdict.
Decide_CommandsOnly(w) ==
  /\ state[w] = "checking"
  /\ \E passed \in BOOLEAN, written \in SUBSET Outputs, v \in Contents :
       /\ worktree' = [worktree EXCEPT ![w].files =
            [p \in Paths |-> IF p \in written THEN v ELSE @[p]]]
       /\ state' = [state EXCEPT ![w] = IF passed THEN "verified" ELSE "failed"]
  /\ UNCHANGED <<listed, failing, steps>>
Decide(w) ==
  /\ state[w] = "checking"
  /\ \E passed \in BOOLEAN, written \in SUBSET Outputs, v \in Contents :
       /\ worktree' = [worktree EXCEPT ![w].files =
            [p \in Paths |-> IF p \in written THEN v ELSE @[p]]]
       /\ state' = [state EXCEPT ![w] =
            IF passed /\ Disallowed(w) = {} THEN "verified" ELSE "failed"]
  /\ UNCHANGED <<listed, failing, steps>>

Settled ==
  /\ \A w \in Works : state[w] \notin {"working", "checking"}
  /\ UNCHANGED vars

Next ==
  \/ \E w \in Works : Prepare(w) \/ Repair(w) \/ Work(w) \/ Check(w) \/ Decide(w)
  \/ Settled

Spec == Init /\ [][Next]_vars

-------------------------------------------------------------------------------
\* What a worktree differs in from the last commit it has in common with the
\* base: the base itself, unless its worker moved the branch away from it.
Visible == Paths \ (Ignored \cup Filtered \cup Outputs)
Altered(w) == {p \in Visible : worktree[w].files[p] # worktree[w].fork[p]}
Readable(w) == failing[w] = {}

\* Whatever a worker stages, unstages, commits or deletes, a verified worktree
\* in which git works differs from that commit only where its task may write;
\* ignored and filtered names, and what the verifier's own commands wrote, are
\* not looked at.
PolicyHolds ==
  \A w \in Works : state[w] = "verified" /\ Readable(w) =>
    \A p \in Altered(w) : Permits(w[1], p)

Opens(w) == state[w] = "none" /\ state'[w] = "working"

\* Paths no link of the base is at or leads to.
Direct == {q \in Paths : \A p \in Paths : Resolve(Base, p) = q <=> p = q}

\* A worktree starts with what its dependencies' winners made of the base: every
\* altered or deleted file of every one of them, as a program reads it there (so
\* two of them agree on it), and nothing that is neither the base's nor what one
\* of them holds at a path that leads to the file.
CarriesVerifiedDiff ==
  [][\A w \in Works : Opens(w) /\ w[2] = 1 =>
       /\ \A v \in Sources(w[1]) : Readable(v) =>
            \A q \in Altered(v) \cap Direct :
              worktree'[w].files[q] = Read(worktree[v].files, q)
       /\ \A q \in Paths :
            \/ worktree'[w].files[q] = Base[q]
            \/ \E v \in Sources(w[1]) : \E p \in Paths :
                 Resolve(Base, p) = q /\ worktree'[w].files[q] = Read(worktree[v].files, p)]_vars

\* A repair starts where the failed attempt stopped: what that altered, or
\* deleted, is as it left it.
RepairContinues ==
  [][\A w \in Works : Opens(w) /\ w[2] > 1 /\ Readable(Failed(w)) =>
       \A q \in Altered(Failed(w)) \cap Direct :
         worktree'[w].files[q] = Read(worktree[Failed(w)].files, q)]_vars

\* Only a real disagreement of two winners, or a link out of a worktree, stops a
\* worktree from being prepared: what both inherited from a common ancestor
\* does not, nor does a link inside the worktree.
RefusedForAReason ==
  [][\A w \in Works : state[w] = "none" /\ state'[w] = "refused" =>
       \/ \E u, v \in Sources(w[1]) : \E p \in Paths :
            Read(worktree[u].files, p) # Read(worktree[v].files, p)
       \/ \E p \in Paths : Outside \in
            {Resolve(Base, p)} \cup {Resolve(worktree[u].files, p) :
                                     u \in Sources(w[1]) \cup (IF w[2] = 1 THEN {} ELSE {Failed(w)})}
    ]_vars

\* What a worktree inherits never fails its own verification: the paths copied
\* into it are paths its task may write, and into the delivery's whatever any
\* task could write.  Two exceptions: a task builds on one that may write
\* everything, and a link of the base takes the copy to another path.
InheritedIsAllowed ==
  [][\A w \in Works :
       /\ Opens(w) /\ w[2] = 1
       /\ w[1] = Delivery \/ Allowed(w[1]) = {} \/ \A d \in Needs(w[1]) : Allowed(d) # {}
       => \A p \in Reported(w)' \cap (Direct \ Outputs) : Permits(w[1], p)]_vars

===============================================================================
