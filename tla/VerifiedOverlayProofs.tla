------------------------ MODULE VerifiedOverlayProofs ------------------------
(***************************************************************************)
(* Proofs about VerifiedOverlay, for every graph, every set of paths,      *)
(* contents and links, any number of attempts and worker steps, and        *)
(* whatever the workers do to their branches and checkouts.                *)
(*                                                                         *)
(* The argument.  Everything downstream trusts the list of changed paths.  *)
(* Where git works it contains every file that differs from the last       *)
(* commit HEAD has in common with the base (ReportedIsComplete).  The      *)
(* verifier reads the list before its commands run, so what they write is  *)
(* excepted; nothing else writes into a worktree after that, so the list   *)
(* is still what git would report when the worktree is copied              *)
(* (ListIsReported).                                                       *)
(***************************************************************************)
EXTENDS VerifiedOverlay, TLAPS

States == {"none", "working", "checking", "verified", "failed", "refused"}

OverlayTyped ==
  /\ worktree \in [Works -> Checkouts]
  /\ state \in [Works -> States]
  /\ listed \in [Works -> SUBSET Paths]
  /\ failing \in [Works -> SUBSET Commands]

\* The list the verifier read stays what git reports, its commands' outputs
\* excepted.
ListIsReported ==
  \A w \in Works : state[w] \in {"checking", "verified", "failed"} =>
    \A p \in Paths \ Outputs : p \in Reported(w) <=> p \in listed[w]

VerdictKeptPolicy ==
  \A w \in Works : state[w] = "verified" => \A p \in listed[w] : Permits(w[1], p)

OverlayInv == OverlayTyped /\ ListIsReported /\ VerdictKeptPolicy

\* What git reports leaves out only ignored and filtered files: wherever the files
\* differ from the tree HEAD has in common with the base, one of the four listings
\* says so.
LEMMA ReportedIsComplete ==
  ASSUME NEW c \in Checkouts, NEW p \in Paths \ (Ignored \cup Filtered),
         c.files[p] # c.fork[p]
  PROVE  p \in Changed(c, {})
<1>0. p \in Changed(c, {}) <=>
        p \in Committed(c) \cup Staged(c) \cup Unstaged(c) \cup Untracked(c)
  BY DEF Changed
<1>1. CASE c.head[p] # c.fork[p]
  BY <1>0, <1>1 DEF Committed, Differ
<1>2. CASE c.index[p] # c.head[p]
  BY <1>0, <1>2 DEF Staged, Differ
<1>3. CASE c.index[p] # c.files[p] /\ c.index[p] # Absent
  BY <1>0, <1>3 DEF Unstaged, Differ
<1>4. CASE c.index[p] # c.files[p] /\ c.index[p] = Absent
  BY <1>0, <1>4 DEF Untracked
<1>5. QED
  BY <1>1, <1>2, <1>3, <1>4

\* Only paths are reported, and a file that stays as it was is reported as before.
LEMMA ReportedArePaths == \A c, fail : Changed(c, fail) \subseteq Paths
BY DEF Changed, Committed, Staged, Unstaged, Untracked, Differ

LEMMA ReportedByFile ==
  ASSUME NEW c, NEW d, NEW fail, NEW p \in Paths,
         c.head = d.head, c.fork = d.fork, c.index = d.index, c.files[p] = d.files[p]
  PROVE  p \in Changed(c, fail) <=> p \in Changed(d, fail)
<1>1. /\ p \in Committed(c) <=> p \in Committed(d)
      /\ p \in Staged(c) <=> p \in Staged(d)
  BY DEF Committed, Staged, Differ
<1>2. p \in Unstaged(c) <=> p \in Unstaged(d)
  BY DEF Unstaged, Differ
<1>3. p \in Untracked(c) <=> p \in Untracked(d)
  BY DEF Untracked
<1>4. QED
  BY <1>1, <1>2, <1>3 DEF Changed

\* A new worktree reports nothing but files that differ from the base.
LEMMA FreshReports ==
  ASSUME NEW c, c.head = Base, c.fork = Base, c.index = Base, NEW fail,
         NEW p \in Changed(c, fail)
  PROVE  p \in Paths /\ c.files[p] # Base[p]
<1>1. Committed(c) = {} /\ Staged(c) = {}
  BY DEF Committed, Staged, Differ
<1>2. \A q \in Unstaged(c) : q \in Paths /\ c.files[q] # Base[q]
  BY DEF Unstaged, Differ
<1>3. \A q \in Untracked(c) : q \in Paths /\ c.files[q] # Base[q]
  BY DEF Untracked
<1>4. QED
  BY <1>1, <1>2, <1>3 DEF Changed

-------------------------------------------------------------------------------
\* Attempts and their predecessors.
LEMMA WorksTyped ==
  /\ \A w \in Works : w = <<w[1], w[2]>> /\ w[2] \in Nat \ {0}
  /\ \A w \in Works : w[2] > 1 => Failed(w) \in Works /\ w[1] \in Tasks
  /\ \A w \in Works : w[1] # Delivery => w[1] \in Tasks
<1>1. ASSUME NEW w \in Works
      PROVE  /\ w = <<w[1], w[2]>> /\ w[2] \in Nat \ {0}
             /\ w[2] > 1 => Failed(w) \in Works /\ w[1] \in Tasks
             /\ w[1] # Delivery => w[1] \in Tasks
  <2>1. CASE w = <<Delivery, 1>>
    BY <2>1
  <2>2. CASE w # <<Delivery, 1>>
    <3>1. PICK t \in Tasks : w \in AttemptsOf(t)
      BY <2>2 DEF Works
    <3>2. MaxAttempts[t] \in Nat
      BY OverlayAssumption
    <3>3. w[1] = t /\ w[2] \in 1..MaxAttempts[t] /\ w = <<w[1], w[2]>>
      BY <3>1 DEF AttemptsOf
    <3>4. w[2] > 1 => <<t, w[2] - 1>> \in AttemptsOf(t)
      BY <3>2, <3>3 DEF AttemptsOf
    <3>5. AttemptsOf(t) \subseteq Works
      BY DEF Works
    <3>6. QED
      BY <3>2, <3>3, <3>4, <3>5 DEF Failed
  <2>3. QED
    BY <2>1, <2>2
<1>2. QED
  BY <1>1

\* Worktrees of tasks: what a copy starts from.
TaskWorks == {w \in Works : w[1] \in Tasks}

\* The worktrees a task builds on are worktrees of tasks it needs.
LEMMA SourcesAreWorks ==
  \A w \in Works : /\ Sources(w[1]) \in SUBSET TaskWorks
                   /\ \A v \in Sources(w[1]) : v[1] \in Needs(w[1]) /\ state[v] = "verified"
<1>1. ASSUME NEW w \in Works PROVE Needs(w[1]) \subseteq Tasks
  BY WorksTyped, OverlayAssumption DEF Needs, Sinks
<1>2. QED
  BY <1>1 DEF Sources, Winners, TaskWorks

\* So is the attempt a repair repairs.
LEMMA FailedIsWork == \A w \in Works : w[2] > 1 => {Failed(w)} \in SUBSET TaskWorks
BY WorksTyped DEF Failed, TaskWorks

\* Of several copies to one file one is the last.
LEMMA LastIsOne ==
  ASSUME NEW sources \in SUBSET TaskWorks, NEW copies \in SUBSET (sources \X Paths),
         copies # {}
  PROVE  Last(copies) \in copies
<1> DEFINE turns == {<<x[1][1], x[2]>> : x \in copies}
<1>1. turns \in SUBSET (Tasks \X Paths) /\ turns # {}
  <2>1. ASSUME NEW x \in copies PROVE x[1][1] \in Tasks /\ x[2] \in Paths
    <3>1. x[1] \in sources /\ x[2] \in Paths
      OBVIOUS
    <3>2. QED
      BY <3>1 DEF TaskWorks
  <2>2. turns \in SUBSET (Tasks \X Paths)
    BY <2>1
  <2>3. PICK x \in copies : TRUE
    OBVIOUS
  <2>4. <<x[1][1], x[2]>> \in turns
    OBVIOUS
  <2>5. QED
    BY <2>2, <2>4
<1>2. PICK z \in turns : \A y \in turns : Turn[y] <= Turn[z]
  BY <1>1, TurnAssumption
<1>3. PICK x \in copies : z = <<x[1][1], x[2]>>
  OBVIOUS
<1>4. \A y \in copies : Turn[<<y[1][1], y[2]>>] <= Turn[<<x[1][1], x[2]>>]
  BY <1>2, <1>3
<1>5. QED
  BY <1>4 DEF Last

\* What is read in a tree is one of its values.
LEMMA ReadTyped ==
  ASSUME NEW tree \in Trees, NEW p \in Paths
  PROVE  Read(tree, p) \in Values
<1>1. Resolve(tree, p) \in Paths \cup {Outside} /\ tree[p] \in Values
  BY LinkAssumption DEF Resolve, Trees
<1>2. QED
  BY <1>1 DEF Read, Trees

\* What the overlay makes of a file: what one of the copies that reach it carries,
\* or what it was.
LEMMA OverlaidFiles ==
  ASSUME NEW tree, NEW sources \in SUBSET TaskWorks, NEW q \in Paths
  PROVE  /\ Reaching(sources, q) = {} => Overlaid(tree, sources)[q] = tree[q]
         /\ Reaching(sources, q) # {} =>
              \E v \in sources : \E p \in Reported(v) :
                /\ p \in Paths /\ Resolve(Base, p) = q
                /\ Overlaid(tree, sources)[q] = Read(worktree[v].files, p)
<1> DEFINE copies == Reaching(sources, q)
<1>1. copies \in SUBSET (sources \X Paths)
  BY DEF Reaching
<1>2. ASSUME copies = {} PROVE Overlaid(tree, sources)[q] = tree[q]
  BY <1>2 DEF Overlaid
<1>3. ASSUME copies # {}
      PROVE  \E v \in sources : \E p \in Reported(v) :
               /\ p \in Paths /\ Resolve(Base, p) = q
               /\ Overlaid(tree, sources)[q] = Read(worktree[v].files, p)
  <2>1. Last(copies) \in copies
    BY <1>1, <1>3, LastIsOne
  <2>2. Overlaid(tree, sources)[q] = Read(worktree[Last(copies)[1]].files, Last(copies)[2])
    BY <1>3 DEF Overlaid
  <2>3. /\ Last(copies)[1] \in sources /\ Last(copies)[2] \in Paths
        /\ Last(copies)[2] \in Reported(Last(copies)[1])
        /\ Resolve(Base, Last(copies)[2]) = q
    BY <2>1 DEF Reaching
  <2>4. QED
    BY <2>2, <2>3
<1>4. QED
  BY <1>2, <1>3

\* Without a conflict, a path no link of the base is at or leads to gets what
\* every source that reports it holds there.
LEMMA OverlaidDirect ==
  ASSUME NEW tree, NEW sources \in SUBSET TaskWorks, ~Conflict(sources),
         NEW q \in Direct, NEW v \in sources, q \in Reported(v)
  PROVE  Overlaid(tree, sources)[q] = Read(worktree[v].files, q)
<1>1. q \in Paths /\ \A p \in Paths : Resolve(Base, p) = q <=> p = q
  BY DEF Direct
<1>2. <<v, q>> \in Reaching(sources, q)
  BY <1>1 DEF Reaching
<1>3. PICK u \in sources : /\ q \in Reported(u)
                           /\ Overlaid(tree, sources)[q] = Read(worktree[u].files, q)
  BY <1>1, <1>2, OverlaidFiles
<1>4. q \in Reported(u) \cap Reported(v)
  BY <1>3
<1>5. Read(worktree[u].files, q) = Read(worktree[v].files, q)
  BY <1>4 DEF Conflict
<1>6. QED
  BY <1>3, <1>5

\* Copying files over a tree gives a tree.
LEMMA OverlaidTyped ==
  ASSUME OverlayTyped, NEW tree \in Trees, NEW sources \in SUBSET TaskWorks
  PROVE  Overlaid(tree, sources) \in Trees
<1>1. ASSUME NEW q \in Paths PROVE Overlaid(tree, sources)[q] \in Values
  <2>1. tree[q] \in Values
    BY DEF Trees
  <2>2. \A v \in sources : worktree[v].files \in Trees
    BY DEF OverlayTyped, Checkouts, TaskWorks
  <2>3. QED
    BY <2>1, <2>2, OverlaidFiles, ReadTyped
<1>2. QED
  BY <1>1 DEF Overlaid, Trees

\* What opening a worktree leaves behind.
LEMMA Opened ==
  ASSUME OverlayTyped, NEW w \in Works, NEW files \in Trees, Open(w, files)
  PROVE  /\ worktree' \in [Works -> Checkouts]
         /\ worktree'[w].files = files /\ worktree'[w].fork = Base
         /\ worktree'[w].head = Base /\ worktree'[w].index = Base
         /\ \A v \in Works : v # w => worktree'[v] = worktree[v] /\ state'[v] = state[v]
         /\ state'[w] = "working" /\ state' = [state EXCEPT ![w] = "working"]
         /\ listed' = listed /\ failing' = failing
<1>1. [Fresh(Base) EXCEPT !.files = files] \in Checkouts
  BY OverlayAssumption DEF Fresh, Checkouts
<1>2. QED
  BY <1>1, OverlayAssumption DEF Open, OverlayTyped, Fresh

\* Where git works, a worktree reports every visible file it altered.
LEMMA AlteredIsReported ==
  ASSUME OverlayTyped, NEW w \in Works, Readable(w)
  PROVE  Altered(w) \subseteq Reported(w)
<1> SUFFICES ASSUME NEW p \in Altered(w) PROVE p \in Reported(w)
  OBVIOUS
<1>1. /\ worktree[w] \in Checkouts /\ p \in Paths \ (Ignored \cup Filtered)
      /\ worktree[w].files[p] # worktree[w].fork[p]
  BY DEF OverlayTyped, Altered, Visible
<1>2. QED
  BY <1>1, ReportedIsComplete DEF Reported, Readable

\* At first no worktree has been made.
LEMMA OverlayInvInit == Init => OverlayInv
<1> SUFFICES ASSUME Init PROVE OverlayInv
  OBVIOUS
<1>1. OverlayTyped
  BY OverlayAssumption DEF Init, OverlayTyped, Fresh, Checkouts, States
<1>2. \A w \in Works : state[w] = "none"
  BY DEF Init
<1>3. QED
  BY <1>1, <1>2 DEF OverlayInv, ListIsReported, VerdictKeptPolicy

\* Preparing a worktree, for the first attempt or a repair, opens it with a tree
\* or refuses.
LEMMA Prepared ==
  ASSUME OverlayTyped, NEW w \in Works, Prepare(w) \/ Repair(w)
  PROVE  Refuse(w) \/ \E files \in Trees : Open(w, files)
<1>1. Base \in Trees /\ Sources(w[1]) \in SUBSET TaskWorks
  BY OverlayAssumption, SourcesAreWorks
<1>2. Overlaid(Base, Sources(w[1])) \in Trees
  BY <1>1, OverlaidTyped
<1>3. CASE Prepare(w)
  BY <1>2, <1>3 DEF Prepare
<1>4. CASE Repair(w)
  <2>1. {Failed(w)} \in SUBSET TaskWorks
    BY <1>4, FailedIsWork DEF Repair
  <2>2. Overlaid(Overlaid(Base, Sources(w[1])), {Failed(w)}) \in Trees
    BY <1>2, <2>1, OverlaidTyped
  <2>3. QED
    BY <1>4, <2>2 DEF Repair
<1>5. QED
  BY <1>3, <1>4

\* What a step of a worker makes of its checkout.
LEMMA Moved ==
  ASSUME NEW t \in Tasks, NEW c \in Checkouts, NEW next \in Moves(t, c)
  PROVE  next \in Checkouts
<1>0. Edits[t] \subseteq Paths \X Values
  BY OverlayAssumption
<1>1. ASSUME NEW x \in Edits[t] PROVE Edit(c, x[1], x[2]) \in Checkouts
  <2>1. x[1] \in Paths /\ x[2] \in Values
    BY <1>0
  <2>2. QED
    BY <2>1 DEF Edit, Checkouts, Trees
<1>2. Stage(c) \in Checkouts
  BY DEF Stage, Checkouts, Trees, Values
<1>3. Commit(Stage(c)) \in Checkouts
  BY <1>2 DEF Commit, Checkouts
<1>4. ResetTo(c, Parent) \in Checkouts /\ Orphan(Stage(c)) \in Checkouts
  BY <1>2, OverlayAssumption DEF ResetTo, Orphan, Checkouts, Trees
<1>5. \/ \E x \in Edits[t] : next = Edit(c, x[1], x[2])
      \/ next = Stage(c) \/ next = Commit(Stage(c))
      \/ next = ResetTo(c, Parent) \/ next = Orphan(Stage(c))
  BY DEF Moves
<1>6. QED
  BY <1>1, <1>2, <1>3, <1>4, <1>5

\* What the verifier's commands leave of a checkout and of its verdict.
LEMMA Decided ==
  ASSUME OverlayTyped, NEW w \in Works, Decide(w)
  PROVE  /\ worktree' \in [Works -> Checkouts] /\ state' \in [Works -> States]
         /\ \A p \in Paths \ Outputs : p \in Reported(w)' <=> p \in Reported(w)
         /\ \A u \in Works : u # w => worktree'[u] = worktree[u] /\ state'[u] = state[u]
         /\ state[w] = "checking" /\ state'[w] \in {"verified", "failed"}
         /\ state'[w] = "verified" => Disallowed(w) = {}
         /\ listed' = listed /\ failing' = failing
<1>0. listed' = listed /\ failing' = failing /\ state[w] = "checking"
  BY DEF Decide
<1>1. PICK passed \in BOOLEAN, written \in SUBSET Outputs, v \in Contents :
        /\ worktree' = [worktree EXCEPT ![w].files =
             [p \in Paths |-> IF p \in written THEN v ELSE @[p]]]
        /\ state' = [state EXCEPT ![w] =
             IF passed /\ Disallowed(w) = {} THEN "verified" ELSE "failed"]
  BY ZenonT(30) DEF Decide
<1> DEFINE new == [p \in Paths |-> IF p \in written THEN v ELSE worktree[w].files[p]]
<1>2. new \in Trees
  BY DEF OverlayTyped, Checkouts, Trees, Values
<1>3. /\ worktree' \in [Works -> Checkouts]
      /\ worktree'[w].files = new /\ worktree'[w].fork = worktree[w].fork
      /\ worktree'[w].head = worktree[w].head /\ worktree'[w].index = worktree[w].index
      /\ \A u \in Works : u # w => worktree'[u] = worktree[u]
  BY <1>1, <1>2 DEF OverlayTyped, Checkouts
<1>4. \A p \in Paths \ Outputs : p \in Reported(w)' <=> p \in Reported(w)
  <2> SUFFICES ASSUME NEW p \in Paths \ Outputs PROVE p \in Reported(w)' <=> p \in Reported(w)
    OBVIOUS
  <2>1. worktree'[w].files[p] = worktree[w].files[p]
    BY <1>3
  <2>2. p \in Changed(worktree'[w], failing[w]) <=> p \in Changed(worktree[w], failing[w])
    BY <1>3, <2>1, ReportedByFile
  <2>3. QED
    BY <1>0, <2>2 DEF Reported
<1>5. /\ \A u \in Works : u # w => state'[u] = state[u]
      /\ state'[w] \in {"verified", "failed"}
      /\ state'[w] = "verified" => Disallowed(w) = {}
      /\ state' \in [Works -> States]
  BY <1>0, <1>1 DEF OverlayTyped, States
<1>6. QED
  BY <1>0, <1>3, <1>4, <1>5

\* What a worker's step leaves alone.
LEMMA Worked ==
  ASSUME OverlayTyped, NEW w \in Works, Work(w)
  PROVE  /\ worktree' \in [Works -> Checkouts] /\ failing' \in [Works -> SUBSET Commands]
         /\ \A v \in Works : v # w => worktree'[v] = worktree[v] /\ failing'[v] = failing[v]
         /\ state[w] = "working" /\ UNCHANGED <<state, listed>>
<1>1. worktree[w] \in Checkouts /\ w[1] \in Tasks
  BY WorksTyped DEF OverlayTyped, Work
<1>2. ASSUME NEW next \in Moves(w[1], worktree[w]),
             worktree' = [worktree EXCEPT ![w] = next], failing' = failing
      PROVE  /\ worktree' \in [Works -> Checkouts] /\ failing' \in [Works -> SUBSET Commands]
             /\ \A v \in Works : v # w => worktree'[v] = worktree[v] /\ failing'[v] = failing[v]
  BY <1>1, <1>2, Moved DEF OverlayTyped
<1>3. ASSUME NEW fail \in Failures,
             failing' = [failing EXCEPT ![w] = fail], worktree' = worktree
      PROVE  /\ worktree' \in [Works -> Checkouts] /\ failing' \in [Works -> SUBSET Commands]
             /\ \A v \in Works : v # w => worktree'[v] = worktree[v] /\ failing'[v] = failing[v]
  BY <1>3, OverlayAssumption DEF OverlayTyped
<1>4. QED
  BY <1>2, <1>3 DEF Work

\* Every step, of any worker, keeps the types.
LEMMA TypedNext == OverlayTyped /\ [Next]_vars => OverlayTyped'
<1> SUFFICES ASSUME OverlayTyped, [Next]_vars PROVE OverlayTyped'
  OBVIOUS
<1>1. ASSUME NEW w \in Works, Prepare(w) \/ Repair(w) PROVE OverlayTyped'
  <2>1. CASE Refuse(w)
    BY <2>1 DEF Refuse, OverlayTyped, States
  <2>2. ASSUME NEW files \in Trees, Open(w, files) PROVE OverlayTyped'
    BY <2>2, Opened DEF OverlayTyped, States
  <2>3. QED
    BY <1>1, <2>1, <2>2, Prepared
<1>2. ASSUME NEW w \in Works, Work(w) PROVE OverlayTyped'
  BY <1>2, Worked DEF OverlayTyped
<1>3. ASSUME NEW w \in Works, Check(w) PROVE OverlayTyped'
  <2>1. Reported(w) \subseteq Paths
    BY ReportedArePaths DEF Reported
  <2>2. QED
    BY <1>3, <2>1 DEF Check, OverlayTyped, States
<1>4. ASSUME NEW w \in Works, Decide(w) PROVE OverlayTyped'
  BY <1>4, Decided DEF OverlayTyped
<1>5. CASE Settled \/ UNCHANGED vars
  BY <1>5 DEF Settled, vars, OverlayTyped
<1>6. QED
  BY <1>1, <1>2, <1>3, <1>4, <1>5 DEF Next

\* Every step keeps the lists what git would report.
LEMMA OverlayInvNext == OverlayInv /\ [Next]_vars => OverlayInv'
<1> SUFFICES ASSUME OverlayInv, [Next]_vars PROVE OverlayInv'
  OBVIOUS
<1>0. OverlayTyped /\ ListIsReported /\ VerdictKeptPolicy /\ OverlayTyped'
  BY TypedNext DEF OverlayInv
\* Only what a step does to one worktree matters.
<1>1. ASSUME NEW w \in Works,
             \A v \in Works : v # w =>
               /\ worktree'[v] = worktree[v] /\ state'[v] = state[v]
               /\ listed'[v] = listed[v] /\ failing'[v] = failing[v],
             state'[w] \in {"checking", "verified", "failed"} =>
               \A p \in Paths \ Outputs : p \in Reported(w)' <=> p \in listed'[w],
             state'[w] = "verified" => \A p \in listed'[w] : Permits(w[1], p)
      PROVE  OverlayInv'
  <2>1. \A v \in Works : v # w => Reported(v)' = Reported(v)
    BY <1>1 DEF Reported
  <2>2. ListIsReported'
    BY <1>0, <1>1, <2>1 DEF ListIsReported
  <2>3. VerdictKeptPolicy'
    BY <1>0, <1>1 DEF VerdictKeptPolicy
  <2>4. QED
    BY <1>0, <2>2, <2>3 DEF OverlayInv
<1>2. ASSUME NEW w \in Works, Prepare(w) \/ Repair(w) PROVE OverlayInv'
  <2>1. CASE Refuse(w)
    <3>1. /\ UNCHANGED <<worktree, listed, failing>> /\ state'[w] = "refused"
          /\ \A v \in Works : v # w => state'[v] = state[v]
      BY <1>0, <2>1 DEF Refuse, OverlayTyped
    <3>2. QED
      BY <1>1, <3>1
  <2>2. ASSUME NEW files \in Trees, Open(w, files) PROVE OverlayInv'
    <3>1. /\ state'[w] = "working" /\ listed' = listed /\ failing' = failing
          /\ \A v \in Works : v # w => worktree'[v] = worktree[v] /\ state'[v] = state[v]
      BY <1>0, <2>2, Opened
    <3>2. QED
      BY <1>1, <3>1
  <2>3. QED
    BY <1>0, <1>2, <2>1, <2>2, Prepared
<1>3. ASSUME NEW w \in Works, Work(w) PROVE OverlayInv'
  <2>1. /\ \A v \in Works : v # w => worktree'[v] = worktree[v] /\ failing'[v] = failing[v]
        /\ state[w] = "working" /\ UNCHANGED <<state, listed>>
    BY <1>0, <1>3, Worked
  <2>2. QED
    BY <1>1, <2>1
<1>4. ASSUME NEW w \in Works, Check(w) PROVE OverlayInv'
  <2>1. /\ UNCHANGED <<worktree, failing>> /\ state'[w] = "checking"
        /\ listed'[w] = Reported(w)
        /\ \A v \in Works : v # w => state'[v] = state[v] /\ listed'[v] = listed[v]
    BY <1>0, <1>4 DEF Check, OverlayTyped
  <2>2. Reported(w)' = Reported(w)
    BY <2>1 DEF Reported
  <2>3. QED
    BY <1>1, <2>1, <2>2
<1>5. ASSUME NEW w \in Works, Decide(w) PROVE OverlayInv'
  <2>1. /\ \A p \in Paths \ Outputs : p \in Reported(w)' <=> p \in Reported(w)
        /\ \A u \in Works : u # w => worktree'[u] = worktree[u] /\ state'[u] = state[u]
        /\ state[w] = "checking" /\ listed' = listed /\ failing' = failing
        /\ state'[w] = "verified" => Disallowed(w) = {}
    BY <1>0, <1>5, Decided
  <2>2. \A p \in Paths \ Outputs : p \in Reported(w) <=> p \in listed[w]
    BY <1>0, <2>1 DEF ListIsReported
  <2>3. Disallowed(w) = {} => \A p \in listed[w] : Permits(w[1], p)
    BY DEF Disallowed
  <2>4. QED
    BY <1>1, <2>1, <2>2, <2>3
<1>6. CASE Settled \/ UNCHANGED vars
  <2>1. UNCHANGED vars
    BY <1>6 DEF Settled
  <2>2. QED
    BY <1>0, <2>1 DEF vars, OverlayInv, ListIsReported, VerdictKeptPolicy, Reported
<1>7. QED
  BY <1>2, <1>3, <1>4, <1>5, <1>6 DEF Next

\* Every state has it.
THEOREM OverlayInvariant == Spec => []OverlayInv
<1>1. QED
  BY OverlayInvNext, OverlayInvInit, PTL DEF Spec

-------------------------------------------------------------------------------
\* Whatever a worker edits, stages, commits, deletes or does to its branch, a
\* verified worktree in which git works differs from the commit its HEAD has in
\* common with the base only where its task may write; ignored and filtered names
\* and what the verifier's own commands wrote excepted.
THEOREM PolicyIsKept == Spec => []PolicyHolds
<1>1. OverlayInv => PolicyHolds
  <2> SUFFICES ASSUME OverlayInv, NEW w \in Works, state[w] = "verified", Readable(w),
                      NEW p \in Altered(w)
               PROVE  Permits(w[1], p)
    BY DEF PolicyHolds
  <2>1. p \in Reported(w) /\ p \in Paths \ Outputs
    BY AlteredIsReported DEF OverlayInv, Altered, Visible
  <2>2. p \in listed[w]
    BY <2>1 DEF OverlayInv, ListIsReported
  <2>3. QED
    BY <2>2 DEF OverlayInv, VerdictKeptPolicy
<1>2. QED
  BY <1>1, OverlayInvariant, PTL

\* Only one of the actions opens or refuses a worktree.
LEMMA WhoOpens ==
  ASSUME OverlayTyped, Next, NEW w \in Works, state[w] = "none", state'[w] # "none"
  PROVE  Prepare(w) \/ Repair(w)
<1>1. ASSUME NEW v \in Works, Prepare(v) \/ Repair(v), v # w PROVE FALSE
  <2>1. CASE Refuse(v)
    BY <1>1, <2>1 DEF Refuse, OverlayTyped
  <2>2. ASSUME NEW files \in Trees, Open(v, files) PROVE FALSE
    BY <1>1, <2>2, Opened
  <2>3. QED
    BY <1>1, <2>1, <2>2, Prepared
<1>2. ASSUME NEW v \in Works, Work(v) \/ Check(v) \/ Decide(v) PROVE FALSE
  <2>1. CASE Work(v)
    BY <2>1, Worked
  <2>2. CASE Check(v)
    BY <2>2 DEF Check, OverlayTyped
  <2>3. CASE Decide(v)
    BY <2>3 DEF Decide, OverlayTyped
  <2>4. QED
    BY <1>2, <2>1, <2>2, <2>3
<1>3. ~Settled
  BY DEF Settled, vars
<1>4. QED
  BY <1>1, <1>2, <1>3 DEF Next

\* A first attempt, or the delivery, opens with what the overlay makes of the base.
LEMMA FirstOpens ==
  ASSUME OverlayTyped, Next, NEW w \in Works, Opens(w), w[2] = 1
  PROVE  /\ ~Conflict(Sources(w[1]))
         /\ worktree'[w].files = Overlaid(Base, Sources(w[1])) /\ worktree'[w].fork = Base
         /\ worktree'[w].head = Base /\ worktree'[w].index = Base /\ failing' = failing
<1> DEFINE sources == Sources(w[1])
<1>1. Overlaid(Base, sources) \in Trees
  BY SourcesAreWorks, OverlayAssumption, OverlaidTyped
<1>2. Prepare(w)
  <2>1. Prepare(w) \/ Repair(w)
    BY WhoOpens DEF Opens
  <2>2. QED
    BY <2>1 DEF Repair
<1>3. ~Conflict(sources) /\ Open(w, Overlaid(Base, sources))
  <2>1. ~Refuse(w)
    BY DEF Refuse, OverlayTyped, Opens
  <2>2. QED
    BY <1>2, <2>1 DEF Prepare
<1>4. QED
  BY <1>1, <1>3, Opened

\* A worktree starts with what its dependencies' winners made of the base: every
\* altered or deleted file of every one of them, as a program reads it there, and
\* nothing that is neither the base's nor one of theirs.
THEOREM OverlayCarriesTheDiff == Spec => CarriesVerifiedDiff
<1> DEFINE Carried(w) ==
             /\ \A v \in Sources(w[1]) : Readable(v) =>
                  \A q \in Altered(v) \cap Direct :
                    worktree'[w].files[q] = Read(worktree[v].files, q)
             /\ \A q \in Paths :
                  \/ worktree'[w].files[q] = Base[q]
                  \/ \E v \in Sources(w[1]) : \E p \in Paths :
                       Resolve(Base, p) = q /\ worktree'[w].files[q] = Read(worktree[v].files, p)
           Carries == \A w \in Works : Opens(w) /\ w[2] = 1 => Carried(w)
<1>1. ASSUME OverlayTyped, Next, NEW w \in Works, Opens(w), w[2] = 1 PROVE Carried(w)
  <2> DEFINE sources == Sources(w[1])
  <2>1. sources \in SUBSET TaskWorks
    BY SourcesAreWorks
  <2>2. ~Conflict(sources) /\ worktree'[w].files = Overlaid(Base, sources)
    BY <1>1, FirstOpens
  <2>3. ASSUME NEW v \in sources, Readable(v), NEW q \in Altered(v) \cap Direct
        PROVE  worktree'[w].files[q] = Read(worktree[v].files, q)
    <3>1. v \in Works
      BY <2>1 DEF TaskWorks
    <3>2. q \in Reported(v)
      BY <1>1, <2>3, <3>1, AlteredIsReported
    <3>3. Overlaid(Base, sources)[q] = Read(worktree[v].files, q)
      BY <2>1, <2>2, <3>2, OverlaidDirect
    <3>4. QED
      BY <2>2, <3>3
  <2>4. ASSUME NEW q \in Paths
        PROVE  \/ worktree'[w].files[q] = Base[q]
               \/ \E v \in sources : \E p \in Paths :
                    Resolve(Base, p) = q /\ worktree'[w].files[q] = Read(worktree[v].files, p)
    BY <2>1, <2>2, OverlaidFiles
  <2>5. QED
    BY <2>3, <2>4
<1>2. OverlayInv /\ [Next]_vars => [Carries]_vars
  BY <1>1 DEF OverlayInv
<1>3. QED
  BY <1>2, OverlayInvariant, PTL DEF Spec, CarriesVerifiedDiff

\* A repair starts where the failed attempt stopped.
THEOREM RepairStartsWhereItStopped == Spec => RepairContinues
<1> DEFINE Continues == \A w \in Works : Opens(w) /\ w[2] > 1 /\ Readable(Failed(w)) =>
             \A q \in Altered(Failed(w)) \cap Direct :
               worktree'[w].files[q] = Read(worktree[Failed(w)].files, q)
<1>1. ASSUME OverlayTyped, Next, NEW w \in Works, Opens(w), w[2] > 1, Readable(Failed(w)),
             NEW q \in Altered(Failed(w)) \cap Direct
      PROVE  worktree'[w].files[q] = Read(worktree[Failed(w)].files, q)
  <2> DEFINE under == Overlaid(Base, Sources(w[1]))
             files == Overlaid(under, {Failed(w)})
  <2>1. {Failed(w)} \in SUBSET TaskWorks /\ Failed(w) \in Works
    BY <1>1, FailedIsWork, WorksTyped
  <2>2. under \in Trees
    BY <1>1, SourcesAreWorks, OverlayAssumption, OverlaidTyped
  <2>3. files \in Trees
    BY <1>1, <2>1, <2>2, OverlaidTyped
  <2>4. Repair(w)
    <3>1. Prepare(w) \/ Repair(w)
      BY <1>1, WhoOpens DEF Opens
    <3>2. QED
      BY <1>1, <3>1 DEF Prepare
  <2>5. Open(w, files)
    <3>1. ~Refuse(w)
      BY <1>1 DEF Refuse, OverlayTyped, Opens
    <3>2. QED
      BY <2>4, <3>1 DEF Repair
  <2>6. worktree'[w].files = files
    BY <1>1, <2>3, <2>5, Opened
  <2>7. q \in Reported(Failed(w))
    BY <1>1, <2>1, AlteredIsReported
  <2>8. ~Conflict({Failed(w)})
    BY DEF Conflict
  <2>9. files[q] = Read(worktree[Failed(w)].files, q)
    BY <2>1, <2>7, <2>8, OverlaidDirect
  <2>10. QED
    BY <2>6, <2>9
<1>2. OverlayInv /\ [Next]_vars => [Continues]_vars
  BY <1>1 DEF OverlayInv
<1>3. QED
  BY <1>2, OverlayInvariant, PTL DEF Spec, RepairContinues

\* Only a real disagreement of two winners, or a link out of a worktree, stops a
\* worktree from being prepared, whatever the workers do.
THEOREM RefusalsAreReal == Spec => RefusedForAReason
<1> DEFINE Reason(w) ==
             \/ \E u, v \in Sources(w[1]) : \E p \in Paths :
                  Read(worktree[u].files, p) # Read(worktree[v].files, p)
             \/ \E p \in Paths : Outside \in
                  {Resolve(Base, p)} \cup {Resolve(worktree[u].files, p) :
                     u \in Sources(w[1]) \cup (IF w[2] = 1 THEN {} ELSE {Failed(w)})}
           Refuses == \A w \in Works : state[w] = "none" /\ state'[w] = "refused" => Reason(w)
<1>1. ASSUME OverlayTyped, Next, NEW w \in Works, state[w] = "none", state'[w] = "refused"
      PROVE  Reason(w)
  <2> DEFINE sources == Sources(w[1])
  <2>1. ASSUME Conflict(sources) PROVE Reason(w)
    <3>1. PICK u \in sources, v \in sources : \E p \in Reported(v) \cap Reported(u) :
            Read(worktree[v].files, p) # Read(worktree[u].files, p)
      BY <2>1 DEF Conflict
    <3>2. Reported(u) \subseteq Paths
      BY ReportedArePaths DEF Reported
    <3>3. QED
      BY <3>1, <3>2
  <2>2. ASSUME NEW some \in SUBSET (sources \cup (IF w[2] = 1 THEN {} ELSE {Failed(w)})),
               Escapes(some)
        PROVE  Reason(w)
    <3>1. PICK u \in some : \E p \in Reported(u) :
            Outside \in {Resolve(worktree[u].files, p), Resolve(Base, p)}
      BY <2>2 DEF Escapes
    <3>2. Reported(u) \subseteq Paths
      BY ReportedArePaths DEF Reported
    <3>3. QED
      BY <3>1, <3>2
  <2>3. CASE Prepare(w)
    <3>1. ~Open(w, Overlaid(Base, sources))
      BY <1>1 DEF Open, OverlayTyped
    <3>2. Conflict(sources) \/ Escapes(sources)
      BY <2>3, <3>1 DEF Prepare
    <3>3. QED
      BY <2>1, <2>2, <3>2
  <2>4. CASE Repair(w)
    <3>1. ~Open(w, Overlaid(Overlaid(Base, sources), {Failed(w)}))
      BY <1>1 DEF Open, OverlayTyped
    <3>2. Unrepairable(w) /\ w[2] # 1
      BY <2>4, <3>1, WorksTyped DEF Repair
    <3>3. Conflict(sources) \/ Escapes(sources) \/ Escapes({Failed(w)})
      BY <3>2 DEF Unrepairable
    <3>4. QED
      BY <2>1, <2>2, <3>2, <3>3
  <2>5. QED
    BY <1>1, <2>3, <2>4, WhoOpens
<1>2. OverlayInv /\ [Next]_vars => [Refuses]_vars
  BY <1>1 DEF OverlayInv
<1>3. QED
  BY <1>2, OverlayInvariant, PTL DEF Spec, RefusedForAReason

-------------------------------------------------------------------------------
\* What a task builds on, and what that builds on, it builds on.
LEMMA AncestorsAreInherited ==
  ASSUME NEW t \in Tasks, NEW d \in Deps[t]
  PROVE  {d} \cup Ancestors[d] \subseteq Ancestors[t]
<1>0. d \in Tasks
  BY OverlayAssumption
<1>1. d \in Ancestors[t]
  BY <1>0 DEF Ancestors
<1>2. ASSUME NEW u \in Ancestors[d] PROVE u \in Ancestors[t]
  <2>1. u \in Tasks
    BY <1>0 DEF Ancestors
  <2>2. ASSUME NEW S \in SUBSET Tasks, Deps[t] \subseteq S, \A x \in S : Deps[x] \subseteq S
        PROVE  u \in S
    <3>1. Deps[d] \subseteq S
      BY <2>2
    <3>2. QED
      BY <1>0, <2>2, <3>1 DEF Ancestors
  <2>3. u \in {v \in Tasks : \A S \in SUBSET Tasks :
                 Deps[t] \subseteq S /\ (\A x \in S : Deps[x] \subseteq S) => v \in S}
    BY <2>1, <2>2
  <2>4. QED
    BY <2>3 DEF Ancestors
<1>3. QED
  BY <1>1, <1>2

\* A list that restricts has every path of the lists it inherits from, and the
\* delivery's restricts nothing when one of them does not.
LEMMA ScopesGrow ==
  ASSUME NEW w \in Works, NEW d \in Needs(w[1]),
         w[1] = Delivery \/ Allowed(w[1]) = {} \/ Allowed(d) # {},
         NEW p, Permits(d, p)
  PROVE  Permits(w[1], p)
<1>1. d \in Tasks /\ d # Delivery
  BY WorksTyped, OverlayAssumption DEF Needs, Sinks
<1>2. Allowed(d) = TaskScope(d)
  BY <1>1 DEF Allowed
<1>3. CASE Allowed(d) = {}
  <2>1. CASE w[1] = Delivery
    <3>1. DeliveryScope = {}
      BY <1>1, <1>2, <1>3 DEF DeliveryScope
    <3>2. QED
      BY <2>1, <3>1 DEF Permits, Allowed
  <2>2. CASE w[1] # Delivery
    BY <1>3, <2>2 DEF Permits
  <2>3. QED
    BY <2>1, <2>2
<1>4. CASE Allowed(d) # {} /\ w[1] = Delivery
  <2>1. p \in TaskScope(d)
    BY <1>2, <1>4 DEF Permits
  <2>2. Allowed(w[1]) = DeliveryScope
    BY <1>4 DEF Allowed
  <2>3. DeliveryScope = {} \/ p \in DeliveryScope
    BY <1>1, <2>1 DEF DeliveryScope
  <2>4. QED
    BY <2>2, <2>3 DEF Permits
<1>5. CASE Allowed(d) # {} /\ w[1] # Delivery
  <2>1. w[1] \in Tasks /\ d \in Deps[w[1]]
    BY <1>5, WorksTyped DEF Needs
  <2>2. {d} \cup Ancestors[d] \subseteq {w[1]} \cup Ancestors[w[1]]
    BY <2>1, AncestorsAreInherited
  <2>3. p \in TaskScope(d)
    BY <1>2, <1>5 DEF Permits
  <2>4. p \in TaskScope(w[1])
    BY <2>2, <2>3 DEF TaskScope
  <2>5. QED
    BY <1>5, <2>4 DEF Permits, Allowed
<1>6. QED
  BY <1>3, <1>4, <1>5

\* What a worktree inherits never fails its own verification: what is copied into
\* it passed the policy of its dependency, whose paths are among its own.
THEOREM InheritanceIsAllowed == Spec => InheritedIsAllowed
<1> DEFINE Permitted(w) ==
             /\ Opens(w) /\ w[2] = 1
             /\ w[1] = Delivery \/ Allowed(w[1]) = {} \/ \A d \in Needs(w[1]) : Allowed(d) # {}
             => \A p \in Reported(w)' \cap (Direct \ Outputs) : Permits(w[1], p)
           Permitting == \A w \in Works : Permitted(w)
<1>1. ASSUME OverlayInv, Next, NEW w \in Works, Opens(w), w[2] = 1,
             w[1] = Delivery \/ Allowed(w[1]) = {} \/ \A d \in Needs(w[1]) : Allowed(d) # {},
             NEW p \in Reported(w)' \cap (Direct \ Outputs)
      PROVE  Permits(w[1], p)
  <2> DEFINE sources == Sources(w[1])
  <2>1. /\ sources \in SUBSET TaskWorks /\ OverlayTyped
        /\ \A v \in sources : v[1] \in Needs(w[1]) /\ state[v] = "verified"
    BY <1>1, SourcesAreWorks DEF OverlayInv
  <2>2. /\ worktree'[w].files = Overlaid(Base, sources) /\ worktree'[w].fork = Base
        /\ worktree'[w].head = Base /\ worktree'[w].index = Base
    BY <1>1, <2>1, FirstOpens
  <2>3. p \in Paths /\ worktree'[w].files[p] # Base[p]
    BY <2>2, FreshReports DEF Reported
  <2>4. Overlaid(Base, sources)[p] # Base[p]
    BY <2>2, <2>3
  <2>5. PICK v \in sources : \E q \in Reported(v) : q \in Paths /\ Resolve(Base, q) = p
    BY <2>1, <2>3, <2>4, OverlaidFiles
  <2>6. p \in Reported(v)
    BY <1>1, <2>5 DEF Direct
  <2>7. v \in Works /\ state[v] = "verified" /\ v[1] \in Needs(w[1])
    BY <2>1 DEF TaskWorks
  <2>8. p \in listed[v]
    BY <1>1, <2>3, <2>6, <2>7 DEF OverlayInv, ListIsReported
  <2>9. Permits(v[1], p)
    BY <1>1, <2>7, <2>8 DEF OverlayInv, VerdictKeptPolicy
  <2>10. QED
    BY <1>1, <2>7, <2>9, ScopesGrow
<1>2. OverlayInv /\ [Next]_vars => [Permitting]_vars
  <2>1. ASSUME OverlayInv, Next, NEW w \in Works PROVE Permitted(w)
    BY <1>1, <2>1
  <2>2. QED
    BY <2>1
<1>3. QED
  BY <1>2, OverlayInvariant, PTL DEF Spec, InheritedIsAllowed

===============================================================================
