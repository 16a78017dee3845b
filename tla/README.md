# FirstGreen in TLA+

A verification project for FirstGreen: it models how a work request becomes a plan,
how the plan's tasks are executed by unreliable coding agents, how their results are
verified and composed, checks the models with TLC and proves the properties that
matter most with TLAPS. Paths below are relative to
`src/src/firstgreen/` unless they start with `src/`.

## 1. The system

FirstGreen turns a work request into a plan, compiles the plan to a manifest (a
graph of tasks) and runs it: every task is given to an agent in a git worktree of
its own, the result is verified by deterministic commands, a slow attempt may be
hedged by a second one, the first *verified* attempt is awarded the task, losers
are cancelled, failed verifications are repaired, and the winners of a run are
composed into one delivery worktree. One process runs one manifest on one asyncio
event loop; state that outlives it is in SQLite and on disk. A second process may
change the same rows and files (`fg cancel`, `fg reverify`, another `fg run`).

### Inventory

| Component | State | Operations | What makes it correct |
|---|---|---|---|
| Task execution (`service.py` 824-1268 and 1510-1530, `scheduler/racing.py`) | coroutines of the coordinator and of every attempt, pending `cancel()`s, `attempts_used`, the feedback source; the task's and the attempts' rows; worktrees | prepare, race, hedge, claim, reap, repair, cancel | one verified winner whose worktree survives; the value returned agrees with the rows; attempts within limits; always ends |
| Run loop (`service.py` 113-172 and 446-822) | `pending`, `running`, `verified_keys`, `failed`, the current limit, resource semaphores; run, task and delivery rows | turn (rank, decide, admit), collect, block, deliver, close, cancel | dependency order, exclusive keys, hard limits, truthful outcome, always ends |
| Repository (`db/repository.py`) | the SQLite rows | `claim_winner`, `reconcile_orphans`, appends | the claim is a compare-and-set; recovery loses nothing |
| Domain (`domain/`) | none | transition tables | the only legal changes of status |
| AIMD controller and thread budget (`scheduler/concurrency.py`) | current limit, cooldown | `decide`, `subagent_threads_per_root` | limits within min and max; roots and nested threads within the budget |
| Ready queue (`scheduler/queue.py`) | none | `bottom_levels`, `ranked_ready_tasks` | exactly the ready tasks, longest chain first |
| Reverification (`service.py` 174-428) | the rows of a failed run | admit, verify, claim or fail again | at most three rounds, at most one at a time, no second winner, rows at rest again |
| Overlays (`workspace/dependency_overlay.py`) | files | compose winners, carry a failed attempt forward | the composed tree is what was verified, disagreements are refused and nothing else, what is inherited is allowed |
| Worktrees (`workspace/git_worktree.py`) | worktrees, branches, markers | create, inspect, clean up | never removes what is not its own |
| Verifier (`verifier/`, `path_patterns.py`) | none | run commands, path policy, feedback | passes only what passed every command within the allowed paths |
| Codex adapter (`adapters/codex_exec.py`, `codex_events.py`) | subprocess, pipes, bounded event queue, three coroutines | start, events, cancel, terminate | events in order and without gaps, the stream ends, the process is gone |
| Planning workflow (`planning/workflow.py`, `state_machine.py`, parts of `cli.py`) | request and candidate rows, planner cache, saved plans and manifests | scan, propose, cache, edit, approve, execute | what is executed is what was approved, and its base was HEAD when it was validated |
| Plan compiler (`planning/compiler.py`, `parallelism.py`) | none | merge, keys and edges, validate, analyse | tasks without an edge or a shared key do not conflict; acyclic; nothing lost |
| Repository view (`workspace/repository_view.py`) | a managed clone | block, head, snapshot | workers start from the commit or exactly the files the mode promises |
| Planner prompts, scanner, decomposition, CLI and TUI output, configuration files, reporting, simulator, benchmark, testbed, fake adapter, hedging policy | files, terminal | input and output | section 7 |

### How they interact, and what is hard

- **Coroutines.** The run loop creates one asyncio task per admitted task; its
  coordinator creates one per racing attempt. They interleave at every `await`.
  `cancel()` is a request that arrives at the next `await`, and what it does depends
  on where that is: `_execute_attempt` protects only part of its body.
- **Unconditional updates.** Most writes to `tasks.status` and `attempts.status` do
  not read the row. What protects an award is *where coroutines can be*, not the SQL.
- **Another process.** `fg cancel` writes rows at any time and signals nobody;
  two `fg reverify` share the rows of a run; two `fg run` share the planner cache
  and the files named by a cache key.
- **The user and the worker.** The user commits and edits while a plan is reviewed and
  while a view of the repository is copied; a worker stages, commits and deletes as
  it likes, and what travels downstream is what git reports afterwards.
- **A child process.** Its lines, its exit, its timeout and its cancellation race each
  other through a bounded queue, and it may leave descendants behind.
- **Interruption, exceptions, crash.** `run()` handles cancellation of its
  coordinators, not of the attempts of their races; other exceptions have no handler;
  a crash can fall between any two transactions, and `reconcile_orphans`
  (called only by the tests) is all the recovery there is.
- **Memory against rows.** Admission reads `verified_keys` and `running`, never the
  rows.

The full list of hazards, each at its line, is in PROJECT.json.

## 2. The modules

| Module | Models | Role |
|---|---|---|
| `Lifecycle` | `domain/models.py`, `domain/state_machine.py` | statuses and transition tables |
| `WinnerArbitration` | the promise of one task's execution | abstract specification |
| `TaskRace` | one task's execution, with its process and `fg cancel` | implements `WinnerArbitration` |
| `DagExecution` | the promise of a run | abstract specification |
| `RunLoop` | run loop, admission, AIMD, resource semaphores, delivery, run rows | implements `DagExecution`; its tasks are what `TaskRace`'s theorems promise |
| `Reverification` | `fg reverify` in several processes, beside cancel, crash and reconciliation | starts from the rows a failed run leaves; implements `WinnerArbitration` |
| `CodexAdapter` | the worker process, its readers, waiter and consumer | the `starting` and `streaming` phases of `TaskRace` from inside |
| `StreamLines` | `_bounded_stream_lines` | against a reference definition; one line of `CodexAdapter` |
| `PlanningWorkflow` | request to manifest, in several processes | what is compiled is a content of a small set |
| `PlanCompiler` (on `WorkSpan`, `PathPatterns`) | `compile_plan`, `validate_plan`, `_candidate` | the step `Compile` of `PlanningWorkflow` from inside |
| `WorkSpan` | `parallelism.py`, `bottom_levels`, `ranked_ready_tasks` | pure functions on a task graph |
| `PathPatterns` | `path_matches`, `_path_patterns` | pure functions on paths |
| `GitTrees` | how a checkout answers git's diff, status and listing commands | external, from how the code uses git |
| `VerifiedOverlay` (on `GitTrees`) | overlays, repairs, path policy and delivery over a graph of tasks | what `TaskRace`'s worktrees contain |
| `RepositoryView` (on `GitTrees`) | `prepare_repository_view` | the base of everything above |
| `MC...` | the instances TLC checks | |
| `TaskRaceProofs`, `RunLoopProofs`, `ReverificationProofs`, `PlanningWorkflowProofs`, `CodexAdapterProofs` (with `StreamLines`), `PlanCompilerProofs` (with `WorkSpan` and `PathPatterns`), `VerifiedOverlayProofs`, `RepositoryViewProofs` | theorems about the module of that name | section 4 |

### TaskRace

| In the model | In the code |
|---|---|
| `coord`, `waiting`, `used`, `source` | where `_run_task_with_resources` awaits; `tasks` of `first_verified_wins`; `attempts_used`; the outcome whose feedback is repaired |
| `phase[a]` | where the attempt's coroutine awaits: `prep` (worktree), `slot` (root semaphore), `starting` (`adapter.start`), `streaming` (events), `verifying`, `cancelling`, `cleaning`, or how it ended |
| `cancelReq`, `late` | attempts with a pending `cancel()`; attempts that can take one more step between the run's cancellation handler and `asyncio.run`'s teardown |
| `status`, `verdict`, `taskStatus`, `winner` | `attempts.status`, the attempt's `verification_runs`, `tasks.status`, `tasks.winner_attempt_id` with its `task_winners` row |
| `workspace` | the attempt's worktree on disk |
| `proc` | the process: up, run cancelled, handler done, tearing down, gone, reconciled |

An action is what a coroutine does between two awaits that suspend it. A claim and
the `cancel()`s that follow it are one action; the await for the losers is the next.
`Environment` says which of `fg cancel`, interruption, another task's exception, crash,
an exception of this task and a refused overlay an instance allows. Left out because no
property depends on them: decisions and events (append-only), the text of prompts and
feedback, waiting for the verifier semaphore (part of `verifying`), the root slots
other tasks hold (they only delay). `auto` is what the code makes of it,
`delayed-hedge`. Attempts are named by their ordinals; ordinals 1 and 2 race.

### RunLoop

| In the model | In the code |
|---|---|
| `pending`, `running`, `verifiedKeys`, `failed`, `limit` | the variables of `_run_started` with the same names; `running` holds tasks whose result is not collected |
| `cooling` | whether the controller may still be in the cooldown of its last change |
| `exec`, `holds` | the coroutine `_run_task` and the semaphores of `_task_resources` |
| `runStatus`, `taskStatus`, `delivery` | the rows |
| `loop` | where the loop is: `top` and `closing` are positions between which no other coroutine of the process runs |

`Selection(S)` says which tasks the selection loop takes as a property of the set: a
ready task is in `S` exactly when there is room after the better-ranked ones in `S` and
it shares no key with them or with `running`. The rank is an input (`bottom_levels`
computes it once from the manifest). The pressure thresholds are one Boolean. Keys have
capacity 1, the smallest a manifest allows: admission excludes on the key whatever
the capacity. The verification round of the delivery is one step with two outcomes.

A task is a small process of its own in `RunLoop`. Its steps are those the theorems
of `TaskRace` leave: it returns true only with a winner, returns false only failed or
cancelled (`ReturnsTheRows`), never writes over 'verified' (`VerifiedMeansWon`), always
ends (`TaskSettles`), and after an interruption or an exception an attempt left behind
may still set it 'verifying' (`Straggler`).

### Reverification

Every process is where it is between two transactions: `admitting` (its preconditions
read, the transaction not begun), `inspecting` (worktree identity), `verifying`,
`numbering` and `recording` (a round's number is read in one transaction and used in
another), `failing`, `passing`, `claiming`, `closing`. `rounds[a]` holds the verdicts of
`verification_runs`; `preserved` the worktrees whose identity still matches.

### CodexAdapter and StreamLines

`pc` says where each of the four coroutines awaits. `_terminate` may be under way in any
of them; `signalled` and the place `grace` are its SIGTERM and its wait before SIGKILL.
Time is abstract: a timeout may fire while what it waits for has not happened. A line is
one of the kinds `parse_codex_line` tells apart. `helper` is a descendant that holds the
pipes, inside or outside the process group. `received` is what the consumer took of the
child's events, in order; `notices` which of the adapter's own it took. `StreamLines` has the bytes: chunks cut
anywhere, carriage returns, a line at and beyond the limit.

### PlanningWorkflow

| In the model | In the code |
|---|---|
| `head` | the commit HEAD names, which a user moves |
| `requests` | rows of `planning_requests` with their `candidate_plans` |
| `cache`, `tmp`, `blocks` | `<key>.json` and `<key>.tmp` as directory entries, and the bytes behind them, so that a truncated or renamed file is seen by who holds it; "mixed" is what two proposals of different length leave when they are written over each other |
| `files`, `compiled` | `<key>.editable.yaml` and `--output` files; `<key>.manifest.yaml` |
| `proc[p]` | one command line: where it is, its mode, its request, its plan, whether its planner was called, the bytes it wrote (`wrote`), the manifest it recorded |

A plan is the commit it was made for (`base`), the commit HEAD was when that base was last
read or compared (`asked`), the commit whose files the last scan read (`seen`), its tasks
(one content: several tasks, one task, tasks the compiler cannot analyse, an invalid
plan) and the tasks its analysis is of. A scan is two steps, for it reads HEAD first
(`Scan`, and the comparison in `Reload` and `LoadPlan`) and the files afterwards
(`ReadFiles`, `Rescan`, `Revalidate`); all files are read at once.

### PlanCompiler, WorkSpan, PathPatterns

A compiled task is the set of proposed tasks it stands for. Merging, in the code ordered
by names, happens in any order. `_cycle_nodes` is modelled as it is written, with the
nodes a depth-first search leaves out. A path is the sequence of its parts as they are
written: the compiler compares it so, the patterns drop a `.` in front (`PartsOf`). An empty
list of patterns admits everything (`Admits`). What the code
computes by recursion (visiting ancestors, matching a path, the search) is a recursive
function here, so that the proofs can use it: ancestors are collected in rounds, as many
as there are tasks; a match is a function of two positions, as the cached `match` is.

### GitTrees, VerifiedOverlay, RepositoryView

A tree maps paths to contents; a checkout is HEAD, index and files, and the last commit
in common with the base. The four commands of `changed_paths` are four set expressions,
each of which is empty when its command fails; `Filtered` are the names the code drops
from them. Workers edit, delete, make links, stage and commit, may move their branch to
an older or an unrelated commit, and may make git commands fail; the commands of the
verifier write outputs of their own. A link is a content of its path. `Resolve` is
`_bounded_child`, which follows it: what is read (`Read`) is the file it leads to, what is
written (`Reaching`) the file a link of the target leads to, the last copy stays
(`Last`), and a link out of the worktree raises (`Escapes`). `RepositoryView` takes one step per git command and per copied file.

## 3. What TLC checks

| Run | Question | Size | Result |
|---|---|---|---|
| `task_race` | one task: every policy, replay safety, hedging switch, 1-3 attempts, 1-2 root slots, all environment events; safety, refinement and liveness | three attempts, 300k states | holds |
| `run_loop` | chain, fork, join, independent tasks; three assignments of keys; both rankings; static and AIMD limits; one-task run | three tasks, 458k states | holds |
| `reverification` | two processes, four launches, two attempts, two rounds, cancel, interruption, crash | 236k states | holds |
| `codex_stream` | order, completeness, end and death of a worker's stream, liveness | 387k states | holds |
| `stream_lines` | every output of up to seven bytes, every way to cut it | 108k states | holds |
| `planning` | a reviewed and edited `fg run` beside every other command, and three processes that plan the same work | 1.7M states | holds |
| `plan_compiler` | 73,002 proposals of three tasks, with and without a path policy, every order of merging | 265k states | holds |
| `verified_overlay` | a diamond and a task without paths, a repair and the delivery, over a base with a link; moved branches, failing git commands, bytecode | 849k states | holds |
| `repository_view` | three modes, three paths, four steps of the user | 63k states | holds |
| `cancel_not_final` | is 'cancelled' final, as the tables say | | violated |
| `reverify_round_limit` | is an attempt verified at most three times | | violated |
| `plan_on_base` | is a plan made from the files of its base | | violated |

What they show beyond one test at a time:

- `task_race`: one verified winner whose worktree survives; rows that agree with the
  value returned; every execution comes to rest, whatever is cancelled.
- `run_loop`: dependencies are verified before a task starts, keys exclude, limits hold
  while AIMD moves them, the run's outcome matches its rows.
- `reverification`: never two at once, so a round's number and files are never shared;
  after any sequence of refusals and failures the rows are those of a terminal run again.
- `codex_stream`: the consumer sees a prefix of what the child wrote, in order; all of
  it unless a reader failed or its grace period ran out; when cancel returns the child
  is dead.
- `planning`: the plan reviewed is the plan stored and the plan executed is the one approved,
  though another process writes the same cache key, the same editable file and the same
  manifest, and HEAD moves. Its base was HEAD when the scan that validated it
  began; that the files were still that commit's is `plan_on_base`, and false.
- `plan_compiler`: two tasks of which one names a path of the other, or one below it, share
  a key (what a task *may* write is more: section 6); a consumer stays
  behind its producer through any merging; the verifier's patterns are the scope
  (with the exceptions `PolicyIsTheScope` states); a clean proposal is not merged; span,
  critical path and recommended slots mean what they say.
- `verified_overlay`: a verified worktree differs from the commit it has in
  common with the base only where its task may write; a downstream worktree starts with
  the verified differences and nothing else; only a disagreement or a link out of a worktree
  refuses it; what it inherits is allowed to it. The two properties about copies speak of
  files no link of the base is at or leads to (`Direct`): behind such a link the order of the
  copies decides (section 6).
- `repository_view`: a user who keeps still gets exactly what the mode promises, one who
  does not never gets a content that was never there.

**Bounds.** Three attempts cover primary, hedge and one repair, and primary with two
repairs: every repair is prepared, run and judged by the same steps, and the third
shows a repair of a repair. Two root slots are the most two racing attempts use. Three
tasks are the fewest with a chain, a fork, a join, and a running task when the limit
drops below the number of running tasks. Two reverifications overlap and a third and
fourth follow on what they left; two rounds instead of three reach the limit sooner. Two
lines with a pipe and a queue of one meet every full and empty buffer. Two planning
processes, one commit and one edit: every shared file is keyed by commit and mode,
so two processes are what most races need, and a second commit repeats the first. The
cache's temporary file is the exception: it takes one process to write it, a second
to truncate it and a third whose finished entry is lost. The constraint `Explored`
lets the third process run only while all of them plan, without a commit or an edit:
nothing else shares that file; and a request that is replaced by a second one meets a
commit or an edit, not both. Three proposed tasks can merge twice and close a cycle by
merging; of the likely paths one lies below another and is also written with "./". In the
overlays there is a path the base has, one it has not, one that is a link to an output, that
output, and one that is dropped by its name; a diamond is the smallest
graph where one ancestor is inherited twice, and its sink and the task apart are enough
to disagree. The root's worker takes two steps, the others one: to change a file and
commit it, to move the branch and change a file. The constraint `OneByOne` takes the tasks one after
the other, for worktrees at work never touch, and lets at most one worktree be one in
which something is staged, the branch is moved or a git command fails.

**Fairness.** `TaskRace` assumes weak fairness of the coordinator, of every
attempt and of the process around them: the event loop runs every ready callback,
agents are bounded by `timeout_seconds`, verification commands by their own timeouts,
and the hedge timer needs none (`HedgeTimeout` is not in the fair actions). `fg cancel`,
interruption, crash and exceptions are never assumed. `RunLoop` assumes the same of the
loop and that each task ends, which is `TaskSettles`. `Reverification`: a process that is
not killed takes its next transaction. `CodexAdapter`: coroutines that can go on do and
timers fire; the child need not write or exit, a descendant need not let go of the pipes.
The other modules state no liveness: their steps wait for a user. Deadlock is checked in
every run; a state in which all is done may stutter.

**Named parts.** Invariants of one module that are about the same rows are checked as one
conjunction of named parts, each with its own comment where it is defined:

| Property | Parts |
|---|---|
| `AttemptsConsistent` | `TypeOK`, `AttemptLimits`, `FreshOrdinals`, `RepairSourceIntact`, `RepairAdmissible` |
| `LoopConsistent` | `TypeOK`, `HardLimit`, `ThreadBudgetKept`, `MemoryMatchesRows`, `BlockedForAReason`, `OutcomeMatchesRows`, `DeliveryHasWinners` |
| `RowsConsistent` | `TypeOK`, `WinnerIsVerified`, `RestsConsistent` |
| `StreamConsistent` | `TypeOK`, `PrefixInOrder`, `EndIsTheEnd` |
| `PlanningConsistent` | `TypeOK`, `RowsFollowProcesses`, `UnreadableIsExplained` |
| `ProposalPreserved` | `ProducersFirst`, `ScopePreserved` |
| `AnalysisIsTrue` | `SpanIsLongestChain`, `SlotsAreUsable` |
| `ViewConsistent` | `TypeOK`, `NothingInvented`, `RefusedForAReason` |

**Mutants.** A definition named `X_` followed by what is wrong with it (`Merge_NoDeps`,
`Conflict_LastWins`), right before `X`, is `X` with a plausible bug. The property it is
about is violated when it takes the place of `X`; every property of a passing run has one.

## 4. What TLAPS proves

Every safety property that a run checks of these modules is a theorem, for every set of
settings, every bound and every environment the modules' constants allow:

| Module | Theorems |
|---|---|
| `TaskRaceProofs` | `TypeCorrect`; the award: `WinnerIsVerified`, `VerifiedMeansWon`, `WinnerWorkspaceSurvives`, `ReturnsAlone`, `ReturnsTheRows`; the refinement `RaceImplementsArbitration`; the attempts: `AttemptsAddUp`, `PassesCount` |
| `RunLoopProofs` | the refinement `LoopImplementsDag`; `ResourcesNeverWait`, `ThreadsWithinBudget`; memory and report: `LoopReportsTheRows`, `TurnsUseTheRoom` |
| `ReverificationProofs` | `RowsAgree`, `AtMostOne`, `OutcomeStaysTrue`, `AwardIsFinal`; the refinement `ReverificationImplementsArbitration` |
| `PlanningWorkflowProofs` | `Consistent`, `Reviewed`, `Executed`, `CacheKept` |
| `CodexAdapterProofs` | `StreamIsFaithful`, `EverythingArrives`, `CancelledIsDead`; of `StreamLines`: `LinesAreTheWhole`, `LongLinesAreNotRetained` |
| `PlanCompilerProofs` | `WritersShareAKey`, `ProposalIsPreserved`, `VerifierEnforcesTheScope`, `AutoApprovalIsOfTheProposal`, `CleanProposalIsKept`, `AnalysisOfAPlanIsTrue` |
| `VerifiedOverlayProofs` | `PolicyIsKept`, `OverlayCarriesTheDiff`, `RepairStartsWhereItStopped`, `RefusalsAreReal`, `InheritanceIsAllowed` |
| `RepositoryViewProofs` | `ViewIsExplained`, `StillUserGetsTheFiles` |

The assumptions are the named ones in the modules (settings are well-formed, at least
two ordinals exist, manifests are as `load_manifest` validates them, proposals as
`PlannerProposal` does, likely paths name files or directories, links lead to paths that
are no links, copies are made one after the other) and one hypothesis,
`OverlapPercent >= 34` of `CleanProposalIsKept` (below a third, tasks that share a third are
merged). Each invariant below was first checked by TLC on the instance of section 3, then
proved inductive.

**TaskRace.** None of the award properties is inductive: the write that would break it
is always enabled by its SQL alone. `RaceInv` adds what keeps it away. The winner's
coroutine has ended (`WinnerEndedVerified`), so it neither cleans up nor writes. While
there is a winner every coroutine that could still write has a `cancel()` pending
(`LosersCancelled`), so its next step is the cancellation. The coordinator's
position tells which coroutines can be alive (`CoordinatorShape`), so a claim leaves
none of them out. `PhaseMatchesDisk` ties a coroutine to its worktree and its verdict.
`VerdictInv` (no verdict before the end of a verification) is needed only for
the refinement: a failing attempt must not take back a pass. `AttemptInv` adds the rows
of ended attempts: who ended with feedback keeps the worktree and the verdict it is
about (`FeedbackStays`), so a repair's source is intact; a pass belongs to a coroutine
the coordinator still waits for, unless the task was cancelled (`PassIsSeen`), and
only `fg cancel` can make the claim fail (`VerifyingStays`).

**RunLoop.** `LoopInv` makes the loop's memory a safe substitute for the rows: a
pending task has no coroutine, coroutines at work are in `running`, keys in
`verified_keys` are verified rows, and a verified row belongs to a task that has won, so
no unconditional update reaches it. `SelectionIsSafe` turns the description of the
selected set into dependency order and exclusion. `ResourceInv` adds that semaphores are
held only by tasks at work, which exclude each other. `MemoryInv` is about what is
counted and reported. The hard limit is arithmetic: a turn admits one task even if it
finds no room under the current limit, so that `max_parallel_tasks` holds only because
the loop comes back to its top after it collected a task (`RoomAtTheTop`), and
`SelectionFitsTheRoom` bounds a selection by the lowest ranked task in it (a finite set has
one: `HighestExists`). `failed` is zero exactly while every collected task won and none
was blocked (`FailedCounts`); with the loop's position and the rows (`LoopMatchesRows`)
it gives the reported outcome.

**Reverification.** No transaction joins two others; the run's status is the lock.
An admission makes it 'running', cancelling 'cancelled', and only the end of the admitted
process 'failed' again (`Reserved`), so at most one process is between admission and end
(`Alone`), and rounds are numbered without a gap (`NumberIsNext`). The other parts of
`RevInv` say what the rows are at each place of that process, and that an open row
has a holder (`OpenIsHeld`, `TaskIsHeld`, `RunIsHeld`). The refinement says that verifying
once more keeps the promise of the first execution: an attempt has passed when a round of
it has (`EverPassed`), recording a passing round is the promise's `Pass`, a claim its
`Award`, and everything else is unseen. It needs that nobody reaches the verifier
without the inspection of the worktree (`WorktreeKept`). It holds on the instance
of `reverification` too, but is not among the properties of that run.

**PlanningWorkflow.** A request's row has no lock either; only the process whose request it
is now writes it. `Fits` relates row and process at every place, `Left` says that a row
its process turned away from waits, unapproved, for ever. For the cache, `Owned` says that
the bytes a process writes under its own name are new when it opens them, because it asks
the planner once, and that no file has two names. `BytesExplained` follows the bytes: a
torn file is open somewhere, and whoever finds other than torn bytes in the file it has
open shares it with another writer, so that what nobody can read has two writers. That a
readable entry stays readable does not follow, and is false with three processes: one
writes the temporary file, a second truncates it, and the first renames the truncated
file over the entry a third has completed (`planner.py:339-340`). What holds is
`CacheKeepsItsBytes`: an entry nobody has open is not changed under its reader, only
replaced. `ExecutedIsApproved` needs of the scan only its first reading; the proof
shows how little that says (`plan_on_base`).

**CodexAdapter.** A line is in one of five places: in the pipe, held by the reader, in the
queue, consumed, or lost with a reader that raised or was cut short. The pipe is an end of
what was written (`TailInThePipe`), the consumed events are a beginning (`TakenAsWritten`).
Between them, in a queue where the adapter's own events stand among the child's, a numbering
of the places (`Numbered`) says how many lines were read up to each; a put extends it
(`PutNumbered`), a get shifts it (`TakeNumbered`). That the child is dead when the stream
says so follows from the coroutines' places (`DeathIsKnown`): nobody gets past
`_terminate`, or past the end of the pipe, while it runs.

**StreamLines.** The reference cuts the whole input at once; the code sees one chunk.
`Start` names the cut the line so far began at: as many cuts precede it as lines were
yielded, and what is buffered, or only counted, is the input since that cut. So the next
newline ends the next line of the reference (`YieldsTheNext`), wherever the chunks end
(`NoCutBefore`: a chunk without a newline hides no cut). The reference numbers cuts by
counting, and `CutsInOrder` shows that the number finds the cut.

**PlanCompiler.** The tasks always stand for the proposal (`StandsFor`): they are a
partition of the proposed tasks (`Partition`), each has the scope of those it stands for
(`Scoped`), and each waits for the task that holds a producer of what one of these requires,
unless it holds it itself (`Ordered`). Merging keeps this whatever set of tasks is merged
(`MergeKeeps`), so neither the cycles the search finds nor the order of overlapping pairs
matters. Keys change nothing else (`WithKeysKeeps`), and both tasks of an overlap get the
same one, because what two paths have in common does not depend on which is named first
(`CommonIsSymmetric`, `WriteKeyIs`). A plan passed the analysis, so it is a graph without a
cycle (`PlanIsADag`). For `CleanIsKept` there is a second invariant, `CleanInv`: such a
proposal has no cycle and no pair to merge, so it is untouched until it is a plan.

**WorkSpan.** `AnalysisIsTrue` is proved of every acyclic graph (`SpanIsTrue`,
`SlotsAreTrue`), without induction over data. That a function solves the recursion of a
definition is shown by the least size for which none would (`SumsExist`, `FinishExists`,
`LevelExists`, `CursorExists`); what the solution says is shown at a task that has no
ancestor, or no successor, of which it is false (`Earliest`, `Latest`). A sum over a set
does not depend on the order CHOOSE takes (`WorkWithout`, by a smallest set where it would).
The rounds of ancestors end with the closure: a round that adds nothing is the last, and there
are no more than tasks (`RoundsClosed`). A chain's work is at most the finish of its last
task (`ChainWithinSpan`); the critical path reaches it (`TailGrows`, `CriticalPathIs`): it is
one place further back at each turn, so that as many turns as tasks reach a task without
dependencies. No way through a task is longer than the span (`LevelsWithinSpan`), and a
longest chain begins at a ready task (`LevelOfAStart`), so the first ranked are such tasks.

**PathPatterns.** A pattern of a scope is a path, or a path and `**` at its end. For these the
match has a closed form (`Fits`), which solves the recursion (`FitsSolves`); nothing else does
(`MatchIsUnique`), so it is what `MatchFrom` computes (`MatchFromIs`), and
`ScopeAllows` reads it as a prefix. `PartsAre` and `PartsAllow` carry this from the
parts a pattern has to the path as it is written.

**VerifiedOverlay.** Everything downstream trusts git's list of changed paths.
`ReportedIsComplete` shows that, where the four commands work, it has every file that
differs from the last commit HEAD and the base have in common, whatever the worker did to
its branch. `OverlayInv` says that the list the verifier read is still what git would
report, but for outputs of the verifier's own commands (`ListIsReported`), and that
the paths of a verified one are allowed (`VerdictKeptPolicy`): without the first the
second would say nothing of what is copied later. What the copies of several sources
leave in a file no link of the base leads to is what any of them has there
(`OverlaidDirect`), because those that disagree were refused; which of the copies is the
last does not matter there. `ScopesGrow` gives `InheritanceIsAllowed`: the list of a
task holds those of its dependencies (`AncestorsAreInherited`), and the delivery's all.

**RepositoryView.** The user may change everything between two reads. `SeenSoFar` holds
whatever the user does: all that is in the clone, and all that is still to be removed, was in
the repository at some moment. `QuietSoFar` holds while the user keeps still: what was
listed is what git would list now, so what is neither listed nor copied yet is in the clone
as it is on disk.

**Model-checked only.** Liveness (`TaskSettles`, `RunSettles`, `ReverificationEnds`,
`StreamEnds`): it needs fairness and ENABLED, which are out of the prover's reach. Which
nodes `_cycle_nodes` finds is checked only as part of `plan_compiler`: the theorems hold
whatever it finds, for a cycle it leaves makes the analysis raise. Patterns of the deny
list with `*` or `**` elsewhere than at their end are not among those with a closed form.

## 5. How the models fit together

`RepositoryView` gives the base; `PlanningWorkflow` the approved plan on it, whose tasks
`PlanCompiler` made; `RunLoop` orders them, `TaskRace` executes each, `CodexAdapter` is
its worker and `VerifiedOverlay` what its worktree holds; `Reverification` begins where a
failed `RunLoop` ended. The seams are promises checked on one side and assumed on the
other: a task of `RunLoop` is what the theorems of `TaskRace` leave; the graph and the
keys of `RunLoop` are what `WritersExclusive` and `ProducersFirst` give; `VerifiedOverlay`
starts a task when its dependencies have winners, which is `DagExecution`; `TaskRace`'s
worker ends because of `StreamEnds`.

## 6. Where code and documents differ

Three disagreements are runs of their own (section 3, and the findings in PROJECT.json
quote both sides). These were met while modelling and are not run; the models do what
the code does. `02` is `src/02_TECHNICAL_SPEC.md`, `03` is
`src/03_IMPLEMENTATION_BACKLOG.md`; the other documents are in `src/` too.

Execution:

- A backup is launched when the primary has already failed (`scheduler/racing.py:48`);
  `docs/ROADMAP.md:238` separates retry after failure from the hedge.
- A loser whose cancellation meets `adapter.start` is left with status 'running'
  (`service.py:1197`; 03:131), one that loses the claim after
  passing stays 'passed' (`scheduler/racing.py:65`; 02:184).
- An interruption finalizes rows that racing attempts still write (`service.py:146`;
  03:218), and a crash between pass and claim is not recovered: `reconcile_orphans` has no
  caller outside the tests and never touches runs (`db/repository.py:280`; 02:317).
  Such a run cannot be reverified either, for that demands a failed one.
- A task is admitted while no root slot is free, when racing attempts use them
  (`service.py:580`; `docs/ROADMAP.md:188`); a cancelled run is completed by the row its loop writes
  last (`service.py:662`; `domain/state_machine.py:1`).

The worker's stream:

- The child's exit code decides nothing: a turn that completed counts whatever the process
  exits with (`codex_exec.py:286`, `service.py:1220`; 02:136 lets the exit code decide too).
  Cancelling does not drain the pipes (303; 02:135). A descendant outside the process group
  survives (328; 03:121).
- The grace period after the child's exit cuts off a reader that waits for room in the
  queue because its consumer is slow (`codex_exec.py:214`; 01_PRODUCT_PLAN_AND_PRD.md:723
  promises backpressure).

Planning:

- `--plan none` is approved without a review, and nothing looks at the number of its tasks:
  with a planner that answers, or a cached proposal, it is several (`workflow.py:210`;
  README.md:254 of the repository, 04_PLANNING_SUBSYSTEM.md:28).
- `fg clip` records the manifest named by the cache key, which another process may have
  written meanwhile; `fg run` records one named by its digest (`cli.py:660`; README.md:296
  of the repository asks for the exact bytes).
- Two proposals of different length saved at the same time can leave a cache file that
  parses for nobody and that both have finished; it stays until the next save
  (`planner.py:338`), and `load` takes it for none.
- A proposal whose graph cannot be analysed raises before the fallback to one task
  (`compiler.py:407`; 04_PLANNING_SUBSYSTEM.md:52, 03:64), and is cached before that
  (`workflow.py:310`; 03:279 speaks of failures of the planner only). The fallback itself is
  validated without the allow and deny paths, so its plan, which names every top-level
  directory, is valid though denied paths lie there (`compiler.py:371`; 04:50-51,
  docs/security-review.md:20).
- The compiler compares paths as they are written (`compiler.py:33`) and the verifier part
  by part (`path_patterns.py:7`): a task that writes "./src" and one that writes "src" get no
  common key (docs/evidence/javascript-idempotent-checkout-v1.md:90 wants them merged or
  serialized).
- A plan edited to other tasks and run with `--plan existing` dies on "analysis is stale".
- The path policy is not always the scope: a top-level scope admits files of that name in
  any directory (`path_patterns.py:21`), a task's list admits its ancestors' scopes too, and
  a likely path "." or a read-only task without paths admits everything
  (`verifier/runner.py:98`). So two tasks without a common key may both be allowed to write one
  file, and a read-only task may write its likely paths.

Worktrees:

- A worker that moves its branch behind the base (`git reset --hard BASE~1`), or to an
  unrelated root, makes `git diff base...HEAD` empty, so the policy passes for whatever the
  older commit had (`verifier/runner.py:80`; 02:166). `verified_overlay` has such workers, and
  `PolicyHolds` is about what differs from the commit in common. A git command that fails
  lists nothing (`runner.py:73`), with the same effect; the properties leave out worktrees
  in which one does (`Readable`). Names git quotes (`core.quotePath`) are not found on
  disk and are skipped by the overlay.
- The overlays say that they refuse symbolic links (`dependency_overlay.py:68`, 109), but
  the path they ask is resolved already (38): a link inside a worktree travels as a copy of
  the file it leads to, and is deleted when it leads nowhere; only a link out of the
  worktree is refused. A repair starts with the same copies (106-116).
- Conflicts are looked for by name (`dependency_overlay.py:71`) while the copy goes to the
  resolved path: a link of the base and the file it leads to are two names of one file, and
  two winners that changed one each are both copied to it; the last one stays, though the
  docstring (53) promises that nothing is resolved by copy order.
- An output of a verification command that is neither ignored nor allowed is copied
  downstream like any change and fails every dependent (`runner.py:129` lists before the
  commands run). So does what a read-only task without paths writes, when a dependent has
  paths (`service.py:713` frees only the delivery).
- A sink that changed an inherited file back to its base content does not list it, so
  another sink's version is taken without a conflict (`dependency_overlay.py:71`; 03:317).
- A file taken out of the index with `git rm --cached` but kept on disk is deleted from a
  snapshot (`repository_view.py:105`; README.md:213-215 of the repository).

## 7. Not modelled, and the plan

Not modelled: terminal output, reports, the simulator and benchmark, the testbed (input
and output, or offline arithmetic that shares no decision with the scheduler); prompts,
the decomposition keywords, the deterministic planner and the scanner (text);
configuration files; `scheduler/hedging.py`, which nothing uses; the fake adapter (a test
double); leases, which are never written.

Abstracted on purpose: a failing git command where the caller raises (where it is taken for
an empty listing it is modelled); links to links and to directories, and a directory in the
way of a file; a "." further on in a path, and empty parts; several resource
units per key; wording of objectives and hints; several state directories.

What could come next:

1. `_cycle_nodes` against a definition of cycles: it misses a node whose only cycle leads
   through one already left, and the analysis decides again on the graph that remains.
2. A closed form for patterns with `**` in front, the usual ones of a deny list.
