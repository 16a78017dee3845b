--------------------------- MODULE PlanningWorkflow ---------------------------
(***************************************************************************)
(* From a work request to the manifest that is executed: the commands      *)
(* `fg run`, `fg clip`, `fg plan` and `fg run PLAN --plan existing`, each  *)
(* in a process of its own, over what they share: the repository's HEAD,   *)
(* the planning rows, the planner cache, and the files <key>.editable.yaml *)
(* and <key>.manifest.yaml of the state directory.  All of them ask for    *)
(* the same work of the same planner, so a cache key is the scanned commit *)
(* and the mode.                                                           *)
(*                                                                         *)
(* A plan is what the properties tell apart of it: the commit it was made  *)
(* for, the commit that was HEAD when that base was last read or compared, *)
(* the commit whose files the last scan read, its tasks (one content of a  *)
(* small set) and the tasks its parallelism analysis is of.  One action is *)
(* one transaction, one file operation, one reading of HEAD or one reading *)
(* of the files (all of them at once); transactions on rows nobody else    *)
(* reads are merged with the transition they precede.  Uncommitted files   *)
(* and the managed clones of a dirty repository, which nobody commits to,  *)
(* are RepositoryView's.  A crash is a process that takes no further step: *)
(* Spec obliges nobody to.                                                 *)
(***************************************************************************)
EXTENDS Naturals, Sequences, FiniteSets

CONSTANTS
  Processes,      \* one invocation of the command line each
  Commands,       \* the command lines each may be: which command, and whether
                  \* its plan is approved unasked ("none": --plan none), by
                  \* --yes or by an answer ("asked")
  Proposals,      \* contents the planner proposes
  MaxHead,        \* commits the user makes, at most
  MaxRequests,    \* planning requests one process opens, at most
  MaxEdits,       \* edits of a saved plan, at most
  NoPlan,         \* no plan, no manifest
  Environment     \* \subseteq {"scan_error"}

ASSUME PlanningAssumption ==
  /\ MaxHead \in Nat /\ MaxRequests \in Nat \ {0} /\ MaxEdits \in Nat
  /\ Commands \in [Processes -> SUBSET
       (({"run"} \X {"none", "yes", "asked"}) \cup ({"clip", "existing"} \X {"yes", "asked"})
         \cup {<<"plan", "yes">>})]
  /\ Proposals \subseteq {"split", "single", "knot", "broken"}
  /\ "absent" \notin Processes

\* Contents of a plan: several tasks with some risk, one task, tasks that the
\* compiler cannot analyse (it raises), a plan that fails its validation, and
\* an edited file that does not load.
Contents == {"split", "single", "knot", "broken", "unreadable"}
Edited == {"split", "single", "broken", "unreadable"}
Valid(plan) == plan.content \in {"split", "single"}
LowRisk(plan) == plan.content = "single"

Heads == 0..MaxHead
Modes == {"auto", "none"}
Reviews == {"none", "yes", "asked"}
Keys == Heads \X Modes
Output == <<0, "output">>      \* where `fg plan --output` writes
Files == Keys \cup {Output}
ASSUME NoPlanAssumption == NoPlan \notin Processes \X Keys
Plans == [base: Heads, asked: Heads, seen: Heads, mode: Modes,
          content: Contents, analysis: Contents \cup {"none"}]
CacheKey(plan) == <<plan.base, plan.mode>>

VARIABLES
  head,       \* the commit HEAD names
  requests,   \* rows of planning_requests and candidate_plans
  blocks,     \* the bytes of the file a process created for a key: "none", "torn"
              \* (opened and not written), a proposal, or "mixed" (two written over
              \* each other, which does not parse)
  cache, tmp, \* <key>.json and <key>.tmp: whose bytes the name leads to
  files,      \* the saved plans
  compiled,   \* <key>.manifest.yaml
  edits,      \* edits made so far
  proc        \* the processes

vars == <<head, requests, blocks, cache, tmp, files, compiled, edits, proc>>
stores == <<blocks, cache, tmp>>
outputs == <<files, compiled, edits>>

Planning == {"received", "reading", "mapped", "proposing", "opening", "writing",
             "replacing", "compiling"}
Reviewing == {"deciding", "editing"}
Leading == {"approving", "manifest", "ready"}
Ended == {"ran", "planned", "refused", "raised"}

Idle == [at |-> "idle", kind |-> "run", review |-> "none", request |-> 0, called |-> FALSE,
         plan |-> NoPlan, wrote |-> NoPlan, recorded |-> NoPlan]

Init ==
  /\ head = 0 /\ requests = <<>> /\ edits = 0
  /\ blocks = [b \in Processes \X Keys |-> "none"]
  /\ cache = [k \in Keys |-> "absent"] /\ tmp = [k \in Keys |-> "absent"]
  /\ files = [f \in Files |-> NoPlan] /\ compiled = [k \in Keys |-> NoPlan]
  /\ proc = [p \in Processes |-> Idle]

Goto(p, place) == proc' = [proc EXCEPT ![p].at = place]
End(p, how) == proc' = [proc EXCEPT ![p] = [@ EXCEPT !.at = how, !.plan = NoPlan]]
Mine(p) == requests[proc[p].request]
Key(p) == CacheKey(proc[p].plan)
SetRow(p, field, value) ==
  requests' = [requests EXCEPT ![proc[p].request] = [@ EXCEPT ![field] = value]]

\* The legal changes of a request's state.
PlanningTransitions ==
  ({"received"} \X {"repo_scanning", "cancelled"})
  \cup ({"repo_scanning"} \X {"planning", "failed", "cancelled"})
  \cup ({"planning"} \X {"plan_validation", "failed", "cancelled"})
  \cup ({"plan_validation"} \X {"awaiting", "approved", "failed"})
  \cup ({"awaiting"} \X {"approved", "cancelled", "failed"})
  \cup ({"approved"} \X {"execution_ready", "cancelled"})
  \cup ({"execution_ready"} \X {"executing", "cancelled"})
  \cup ({"executing"} \X {"completed", "failed", "cancelled"})

\* _transition is a compare-and-set on the state it expects.
Transition(p, from, to) ==
  /\ <<from, to>> \in PlanningTransitions /\ Mine(p).state = from
  /\ SetRow(p, "state", to)

-------------------------------------------------------------------------------
(* Planning: PlanningEngine.plan_request.                                  *)

\* The request's row is inserted as received and moved to repo_scanning.
Receive(p, kind, review, mode) ==
  /\ requests' = Append(requests, [by |-> p, state |-> "repo_scanning",
                                   plan |-> NoPlan, approved |-> FALSE])
  /\ proc' = [proc EXCEPT ![p] =
       [at |-> "received", kind |-> kind, review |-> review, recorded |-> NoPlan,
        request |-> Len(requests) + 1, called |-> proc[p].called, wrote |-> proc[p].wrote,
        plan |-> [base |-> 0, asked |-> 0, seen |-> 0, mode |-> mode, content |-> "single",
                  analysis |-> "none"]]]
  /\ UNCHANGED <<head, stores, outputs>>

Asked(p, kind, review) == proc[p].at = "idle" /\ <<kind, review>> \in Commands[p]

\* `fg run` (and `fg request`, which forwards to it), `fg clip` and `fg plan`.
\* Only --plan none asks the engine for one task.
StartRun(p) ==
  \E review \in Reviews :
    Asked(p, "run", review) /\ Receive(p, "run", review, IF review = "none" THEN "none" ELSE "auto")
StartClip(p) ==
  \E review \in Reviews : Asked(p, "clip", review) /\ Receive(p, "clip", review, "auto")
StartPlan(p) ==
  \E review \in Reviews : Asked(p, "plan", review) /\ Receive(p, "plan", review, "auto")

\* The scanner reads HEAD, which becomes the plan's base.
Scan(p) ==
  /\ proc[p].at = "received"
  /\ proc' = [proc EXCEPT ![p].at = "reading", ![p].plan =
                [@ EXCEPT !.base = head, !.asked = head]]
  /\ UNCHANGED <<head, requests, stores, outputs>>

\* It lists and reads the files there are now; the map is stored.
ReadFiles(p) ==
  /\ proc[p].at = "reading"
  /\ Transition(p, "repo_scanning", "planning")
  /\ proc' = [proc EXCEPT ![p].at = "mapped", ![p].plan = [@ EXCEPT !.seen = head]]
  /\ UNCHANGED <<head, stores, outputs>>

\* Nothing handles an exception of the scanner.
ScanRaises(p) ==
  /\ "scan_error" \in Environment
  /\ proc[p].at \in {"received", "reading"}
  /\ End(p, "raised")
  /\ UNCHANGED <<head, requests, stores, outputs>>

Proposed(p, content, place) ==
  proc' = [proc EXCEPT ![p].at = place, ![p].plan = [@ EXCEPT !.content = content]]

\* What the cache returns for a key: a proposal, or nothing if there is no
\* file or its content does not parse.
Cached(k) == IF cache[k] = "absent" THEN "none" ELSE blocks[<<cache[k], k>>]
Complete(k) == Cached(k) \notin {"none", "torn", "mixed"}

LoadCache(p) ==
  /\ proc[p].at = "mapped"
  /\ IF Complete(Key(p))
     THEN Proposed(p, Cached(Key(p)), "compiling")
     ELSE \/ Goto(p, "proposing")
          \/ Proposed(p, "single", "compiling")   \* small-task and budget bypass
  /\ UNCHANGED <<head, requests, stores, outputs>>

\* CodexPlannerAdapter.propose answers one call of its process.  A second one
\* raises, as a timeout, an exit code or an unreadable result do.
Answers(p) == IF proc[p].called THEN {} ELSE Proposals

\* A failure of the planner becomes the single-task fallback and is not cached.
Propose(p) ==
  /\ proc[p].at = "proposing"
  /\ \E answer \in (Answers(p) \X {"opening"}) \cup {<<"single", "compiling">>} :
       proc' = [proc EXCEPT ![p].at = answer[2], ![p].called = TRUE,
                  ![p].plan = [@ EXCEPT !.content = answer[1]]]
  /\ UNCHANGED <<head, requests, stores, outputs>>

\* Fault: the file itself is opened, not a temporary one.
OpenTmp_InPlace(p) ==
  /\ proc[p].at = "opening"
  /\ LET k == Key(p)
         owner == IF cache[k] = "absent" THEN p ELSE cache[k]
     IN /\ cache' = [cache EXCEPT ![k] = owner]
        /\ blocks' = [blocks EXCEPT ![<<owner, k>>] = "torn"]
        /\ proc' = [proc EXCEPT ![p].at = "writing", ![p].wrote = <<owner, k>>]
  /\ UNCHANGED <<head, requests, tmp, outputs>>

\* PlannerCache.save: open the temporary file, which truncates the bytes its
\* name leads to if another process has created it; write; rename.
OpenTmp(p) ==
  /\ proc[p].at = "opening"
  /\ LET k == Key(p)
         owner == IF tmp[k] = "absent" THEN p ELSE tmp[k]
     IN /\ tmp' = [tmp EXCEPT ![k] = owner]
        /\ blocks' = [blocks EXCEPT ![<<owner, k>>] = "torn"]
        /\ proc' = [proc EXCEPT ![p].at = "writing", ![p].wrote = <<owner, k>>]
  /\ UNCHANGED <<head, requests, cache, outputs>>

\* Another process has the bytes open that p writes, or has written them since
\* p truncated them.
Overlapped(p) ==
  \/ blocks[proc[p].wrote] # "torn"
  \/ \E q \in Processes \ {p} : proc[q].at = "writing" /\ proc[q].wrote = proc[p].wrote

\* Every process writes at its own offset, from the beginning: two proposals
\* of different length leave a file that neither of them wrote.
WriteTmp(p) ==
  /\ proc[p].at = "writing"
  /\ \E bytes \in {proc[p].plan.content} \cup (IF Overlapped(p) THEN {"mixed"} ELSE {}) :
       blocks' = [blocks EXCEPT ![proc[p].wrote] = bytes]
  /\ Goto(p, "replacing")
  /\ UNCHANGED <<head, requests, cache, tmp, outputs>>

ReplaceTmp(p) ==
  /\ proc[p].at = "replacing"
  /\ LET k == Key(p) IN
       IF tmp[k] = "absent"
       THEN /\ End(p, "raised")        \* another process renamed it: FileNotFoundError
            /\ UNCHANGED <<cache, tmp>>
       ELSE /\ cache' = [cache EXCEPT ![k] = tmp[k]]
            /\ tmp' = [tmp EXCEPT ![k] = "absent"]
            /\ Goto(p, "compiling")
  /\ UNCHANGED <<head, requests, blocks, outputs>>

\* The candidate's row, inserted and then written once more with the source
\* repository; the request's state has moved in between.
StoreCandidate(p, state, plan) ==
  requests' = [requests EXCEPT ![proc[p].request] = [@ EXCEPT !.state = state, !.plan = plan]]

\* The proposal is compiled and validated, and the candidate is stored with
\* the request awaiting approval.  `fg plan` saves it and ends.
Compile(p) ==
  /\ proc[p].at = "compiling"
  /\ Mine(p).state = "planning"
  /\ LET plan == [proc[p].plan EXCEPT !.analysis = proc[p].plan.content]
     IN IF plan.content = "knot"
        THEN StoreCandidate(p, "plan_validation", NoPlan) /\ End(p, "raised") /\ UNCHANGED files
        ELSE /\ StoreCandidate(p, "awaiting", plan)
             /\ proc' = [proc EXCEPT ![p].plan = plan,
                           ![p].at = IF proc[p].kind = "plan" THEN "planned" ELSE "deciding"]
             /\ files' = IF proc[p].kind = "plan"
                         THEN [files EXCEPT ![Output] = plan] ELSE files
  /\ UNCHANGED <<head, stores, compiled, edits>>

-------------------------------------------------------------------------------
(* Review and approval.                                                    *)

\* --plan none is not asked about, --yes only wants a low-risk plan, anybody
\* else is asked.  An invalid plan is not approved.
Approvable(p) ==
  /\ proc[p].at = "deciding"
  /\ Valid(proc[p].plan)
  /\ proc[p].review = "yes" => LowRisk(proc[p].plan)

\* Fault: the state is moved first.
ApprovePlan_StateFirst(p) ==
  /\ Approvable(p) /\ proc[p].kind # "existing"
  /\ Transition(p, "awaiting", "approved")
  /\ Goto(p, "approving")
  /\ UNCHANGED <<head, stores, outputs>>

\* The first of approve's two transactions: the candidate is approved.
ApprovePlan(p) ==
  /\ Approvable(p) /\ proc[p].kind # "existing"
  /\ requests' = [requests EXCEPT ![proc[p].request] =
                    [@ EXCEPT !.approved = TRUE, !.plan = proc[p].plan]]
  /\ Goto(p, "approving")
  /\ UNCHANGED <<head, stores, outputs>>

\* The second: the request's state.
ApproveRequest(p) ==
  /\ proc[p].at = "approving"
  /\ Transition(p, "awaiting", "approved")
  /\ Goto(p, "manifest")
  /\ UNCHANGED <<head, stores, outputs>>

\* The user says no or cancels, or the plan cannot be approved.
Refuse(p) ==
  /\ proc[p].at = "deciding"
  /\ proc[p].review = "asked" \/ ~Approvable(p)
  /\ End(p, "refused")
  /\ UNCHANGED <<head, requests, stores, outputs>>

\* load_plan
Loads(f) == files[f] # NoPlan /\ files[f].content # "unreadable"

\* [e]: the plan is saved under its cache key and an editor is opened on it.
SaveForEditor(p) ==
  /\ proc[p].at = "deciding" /\ proc[p].review = "asked" /\ proc[p].kind # "existing"
  /\ files' = [files EXCEPT ![Key(p)] = proc[p].plan]
  /\ Goto(p, "editing")
  /\ UNCHANGED <<head, requests, stores, compiled, edits>>

\* Somebody edits a saved plan: its tasks change, its analysis stays.
EditFile(f) ==
  /\ edits < MaxEdits /\ files[f] # NoPlan
  /\ \E c \in Edited \ {files[f].content} :
       files' = [files EXCEPT ![f] = [@ EXCEPT !.content = c]]
  /\ edits' = edits + 1
  /\ UNCHANGED <<head, requests, stores, compiled, proc>>

\* Faults: the candidate is stored before the checks; HEAD is not compared.
Reload_Unchecked(p) ==
  /\ proc[p].at = "editing"
  /\ SetRow(p, "plan", files[Key(p)])
  /\ Goto(p, "deciding")
  /\ UNCHANGED <<head, stores, outputs>>
Reload_AnyHead(p) ==
  /\ proc[p].at = "editing" /\ Loads(Key(p))
  /\ proc' = [proc EXCEPT ![p].at = "rescanning",
                ![p].plan = [files[Key(p)] EXCEPT !.asked = head]]
  /\ UNCHANGED <<head, requests, stores, outputs>>

\* The editor closes: the file is loaded and replace_candidate's scan reads
\* HEAD.  If the file does not load, HEAD is not the plan's base or the scan
\* fails, the review goes on with the plan there was.
Reload(p) ==
  /\ proc[p].at = "editing"
  /\ LET found == files[Key(p)]
     IN \/ /\ ~Loads(Key(p)) \/ found.base # head \/ "scan_error" \in Environment
           /\ Goto(p, "deciding")
        \/ /\ Loads(Key(p)) /\ found.base = head
           /\ proc' = [proc EXCEPT ![p].at = "rescanning", ![p].plan = [found EXCEPT !.asked = head]]
  /\ UNCHANGED <<head, requests, stores, outputs>>

\* The scan reads the files there are now; the plan is validated and analysed
\* against them and stored.
Rescan(p) ==
  /\ proc[p].at = "rescanning"
  /\ LET found == proc[p].plan
         edited == [found EXCEPT !.seen = head,
                      !.analysis = IF Valid(found) THEN found.content ELSE "none"]
     IN /\ SetRow(p, "plan", edited)
        /\ proc' = [proc EXCEPT ![p].at = "deciding", ![p].plan = edited]
  /\ UNCHANGED <<head, stores, outputs>>

\* There is no editor, or it fails: the user is told to run the file.
NoEditor(p) ==
  /\ proc[p].at = "editing"
  /\ End(p, "refused")
  /\ UNCHANGED <<head, requests, stores, outputs>>

\* [s]: a second request is planned as one task; the first one is left.
ReplaceWithSingle(p) ==
  /\ proc[p].at = "deciding" /\ proc[p].review = "asked" /\ proc[p].kind # "existing"
  /\ Cardinality({i \in DOMAIN requests : requests[i].by = p}) < MaxRequests
  /\ Receive(p, proc[p].kind, proc[p].review, "none")

-------------------------------------------------------------------------------
(* `fg run PLAN --plan existing`: a saved plan, without rows.              *)

\* The plan is loaded, and HEAD must still be its base.
LoadPlan(p, f, review) ==
  /\ Asked(p, "existing", review)
  /\ Loads(f)
  /\ IF files[f].base = head
     THEN proc' = [proc EXCEPT ![p] = [@ EXCEPT !.at = "checked", !.kind = "existing",
                                         !.review = review,
                                         !.plan = [files[f] EXCEPT !.asked = head]]]
     ELSE End(p, "refused")
  /\ UNCHANGED <<head, requests, stores, outputs>>

\* The repository is scanned again and the plan validated against that map.
Revalidate(p) ==
  /\ proc[p].at = "checked"
  /\ proc' = [proc EXCEPT ![p].plan = [@ EXCEPT !.seen = head],
                ![p].at = IF Valid(proc[p].plan) THEN "deciding" ELSE "refused"]
  /\ UNCHANGED <<head, requests, stores, outputs>>

Confirm(p) ==
  /\ Approvable(p) /\ proc[p].kind = "existing"
  /\ Goto(p, "manifest")
  /\ UNCHANGED <<head, requests, stores, outputs>>

-------------------------------------------------------------------------------
(* The manifest and its execution.                                         *)

\* The bytes of a manifest carry the plan and its planning time, so those of
\* two processes differ.
ManifestOf(p) == [by |-> p, plan |-> proc[p].plan]

\* plan_to_manifest refuses an analysis of other tasks; the manifest is
\* written under the plan's cache key.
WriteManifest(p) ==
  /\ proc[p].at = "manifest"
  /\ IF proc[p].plan.analysis \notin {"none", proc[p].plan.content}
     THEN End(p, "raised") /\ UNCHANGED compiled
     ELSE /\ compiled' = [compiled EXCEPT ![Key(p)] = ManifestOf(p)]
          /\ Goto(p, "ready")
  /\ UNCHANGED <<head, requests, stores, files, edits>>

\* `fg run` adds the verifier's environment to the manifest and writes it
\* again under a name that is the digest of its bytes; `fg clip` does not.
ManifestPath(p) == IF proc[p].kind = "clip" THEN compiled[Key(p)] ELSE ManifestOf(p)

\* The service executes the manifest in memory and records the digest of the
\* file it is given.
Execute(p) ==
  /\ proc[p].at = "ready"
  /\ proc' = [proc EXCEPT ![p].at = "ran", ![p].recorded = ManifestPath(p)]
  /\ UNCHANGED <<head, requests, stores, outputs>>

-------------------------------------------------------------------------------
Commit ==
  /\ head < MaxHead /\ head' = head + 1
  /\ UNCHANGED <<requests, stores, outputs, proc>>

Settled == (\A p \in Processes : proc[p].at \in Ended \cup {"idle"}) /\ UNCHANGED vars

\* What a process does by itself, and what its user decides.
Work(p) ==
  \/ Scan(p) \/ ReadFiles(p) \/ ScanRaises(p) \/ LoadCache(p) \/ Propose(p)
  \/ OpenTmp(p) \/ WriteTmp(p) \/ ReplaceTmp(p) \/ Compile(p)
  \/ ApproveRequest(p) \/ Revalidate(p) \/ WriteManifest(p) \/ Execute(p)

Review(p) ==
  \/ ApprovePlan(p) \/ Refuse(p) \/ SaveForEditor(p) \/ Reload(p) \/ Rescan(p)
  \/ NoEditor(p) \/ ReplaceWithSingle(p) \/ Confirm(p)

Next ==
  \/ \E p \in Processes :
       \/ StartRun(p) \/ StartClip(p) \/ StartPlan(p)
       \/ \E f \in Files, review \in Reviews : LoadPlan(p, f, review)
       \/ Work(p) \/ Review(p)
  \/ \E f \in Files : EditFile(f)
  \/ Commit
  \/ Settled

Spec == Init /\ [][Next]_vars

-------------------------------------------------------------------------------
\* Types of the rows, the files and the processes.
TypeOK ==
  /\ head \in Heads /\ edits \in 0..MaxEdits
  /\ requests \in Seq([by: Processes, approved: BOOLEAN, plan: Plans \cup {NoPlan},
                       state: {"repo_scanning", "planning", "plan_validation",
                               "awaiting", "approved"}])
  /\ blocks \in [Processes \X Keys -> Contents \cup {"none", "torn", "mixed"}]
  /\ cache \in [Keys -> Processes \cup {"absent"}]
  /\ tmp \in [Keys -> Processes \cup {"absent"}]
  /\ files \in [Files -> Plans \cup {NoPlan}]
  /\ \A p \in Processes :
       /\ proc[p].at \in Planning \cup Reviewing \cup Leading \cup Ended
                          \cup {"idle", "checked", "rescanning"}
       /\ proc[p].plan \in Plans \cup {NoPlan}

Engine(p) == proc[p].kind # "existing"

\* What the user is looking at is what the row holds that an approval will
\* approve, through edits of a file other processes save too, refused edits
\* and replacements of the request.
ReviewedIsStored ==
  \A p \in Processes :
    proc[p].at \in Reviewing /\ Engine(p) =>
      Mine(p) = [by |-> p, state |-> "awaiting", plan |-> proc[p].plan, approved |-> FALSE]

\* A planned manifest is executed only for an approved request, with the plan
\* that was approved.  Every plan that is executed is valid, and its base was
\* HEAD when the scan that validated it began (for a saved plan: when it was
\* taken up), through edits of the file and commits at any other time.
ExecutedIsApproved ==
  \A p \in Processes :
    proc[p].at \in {"ready", "ran"} =>
      /\ Engine(p) =>
           Mine(p) = [by |-> p, state |-> "approved", plan |-> proc[p].plan, approved |-> TRUE]
      /\ Valid(proc[p].plan) /\ proc[p].plan.asked = proc[p].plan.base

\* The files a plan was validated against are those of the commit its workers
\* start from ("the exact repository and SHA that both planner and workers
\* must use", repository_view.py:194).
PlannedOnItsBase ==
  \A p \in Processes :
    proc[p].at \in {"ready", "ran"} /\ Engine(p) => proc[p].plan.seen = proc[p].plan.base

\* A row between its states belongs to a process that is still at that work,
\* or that raised or stopped there; a candidate that is approved while its
\* request waits belongs to a process between approve's two transactions.
RowsFollowProcesses ==
  \A i \in DOMAIN requests :
    LET row == requests[i]
        owner == proc[row.by]
        at(places) == owner.request = i /\ owner.at \in places
    IN /\ row.state \in {"repo_scanning", "planning"} => at(Planning \cup {"raised"})
       /\ row.state = "plan_validation" => at({"raised"})
       /\ row.state = "awaiting" /\ row.approved => at({"approving"})
       /\ row.state = "approved" => row.approved /\ at(Leading \cup {"ran"})

BeingWritten(b, k) ==
  \E p \in Processes : proc[p].at = "writing" /\ proc[p].wrote = <<b, k>>

\* A cached proposal that nobody has open keeps its bytes while other processes
\* save theirs under the same key, until another file takes its name.
CacheKeepsItsBytes ==
  [][\A k \in Keys : Complete(k) /\ ~BeingWritten(cache[k], k) =>
       cache'[k] # cache[k] \/ Cached(k)' = Cached(k)]_vars

\* A cache file that cannot be read is being written, or two processes have
\* written it: one that saves alone is never missed by the next.
UnreadableIsExplained ==
  \A k \in Keys : cache[k] # "absent" /\ ~Complete(k) =>
    \/ BeingWritten(cache[k], k)
    \/ \E p, q \in Processes : p # q /\ {proc[p].wrote, proc[q].wrote} = {<<cache[k], k>>}

\* Rows and unreadable cache files are explained by the processes they belong
\* to.
PlanningConsistent == TypeOK /\ RowsFollowProcesses /\ UnreadableIsExplained

===============================================================================
