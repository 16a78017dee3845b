------------------------- MODULE PlanningWorkflowProofs -------------------------
(***************************************************************************)
(* Proofs about PlanningWorkflow, for every number of processes, commits,  *)
(* requests and edits, every command line and every planner.               *)
(*                                                                         *)
(* The argument.  A request's row carries no lock; it is safe because the  *)
(* only process that writes it is the one whose request it is now.  Fits   *)
(* says what the row and the process are to each other at each place, Left *)
(* that a row its process has turned away from waits, unapproved, and is   *)
(* never written again.  One lemma (OneProcess) reduces every step to its  *)
(* own process and row.  The cache has an argument of its own: a process   *)
(* asks the planner once, so that the file it creates is new (Owned), and  *)
(* whoever finds other bytes than its own in a file shares it (Explained). *)
(***************************************************************************)
EXTENDS PlanningWorkflow, SequenceTheorems, TLAPS

Manifests == [by: Processes, plan: Plans \cup {NoPlan}]
Places == Planning \cup Reviewing \cup Leading \cup Ended \cup {"idle", "checked", "rescanning"}

\* What a process is: where it stands and what it remembers.
Process == [at: Places, kind: {"run", "clip", "plan", "existing"}, review: Reviews,
            request: Nat, called: BOOLEAN, plan: Plans \cup {NoPlan},
            wrote: (Processes \X Keys) \cup {NoPlan}, recorded: Manifests \cup {NoPlan}]
Bytes == Contents \cup {"none", "torn", "mixed"}
Row == [by: Processes, approved: BOOLEAN, plan: Plans \cup {NoPlan},
        state: {"repo_scanning", "planning", "plan_validation", "awaiting", "approved"}]

Typed ==
  /\ TypeOK
  /\ proc \in [Processes -> Process]
  /\ compiled \in [Keys -> Manifests \cup {NoPlan}]

\* A process that remembers r and the row of its request.
Fits(p, r, row) ==
  /\ row.by = p /\ r.kind # "existing" /\ r.at \notin {"idle", "checked"}
  /\ r.at \notin {"refused", "raised"} => r.plan \in Plans /\ r.plan.asked = r.plan.base
  /\ r.at \in Reviewing \cup Leading \cup {"ran"} =>
       row.plan = r.plan /\ r.plan.analysis \in {"none", r.plan.content}
  /\ r.at \in Leading \cup {"ran"} => Valid(r.plan)
  /\ r.at \in {"received", "reading"} => row.state = "repo_scanning"
  /\ r.at \in Planning \ {"received", "reading"} => row.state = "planning"
  /\ r.at \in Reviewing \cup {"rescanning", "planned", "refused", "approving"} =>
       row.state = "awaiting"
  /\ r.at \in {"manifest", "ready", "ran"} => row.state = "approved"
  /\ r.at = "raised" => row.state \in {"repo_scanning", "planning", "plan_validation"}
  /\ row.approved <=> r.at \in Leading \cup {"ran"}

\* A process with a request, and one without: it executes a saved plan.
Bound(p) == proc[p].request \in DOMAIN requests /\ Fits(p, proc[p], Mine(p))
Unbound(r) ==
  /\ r.request = 0
  /\ r.at \in {"idle", "checked", "deciding", "manifest", "ready", "ran", "refused", "raised"}
  /\ r.at \notin {"idle", "refused", "raised"} =>
       r.kind = "existing" /\ r.plan \in Plans /\ r.plan.asked = r.plan.base
  /\ r.at \in {"manifest", "ready", "ran"} => Valid(r.plan)

Mated == \A p \in Processes : Bound(p) \/ Unbound(proc[p])

\* The rows their processes have turned away from.
Left ==
  \A i \in DOMAIN requests :
    \/ proc[requests[i].by].request = i
    \/ requests[i].state = "awaiting" /\ ~requests[i].approved

\* Whose file the names of a key lead to.
Owned ==
  \A k \in Keys :
    /\ \A p \in Processes : p \in {cache[k], tmp[k]} => proc[p].called /\ proc[p].at # "opening"
    /\ tmp[k] # "absent" => tmp[k] # cache[k] /\ blocks[<<tmp[k], k>>] # "none"
    /\ cache[k] # "absent" => blocks[<<cache[k], k>>] # "none"

Writing(p) == proc[p].at = "writing"
Shared(b) == \E p, q \in Processes : p # q /\ proc[p].wrote = b /\ proc[q].wrote = b

\* What is in a file: torn means that somebody has it open, mixed that two have
\* opened it, as does, to one who has it open, anything but torn.
FileExplained(b) ==
  /\ blocks[b] = "torn" => \E p \in Processes : Writing(p) /\ proc[p].wrote = b
  /\ blocks[b] = "mixed" => Shared(b)
WriterExplained(p) ==
  /\ Writing(p) => /\ proc[p].wrote \in Processes \X Keys
                   /\ blocks[proc[p].wrote] # "torn" => Shared(proc[p].wrote)
  /\ proc[p].at = "opening" => proc[p].called
  /\ ~proc[p].called \/ proc[p].at = "opening" => proc[p].wrote = NoPlan
BytesExplained ==
  /\ \A b \in Processes \X Keys : FileExplained(b)
  /\ \A p \in Processes : WriterExplained(p)

PlanInv == Typed /\ Mated /\ Left /\ Owned /\ BytesExplained

-------------------------------------------------------------------------------
\* One process changes.
Only(p, new) == /\ new \in Process
                /\ proc' = [q \in Processes |-> IF q = p THEN new ELSE proc[q]]

\* A step that only moves a command.
LEMMA GotoIsOnly ==
  ASSUME proc \in [Processes -> Process], NEW p \in Processes, NEW place \in Places,
         Goto(p, place)
  PROVE  \E new \in Process :
           /\ Only(p, new) /\ new.at = place /\ new.kind = proc[p].kind
           /\ new.request = proc[p].request /\ new.called = proc[p].called /\ new.wrote = proc[p].wrote
           /\ new.plan = proc[p].plan /\ new.recorded = proc[p].recorded
<1> DEFINE new == [proc[p] EXCEPT !.at = place]
<1>1. new \in Process
  BY DEF Process
<1>2. proc' = [q \in Processes |-> IF q = p THEN new ELSE proc[q]]
  BY DEF Goto
<1>3. QED
  BY <1>1, <1>2 DEF Only, Process

\* The same of a step that ends a command.
LEMMA EndIsOnly ==
  ASSUME proc \in [Processes -> Process], NEW p \in Processes, NEW place \in Places,
         End(p, place)
  PROVE  \E new \in Process :
           /\ Only(p, new) /\ new.at = place /\ new.kind = proc[p].kind
           /\ new.request = proc[p].request /\ new.called = proc[p].called /\ new.wrote = proc[p].wrote
<1> DEFINE new == [[proc[p] EXCEPT !.at = place] EXCEPT !.plan = NoPlan]
<1>1. new \in Process
  BY DEF Process
<1>2. proc' = [q \in Processes |-> IF q = p THEN new ELSE proc[q]]
  BY DEF End
<1>3. QED
  BY <1>1, <1>2 DEF Only, Process

\* What a step does to the row of its request leaves the other rows alone.
LEMMA RowIsSet ==
  ASSUME NEW rows \in Seq(Row), NEW i \in DOMAIN rows, NEW row \in Row
  PROVE  LET new == [rows EXCEPT ![i] = row] IN
           /\ new \in Seq(Row) /\ DOMAIN new = DOMAIN rows /\ new[i] = row
           /\ \A j \in DOMAIN rows : j # i => new[j] = rows[j]
OBVIOUS

\* A row is added behind the others.
LEMMA RowIsAdded ==
  ASSUME NEW rows \in Seq(Row), NEW row \in Row, NEW new, new = Append(rows, row),
         NEW n, n = Len(rows) + 1
  PROVE  /\ n \in Nat /\ n \notin DOMAIN rows /\ n \in DOMAIN new
         /\ new \in Seq(Row) /\ new[n] = row
         /\ DOMAIN rows \subseteq DOMAIN new
         /\ \A i \in DOMAIN new : i = n \/ (i \in DOMAIN rows /\ new[i] = rows[i])
<1>1. n \in Nat /\ Len(rows) \in Nat /\ DOMAIN rows = 1..Len(rows)
  BY LenProperties
<1>2. new \in Seq(Row) /\ Len(new) = n /\ new[n] = row
  BY AppendProperties
<1>3. \A i \in 1..Len(rows) : new[i] = rows[i]
  BY AppendProperties
<1>4. DOMAIN new = 1..n
  BY <1>2, LenProperties
<1>5. \A i \in 1..n : i = n \/ i \in 1..Len(rows)
  BY <1>1
<1>6. n \notin DOMAIN rows /\ n \in DOMAIN new /\ DOMAIN rows \subseteq DOMAIN new
  BY <1>1, <1>4
<1>7. \A i \in DOMAIN new : i = n \/ (i \in DOMAIN rows /\ new[i] = rows[i])
  BY <1>1, <1>3, <1>4, <1>5
<1>8. QED
  BY <1>1, <1>2, <1>6, <1>7

\* A step of one process, on its own row or none, keeps rows and processes
\* mated if what becomes of the two fits.
LEMMA OneProcess ==
  ASSUME Typed, Typed', Mated, Left, NEW p \in Processes,
         \A q \in Processes : q # p => proc'[q] = proc[q],
         DOMAIN requests \subseteq DOMAIN requests',
         \A i \in DOMAIN requests' :
           i = proc'[p].request \/ (i \in DOMAIN requests /\ requests'[i] = requests[i]),
         \/ proc'[p].request = proc[p].request
         \/ proc'[p].request \notin DOMAIN requests /\ proc[p].at \in {"idle", "deciding"},
         Bound(p)' \/ Unbound(proc'[p])
  PROVE  Mated' /\ Left'
<1>r. requests \in Seq(Row) /\ requests' \in Seq(Row)
  BY DEF Typed, TypeOK, Row
<1>0. 0 \notin DOMAIN requests /\ 0 \notin DOMAIN requests'
  BY <1>r
<1>1. \A q \in Processes : q # p => Bound(q)' \/ Unbound(proc'[q])
  <2> SUFFICES ASSUME NEW q \in Processes, q # p, Bound(q) PROVE Bound(q)'
    BY DEF Mated
  <2>1. proc[q].request # proc'[p].request
    BY <1>0 DEF Mated, Bound, Unbound, Fits, Mine
  <2>2. Mine(q)' = Mine(q) /\ proc[q].request \in DOMAIN requests'
    BY <2>1 DEF Bound, Mine
  <2>3. QED
    BY <2>2 DEF Bound
<1>2. Mated'
  BY <1>1 DEF Mated
<1>3. Left'
  <2> SUFFICES ASSUME NEW i \in DOMAIN requests'
               PROVE  \/ proc'[requests'[i].by].request = i
                      \/ requests'[i].state = "awaiting" /\ ~requests'[i].approved
    BY DEF Left
  <2>1. CASE i = proc'[p].request
    BY <2>1, <1>0 DEF Bound, Unbound, Fits, Mine
  <2>2. CASE i # proc'[p].request
    <3>1. i \in DOMAIN requests /\ requests'[i] = requests[i]
      BY <2>2
    <3>4. requests[i] \in Row
      BY <3>1, <1>r
    <3>5. requests[i].by \in Processes
      BY <3>4 DEF Row
    <3>2. CASE requests[i].by = p /\ proc[p].request = i
      BY SMTT(30), <2>2, <3>1, <3>2, <1>0 DEF Mated, Bound, Unbound, Fits, Mine, Reviewing, Leading
    <3>3. QED
      BY <3>1, <3>2, <3>5 DEF Left
  <2>3. QED
    BY <2>1, <2>2
<1>4. QED
  BY <1>2, <1>3

\* A step that is none of the cache's keeps what is said of it.
LEMMA CacheUntouched ==
  ASSUME Typed, Owned, BytesExplained, UNCHANGED stores,
         \A q \in Processes :
           /\ proc[q].at = "writing" => proc'[q] = proc[q]
           /\ proc'[q].at = "writing" => proc[q].at = "writing"
           /\ proc[q].called => proc'[q].called
           /\ proc'[q].wrote = proc[q].wrote
           /\ proc'[q].at = "opening" =>
                proc'[q] = proc[q] \/ (~proc[q].called /\ proc'[q].called)
  PROVE  Owned' /\ BytesExplained'
<1>1. Owned'
  <2>1. cache' = cache /\ tmp' = tmp /\ blocks' = blocks
    BY DEF stores
  <2>2. \A q \in Processes : proc[q].called /\ proc[q].at # "opening"
                           => proc'[q].called /\ proc'[q].at # "opening"
    OBVIOUS
  <2>3. QED
    BY <2>1, <2>2 DEF Owned
<1>2. BytesExplained'
  BY DEF BytesExplained, FileExplained, WriterExplained, Writing, Shared, stores
<1>3. QED
  BY <1>1, <1>2

\* The invariant holds before any command starts.
LEMMA PlanInvInit == Init => PlanInv
<1> SUFFICES ASSUME Init PROVE PlanInv
  OBVIOUS
<1>1. /\ Idle \in Process /\ Idle.at = "idle" /\ Idle.request = 0 /\ ~Idle.called
      /\ Idle.wrote = NoPlan
  BY DEF Idle, Process, Places, Reviews
<1>2. /\ proc \in [Processes -> Process]
      /\ \A p \in Processes : proc[p] = Idle
  BY <1>1 DEF Init
<1>3. Typed
  BY <1>2, PlanningAssumption DEF Init, Typed, TypeOK, Process, Places, Heads
<1>4. Mated /\ Left
  BY <1>1, <1>2 DEF Init, Mated, Unbound, Left
<1>5. Owned
  BY PlanningAssumption DEF Init, Owned
<1>6. BytesExplained
  BY <1>1, <1>2, PlanningAssumption DEF Init, BytesExplained, FileExplained, WriterExplained, Writing
<1>7. QED
  BY <1>3, <1>4, <1>5, <1>6 DEF PlanInv

\* Typing, one variable at a time.
LEMMA TypedStep ==
  ASSUME Typed, proc' \in [Processes -> Process], requests' \in Seq(Row), head' \in Heads,
         files' \in [Files -> Plans \cup {NoPlan}], edits' \in 0..MaxEdits,
         compiled' \in [Keys -> Manifests \cup {NoPlan}], UNCHANGED stores
  PROVE  Typed'
BY DEF Typed, TypeOK, Row, Process, Places, stores

\* What the types of the variables are, said once.
LEMMA Types ==
  ASSUME Typed
  PROVE  /\ proc \in [Processes -> Process] /\ requests \in Seq(Row) /\ head \in Heads
         /\ files \in [Files -> Plans \cup {NoPlan}] /\ edits \in 0..MaxEdits
         /\ compiled \in [Keys -> Manifests \cup {NoPlan}]
         /\ blocks \in [Processes \X Keys -> Bytes]
         /\ cache \in [Keys -> Processes \cup {"absent"}]
         /\ tmp \in [Keys -> Processes \cup {"absent"}]
         /\ head \in Nat /\ 0 \notin DOMAIN requests
BY DEF Typed, TypeOK, Row, Heads, Bytes

\* Where the process of a request is, and where one without a request is.
LEMMA BoundAt ==
  ASSUME Mated, NEW p \in Processes,
         proc[p].at \in Planning \cup {"editing", "approving", "rescanning"} \/ proc[p].kind # "existing",
         proc[p].at \notin {"idle", "refused", "raised"}
  PROVE  Bound(p)
BY DEF Mated, Unbound, Planning

\* A request is opened.
LEMMA ReceiveKeeps ==
  ASSUME PlanInv, NEW p \in Processes, NEW kind \in {"run", "clip", "plan"},
         NEW review \in Reviews, NEW mode \in Modes, proc[p].at \in {"idle", "deciding"},
         Receive(p, kind, review, mode)
  PROVE  PlanInv'
<1> DEFINE plan == [base |-> 0, asked |-> 0, seen |-> 0, mode |-> mode, content |-> "single",
                    analysis |-> "none"]
           new == [at |-> "received", kind |-> kind, review |-> review, recorded |-> NoPlan,
                   request |-> Len(requests) + 1, called |-> proc[p].called,
                   wrote |-> proc[p].wrote, plan |-> plan]
           row == [by |-> p, state |-> "repo_scanning", plan |-> NoPlan, approved |-> FALSE]
<1>0. Typed /\ Mated /\ Left /\ Owned /\ BytesExplained
  BY DEF PlanInv
<1>1. /\ requests' = Append(requests, row) /\ proc' = [proc EXCEPT ![p] = new]
      /\ UNCHANGED <<head, stores, outputs>>
  BY DEF Receive
<1>2. plan \in Plans /\ plan.asked = plan.base
  BY PlanningAssumption DEF Plans, Contents, Heads
<1>3. proc[p] \in Process /\ Len(requests) + 1 \in Nat
  BY <1>0, Types
<1>4. new \in Process
  BY <1>2, <1>3 DEF Process, Places, Planning
<1>5. row \in Row
  BY DEF Row
<1>6. PICK n \in Nat :
        /\ n = Len(requests) + 1 /\ n \notin DOMAIN requests /\ n \in DOMAIN requests'
        /\ requests' \in Seq(Row) /\ requests'[n] = row
        /\ DOMAIN requests \subseteq DOMAIN requests'
        /\ \A i \in DOMAIN requests' : i = n \/ (i \in DOMAIN requests /\ requests'[i] = requests[i])
  <2>1. requests \in Seq(Row)
    BY <1>0, Types
  <2>2. QED
    BY <2>1, <1>1, <1>5, RowIsAdded
<1>7. /\ proc' \in [Processes -> Process] /\ proc'[p] = new
      /\ \A q \in Processes : q # p => proc'[q] = proc[q]
  BY <1>0, <1>1, <1>4, Types
<1>8. Typed'
  BY <1>0, <1>1, <1>6, <1>7, Types, TypedStep DEF outputs
<1>9. Fits(p, new, row)
  BY <1>2 DEF Fits, Planning, Reviewing, Leading
<1>10. Bound(p)'
  BY <1>6, <1>7, <1>9 DEF Bound, Mine
<1>11. Mated' /\ Left'
  <2>1. proc'[p].request = n /\ proc'[p].at = "received"
    BY <1>6, <1>7
  <2>2. QED
    BY <2>1, <1>0, <1>6, <1>7, <1>8, <1>10, OneProcess
<1>12. Owned' /\ BytesExplained'
  <2>1. /\ new.at = "received" /\ new.called = proc[p].called /\ new.wrote = proc[p].wrote
        /\ UNCHANGED stores
    BY <1>1
  <2>2. QED
    BY <2>1, <1>0, <1>7, CacheUntouched
<1>13. QED
  BY <1>8, <1>11, <1>12 DEF PlanInv

\* A step of a process on its request, and one of a process without.
LEMMA BoundStep ==
  ASSUME PlanInv, NEW p \in Processes, Bound(p), NEW new, Only(p, new), NEW row \in Row,
         requests' = [requests EXCEPT ![proc[p].request] = row],
         new.request = proc[p].request, Fits(p, new, row),
         proc[p].at # "writing", new.at # "writing", proc[p].called => new.called,
         new.wrote = proc[p].wrote,
         new.at = "opening" => ~proc[p].called /\ new.called,
         head' = head, files' \in [Files -> Plans \cup {NoPlan}], edits' = edits,
         compiled' \in [Keys -> Manifests \cup {NoPlan}], UNCHANGED stores
  PROVE  PlanInv'
<1> DEFINE i == proc[p].request
<1>0. Typed /\ Mated /\ Left /\ Owned /\ BytesExplained
  BY DEF PlanInv
<1>1. requests \in Seq(Row) /\ i \in DOMAIN requests
  BY <1>0, Types DEF Bound
<1>2. /\ requests' \in Seq(Row) /\ DOMAIN requests' = DOMAIN requests /\ requests'[i] = row
      /\ \A j \in DOMAIN requests : j # i => requests'[j] = requests[j]
  BY <1>1, RowIsSet
<1>3. /\ proc' \in [Processes -> Process] /\ proc'[p] = new
      /\ \A q \in Processes : q # p => proc'[q] = proc[q]
  BY <1>0, Types DEF Only
<1>4. Typed'
  BY <1>0, <1>2, <1>3, Types, TypedStep
<1>5. Bound(p)'
  BY <1>1, <1>2, <1>3 DEF Bound, Mine
<1>6. Mated' /\ Left'
  BY <1>0, <1>1, <1>2, <1>3, <1>4, <1>5, OneProcess
<1>7. Owned' /\ BytesExplained'
  <2>1. /\ proc[p].called => proc'[p].called /\ proc'[p].wrote = proc[p].wrote
        /\ proc'[p].at = "opening" => ~proc[p].called /\ proc'[p].called
        /\ proc[p].at # "writing" /\ proc'[p].at # "writing"
    BY <1>3
  <2>2. QED
    BY <2>1, <1>0, <1>3, CacheUntouched
<1>8. QED
  BY <1>4, <1>6, <1>7 DEF PlanInv

\* The same of a process that executes a saved plan.
LEMMA UnboundStep ==
  ASSUME PlanInv, NEW p \in Processes, Unbound(proc[p]), NEW new, Only(p, new),
         Unbound(new), UNCHANGED <<head, requests, stores, files, edits>>,
         proc[p].called => new.called, new.wrote = proc[p].wrote,
         compiled' \in [Keys -> Manifests \cup {NoPlan}]
  PROVE  PlanInv'
<1>0. Typed /\ Mated /\ Left /\ Owned /\ BytesExplained
  BY DEF PlanInv
<1>1. /\ proc' \in [Processes -> Process] /\ proc'[p] = new
      /\ \A q \in Processes : q # p => proc'[q] = proc[q]
  BY <1>0, Types DEF Only
<1>2. Typed'
  BY <1>0, <1>1, Types, TypedStep
<1>3. Unbound(proc'[p]) /\ proc'[p].request = proc[p].request
  BY <1>1 DEF Unbound
<1>4. Mated' /\ Left'
  BY <1>0, <1>1, <1>2, <1>3, OneProcess
<1>5. Owned' /\ BytesExplained'
  <2>1. /\ proc[p].called => proc'[p].called /\ proc'[p].wrote = proc[p].wrote
        /\ proc'[p].at # "opening" /\ proc[p].at # "writing" /\ proc'[p].at # "writing"
    BY <1>1 DEF Unbound
  <2>2. UNCHANGED stores
    OBVIOUS
  <2>3. QED
    BY <2>1, <2>2, <1>0, <1>1, CacheUntouched
<1>6. QED
  BY <1>2, <1>4, <1>5 DEF PlanInv

\* Writing a row back changes nothing.
LEMMA RowIsKept ==
  ASSUME NEW rows \in Seq(Row), NEW i \in DOMAIN rows
  PROVE  rows = [rows EXCEPT ![i] = rows[i]]
OBVIOUS

\* What a bound process has.
LEMMA BoundHas ==
  ASSUME PlanInv, NEW p \in Processes, Bound(p)
  PROVE  /\ proc[p] \in Process /\ requests \in Seq(Row) /\ proc[p].request \in DOMAIN requests
         /\ Mine(p) \in Row /\ Fits(p, proc[p], Mine(p))
         /\ requests = [requests EXCEPT ![proc[p].request] = Mine(p)]
<1>1. Typed
  BY DEF PlanInv
<1>2. proc[p] \in Process /\ requests \in Seq(Row) /\ proc[p].request \in DOMAIN requests
  BY <1>1, Types DEF Bound
<1>3. Mine(p) \in Row
  BY <1>2 DEF Mine
<1>4. requests = [requests EXCEPT ![proc[p].request] = Mine(p)]
  BY <1>2, RowIsKept DEF Mine
<1>5. QED
  BY <1>2, <1>3, <1>4 DEF Bound

\* The row of a bound process when its state is set.
LEMMA SetStateIs ==
  ASSUME PlanInv, NEW p \in Processes, Bound(p), NEW state, SetRow(p, "state", state),
         state \in {"planning", "awaiting", "approved"}
  PROVE  \E row \in Row :
           /\ requests' = [requests EXCEPT ![proc[p].request] = row]
           /\ row.by = Mine(p).by /\ row.approved = Mine(p).approved
           /\ row.plan = Mine(p).plan /\ row.state = state
<1> DEFINE row == [Mine(p) EXCEPT !["state"] = state]
<1>1. Mine(p) \in Row
  BY BoundHas
<1>2. row \in Row
  BY <1>1 DEF Row
<1>3. requests' = [requests EXCEPT ![proc[p].request] = row]
  BY DEF SetRow, Mine
<1>4. QED
  BY <1>1, <1>2, <1>3 DEF Row

\* The row of a bound process when its plan is set.
LEMMA SetPlanIs ==
  ASSUME PlanInv, NEW p \in Processes, Bound(p), NEW plan \in Plans, SetRow(p, "plan", plan)
  PROVE  \E row \in Row :
           /\ requests' = [requests EXCEPT ![proc[p].request] = row]
           /\ row.by = Mine(p).by /\ row.approved = Mine(p).approved
           /\ row.plan = plan /\ row.state = Mine(p).state
<1> DEFINE row == [Mine(p) EXCEPT !["plan"] = plan]
<1>1. Mine(p) \in Row
  BY BoundHas
<1>2. row \in Row
  BY <1>1 DEF Row
<1>3. requests' = [requests EXCEPT ![proc[p].request] = row]
  BY DEF SetRow, Mine
<1>4. QED
  BY <1>1, <1>2, <1>3 DEF Row

\* A step that takes a content for its plan.
LEMMA ProposedIsOnly ==
  ASSUME proc \in [Processes -> Process], NEW p \in Processes, NEW content \in Contents,
         NEW place \in Places, proc[p].plan \in Plans, Proposed(p, content, place)
  PROVE  \E new \in Process :
           /\ Only(p, new) /\ new.at = place /\ new.kind = proc[p].kind
           /\ new.request = proc[p].request /\ new.called = proc[p].called /\ new.wrote = proc[p].wrote
           /\ new.plan \in Plans /\ new.plan.asked = proc[p].plan.asked
           /\ new.plan.base = proc[p].plan.base
<1> DEFINE plan == [proc[p].plan EXCEPT !.content = content]
           new == [[proc[p] EXCEPT !.at = place] EXCEPT !.plan = plan]
<1>1. /\ plan \in Plans /\ plan.asked = proc[p].plan.asked /\ plan.base = proc[p].plan.base
  BY DEF Plans
<1>2. new \in Process
  BY <1>1 DEF Process
<1>3. proc' = [q \in Processes |-> IF q = p THEN new ELSE proc[q]]
  BY DEF Proposed
<1>4. /\ new.at = place /\ new.kind = proc[p].kind /\ new.plan = plan
      /\ new.request = proc[p].request /\ new.called = proc[p].called /\ new.wrote = proc[p].wrote
  BY DEF Process
<1>5. QED
  BY <1>1, <1>2, <1>3, <1>4 DEF Only

\* A plan has a key of the cache.
LEMMA KeyIsKey ==
  ASSUME NEW p \in Processes, proc[p].plan \in Plans
  PROVE  Key(p) \in Keys
BY DEF Key, CacheKey, Keys, Plans

\* A step that only moves a bound process, or also ends it.
LEMMA BoundMoves ==
  ASSUME PlanInv, NEW p \in Processes, Bound(p), NEW new, Only(p, new),
         new.request = proc[p].request, new.kind = proc[p].kind,
         Fits(p, new, Mine(p)), new.wrote = proc[p].wrote,
         proc[p].at # "writing", new.at # "writing", proc[p].called => new.called,
         new.at = "opening" => ~proc[p].called /\ new.called,
         UNCHANGED <<head, requests, stores, edits>>,
         files' \in [Files -> Plans \cup {NoPlan}], compiled' \in [Keys -> Manifests \cup {NoPlan}]
  PROVE  PlanInv'
BY BoundHas, BoundStep

\* What a process does by itself, other than with the cache's files, keeps the
\* invariant.
LEMMA WorkKeeps ==
  ASSUME PlanInv, NEW p \in Processes, Work(p), ~OpenTmp(p), ~WriteTmp(p), ~ReplaceTmp(p)
  PROVE  PlanInv'
<1>0. /\ Typed /\ Mated /\ proc[p] \in Process /\ proc \in [Processes -> Process]
      /\ head \in Heads /\ files \in [Files -> Plans \cup {NoPlan}]
      /\ compiled \in [Keys -> Manifests \cup {NoPlan}]
  BY Types DEF PlanInv
<1>s. UNCHANGED stores
  BY DEF Work, Scan, ReadFiles, ScanRaises, LoadCache, Propose, Compile, ApproveRequest, Revalidate,
         WriteManifest, Execute
<1> USE <1>0, <1>s DEF Planning, Reviewing, Leading, Ended, Places, outputs
<1>1. CASE Scan(p)
  <2> DEFINE plan == [[proc[p].plan EXCEPT !.base = head] EXCEPT !.asked = head]
             new == [[proc[p] EXCEPT !.at = "reading"] EXCEPT !.plan = plan]
  <2>1. Bound(p) /\ Fits(p, proc[p], Mine(p)) /\ proc[p].at = "received"
    BY <1>1, BoundAt, BoundHas DEF Scan
  <2>2. plan \in Plans /\ plan.asked = plan.base
    BY <2>1 DEF Fits, Plans
  <2>3. /\ Only(p, new) /\ new.at = "reading" /\ new.plan = plan /\ new.kind = proc[p].kind
        /\ new.request = proc[p].request /\ new.called = proc[p].called /\ new.wrote = proc[p].wrote
    BY <1>1, <2>2 DEF Only, Scan, Process
  <2>4. Fits(p, new, Mine(p))
    BY <2>1, <2>2, <2>3 DEF Fits
  <2>5. UNCHANGED <<head, requests, files, edits, compiled>>
    BY <1>1 DEF Scan
  <2> HIDE DEF new, plan
  <2>6. QED
    BY <2>1, <2>3, <2>4, <2>5, BoundMoves
<1>11. CASE ReadFiles(p)
  <2> DEFINE plan == [proc[p].plan EXCEPT !.seen = head]
             new == [[proc[p] EXCEPT !.at = "mapped"] EXCEPT !.plan = plan]
  <2>1. Bound(p) /\ Fits(p, proc[p], Mine(p)) /\ proc[p].at = "reading"
    BY <1>11, BoundAt, BoundHas DEF ReadFiles
  <2>2. PICK row \in Row :
          /\ requests' = [requests EXCEPT ![proc[p].request] = row]
          /\ row.by = Mine(p).by /\ row.approved = Mine(p).approved
          /\ row.plan = Mine(p).plan /\ row.state = "planning"
    BY <1>11, <2>1, SetStateIs DEF ReadFiles, Transition
  <2>3. plan \in Plans /\ plan.asked = plan.base
    BY <2>1 DEF Fits, Plans
  <2>4. /\ Only(p, new) /\ new.at = "mapped" /\ new.plan = plan /\ new.kind = proc[p].kind
        /\ new.request = proc[p].request /\ new.called = proc[p].called /\ new.wrote = proc[p].wrote
    BY <1>11, <2>3 DEF Only, ReadFiles, Process
  <2>5. Fits(p, new, row)
    BY <2>1, <2>2, <2>3, <2>4 DEF Fits
  <2>6. UNCHANGED <<head, files, edits, compiled>>
    BY <1>11 DEF ReadFiles
  <2> HIDE DEF new, plan
  <2>7. QED
    BY <2>1, <2>2, <2>4, <2>5, <2>6, BoundStep
<1>2. CASE ScanRaises(p)
  <2>1. Bound(p) /\ Fits(p, proc[p], Mine(p)) /\ proc[p].at \in {"received", "reading"}
    BY <1>2, BoundAt, BoundHas DEF ScanRaises
  <2>2. PICK new \in Process :
           /\ Only(p, new) /\ new.at = "raised" /\ new.kind = proc[p].kind
           /\ new.request = proc[p].request /\ new.called = proc[p].called /\ new.wrote = proc[p].wrote
    BY <1>2, EndIsOnly DEF ScanRaises
  <2>3. Fits(p, new, Mine(p))
    BY <2>1, <2>2 DEF Fits
  <2>4. UNCHANGED <<head, requests, files, edits, compiled>>
    BY <1>2 DEF ScanRaises
  <2>5. QED
    BY <2>1, <2>2, <2>3, <2>4, BoundMoves
<1>3. CASE LoadCache(p)
  <2>1. /\ Bound(p) /\ Fits(p, proc[p], Mine(p)) /\ proc[p].at = "mapped"
        /\ UNCHANGED <<head, requests, files, edits, compiled>>
    BY <1>3, BoundAt, BoundHas DEF LoadCache
  <2>2. proc[p].plan \in Plans
    BY <2>1 DEF Fits
  <2>3. CASE Goto(p, "proposing")
    <3>1. PICK new \in Process :
                     /\ Only(p, new) /\ new.at = "proposing" /\ new.kind = proc[p].kind
                     /\ new.request = proc[p].request /\ new.called = proc[p].called /\ new.wrote = proc[p].wrote
                     /\ new.plan = proc[p].plan
      BY <2>3, GotoIsOnly
    <3>2. Fits(p, new, Mine(p))
      BY <2>1, <3>1 DEF Fits
    <3>3. QED
      BY <2>1, <3>1, <3>2, BoundMoves
  <2>4. CASE \E content \in Contents : Proposed(p, content, "compiling")
    <3>1. PICK new \in Process :
            /\ Only(p, new) /\ new.at = "compiling" /\ new.kind = proc[p].kind
            /\ new.request = proc[p].request /\ new.called = proc[p].called /\ new.wrote = proc[p].wrote
            /\ new.plan \in Plans /\ new.plan.asked = proc[p].plan.asked
            /\ new.plan.base = proc[p].plan.base
      BY <2>2, <2>4, ProposedIsOnly
    <3>2. Fits(p, new, Mine(p))
      BY <2>1, <3>1 DEF Fits
    <3>3. QED
      BY <2>1, <3>1, <3>2, BoundMoves
  <2>5. Complete(Key(p)) => Cached(Key(p)) \in Contents
    <3>1. Key(p) \in Keys
      BY <2>2, KeyIsKey
    <3>2. /\ cache[Key(p)] \in Processes \cup {"absent"}
          /\ \A b \in Processes : blocks[<<b, Key(p)>>] \in Bytes
      BY <3>1, Types
    <3>3. QED
      BY <3>2 DEF Complete, Cached, Bytes
  <2>6. "single" \in Contents
    BY DEF Contents
  <2>7. QED
    BY <1>3, <2>3, <2>4, <2>5, <2>6 DEF LoadCache
<1>4. CASE Propose(p)
  <2>1. /\ Bound(p) /\ Fits(p, proc[p], Mine(p)) /\ proc[p].at = "proposing"
        /\ UNCHANGED <<head, requests, files, edits, compiled>>
    BY <1>4, BoundAt, BoundHas DEF Propose
  <2>2. PICK content \in Contents, place \in {"opening", "compiling"} :
          /\ proc' = [proc EXCEPT ![p].at = place, ![p].called = TRUE,
                                  ![p].plan = [@ EXCEPT !.content = content]]
          /\ place = "opening" => ~proc[p].called
    <3>1. PICK answer \in (Answers(p) \X {"opening"}) \cup {<<"single", "compiling">>} :
            proc' = [proc EXCEPT ![p].at = answer[2], ![p].called = TRUE,
                                    ![p].plan = [@ EXCEPT !.content = answer[1]]]
      BY <1>4 DEF Propose
    <3>2. /\ answer[1] \in Contents /\ answer[2] \in {"opening", "compiling"}
          /\ answer[2] = "opening" => ~proc[p].called
      <4>1. Answers(p) \subseteq Contents /\ (Answers(p) # {} => ~proc[p].called)
        BY PlanningAssumption DEF Answers, Contents
      <4>2. CASE answer \in Answers(p) \X {"opening"}
        BY <4>1, <4>2
      <4>3. CASE answer = <<"single", "compiling">>
        BY <4>3 DEF Contents
      <4>4. QED
        BY <4>2, <4>3
    <3>3. QED
      BY <3>1, <3>2
  <2> DEFINE plan == [proc[p].plan EXCEPT !.content = content]
             new == [[[proc[p] EXCEPT !.at = place] EXCEPT !.called = TRUE] EXCEPT !.plan = plan]
  <2>3. /\ proc[p].plan \in Plans
        /\ plan \in Plans /\ plan.asked = proc[p].plan.asked /\ plan.base = proc[p].plan.base
    BY <2>1 DEF Fits, Plans
  <2>4. /\ Only(p, new) /\ new.at = place /\ new.plan = plan /\ new.kind = proc[p].kind
        /\ new.request = proc[p].request /\ new.called = TRUE /\ new.wrote = proc[p].wrote
    BY <2>2, <2>3 DEF Only, Process
  <2>5. Fits(p, new, Mine(p))
    <3>1. place \in {"opening", "compiling"}
      OBVIOUS
    <3> HIDE DEF new, plan
    <3>2. QED
      BY <3>1, <2>1, <2>3, <2>4 DEF Fits
  <2> HIDE DEF new, plan
  <2>6. QED
    BY <2>1, <2>2, <2>4, <2>5, BoundMoves
<1>5. CASE Compile(p)
  <2> DEFINE plan == [proc[p].plan EXCEPT !.analysis = proc[p].plan.content]
  <2>1. /\ Bound(p) /\ Fits(p, proc[p], Mine(p)) /\ proc[p].at = "compiling" /\ Mine(p) \in Row
        /\ UNCHANGED <<head, edits, compiled>>
    BY <1>5, BoundAt, BoundHas DEF Compile
  <2>2. /\ plan \in Plans /\ plan.asked = plan.base /\ plan.analysis = plan.content
    BY <2>1 DEF Fits, Plans
  <2>3. CASE plan.content = "knot"
    <3> DEFINE row == [[Mine(p) EXCEPT !.state = "plan_validation"] EXCEPT !.plan = NoPlan]
    <3>1. PICK new \in Process :
            /\ Only(p, new) /\ new.at = "raised" /\ new.kind = proc[p].kind
            /\ new.request = proc[p].request /\ new.called = proc[p].called /\ new.wrote = proc[p].wrote
      BY <1>5, <2>3, EndIsOnly DEF Compile
    <3>2. requests' = [requests EXCEPT ![proc[p].request] = row] /\ files' = files
      BY <1>5, <2>3 DEF Compile, StoreCandidate, Mine
    <3>3. /\ row \in Row /\ row.by = Mine(p).by /\ row.approved = Mine(p).approved
          /\ row.state = "plan_validation"
      BY <2>1 DEF Row
    <3>4. Fits(p, new, row)
      BY <2>1, <3>1, <3>3 DEF Fits
    <3> HIDE DEF row
    <3>5. QED
      BY <2>1, <3>1, <3>2, <3>3, <3>4, BoundStep
  <2>4. CASE plan.content # "knot"
    <3> DEFINE place == IF proc[p].kind = "plan" THEN "planned" ELSE "deciding"
               row == [[Mine(p) EXCEPT !.state = "awaiting"] EXCEPT !.plan = plan]
               new == [[proc[p] EXCEPT !.plan = plan] EXCEPT !.at = place]
    <3>1. /\ requests' = [requests EXCEPT ![proc[p].request] = row]
          /\ proc' = [proc EXCEPT ![p].plan = plan, ![p].at = place]
          /\ files' = files \/ files' = [files EXCEPT ![Output] = plan]
      BY <1>5, <2>4 DEF Compile, StoreCandidate, Mine
    <3>2. /\ Only(p, new) /\ new.at = place /\ new.plan = plan /\ new.kind = proc[p].kind
          /\ new.request = proc[p].request /\ new.called = proc[p].called /\ new.wrote = proc[p].wrote
      <4>1. place \in Places
        OBVIOUS
      <4> HIDE DEF place, plan
      <4>2. new \in Process
        <5> DEFINE with == [proc[p] EXCEPT !.plan = plan]
        <5>1. with \in Process
          BY <2>2 DEF Process
        <5>2. new = [with EXCEPT !.at = place]
          OBVIOUS
        <5> HIDE DEF with, new
        <5>3. QED
          BY <5>1, <5>2, <4>1 DEF Process
      <4>3. proc' = [q \in Processes |-> IF q = p THEN new ELSE proc[q]]
        BY <3>1
      <4>4. QED
        BY <4>2, <4>3 DEF Only, Process
    <3>3. /\ row \in Row /\ row.by = Mine(p).by /\ row.approved = Mine(p).approved
          /\ row.state = "awaiting" /\ row.plan = plan
      BY <2>1, <2>2 DEF Row
    <3>4. place \in {"planned", "deciding"}
      OBVIOUS
    <3> HIDE DEF row, new, plan, place
    <3>5. Fits(p, new, row)
      BY <2>1, <2>2, <3>2, <3>3, <3>4 DEF Fits
    <3>6. files' \in [Files -> Plans \cup {NoPlan}]
      BY <2>2, <3>1
    <3>7. QED
      BY <2>1, <3>1, <3>2, <3>3, <3>4, <3>5, <3>6, BoundStep
  <2>5. QED
    BY <2>3, <2>4
<1>6. CASE ApproveRequest(p)
  <2>1. /\ Bound(p) /\ Fits(p, proc[p], Mine(p)) /\ proc[p].at = "approving"
        /\ UNCHANGED <<head, files, edits, compiled>>
    BY <1>6, BoundAt, BoundHas DEF ApproveRequest
  <2>2. PICK row \in Row :
          /\ requests' = [requests EXCEPT ![proc[p].request] = row]
          /\ row.by = Mine(p).by /\ row.approved = Mine(p).approved
          /\ row.plan = Mine(p).plan /\ row.state = "approved"
    BY <1>6, <2>1, SetStateIs DEF ApproveRequest, Transition
  <2>3. PICK new \in Process :
          /\ Only(p, new) /\ new.at = "manifest" /\ new.kind = proc[p].kind
          /\ new.request = proc[p].request /\ new.called = proc[p].called /\ new.wrote = proc[p].wrote
          /\ new.plan = proc[p].plan
    BY <1>6, GotoIsOnly DEF ApproveRequest
  <2>4. Fits(p, new, row)
    BY <2>1, <2>2, <2>3 DEF Fits
  <2>5. QED
    BY <2>1, <2>2, <2>3, <2>4, BoundStep
<1>7. CASE Revalidate(p)
  <2> DEFINE plan == [proc[p].plan EXCEPT !.seen = head]
             place == IF Valid(proc[p].plan) THEN "deciding" ELSE "refused"
             new == [[proc[p] EXCEPT !.plan = plan] EXCEPT !.at = place]
  <2>1. Unbound(proc[p]) /\ proc[p].at = "checked" /\ proc[p].kind = "existing"
    BY <1>7 DEF Revalidate, Mated, Bound, Fits, Unbound
  <2>2. proc[p].plan \in Plans /\ plan \in Plans /\ plan.asked = plan.base
    BY <2>1 DEF Unbound, Plans
  <2>3. place \in {"deciding", "refused"}
    OBVIOUS
  <2>4. /\ Only(p, new) /\ new.at = place /\ new.plan = plan /\ new.kind = "existing"
        /\ new.request = proc[p].request /\ new.called = proc[p].called /\ new.wrote = proc[p].wrote
    BY <1>7, <2>1, <2>2 DEF Revalidate, Only, Process
  <2>5. Unbound(new)
    BY <2>1, <2>2, <2>3, <2>4 DEF Unbound
  <2>6. UNCHANGED <<head, requests, files, edits, compiled>>
    BY <1>7 DEF Revalidate
  <2> HIDE DEF plan, place, new
  <2>7. QED
    BY <2>1, <2>3, <2>4, <2>5, <2>6, UnboundStep
<1>8. CASE WriteManifest(p)
  <2>1. /\ proc[p].at = "manifest" /\ UNCHANGED <<head, requests, files, edits>>
    BY <1>8 DEF WriteManifest
  <2>2. proc[p].plan \in Plans
    BY <2>1 DEF Mated, Bound, Fits, Unbound
  <2>3. CASE proc[p].plan.analysis \notin {"none", proc[p].plan.content}
    <3>1. Unbound(proc[p])
      BY <2>1, <2>3 DEF Mated, Bound, Fits
    <3>2. PICK new \in Process :
            /\ Only(p, new) /\ new.at = "raised" /\ new.kind = proc[p].kind
            /\ new.request = proc[p].request /\ new.called = proc[p].called /\ new.wrote = proc[p].wrote
      BY <1>8, <2>3, EndIsOnly DEF WriteManifest
    <3>3. Unbound(new) /\ compiled' = compiled
      BY <1>8, <2>3, <3>1, <3>2 DEF Unbound, WriteManifest
    <3>4. QED
      BY <2>1, <3>1, <3>2, <3>3, UnboundStep
  <2>4. CASE proc[p].plan.analysis \in {"none", proc[p].plan.content}
    <3>1. compiled' = [compiled EXCEPT ![Key(p)] = ManifestOf(p)] /\ Goto(p, "ready")
      BY <1>8, <2>4 DEF WriteManifest
    <3>2. PICK new \in Process :
            /\ Only(p, new) /\ new.at = "ready" /\ new.kind = proc[p].kind
            /\ new.request = proc[p].request /\ new.called = proc[p].called /\ new.wrote = proc[p].wrote
            /\ new.plan = proc[p].plan
      BY <3>1, GotoIsOnly
    <3>3. compiled' \in [Keys -> Manifests \cup {NoPlan}]
      BY <2>2, <3>1 DEF ManifestOf, Manifests
    <3>4. CASE Bound(p)
      <4>1. Fits(p, proc[p], Mine(p))
        BY <3>4, BoundHas
      <4>2. Fits(p, new, Mine(p))
        BY <2>1, <3>2, <4>1 DEF Fits
      <4>3. QED
        BY <2>1, <3>2, <3>3, <3>4, <4>2, BoundMoves
    <3>5. CASE Unbound(proc[p])
      <4>1. Unbound(new)
        BY <2>1, <3>2, <3>5 DEF Unbound
      <4>2. QED
        BY <2>1, <3>2, <3>3, <3>5, <4>1, UnboundStep
    <3>6. QED
      BY <3>4, <3>5 DEF Mated
  <2>5. QED
    BY <2>3, <2>4
<1>9. CASE Execute(p)
  <2> DEFINE path == ManifestPath(p)
             new == [[proc[p] EXCEPT !.at = "ran"] EXCEPT !.recorded = path]
  <2>1. proc[p].at = "ready" /\ UNCHANGED <<head, requests, files, edits, compiled>>
    BY <1>9 DEF Execute
  <2>2. proc[p].plan \in Plans
    BY <2>1 DEF Mated, Bound, Fits, Unbound
  <2>3. path \in Manifests \cup {NoPlan}
    BY <2>2, KeyIsKey DEF ManifestPath, ManifestOf, Manifests
  <2>4. /\ Only(p, new) /\ new.at = "ran" /\ new.kind = proc[p].kind /\ new.plan = proc[p].plan
        /\ new.request = proc[p].request /\ new.called = proc[p].called /\ new.wrote = proc[p].wrote
    BY <1>9, <2>3 DEF Execute, Only, Process
  <2> HIDE DEF new, path
  <2>6. CASE Bound(p)
    <3>1. Fits(p, proc[p], Mine(p)) /\ Mine(p) \in Row
          /\ requests = [requests EXCEPT ![proc[p].request] = Mine(p)]
      BY <2>6, BoundHas
    <3>2. Fits(p, new, Mine(p))
      BY <2>1, <2>4, <3>1 DEF Fits
    <3>3. QED
      BY <2>1, <2>4, <2>6, <3>1, <3>2, BoundStep
  <2>7. CASE Unbound(proc[p])
    <3>1. Unbound(new)
      BY <2>1, <2>4, <2>7 DEF Unbound
    <3>2. QED
      BY <2>1, <2>4, <2>7, <3>1, UnboundStep
  <2>8. QED
    BY <2>6, <2>7 DEF Mated
<1>10. QED
  BY <1>1, <1>2, <1>3, <1>4, <1>5, <1>6, <1>7, <1>8, <1>9, <1>11 DEF Work

\* A step of a bound process that leaves the rows alone, whatever it does to
\* the cache.
LEMMA RowsUntouched ==
  ASSUME PlanInv, Typed', NEW p \in Processes, Bound(p), NEW new, Only(p, new),
         new.request = proc[p].request, Fits(p, new, Mine(p)), UNCHANGED requests
  PROVE  Mated' /\ Left'
<1>1. Typed /\ Mated /\ Left
  BY DEF PlanInv
<1>2. proc'[p] = new /\ \A q \in Processes : q # p => proc'[q] = proc[q]
  BY DEF Only
<1>3. Bound(p)'
  BY <1>2 DEF Bound, Mine
<1>4. QED
  BY <1>1, <1>2, <1>3, OneProcess

\* Typing of a step on the cache.
LEMMA CacheTyped ==
  ASSUME Typed, proc' \in [Processes -> Process], UNCHANGED <<head, requests, outputs>>,
         blocks' \in [Processes \X Keys -> Bytes],
         cache' \in [Keys -> Processes \cup {"absent"}],
         tmp' \in [Keys -> Processes \cup {"absent"}]
  PROVE  Typed'
BY DEF Typed, TypeOK, Process, Places, outputs, Bytes

\* The three steps of a save keep the invariant.
LEMMA SaveKeeps ==
  ASSUME PlanInv, NEW p \in Processes, OpenTmp(p) \/ WriteTmp(p) \/ ReplaceTmp(p)
  PROVE  PlanInv'
<1>0. /\ Typed /\ Mated /\ Owned /\ BytesExplained /\ NoPlan \notin Processes \X Keys
      /\ proc[p] \in Process /\ proc \in [Processes -> Process]
      /\ blocks \in [Processes \X Keys -> Bytes]
      /\ cache \in [Keys -> Processes \cup {"absent"}]
      /\ tmp \in [Keys -> Processes \cup {"absent"}]
  BY Types, NoPlanAssumption DEF PlanInv
<1> USE <1>0
<1>1. /\ Bound(p) /\ Fits(p, proc[p], Mine(p)) /\ proc[p].at \in {"opening", "writing", "replacing"}
      /\ UNCHANGED <<head, requests, outputs>>
  BY BoundAt, BoundHas DEF OpenTmp, WriteTmp, ReplaceTmp, Planning
<1>2. PICK k \in Keys : k = Key(p) /\ proc[p].plan \in Plans
  BY <1>1, KeyIsKey DEF Fits
<1>3. CASE OpenTmp(p)
  <2> DEFINE owner == IF tmp[k] = "absent" THEN p ELSE tmp[k]
             new == [[proc[p] EXCEPT !.at = "writing"] EXCEPT !.wrote = <<owner, k>>]
  <2>1. /\ proc[p].at = "opening" /\ cache' = cache
        /\ tmp' = [tmp EXCEPT ![k] = owner]
        /\ blocks' = [blocks EXCEPT ![<<owner, k>>] = "torn"]
        /\ proc' = [proc EXCEPT ![p].at = "writing", ![p].wrote = <<owner, k>>]
    BY <1>2, <1>3 DEF OpenTmp
  <2>2. owner \in Processes /\ (tmp[k] = "absent" => owner = p) /\ (tmp[k] # "absent" => owner = tmp[k])
    BY <1>2
  <2>3. /\ Only(p, new) /\ new.at = "writing" /\ new.kind = proc[p].kind
        /\ new.request = proc[p].request /\ new.called = proc[p].called
        /\ new.plan = proc[p].plan /\ new.wrote = <<owner, k>>
    <3>1. "writing" \in Places /\ <<owner, k>> \in Processes \X Keys
      BY <2>2, <1>2 DEF Places, Planning
    <3>2. /\ new \in Process /\ new.at = "writing" /\ new.kind = proc[p].kind
          /\ new.request = proc[p].request /\ new.called = proc[p].called
          /\ new.plan = proc[p].plan /\ new.wrote = <<owner, k>>
      <4> HIDE DEF owner
      <4> QED
        BY <3>1 DEF Process
    <3>3. proc' = [q \in Processes |-> IF q = p THEN new ELSE proc[q]]
      <4> HIDE DEF owner
      <4> QED
        BY <2>1
    <3>4. QED
      BY <3>2, <3>3 DEF Only
  <2> HIDE DEF owner, new
  <2>4. /\ proc' \in [Processes -> Process] /\ proc'[p] = new
        /\ \A q \in Processes : q # p => proc'[q] = proc[q]
    BY <2>3 DEF Only
  <2>5. Typed'
    <3>1. blocks' \in [Processes \X Keys -> Bytes]
      BY <2>1 DEF Bytes
    <3>2. tmp' \in [Keys -> Processes \cup {"absent"}]
      BY <2>1, <2>2
    <3>3. QED
      BY <3>1, <3>2, <2>1, <2>4, <1>1, CacheTyped
  <2>6. Fits(p, new, Mine(p))
    BY <1>1, <2>1, <2>3 DEF Fits, Planning, Reviewing, Leading
  <2>7. Mated' /\ Left'
    BY <1>1, <2>3, <2>5, <2>6, RowsUntouched
  <2>8. Owned'
    <3>1. proc[p].called /\ p # cache[k]
      <4>1. proc[p].called
        BY <2>1 DEF BytesExplained, WriterExplained
      <4>2. p \notin {cache[k], tmp[k]}
        BY <2>1 DEF Owned
      <4>3. QED
        BY <4>1, <4>2
    <3>2. \A q \in Processes : proc[q].called => proc'[q].called
      BY <2>3, <2>4
    <3>3. \A q \in Processes : proc'[q].at = "opening" => q # p /\ proc[q].at = "opening"
      BY <2>3, <2>4
    <3>4. \A j \in Keys : /\ cache'[j] = cache[j]
                          /\ tmp'[j] = IF j = k THEN owner ELSE tmp[j]
      BY <2>1
    <3>5. \A j \in Keys, b \in Processes :
            blocks'[<<b, j>>] = "torn" \/ blocks'[<<b, j>>] = blocks[<<b, j>>]
      BY <2>1, <2>2, <1>2
    <3>6. blocks'[<<owner, k>>] = "torn"
      BY <2>1, <2>2, <1>2
    <3>7. owner # cache[k]
      BY <3>1, <2>2, <1>2 DEF Owned
    <3>8. \A j \in Keys, q \in Processes :
            q \in {cache'[j], tmp'[j]} => proc'[q].called /\ proc'[q].at # "opening"
      <4> SUFFICES ASSUME NEW j \in Keys, NEW q \in Processes, q \in {cache'[j], tmp'[j]}
                   PROVE  proc'[q].called /\ proc'[q].at # "opening"
        OBVIOUS
      <4>1. CASE q = p
        BY <4>1, <3>1, <3>2, <3>3
      <4>2. CASE q # p
        <5>1. q \in {cache[j], tmp[j]}
          BY <4>2, <3>4, <2>2
        <5>2. proc[q].called /\ proc[q].at # "opening"
          BY <5>1 DEF Owned
        <5>3. QED
          BY <5>2, <3>2, <3>3
      <4>3. QED
        BY <4>1, <4>2
    <3>9. \A j \in Keys :
            /\ tmp'[j] # "absent" => tmp'[j] # cache'[j] /\ blocks'[<<tmp'[j], j>>] # "none"
            /\ cache'[j] # "absent" => blocks'[<<cache'[j], j>>] # "none"
      <4>1. \A j \in Keys : /\ cache[j] \in Processes \cup {"absent"}
                           /\ tmp[j] \in Processes \cup {"absent"}
        OBVIOUS
      <4>2. ASSUME NEW j \in Keys, cache[j] # "absent" PROVE blocks'[<<cache[j], j>>] # "none"
        <5>1. cache[j] \in Processes /\ blocks[<<cache[j], j>>] # "none"
          BY <4>1, <4>2 DEF Owned
        <5>2. QED
          BY <5>1, <3>5
      <4>3. ASSUME NEW j \in Keys, j # k, tmp[j] # "absent"
            PROVE  tmp[j] # cache[j] /\ blocks'[<<tmp[j], j>>] # "none"
        <5>1. tmp[j] \in Processes /\ tmp[j] # cache[j] /\ blocks[<<tmp[j], j>>] # "none"
          BY <4>1, <4>3 DEF Owned
        <5>2. QED
          BY <5>1, <3>5
      <4>4. QED
        BY <4>2, <4>3, <3>4, <3>6, <3>7
    <3>10. QED
      BY <3>8, <3>9 DEF Owned
  <2>9. BytesExplained'
    <3>1. /\ proc'[p].at = "writing" /\ proc'[p].wrote = <<owner, k>> /\ proc[p].called
          /\ proc'[p].called /\ proc[p].wrote = NoPlan /\ <<owner, k>> \in Processes \X Keys
      BY <2>1, <2>2, <2>3, <2>4, <1>2 DEF BytesExplained, WriterExplained
    <3>2. blocks' = [b \in Processes \X Keys |-> IF b = <<owner, k>> THEN "torn" ELSE blocks[b]]
      BY <2>1
    <3>3. ASSUME NEW b \in Processes \X Keys, Shared(b) PROVE Shared(b)'
      BY <3>1, <3>3, <2>4 DEF Shared
    <3>4. ASSUME NEW b \in Processes \X Keys PROVE FileExplained(b)'
      <4>1. CASE b = <<owner, k>>
        BY <3>1, <3>2, <4>1 DEF FileExplained, Writing
      <4>2. CASE b # <<owner, k>>
        <5>1. blocks'[b] = blocks[b] /\ FileExplained(b)
          BY <3>2, <4>2 DEF BytesExplained
        <5>2. \A q \in Processes : Writing(q) => q # p
          BY <2>1 DEF Writing
        <5>3. QED
          BY <5>1, <5>2, <3>3, <2>4 DEF FileExplained, Writing
      <4>3. QED
        BY <4>1, <4>2
    <3>5. ASSUME NEW q \in Processes PROVE WriterExplained(q)'
      <4>1. CASE q = p
        BY <3>1, <3>2, <4>1 DEF WriterExplained
      <4>2. CASE q # p
        <5>1. proc'[q] = proc[q] /\ WriterExplained(q)
          BY <4>2, <2>4 DEF BytesExplained
        <5>2. ASSUME Writing(q), blocks'[proc[q].wrote] # "torn" PROVE Shared(proc[q].wrote)'
          <6>1. PICK b \in Processes \X Keys : b = proc[q].wrote
            BY <5>1, <5>2 DEF WriterExplained
          <6>2. blocks'[b] = blocks[b]
            BY <5>2, <6>1, <3>2
          <6>3. Shared(b)
            BY <5>1, <5>2, <6>1, <6>2 DEF WriterExplained
          <6>4. Shared(b)'
            BY <6>3, <3>3
          <6>5. QED
            BY <6>1, <6>4, <5>1
        <5>3. QED
          BY <5>1, <5>2 DEF WriterExplained, Writing
      <4>3. QED
        BY <4>1, <4>2
    <3>6. QED
      BY <3>4, <3>5 DEF BytesExplained
  <2>11. QED
    BY <2>5, <2>7, <2>8, <2>9 DEF PlanInv
<1>4. CASE WriteTmp(p)
  <2> DEFINE b0 == proc[p].wrote
  <2>1. PICK bytes \in Bytes :
          /\ proc[p].at = "writing" /\ cache' = cache /\ tmp' = tmp /\ Goto(p, "replacing")
          /\ blocks' = [blocks EXCEPT ![b0] = bytes]
          /\ bytes \notin {"none", "torn"}
          /\ bytes = "mixed" => Overlapped(p)
    <3>1. proc[p].plan.content \in Contents
      BY <1>2 DEF Plans
    <3>2. PICK bytes \in {proc[p].plan.content} \cup (IF Overlapped(p) THEN {"mixed"} ELSE {}) :
            blocks' = [blocks EXCEPT ![b0] = bytes]
      BY <1>4 DEF WriteTmp
    <3>3. /\ bytes \in Bytes /\ bytes \notin {"none", "torn"}
          /\ bytes = "mixed" => Overlapped(p)
      BY <3>1, <3>2 DEF Contents, Bytes
    <3>4. QED
      BY <3>2, <3>3, <1>4 DEF WriteTmp
  <2>2. b0 \in Processes \X Keys /\ (blocks[b0] # "torn" => Shared(b0)) /\ proc[p].called
    BY <2>1 DEF BytesExplained, WriterExplained, Writing
  <2>3. PICK new \in Process :
          /\ Only(p, new) /\ new.at = "replacing" /\ new.kind = proc[p].kind
          /\ new.request = proc[p].request /\ new.called = proc[p].called /\ new.wrote = proc[p].wrote
          /\ new.plan = proc[p].plan
    BY <2>1, GotoIsOnly DEF Places, Planning
  <2>4. /\ proc' \in [Processes -> Process] /\ proc'[p] = new
        /\ \A q \in Processes : q # p => proc'[q] = proc[q]
    BY <2>3 DEF Only
  <2> HIDE DEF b0
  <2>5. Typed'
    <3>1. blocks' \in [Processes \X Keys -> Bytes]
      BY <2>1
    <3>2. QED
      BY <3>1, <2>1, <2>4, <1>1, CacheTyped
  <2>6. Fits(p, new, Mine(p))
    BY <1>1, <2>1, <2>3 DEF Fits, Planning, Reviewing, Leading
  <2>7. Mated' /\ Left'
    BY <1>1, <2>3, <2>5, <2>6, RowsUntouched
  <2>0. blocks' = [b \in Processes \X Keys |-> IF b = b0 THEN bytes ELSE blocks[b]]
    BY <2>1
  <2>8. Owned'
    <3>1. \A q \in Processes : /\ proc[q].called => proc'[q].called
                               /\ proc'[q].at = "opening" => proc[q].at = "opening"
      BY <2>3, <2>4
    <3>2. \A j \in Keys, b \in Processes : blocks[<<b, j>>] # "none" => blocks'[<<b, j>>] # "none"
      BY <2>0, <2>1
    <3>3. QED
      BY <3>1, <3>2, <2>1 DEF Owned
  <2>9. BytesExplained'
    <3>0. \A q \in Processes : proc'[q].wrote = proc[q].wrote
      BY <2>3, <2>4
    <3>1. \A b \in Processes \X Keys : Shared(b)' <=> Shared(b)
      BY <3>0 DEF Shared
    <3>2. bytes = "mixed" => Shared(b0)
      <4>1. CASE blocks[b0] # "torn"
        BY <2>2, <4>1
      <4>2. CASE \E q \in Processes \ {p} : proc[q].at = "writing" /\ proc[q].wrote = proc[p].wrote
        BY <4>2 DEF Shared, b0
      <4>3. QED
        BY <2>1, <4>1, <4>2 DEF Overlapped, b0
    <3>3. ASSUME NEW b \in Processes \X Keys PROVE FileExplained(b)'
      <4>1. CASE b = b0
        BY <4>1, <2>0, <2>1, <3>1, <3>2 DEF FileExplained
      <4>2. CASE b # b0
        <5>1. blocks'[b] = blocks[b] /\ FileExplained(b)
          BY <2>0, <4>2 DEF BytesExplained
        <5>2. ASSUME NEW q \in Processes, Writing(q), proc[q].wrote = b
              PROVE  Writing(q)' /\ proc'[q].wrote = b
          BY <5>2, <4>2, <2>4 DEF Writing, b0
        <5>3. QED
          BY <5>1, <5>2, <3>1 DEF FileExplained
      <4>3. QED
        BY <4>1, <4>2
    <3>4. ASSUME NEW q \in Processes PROVE WriterExplained(q)'
      <4>1. CASE q = p
        BY <4>1, <2>2, <2>3, <2>4 DEF WriterExplained, Writing
      <4>2. CASE q # p
        <5>1. proc'[q] = proc[q] /\ WriterExplained(q)
          BY <4>2, <2>4 DEF BytesExplained
        <5>2. ASSUME Writing(q), blocks'[proc[q].wrote] # "torn" PROVE Shared(proc[q].wrote)'
          <6>1. PICK b \in Processes \X Keys : b = proc[q].wrote
            BY <5>1, <5>2 DEF WriterExplained
          <6>2. CASE b = b0
            BY <4>2, <6>1, <6>2, <3>0 DEF Shared, b0
          <6>3. CASE b # b0
            <7>1. blocks'[b] = blocks[b]
              BY <6>3, <2>0
            <7>2. Shared(b)
              BY <5>1, <5>2, <6>1, <7>1 DEF WriterExplained
            <7>3. Shared(b)'
              BY <7>2, <3>1
            <7>4. QED
              BY <6>1, <7>3, <5>1
          <6>4. QED
            BY <6>2, <6>3
        <5>3. QED
          BY <5>1, <5>2 DEF WriterExplained, Writing
      <4>3. QED
        BY <4>1, <4>2
    <3>6. QED
      BY <3>3, <3>4 DEF BytesExplained
  <2>10. QED
    BY <2>5, <2>7, <2>8, <2>9 DEF PlanInv
<1>5. CASE ReplaceTmp(p)
  <2>1. proc[p].at = "replacing" /\ blocks' = blocks
    BY <1>5 DEF ReplaceTmp
  <2>2. PICK new \in Process :
          /\ Only(p, new) /\ new.at \in {"raised", "compiling"} /\ new.kind = proc[p].kind
          /\ new.request = proc[p].request /\ new.called = proc[p].called /\ new.wrote = proc[p].wrote
          /\ new.at = "compiling" => new.plan = proc[p].plan
          /\ new.at = "raised" => cache' = cache /\ tmp' = tmp
          /\ new.at = "compiling" =>
               /\ tmp[k] # "absent"
               /\ cache' = [cache EXCEPT ![k] = tmp[k]] /\ tmp' = [tmp EXCEPT ![k] = "absent"]
    <3>1. CASE tmp[k] = "absent"
      <4>1. End(p, "raised") /\ cache' = cache /\ tmp' = tmp
        BY <1>2, <1>5, <3>1 DEF ReplaceTmp
      <4>2. QED
        BY <4>1, EndIsOnly DEF Places, Ended
    <3>2. CASE tmp[k] # "absent"
      <4>1. /\ Goto(p, "compiling")
            /\ cache' = [cache EXCEPT ![k] = tmp[k]] /\ tmp' = [tmp EXCEPT ![k] = "absent"]
        BY <1>2, <1>5, <3>2 DEF ReplaceTmp
      <4>2. QED
        BY <3>2, <4>1, GotoIsOnly DEF Places, Planning
    <3>3. QED
      BY <3>1, <3>2
  <2>4. /\ proc' \in [Processes -> Process] /\ proc'[p] = new
        /\ \A q \in Processes : q # p => proc'[q] = proc[q]
    BY <2>2 DEF Only
  <2>5. Typed'
    <3>1. cache' \in [Keys -> Processes \cup {"absent"}] /\ tmp' \in [Keys -> Processes \cup {"absent"}]
      BY <2>2, <1>2
    <3>2. QED
      BY <3>1, <2>1, <2>4, <1>1, CacheTyped
  <2>6. Fits(p, new, Mine(p))
    BY <1>1, <2>1, <2>2 DEF Fits, Planning, Reviewing, Leading
  <2>7. Mated' /\ Left'
    BY <1>1, <2>2, <2>5, <2>6, RowsUntouched
  <2>3. \A q \in Processes : /\ proc'[q].called = proc[q].called /\ proc'[q].wrote = proc[q].wrote
                             /\ proc'[q].at = "opening" => proc[q].at = "opening"
                             /\ proc[q].at = "writing" => proc'[q] = proc[q]
                             /\ proc'[q].at = "writing" => proc'[q] = proc[q]
    BY <2>1, <2>2, <2>4
  <2>8. Owned'
    <3>1. \A j \in Keys : {cache'[j], tmp'[j]} \subseteq {cache[j], tmp[j], "absent"}
      BY <2>2, <1>2
    <3>2. \A j \in Keys : tmp'[j] # "absent" => tmp'[j] = tmp[j] /\ cache'[j] = cache[j]
      BY <2>2, <1>2
    <3>7. \A j \in Keys : cache'[j] # cache[j] => cache'[j] = tmp[j] /\ tmp[j] # "absent"
      BY <2>2, <1>2
    <3>3. \A j \in Keys, q \in Processes :
            q \in {cache'[j], tmp'[j]} => proc'[q].called /\ proc'[q].at # "opening"
      <4> SUFFICES ASSUME NEW j \in Keys, NEW q \in Processes, q \in {cache'[j], tmp'[j]}
                   PROVE  proc'[q].called /\ proc'[q].at # "opening"
        OBVIOUS
      <4>1. q \in {cache[j], tmp[j]}
        BY <3>1, PlanningAssumption
      <4>2. proc[q].called /\ proc[q].at # "opening"
        BY <4>1 DEF Owned
      <4>3. QED
        BY <4>2, <2>3
    <3>4. \A j \in Keys : /\ cache[j] \in Processes \cup {"absent"}
                         /\ tmp[j] \in Processes \cup {"absent"}
      OBVIOUS
    <3>5. ASSUME NEW j \in Keys
          PROVE  /\ tmp'[j] # "absent" => tmp'[j] # cache'[j] /\ blocks'[<<tmp'[j], j>>] # "none"
                 /\ cache'[j] # "absent" => blocks'[<<cache'[j], j>>] # "none"
      <4>1. /\ tmp[j] # "absent" => tmp[j] # cache[j] /\ blocks[<<tmp[j], j>>] # "none"
            /\ cache[j] # "absent" => blocks[<<cache[j], j>>] # "none"
        BY DEF Owned
      <4>2. /\ tmp'[j] # "absent" => tmp'[j] = tmp[j] /\ cache'[j] = cache[j]
            /\ cache'[j] # cache[j] => cache'[j] = tmp[j] /\ tmp[j] # "absent"
        BY <3>2, <3>7
      <4>3. QED
        BY <4>1, <4>2, <2>1
    <3>6. QED
      BY <3>3, <3>5 DEF Owned
  <2>9. BytesExplained'
    <3>1. \A b \in Processes \X Keys : Shared(b)' <=> Shared(b)
      BY <2>3 DEF Shared
    <3>2. QED
      <4>1. ASSUME NEW b \in Processes \X Keys PROVE FileExplained(b)'
        BY <3>1, <2>1, <2>3 DEF BytesExplained, FileExplained, Writing
      <4>2. ASSUME NEW q \in Processes PROVE WriterExplained(q)'
        <5>1. WriterExplained(q)
          BY DEF BytesExplained
        <5>2. ASSUME Writing(q)' PROVE WriterExplained(q)'
          BY <5>1, <5>2, <3>1, <2>1, <2>3 DEF WriterExplained, Writing
        <5>3. QED
          BY <5>1, <5>2, <2>3 DEF WriterExplained
      <4>3. QED
        BY <4>1, <4>2 DEF BytesExplained
  <2>11. QED
    BY <2>5, <2>7, <2>8, <2>9 DEF PlanInv
<1>6. QED
  BY <1>3, <1>4, <1>5

\* What a user decides about a plan keeps the invariant.
LEMMA ReviewKeeps ==
  ASSUME PlanInv, NEW p \in Processes, Review(p)
  PROVE  PlanInv'
<1>0. /\ Typed /\ Mated /\ proc[p] \in Process /\ proc \in [Processes -> Process]
      /\ head \in Heads /\ files \in [Files -> Plans \cup {NoPlan}]
      /\ compiled \in [Keys -> Manifests \cup {NoPlan}]
  BY Types DEF PlanInv
<1> USE <1>0 DEF Planning, Reviewing, Leading, Ended, Places, outputs
<1>1. CASE ApprovePlan(p)
  <2> DEFINE row == [[Mine(p) EXCEPT !.approved = TRUE] EXCEPT !.plan = proc[p].plan]
  <2>1. /\ proc[p].at = "deciding" /\ proc[p].kind # "existing" /\ Valid(proc[p].plan)
        /\ requests' = [requests EXCEPT ![proc[p].request] = row] /\ Goto(p, "approving")
        /\ UNCHANGED <<head, stores, files, edits, compiled>>
    BY <1>1 DEF ApprovePlan, Approvable, Mine
  <2>2. Bound(p) /\ Fits(p, proc[p], Mine(p)) /\ Mine(p) \in Row
    BY <2>1, BoundAt, BoundHas
  <2>3. /\ row \in Row /\ row.by = Mine(p).by /\ row.state = Mine(p).state
        /\ row.plan = proc[p].plan /\ row.approved = TRUE
    BY <2>1, <2>2 DEF Row, Fits
  <2>4. PICK new \in Process :
          /\ Only(p, new) /\ new.at = "approving" /\ new.kind = proc[p].kind
          /\ new.request = proc[p].request /\ new.called = proc[p].called /\ new.wrote = proc[p].wrote
          /\ new.plan = proc[p].plan
    BY <2>1, GotoIsOnly
  <2> HIDE DEF row
  <2>5. Fits(p, new, row)
    BY <2>1, <2>2, <2>3, <2>4 DEF Fits
  <2>6. QED
    BY <2>1, <2>2, <2>3, <2>4, <2>5, BoundStep
<1>2. CASE proc[p].at \in {"deciding", "editing"} /\ End(p, "refused")
           /\ UNCHANGED <<head, requests, stores, outputs>>
  <2>1. PICK new \in Process :
          /\ Only(p, new) /\ new.at = "refused" /\ new.kind = proc[p].kind
          /\ new.request = proc[p].request /\ new.called = proc[p].called /\ new.wrote = proc[p].wrote
    BY <1>2, EndIsOnly
  <2>2. CASE Bound(p)
    <3>1. Fits(p, proc[p], Mine(p))
      BY <2>2, BoundHas
    <3>2. Fits(p, new, Mine(p))
      BY <1>2, <2>1, <3>1 DEF Fits
    <3>3. QED
      BY <1>2, <2>1, <2>2, <3>2, BoundMoves
  <2>3. CASE Unbound(proc[p])
    <3>1. Unbound(new)
      BY <2>1, <2>3 DEF Unbound
    <3>2. QED
      BY <1>2, <2>1, <2>3, <3>1, UnboundStep
  <2>4. QED
    BY <2>2, <2>3 DEF Mated
<1>3. CASE SaveForEditor(p)
  <2>1. /\ proc[p].at = "deciding" /\ proc[p].kind # "existing" /\ Goto(p, "editing")
        /\ files' = [files EXCEPT ![Key(p)] = proc[p].plan]
        /\ UNCHANGED <<head, requests, stores, edits, compiled>>
    BY <1>3 DEF SaveForEditor
  <2>2. Bound(p) /\ Fits(p, proc[p], Mine(p))
    BY <2>1, BoundAt, BoundHas
  <2>3. PICK new \in Process :
          /\ Only(p, new) /\ new.at = "editing" /\ new.kind = proc[p].kind
          /\ new.request = proc[p].request /\ new.called = proc[p].called /\ new.wrote = proc[p].wrote
          /\ new.plan = proc[p].plan
    BY <2>1, GotoIsOnly
  <2>4. Fits(p, new, Mine(p))
    BY <2>1, <2>2, <2>3 DEF Fits
  <2>5. proc[p].plan \in Plans
    BY <2>1, <2>2 DEF Fits
  <2>6. files' \in [Files -> Plans \cup {NoPlan}]
    BY <2>1, <2>5
  <2>7. QED
    BY <2>1, <2>2, <2>3, <2>4, <2>6, BoundMoves
<1>4. CASE Reload(p)
  <2>1. /\ proc[p].at = "editing" /\ UNCHANGED <<head, requests, stores, files, edits, compiled>>
    BY <1>4 DEF Reload
  <2>2. Bound(p) /\ Fits(p, proc[p], Mine(p))
    BY <2>1, BoundAt, BoundHas
  <2>3. CASE Goto(p, "deciding")
    <3>1. PICK new \in Process :
            /\ Only(p, new) /\ new.at = "deciding" /\ new.kind = proc[p].kind
            /\ new.request = proc[p].request /\ new.called = proc[p].called /\ new.wrote = proc[p].wrote
            /\ new.plan = proc[p].plan
      BY <2>3, GotoIsOnly
    <3>2. Fits(p, new, Mine(p))
      BY <2>1, <2>2, <3>1 DEF Fits
    <3>3. QED
      BY <2>1, <2>2, <2>3, <3>1, <3>2, BoundMoves
  <2>4. CASE ~Goto(p, "deciding")
    <3> DEFINE plan == [files[Key(p)] EXCEPT !.asked = head]
               new == [[proc[p] EXCEPT !.at = "rescanning"] EXCEPT !.plan = plan]
    <3>1. /\ Loads(Key(p)) /\ files[Key(p)].base = head
          /\ proc' = [proc EXCEPT ![p].at = "rescanning", ![p].plan = plan]
      BY <1>4, <2>4 DEF Reload
    <3>2. plan \in Plans /\ plan.asked = plan.base
      <4>1. proc[p].plan \in Plans
        BY <2>1, <2>2 DEF Fits
      <4>2. Key(p) \in Files
        BY <4>1, KeyIsKey DEF Files
      <4>3. files[Key(p)] \in Plans
        BY <3>1, <4>2 DEF Loads
      <4>4. QED
        BY <3>1, <4>3 DEF Plans
    <3>3. /\ Only(p, new) /\ new.at = "rescanning" /\ new.kind = proc[p].kind
          /\ new.request = proc[p].request /\ new.called = proc[p].called /\ new.wrote = proc[p].wrote
          /\ new.plan = plan
      BY <3>1, <3>2 DEF Only, Process
    <3> HIDE DEF plan, new
    <3>4. Fits(p, new, Mine(p))
      BY <2>1, <2>2, <3>2, <3>3 DEF Fits
    <3>5. QED
      BY <2>1, <2>2, <3>3, <3>4, BoundMoves
  <2>5. QED
    BY <2>3, <2>4
<1>9. CASE Rescan(p)
  <2> DEFINE found == proc[p].plan
             checked == IF Valid(found) THEN found.content ELSE "none"
             edited == [[found EXCEPT !.seen = head] EXCEPT !.analysis = checked]
             new == [[proc[p] EXCEPT !.at = "deciding"] EXCEPT !.plan = edited]
  <2>1. /\ proc[p].at = "rescanning" /\ UNCHANGED <<head, stores, files, edits, compiled>>
        /\ SetRow(p, "plan", edited)
        /\ proc' = [proc EXCEPT ![p].at = "deciding", ![p].plan = edited]
    BY <1>9 DEF Rescan
  <2>2. Bound(p) /\ Fits(p, proc[p], Mine(p)) /\ Mine(p) \in Row
    BY <2>1, BoundAt, BoundHas
  <2>3. found \in Plans /\ found.asked = found.base
    BY <2>1, <2>2 DEF Fits
  <2>4. checked \in {"none", found.content} /\ checked \in Contents \cup {"none"}
    BY <2>3 DEF Plans
  <2>5. /\ edited \in Plans /\ edited.asked = edited.base
        /\ edited.analysis = checked /\ edited.content = found.content
    BY <2>3, <2>4 DEF Plans
  <2>6. /\ Only(p, new) /\ new.at = "deciding" /\ new.kind = proc[p].kind
        /\ new.request = proc[p].request /\ new.called = proc[p].called /\ new.wrote = proc[p].wrote
        /\ new.plan = edited
    <3> HIDE DEF edited, found, checked
    <3>1. new \in Process
      BY <2>5 DEF Process, Places, Reviewing
    <3>2. /\ new.at = "deciding" /\ new.kind = proc[p].kind
          /\ new.request = proc[p].request /\ new.called = proc[p].called
          /\ new.wrote = proc[p].wrote /\ new.plan = edited
      BY <2>5 DEF Process
    <3>3. proc' = [q \in Processes |-> IF q = p THEN new ELSE proc[q]]
      BY <2>1
    <3>4. QED
      BY <3>1, <3>2, <3>3 DEF Only
  <2> HIDE DEF edited, new, found, checked
  <2>7. PICK row \in Row :
          /\ requests' = [requests EXCEPT ![proc[p].request] = row]
          /\ row.by = Mine(p).by /\ row.approved = Mine(p).approved
          /\ row.plan = edited /\ row.state = Mine(p).state
    BY <2>1, <2>2, <2>5, SetPlanIs
  <2>8. Fits(p, new, row)
    BY <2>1, <2>2, <2>4, <2>5, <2>6, <2>7 DEF Fits
  <2>9. QED
    BY <2>1, <2>2, <2>6, <2>7, <2>8, BoundStep
<1>5. CASE ReplaceWithSingle(p)
  <2>1. /\ proc[p].at = "deciding" /\ proc[p].kind \in {"run", "clip", "plan"}
        /\ Receive(p, proc[p].kind, proc[p].review, "none")
        /\ proc[p].review \in Reviews /\ "none" \in Modes
    BY <1>5 DEF ReplaceWithSingle, Process, Modes
  <2>2. QED
    BY <2>1, ReceiveKeeps
<1>6. CASE Confirm(p)
  <2>1. /\ proc[p].at = "deciding" /\ proc[p].kind = "existing" /\ Goto(p, "manifest")
        /\ Valid(proc[p].plan)
        /\ UNCHANGED <<head, requests, stores, outputs>>
    BY <1>6 DEF Confirm, Approvable
  <2>2. Unbound(proc[p])
    BY <2>1 DEF Mated, Bound, Fits
  <2>3. PICK new \in Process :
          /\ Only(p, new) /\ new.at = "manifest" /\ new.kind = proc[p].kind
          /\ new.request = proc[p].request /\ new.called = proc[p].called /\ new.wrote = proc[p].wrote
          /\ new.plan = proc[p].plan
    BY <2>1, GotoIsOnly
  <2>4. Unbound(new)
    BY <2>1, <2>2, <2>3 DEF Unbound
  <2>5. QED
    BY <2>1, <2>2, <2>3, <2>4, UnboundStep
<1>7. Refuse(p) \/ NoEditor(p) =>
        /\ proc[p].at \in {"deciding", "editing"} /\ End(p, "refused")
        /\ UNCHANGED <<head, requests, stores, outputs>>
  BY DEF Refuse, NoEditor
<1>8. QED
  BY <1>1, <1>2, <1>3, <1>4, <1>5, <1>6, <1>7, <1>9 DEF Review

\* A saved plan is taken up, or refused because HEAD has moved.
LEMMA LoadPlanKeeps ==
  ASSUME PlanInv, NEW p \in Processes, NEW f \in Files, NEW review \in Reviews,
         LoadPlan(p, f, review)
  PROVE  PlanInv'
<1>0. /\ Typed /\ Mated /\ proc[p] \in Process /\ proc \in [Processes -> Process]
      /\ files \in [Files -> Plans \cup {NoPlan}]
      /\ compiled \in [Keys -> Manifests \cup {NoPlan}]
  BY Types DEF PlanInv
<1> USE <1>0 DEF Ended, Places, outputs
<1>1. proc[p].at = "idle" /\ files[f] \in Plans /\ UNCHANGED <<head, requests, stores, outputs>>
  BY DEF LoadPlan, Asked, Loads
<1>2. Unbound(proc[p])
  BY <1>1 DEF Mated, Bound, Fits
<1>3. CASE files[f].base = head
  <2> DEFINE plan == [files[f] EXCEPT !.asked = head]
             new == [[[[proc[p] EXCEPT !.at = "checked"] EXCEPT !.kind = "existing"]
                      EXCEPT !.review = review] EXCEPT !.plan = plan]
  <2>0. plan \in Plans /\ plan.asked = plan.base
    BY <1>1, <1>3 DEF Plans
  <2>1. proc' = [proc EXCEPT ![p] = new]
    BY <1>3 DEF LoadPlan
  <2>2. /\ Only(p, new) /\ new.at = "checked" /\ new.kind = "existing" /\ new.plan = plan
        /\ new.request = proc[p].request /\ new.called = proc[p].called /\ new.wrote = proc[p].wrote
    BY <1>1, <2>0, <2>1 DEF Only, Process
  <2>3. Unbound(new)
    BY <1>1, <1>2, <2>0, <2>2 DEF Unbound
  <2> HIDE DEF plan, new
  <2>4. QED
    BY <1>1, <1>2, <2>2, <2>3, UnboundStep
<1>4. CASE files[f].base # head
  <2>1. PICK new \in Process :
          /\ Only(p, new) /\ new.at = "refused" /\ new.kind = proc[p].kind
          /\ new.request = proc[p].request /\ new.called = proc[p].called /\ new.wrote = proc[p].wrote
    BY <1>4, EndIsOnly DEF LoadPlan
  <2>2. Unbound(new)
    BY <1>2, <2>1 DEF Unbound
  <2>3. QED
    BY <1>1, <1>2, <2>1, <2>2, UnboundStep
<1>5. QED
  BY <1>3, <1>4

\* A step of nobody's: what is not about HEAD, the files or the edits stays.
LEMMA NobodyMoves ==
  ASSUME PlanInv, UNCHANGED <<requests, stores, compiled, proc>>, head' \in Heads,
         files' \in [Files -> Plans \cup {NoPlan}], edits' \in 0..MaxEdits
  PROVE  PlanInv'
<1>0. Typed /\ Mated /\ Left /\ Owned /\ BytesExplained
  BY DEF PlanInv
<1>1. Typed'
  BY <1>0, Types, TypedStep
<1>2. Mated' /\ Left'
  BY <1>0 DEF Mated, Bound, Mine, Left
<1>3. Owned' /\ BytesExplained'
  BY <1>0, CacheUntouched
<1>4. QED
  BY <1>1, <1>2, <1>3 DEF PlanInv

\* Every step keeps the invariant.
LEMMA PlanInvNext == PlanInv /\ [Next]_vars => PlanInv'
<1> SUFFICES ASSUME PlanInv, [Next]_vars PROVE PlanInv'
  OBVIOUS
<1>0. /\ Typed /\ Mated /\ head \in Heads /\ edits \in 0..MaxEdits
      /\ files \in [Files -> Plans \cup {NoPlan}]
      /\ MaxHead \in Nat /\ MaxEdits \in Nat
  BY Types, PlanningAssumption DEF PlanInv
<1>1. ASSUME NEW p \in Processes, StartRun(p) \/ StartClip(p) \/ StartPlan(p) PROVE PlanInv'
  <2>1. PICK kind \in {"run", "clip", "plan"}, review \in Reviews, mode \in Modes :
          proc[p].at = "idle" /\ Receive(p, kind, review, mode)
    <3>1. CASE StartRun(p)
      <4>1. PICK review \in Reviews :
              proc[p].at = "idle" /\ Receive(p, "run", review, IF review = "none" THEN "none" ELSE "auto")
        BY <3>1 DEF StartRun, Asked
      <4>2. QED
        BY <4>1 DEF Modes
    <3>2. CASE StartClip(p) \/ StartPlan(p)
      BY <3>2 DEF StartClip, StartPlan, Asked, Modes
    <3>3. QED
      BY <1>1, <3>1, <3>2
  <2>2. QED
    BY <2>1, ReceiveKeeps
<1>2. ASSUME NEW p \in Processes, Work(p) PROVE PlanInv'
  BY <1>2, WorkKeeps, SaveKeeps
<1>3. ASSUME NEW f \in Files, EditFile(f) PROVE PlanInv'
  <2>1. PICK c \in Contents : files' = [files EXCEPT ![f] = [files[f] EXCEPT !.content = c]]
    BY <1>3 DEF EditFile, Edited, Contents
  <2>2. files[f] \in Plans /\ edits' \in 0..MaxEdits
    BY <1>0, <1>3 DEF EditFile
  <2>3. [files[f] EXCEPT !.content = c] \in Plans
    BY <2>2 DEF Plans
  <2>4. files' \in [Files -> Plans \cup {NoPlan}]
    BY <1>0, <2>1, <2>3
  <2>5. UNCHANGED <<head, requests, stores, compiled, proc>>
    BY <1>3 DEF EditFile
  <2>6. QED
    BY <1>0, <2>2, <2>4, <2>5, NobodyMoves
<1>4. CASE Commit
  <2>1. head' \in Heads /\ UNCHANGED <<requests, stores, outputs, proc>>
    BY <1>0, <1>4 DEF Commit, Heads
  <2>2. QED
    BY <1>0, <2>1, NobodyMoves DEF outputs
<1>5. CASE UNCHANGED vars
  <2>1. UNCHANGED <<head, requests, stores, files, edits, compiled, proc>>
    BY <1>5 DEF vars, stores
  <2>2. QED
    BY <1>0, <2>1, NobodyMoves
<1>6. QED
  BY <1>1, <1>2, <1>3, <1>4, <1>5, ReviewKeeps, LoadPlanKeeps DEF Next, Settled

-------------------------------------------------------------------------------
\* The invariant holds in every reachable state.
THEOREM Invariant == Spec => []PlanInv
BY PlanInvInit, PlanInvNext, PTL DEF Spec

\* Types, rows explained by their processes and unreadable cache files by the
\* processes that write or have written them: in every state.
THEOREM Consistent == Spec => []PlanningConsistent
<1>1. PlanInv => PlanningConsistent
  <2> SUFFICES ASSUME PlanInv PROVE PlanningConsistent
    OBVIOUS
  <2>0. Typed /\ Mated /\ Left /\ Owned /\ BytesExplained
    BY DEF PlanInv
  <2>1. TypeOK
    BY <2>0 DEF Typed
  <2>2. RowsFollowProcesses
    <3> SUFFICES ASSUME NEW i \in DOMAIN requests
                 PROVE  LET row == requests[i]
                            owner == proc[row.by]
                            at(places) == owner.request = i /\ owner.at \in places
                        IN /\ row.state \in {"repo_scanning", "planning"} => at(Planning \cup {"raised"})
                           /\ row.state = "plan_validation" => at({"raised"})
                           /\ row.state = "awaiting" /\ row.approved => at({"approving"})
                           /\ row.state = "approved" => row.approved /\ at(Leading \cup {"ran"})
      BY DEF RowsFollowProcesses
    <3>1. requests[i] \in Row /\ i # 0
      BY <2>0, Types
    <3>2. PICK q \in Processes : q = requests[i].by
      BY <3>1 DEF Row
    <3>3. CASE proc[q].request = i
      <4>1. Fits(q, proc[q], requests[i]) /\ proc[q] \in Process
        BY <2>0, <3>1, <3>3, Types DEF Mated, Bound, Unbound, Mine
      <4>2. QED
        BY <3>1, <3>2, <3>3, <4>1 DEF Fits, Row, Process, Places, Planning, Reviewing, Leading, Ended
    <3>4. CASE proc[q].request # i
      BY <2>0, <3>2, <3>4 DEF Left
    <3>5. QED
      BY <3>3, <3>4
  <2>3. UnreadableIsExplained
    <3> SUFFICES ASSUME NEW k \in Keys, cache[k] # "absent", ~Complete(k)
                 PROVE  \/ BeingWritten(cache[k], k)
                        \/ \E p, q \in Processes :
                             p # q /\ {proc[p].wrote, proc[q].wrote} = {<<cache[k], k>>}
      BY DEF UnreadableIsExplained
    <3>1. <<cache[k], k>> \in Processes \X Keys /\ blocks[<<cache[k], k>>] \in {"torn", "mixed"}
      BY <2>0, Types DEF Complete, Cached, Owned
    <3> DEFINE b == <<cache[k], k>>
    <3>0. FileExplained(b)
      BY <2>0, <3>1 DEF BytesExplained
    <3>2. CASE blocks[<<cache[k], k>>] = "torn"
      BY <3>0, <3>2 DEF FileExplained, BeingWritten, Writing
    <3>3. CASE blocks[<<cache[k], k>>] = "mixed"
      <4>1. Shared(<<cache[k], k>>)
        BY <3>0, <3>3 DEF FileExplained
      <4>2. QED
        BY <4>1 DEF Shared
    <3>4. QED
      BY <3>1, <3>2, <3>3
  <2>4. QED
    BY <2>0, <2>1, <2>2, <2>3 DEF PlanningConsistent
<1>2. QED
  BY <1>1, Invariant, PTL

\* What is reviewed is what the row holds that an approval will approve.
THEOREM Reviewed == Spec => []ReviewedIsStored
<1>1. PlanInv => ReviewedIsStored
  <2> SUFFICES ASSUME PlanInv, NEW p \in Processes, proc[p].at \in Reviewing, Engine(p)
               PROVE  Mine(p) = [by |-> p, state |-> "awaiting", plan |-> proc[p].plan,
                                 approved |-> FALSE]
    BY DEF ReviewedIsStored
  <2>1. Bound(p)
    BY BoundAt DEF PlanInv, Engine, Reviewing
  <2>2. Fits(p, proc[p], Mine(p)) /\ Mine(p) \in Row
    BY <2>1, BoundHas
  <2>3. /\ Mine(p).by = p /\ Mine(p).state = "awaiting" /\ Mine(p).plan = proc[p].plan
        /\ Mine(p).approved \in BOOLEAN /\ ~Mine(p).approved
    BY <2>2 DEF Fits, Row, Reviewing, Leading
  <2>4. QED
    BY <2>2, <2>3 DEF Row
<1>2. QED
  BY <1>1, Invariant, PTL

\* What is executed is valid, its base was HEAD when that was checked, and a
\* planned manifest was approved as it is.
THEOREM Executed == Spec => []ExecutedIsApproved
<1>1. PlanInv => ExecutedIsApproved
  <2> SUFFICES ASSUME PlanInv, NEW p \in Processes, proc[p].at \in {"ready", "ran"}
               PROVE  /\ Engine(p) =>
                           Mine(p) = [by |-> p, state |-> "approved", plan |-> proc[p].plan,
                                      approved |-> TRUE]
                      /\ Valid(proc[p].plan) /\ proc[p].plan.asked = proc[p].plan.base
    BY DEF ExecutedIsApproved
  <2>1. CASE Bound(p)
    <3>1. Fits(p, proc[p], Mine(p)) /\ Mine(p) \in Row
      BY <2>1, BoundHas
    <3>2. /\ Mine(p).by = p /\ Mine(p).state = "approved" /\ Mine(p).plan = proc[p].plan
          /\ Mine(p).approved \in BOOLEAN /\ Mine(p).approved
          /\ Valid(proc[p].plan) /\ proc[p].plan.asked = proc[p].plan.base
      BY <3>1 DEF Fits, Row, Leading
    <3>3. QED
      BY <3>1, <3>2 DEF Row
  <2>2. CASE Unbound(proc[p])
    BY <2>2 DEF Unbound, Engine
  <2>3. QED
    BY <2>1, <2>2 DEF PlanInv, Mated
<1>2. QED
  BY <1>1, Invariant, PTL

\* A cached proposal that nobody has open keeps its bytes until another file
\* takes its name.
THEOREM CacheKept == Spec => CacheKeepsItsBytes
<1> DEFINE Kept == \A k \in Keys : Complete(k) /\ ~BeingWritten(cache[k], k) =>
             cache'[k] # cache[k] \/ Cached(k)' = Cached(k)
<1>1. PlanInv /\ [Next]_vars => [Kept]_vars
  <2> SUFFICES ASSUME PlanInv, Next, NEW k \in Keys, Complete(k), ~BeingWritten(cache[k], k),
                      cache'[k] = cache[k]
               PROVE  Cached(k)' = Cached(k)
    OBVIOUS
  <2>0. Typed /\ Owned /\ Mated /\ BytesExplained
    BY DEF PlanInv
  <2>1. CASE UNCHANGED blocks
    BY <2>1 DEF Cached
  <2>2. ASSUME NEW p \in Processes, OpenTmp(p) \/ WriteTmp(p) \/ ReplaceTmp(p)
        PROVE  Cached(k)' = Cached(k)
    <3>1. /\ cache[k] \in Processes /\ blocks \in [Processes \X Keys -> Bytes]
          /\ cache \in [Keys -> Processes \cup {"absent"}]
          /\ tmp \in [Keys -> Processes \cup {"absent"}]
      BY <2>0, Types DEF Complete, Cached
    <3>2. PICK j \in Keys : j = Key(p)
      <4>1. Bound(p) /\ Fits(p, proc[p], Mine(p))
        BY <2>0, <2>2, BoundAt, BoundHas DEF OpenTmp, WriteTmp, ReplaceTmp, Planning
      <4>2. proc[p].plan \in Plans
        BY <2>2, <4>1 DEF Fits, OpenTmp, WriteTmp, ReplaceTmp
      <4>3. QED
        BY <4>2, KeyIsKey
    <3>3. CASE OpenTmp(p)
      <4> DEFINE owner == IF tmp[j] = "absent" THEN p ELSE tmp[j]
      <4>1. blocks' = [blocks EXCEPT ![<<owner, j>>] = "torn"] /\ proc[p].at = "opening"
        BY <3>2, <3>3 DEF OpenTmp
      <4>2. <<owner, j>> # <<cache[k], k>>
        BY <2>0, <3>1, <4>1 DEF Owned
      <4>3. blocks'[<<cache[k], k>>] = blocks[<<cache[k], k>>]
        BY <3>1, <4>1, <4>2
      <4>4. QED
        BY <3>1, <4>3 DEF Cached
    <3>4. CASE WriteTmp(p)
      <4>1. PICK bytes : blocks' = [blocks EXCEPT ![proc[p].wrote] = bytes]
        BY <3>4 DEF WriteTmp
      <4>2. proc[p].wrote # <<cache[k], k>>
        BY <3>4 DEF WriteTmp, BeingWritten
      <4>3. blocks'[<<cache[k], k>>] = blocks[<<cache[k], k>>]
        BY <3>1, <4>1, <4>2
      <4>4. QED
        BY <3>1, <4>3 DEF Cached
    <3>5. CASE ReplaceTmp(p)
      BY <3>5 DEF ReplaceTmp, Cached
    <3>6. QED
      BY <2>2, <3>3, <3>4, <3>5
  <2>3. Next => \/ UNCHANGED blocks
                \/ \E p \in Processes : OpenTmp(p) \/ WriteTmp(p) \/ ReplaceTmp(p)
    <3>1. ASSUME NEW p \in Processes, StartRun(p) \/ StartClip(p) \/ StartPlan(p)
          PROVE  UNCHANGED blocks
      BY <3>1 DEF StartRun, StartClip, StartPlan, Receive, stores
    <3>2. ASSUME NEW p \in Processes, Work(p), ~OpenTmp(p), ~WriteTmp(p), ~ReplaceTmp(p)
          PROVE  UNCHANGED blocks
      BY <3>2 DEF Work, Scan, ReadFiles, ScanRaises, LoadCache, Propose, Compile, ApproveRequest,
             Revalidate, WriteManifest, Execute, stores
    <3>3. ASSUME NEW p \in Processes, Review(p)
          PROVE  UNCHANGED blocks
      BY <3>3 DEF Review, ApprovePlan, Refuse, SaveForEditor, Reload, Rescan, NoEditor,
             ReplaceWithSingle, Receive, Confirm, stores
    <3>4. ASSUME NEW p \in Processes, NEW f \in Files, NEW review \in Reviews,
                 LoadPlan(p, f, review)
          PROVE  UNCHANGED blocks
      BY <3>4 DEF LoadPlan, stores
    <3>5. ASSUME NEW f \in Files, EditFile(f) PROVE UNCHANGED blocks
      BY <3>5 DEF EditFile, stores
    <3>6. Commit \/ Settled => UNCHANGED blocks
      BY DEF Commit, Settled, stores, vars
    <3>7. QED
      BY <3>1, <3>2, <3>3, <3>4, <3>5, <3>6 DEF Next
  <2>4. QED
    BY <2>1, <2>2, <2>3
<1>2. Spec => [][Kept]_vars
  BY <1>1, Invariant, PTL DEF Spec
<1>3. QED
  BY <1>2 DEF CacheKeepsItsBytes

===============================================================================
