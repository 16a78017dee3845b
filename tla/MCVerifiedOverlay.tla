--------------------------- MODULE MCVerifiedOverlay ---------------------------
(* VerifiedOverlay for TLC: a diamond and a task without likely paths, closed by *)
(* the delivery, over a base that holds a link.                                 *)
EXTENDS VerifiedOverlay, TLC

CONSTANTS root, left, right, free

LinksLead == ("toF" :> "f") @@ ("toOut" :> "out") @@ ("away" :> Outside)
Rank == (root :> 0) @@ (left :> 1) @@ (right :> 2) @@ (free :> 3)
          @@ ("f" :> 0) @@ ("g" :> 1) @@ ("l" :> 2) @@ ("out" :> 3) @@ ("pyc" :> 4)
ByName == [x \in Tasks \X Paths |-> 5 * Rank[x[1]] + Rank[x[2]]]

\* The free task has no likely paths.
Diamond == (root :> {}) @@ (left :> {root}) @@ (right :> {root}) @@ (free :> {})
Scopes == (root :> {"f"}) @@ (left :> {"g"}) @@ (right :> {"f", "g"}) @@ (free :> {})
Attempts == (root :> 1) @@ (left :> 2) @@ (right :> 1) @@ (free :> 1)
Steps == (root :> 2) @@ (left :> 1) @@ (right :> 1) @@ (free :> 1)
BaseTree ==
  [p \in Paths |-> IF p \in {"f", "out"} THEN "base" ELSE IF p = "l" THEN "toOut" ELSE Absent]
ParentTree == [p \in Paths |-> IF p \in {"g", "out"} THEN "base" ELSE Absent]
AnyEdit ==
  (root :> {<<"f", "new">>, <<"f", Absent>>, <<"g", "toF">>})
    @@ (left :> ({<<"f", Absent>>} \cup {"g"} \X {"new", "toF", "away", Absent}))
    @@ (right :> {<<"f", "base">>, <<"f", Absent>>, <<"g", "base">>, <<"g", "toF">>})
    @@ (free :> {<<"l", "new">>, <<"pyc", "new">>})

\* The states explored: the tasks are taken one after the other (worktrees at
\* work never touch, for what is copied comes from those that are done), and in
\* one of them at most something is staged, the branch is moved or git fails.
OneByOne ==
  /\ state[<<right, 1>>] # "none" => Winners(left) # {}
  /\ state[<<free, 1>>] # "none" => Winners(right) # {}
  /\ Cardinality({w \in Works : worktree[w].index # Base \/ ~Readable(w)}) <= 1

===============================================================================
