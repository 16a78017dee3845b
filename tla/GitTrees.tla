------------------------------- MODULE GitTrees -------------------------------
(***************************************************************************)
(* The part of git FirstGreen reads: which paths a checkout reports as     *)
(* changed.  A tree gives every path a content.  A checkout has the tree   *)
(* of its HEAD, its index and its files, and the tree of `fork', the last  *)
(* commit HEAD has in common with the base the attempt was given.          *)
(***************************************************************************)
EXTENDS FiniteSets

CONSTANTS
  Paths,      \* paths of regular files, none below another
  Contents,   \* what a file may contain
  Links,      \* symbolic links, contents of a path like any other
  Ignored     \* paths .gitignore names

Absent == "absent"

Values == Contents \cup Links \cup {Absent}
Trees == [Paths -> Values]
Checkouts == [head : Trees, fork : Trees, index : Trees, files : Trees]

ASSUME GitAssumption == Ignored \subseteq Paths

Differ(a, b) == {p \in Paths : a[p] # b[p]}

\* A checkout of a commit.
Fresh(tree) == [head |-> tree, fork |-> tree, index |-> tree, files |-> tree]

\* git diff base...HEAD goes from the common commit to HEAD; when the two have
\* none it fails, and the caller reads the empty output (fork = head here).
Committed(c) == Differ(c.fork, c.head)
\* git diff --cached
Staged(c) == Differ(c.head, c.index)
\* git diff: tracked files only
Unstaged(c) == {p \in Differ(c.index, c.files) : c.index[p] # Absent}
\* git ls-files --others --exclude-standard
Untracked(c) == {p \in Paths \ Ignored : c.index[p] = Absent /\ c.files[p] # Absent}

-------------------------------------------------------------------------------
\* What a user or a worker does to a checkout.
Edit(c, p, v) == [c EXCEPT !.files[p] = v]
Stage(c) ==     \* git add --all
  [c EXCEPT !.index = [p \in Paths |->
     IF p \in Ignored /\ c.index[p] = Absent THEN Absent ELSE c.files[p]]]
Commit(c) == [c EXCEPT !.head = c.index]
Unstage(c, p) == [c EXCEPT !.index[p] = Absent]    \* git rm --cached
\* git reset --hard to an earlier commit, which becomes the common one.
ResetTo(c, tree) ==
  [head |-> tree, fork |-> tree, index |-> tree,
   files |-> [p \in Paths |-> IF c.index[p] = Absent /\ tree[p] = Absent
                              THEN c.files[p] ELSE tree[p]]]
\* git checkout --orphan and a commit: nothing in common any more.
Orphan(c) == [c EXCEPT !.head = c.index, !.fork = c.index]

===============================================================================
