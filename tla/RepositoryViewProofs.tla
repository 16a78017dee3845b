------------------------- MODULE RepositoryViewProofs -------------------------
(***************************************************************************)
(* Proofs about RepositoryView, for every set of paths, contents, ignored  *)
(* paths and modes, and any number of user steps.                          *)
(*                                                                         *)
(* The argument.  The preparation reads the repository five times or more, *)
(* and between two reads the user may change everything.  What it keeps    *)
(* from each read (the commit, the names to copy, the names to remove) is  *)
(* followed by two families of facts.  The first hold whatever the user    *)
(* does: everything in the clone, and every removal still to be done, has  *)
(* been in the repository at some moment of the preparation.  The second   *)
(* hold as long as the user has kept still: the names listed are those of  *)
(* the repository as it is now, so what is neither listed nor copied yet   *)
(* is in the clone as it is on disk.                                       *)
(***************************************************************************)
EXTENDS RepositoryView, TLAPS

Cloned == {"clone", "others", "deleted", "copy"}

\* The clone's index and HEAD are the commit read first until the last commit.
CloneIsAtTheCommit ==
  phase \in Cloned =>
    /\ mode = "snapshot" /\ clone.head = sha /\ clone.index = sha
    /\ phase # "copy" => clone.files = sha

\* Whatever the user does: nothing is invented.
SeenSoFar ==
  phase # "start" => \A p \in Paths :
    /\ sha[p] \in seen[p]
    /\ Running => Shown(source)[p] \subseteq seen[p]
    /\ phase \in Cloned => clone.files[p] \in seen[p]
    /\ phase = "copy" /\ p \in names.deleted => Absent \in seen[p]
    /\ phase = "ready" => clone.head[p] \in seen[p]

\* What is still to be copied is as the commit has it, and not to be removed.
NamesAreApart ==
  phase = "copy" =>
    \A p \in names.changed : p \notin names.deleted /\ clone.files[p] = sha[p]

\* While the user keeps still: the repository is at the commit read first, what
\* was listed is what git would list now, and the rest has been copied.
Plain == {p \in Paths \ Ignored : Known(p) \/ source.head[p] = Absent}
QuietSoFar ==
  quiet /\ phase # "start" =>
    /\ sha = source.head
    /\ phase = "others" => names.changed = Modified
    /\ phase \in {"deleted", "copy"} => \A p \in names.changed : source.files[p] # Absent
    /\ phase = "deleted" => names.changed = Modified \cup Untracked(source)
    /\ phase = "copy" =>
         /\ \A p \in Plain \ (names.changed \cup names.deleted) :
              clone.files[p] = source.files[p]
         /\ \A p \in Plain \cap names.deleted : source.files[p] = Absent

ViewInv ==
  /\ TypeOK /\ CloneIsAtTheCommit /\ SeenSoFar /\ NamesAreApart /\ QuietSoFar
  /\ RefusedForAReason /\ QuietViewIsExact

-------------------------------------------------------------------------------
\* A new checkout holds one tree everywhere.
LEMMA FreshCheckout ==
  ASSUME NEW tree \in Trees
  PROVE  Fresh(tree) \in Checkouts
BY DEF Fresh, Checkouts

\* Editing changes one file and nothing git has recorded.
LEMMA Edited ==
  ASSUME NEW c \in Checkouts, NEW p \in Paths, NEW v \in Values
  PROVE  /\ Edit(c, p, v) \in Checkouts
         /\ Edit(c, p, v).head = c.head /\ Edit(c, p, v).fork = c.fork
         /\ Edit(c, p, v).index = c.index
         /\ Edit(c, p, v).files = [c.files EXCEPT ![p] = v]
BY DEF Edit, Checkouts, Trees

\* git add --all puts every file into the index but new ignored ones.
LEMMA StagedAll ==
  ASSUME NEW c \in Checkouts
  PROVE  /\ Stage(c) \in Checkouts
         /\ Stage(c).head = c.head /\ Stage(c).fork = c.fork
         /\ Stage(c).files = c.files
         /\ \A p \in Paths : Stage(c).index[p] =
              IF p \in Ignored /\ c.index[p] = Absent THEN Absent ELSE c.files[p]
BY DEF Stage, Checkouts, Trees, Values

\* git commit makes the index the tree of HEAD.
LEMMA Committing ==
  ASSUME NEW c \in Checkouts
  PROVE  /\ Commit(c) \in Checkouts
         /\ Commit(c).head = c.index /\ Commit(c).fork = c.fork
         /\ Commit(c).index = c.index /\ Commit(c).files = c.files
BY DEF Commit, Checkouts

\* git rm --cached takes one path out of the index and keeps its file.
LEMMA Unstaging ==
  ASSUME NEW c \in Checkouts, NEW p \in Paths
  PROVE  /\ Unstage(c, p) \in Checkouts
         /\ Unstage(c, p).head = c.head /\ Unstage(c, p).fork = c.fork
         /\ Unstage(c, p).files = c.files
BY DEF Unstage, Checkouts, Trees, Values

\* At first nothing has been read.
LEMMA ViewInvInit == Init => ViewInv
<1> SUFFICES ASSUME Init PROVE ViewInv
  OBVIOUS
<1>1. TypeOK
  <2>1. source \in Checkouts /\ clone \in Checkouts /\ sha \in Trees
    BY ViewAssumption, FreshCheckout DEF Init
  <2>2. names \in [changed : SUBSET Paths, deleted : SUBSET Paths]
        /\ seen \in [Paths -> SUBSET Values]
    BY DEF Init, NoNames
  <2>3. edits \in 0..MaxEdits /\ quiet \in BOOLEAN
    BY ViewAssumption DEF Init
  <2>4. QED
    BY <2>1, <2>2, <2>3 DEF Init, TypeOK
<1>2. phase = "start"
  BY DEF Init
<1>3. QED
  BY <1>1, <1>2 DEF ViewInv, CloneIsAtTheCommit, SeenSoFar, NamesAreApart,
     QuietSoFar, RefusedForAReason, QuietViewIsExact, Cloned

\* A step of the user leaves a checkout.
LEMMA UserLeavesACheckout ==
  ASSUME TypeOK, UserStep
  PROVE  source' \in Checkouts
<1>1. source \in Checkouts
  BY DEF TypeOK
<1>2. \A p \in Paths, v \in Values : Edit(source, p, v) \in Checkouts
  BY <1>1, Edited
<1>3. Stage(source) \in Checkouts /\ Commit(source) \in Checkouts
  BY <1>1, StagedAll, Committing
<1>4. \A p \in Paths : Unstage(source, p) \in Checkouts
  BY <1>1, Unstaging
<1>5. QED
  BY <1>2, <1>3, <1>4 DEF UserStep

\* Every step keeps it.
LEMMA ViewInvNext == ViewInv /\ [Next]_vars => ViewInv'
<1> SUFFICES ASSUME ViewInv, [Next]_vars PROVE ViewInv'
  OBVIOUS
<1>0. /\ TypeOK /\ CloneIsAtTheCommit /\ SeenSoFar /\ NamesAreApart /\ QuietSoFar
      /\ RefusedForAReason /\ QuietViewIsExact
  BY DEF ViewInv
<1>1. CASE UserStep
  <2>1. /\ UNCHANGED <<mode, phase, sha, clone, names>> /\ phase \notin {"refused", "ready"}
        /\ quiet' = (quiet /\ ~Running)
        /\ seen' = IF Running THEN [p \in Paths |-> seen[p] \cup Shown(source')[p]] ELSE seen
        /\ edits' = edits + 1 /\ edits < MaxEdits
    BY <1>1 DEF UserStep
  <2>2. source' \in Checkouts
    BY <1>0, <1>1, UserLeavesACheckout
  <2>3. Running <=> phase # "start"
    BY <2>1 DEF Running
  <2>4. seen' \in [Paths -> SUBSET Values]
    <3>1. \A p \in Paths : Shown(source')[p] \subseteq Values
      BY <2>2 DEF Shown, Checkouts, Trees, Values
    <3>2. QED
      BY <1>0, <2>1, <3>1 DEF TypeOK
  <2>5. TypeOK'
    <3>1. edits' \in 0..MaxEdits
      BY <1>0, <2>1, ViewAssumption DEF TypeOK
    <3>2. quiet' \in BOOLEAN
      BY <2>1
    <3>3. QED
      BY <1>0, <2>1, <2>2, <2>4, <3>1, <3>2 DEF TypeOK
  <2>6. CloneIsAtTheCommit' /\ NamesAreApart'
    BY <1>0, <2>1 DEF CloneIsAtTheCommit, NamesAreApart
  <2>7. SeenSoFar'
    <3>1. ASSUME phase # "start", NEW p \in Paths
          PROVE  seen[p] \subseteq seen'[p] /\ Shown(source')[p] \subseteq seen'[p]
      BY <1>0, <2>1, <2>3, <3>1 DEF TypeOK
    <3>2. QED
      BY <1>0, <2>1, <2>3, <3>1 DEF SeenSoFar
  <2>8. QuietSoFar'
    <3>1. phase' # "start" => ~quiet'
      BY <2>1, <2>3
    <3>2. QED
      BY <3>1 DEF QuietSoFar
  <2>9. QED
    BY <2>1, <2>5, <2>6, <2>7, <2>8 DEF ViewInv, RefusedForAReason, QuietViewIsExact
<1>2. CASE ReadHead
  <2>1. /\ phase = "start" /\ phase' = "status" /\ sha' = source.head /\ quiet' = TRUE
        /\ seen' = [p \in Paths |-> {source.head[p]} \cup Shown(source)[p]]
        /\ UNCHANGED <<mode, source, clone, names, edits>>
    BY <1>2 DEF ReadHead
  <2>2. source.head \in Trees /\ seen' \in [Paths -> SUBSET Values]
    BY <1>0, <2>1 DEF TypeOK, Checkouts, Trees, Shown, Values
  <2>3. TypeOK'
    BY <1>0, <2>1, <2>2 DEF TypeOK
  <2>4. SeenSoFar'
    BY <2>1 DEF SeenSoFar, Cloned, Shown
  <2>5. QED
    BY <2>1, <2>3, <2>4 DEF ViewInv, CloneIsAtTheCommit, NamesAreApart, QuietSoFar,
       RefusedForAReason, QuietViewIsExact, Cloned
<1>3. CASE ReadStatus
  <2>1. phase = "status" /\ UNCHANGED <<mode, source, sha, names, edits, quiet, seen>>
    BY <1>3 DEF ReadStatus
  <2>2. \/ Dirty /\ mode = "block" /\ phase' = "refused" /\ clone' = clone
        \/ ~Dirty /\ mode # "snapshot" /\ phase' = "ready" /\ clone' = Fresh(sha)
        \/ mode = "head" /\ phase' = "ready" /\ clone' = Fresh(sha)
        \/ mode = "snapshot" /\ phase' = "clone" /\ clone' = Fresh(sha)
    BY <1>0, <1>3, ViewAssumption DEF ReadStatus, ManagedClone, TypeOK
  <2>3. Fresh(sha) \in Checkouts /\ Fresh(sha).head = sha /\ Fresh(sha).index = sha
        /\ Fresh(sha).files = sha
    BY <1>0, FreshCheckout DEF TypeOK, Fresh
  <2>4. TypeOK'
    BY <1>0, <2>1, <2>2, <2>3 DEF TypeOK
  <2>5. CloneIsAtTheCommit' /\ NamesAreApart'
    BY <2>2, <2>3, <2>1 DEF CloneIsAtTheCommit, NamesAreApart, Cloned
  <2>6. SeenSoFar'
    BY <1>0, <2>1, <2>2, <2>3 DEF SeenSoFar, Running, Cloned
  <2>7. QuietSoFar'
    BY <1>0, <2>1, <2>2 DEF QuietSoFar
  <2>8. RefusedForAReason'
    BY <2>1, <2>2 DEF RefusedForAReason, Dirty
  <2>9. QuietViewIsExact'
    <3> SUFFICES ASSUME phase' = "ready", quiet, NEW p \in Paths \ Ignored,
                        Known(p) \/ source.head[p] = Absent
                 PROVE  clone'.head[p] = IF mode = "head" THEN source.head[p] ELSE source.files[p]
      BY <2>1 DEF QuietViewIsExact, Known, View
    <3>1. clone'.head = sha /\ sha = source.head
      BY <1>0, <2>1, <2>2, <2>3 DEF QuietSoFar
    <3>2. ASSUME ~Dirty PROVE source.head[p] = source.files[p]
      <4>1. source.head[p] = source.index[p]
        BY <3>2 DEF Dirty, Staged, Differ
      <4>2. source.index[p] # Absent => source.index[p] = source.files[p]
        BY <3>2 DEF Dirty, Unstaged, Differ
      <4>3. source.index[p] = Absent => source.files[p] = Absent
        BY <3>2 DEF Dirty, Untracked
      <4>4. QED
        BY <4>1, <4>2, <4>3
    <3>3. QED
      BY <2>2, <3>1, <3>2
  <2>10. QED
    BY <2>4, <2>5, <2>6, <2>7, <2>8, <2>9 DEF ViewInv
<1>4. CASE ListChanged
  <2>1. /\ phase = "clone" /\ phase' = "others" /\ names' = [names EXCEPT !.changed = Modified]
        /\ UNCHANGED <<mode, source, sha, clone, edits, quiet, seen>>
    BY <1>4 DEF ListChanged
  <2>2. names' \in [changed : SUBSET Paths, deleted : SUBSET Paths] /\ names'.changed = Modified
    BY <1>0, <2>1 DEF TypeOK, Modified, Differ
  <2>3. TypeOK'
    BY <1>0, <2>1, <2>2 DEF TypeOK
  <2>4. CloneIsAtTheCommit' /\ NamesAreApart' /\ SeenSoFar'
    BY <1>0, <2>1 DEF CloneIsAtTheCommit, NamesAreApart, SeenSoFar, Cloned, Running
  <2>5. Modified' = Modified
    BY <2>1 DEF Modified, Known
  <2>6. QuietSoFar'
    BY <1>0, <2>1, <2>2, <2>5 DEF QuietSoFar
  <2>7. QED
    BY <2>1, <2>3, <2>4, <2>6 DEF ViewInv, RefusedForAReason, QuietViewIsExact
<1>5. CASE ListOthers
  <2>1. /\ phase = "others" /\ phase' = "deleted"
        /\ names' = [names EXCEPT !.changed = @ \cup Untracked(source)]
        /\ UNCHANGED <<mode, source, sha, clone, edits, quiet, seen>>
    BY <1>5 DEF ListOthers
  <2>2. names' \in [changed : SUBSET Paths, deleted : SUBSET Paths]
        /\ names'.changed = names.changed \cup Untracked(source)
    BY <1>0, <2>1 DEF TypeOK, Untracked
  <2>3. TypeOK'
    BY <1>0, <2>1, <2>2 DEF TypeOK
  <2>4. CloneIsAtTheCommit' /\ NamesAreApart' /\ SeenSoFar'
    BY <1>0, <2>1 DEF CloneIsAtTheCommit, NamesAreApart, SeenSoFar, Cloned, Running
  <2>5. Modified' = Modified /\ Untracked(source)' = Untracked(source)
    BY <2>1 DEF Modified, Known
  <2>6. QuietSoFar'
    <3>1. \A p \in Modified \cup Untracked(source) : source.files[p] # Absent
      BY DEF Modified, Untracked
    <3>2. QED
      BY <1>0, <2>1, <2>2, <2>5, <3>1 DEF QuietSoFar
  <2>7. QED
    BY <2>1, <2>3, <2>4, <2>6 DEF ViewInv, RefusedForAReason, QuietViewIsExact
<1>6. CASE ListDeleted
  <2>1. /\ phase = "deleted" /\ phase' = "copy"
        /\ names' = [changed |-> names.changed \ Deleted, deleted |-> Deleted]
        /\ UNCHANGED <<mode, source, sha, clone, edits, quiet, seen>>
    BY <1>6 DEF ListDeleted
  <2>2. names' \in [changed : SUBSET Paths, deleted : SUBSET Paths]
        /\ names'.changed = names.changed \ Deleted /\ names'.deleted = Deleted
    BY <1>0, <2>1 DEF TypeOK, Deleted
  <2>3. TypeOK'
    BY <1>0, <2>1, <2>2 DEF TypeOK
  <2>4. CloneIsAtTheCommit' /\ NamesAreApart'
    BY <1>0, <2>1, <2>2 DEF CloneIsAtTheCommit, NamesAreApart, Cloned
  <2>5. SeenSoFar'
    <3>1. ASSUME NEW p \in Deleted PROVE Absent \in seen[p]
      <4>1. p \in Paths /\ Absent \in Shown(source)[p]
        BY DEF Deleted, Known, Shown
      <4>2. QED
        BY <1>0, <2>1, <4>1 DEF SeenSoFar, Running
    <3>2. QED
      BY <1>0, <2>1, <2>2, <3>1 DEF SeenSoFar, Running, Cloned
  <2>6. QuietSoFar'
    <3> SUFFICES ASSUME quiet
                 PROVE  /\ sha = source.head
                        /\ \A p \in names'.changed : source.files[p] # Absent
                        /\ \A p \in Plain \ (names'.changed \cup names'.deleted) :
                             clone.files[p] = source.files[p]
                        /\ \A p \in Plain \cap names'.deleted : source.files[p] = Absent
      BY <2>1 DEF QuietSoFar, Plain, Known
    <3>1. /\ sha = source.head /\ clone.files = sha
          /\ names.changed = Modified \cup Untracked(source)
      BY <1>0, <2>1 DEF QuietSoFar, CloneIsAtTheCommit, Cloned
    <3>2. \A p \in names'.changed : source.files[p] # Absent
      BY <2>2, <3>1 DEF Modified, Untracked
    <3>3. \A p \in Plain \cap Deleted : source.files[p] = Absent
      BY DEF Plain, Deleted
    <3>4. ASSUME NEW p \in Plain \ (Modified \cup Untracked(source) \cup Deleted)
          PROVE  source.head[p] = source.files[p]
      BY <3>4 DEF Plain, Modified, Untracked, Deleted, Known, Differ
    <3>5. QED
      BY <2>2, <3>1, <3>2, <3>3, <3>4
  <2>7. QED
    BY <2>1, <2>3, <2>4, <2>5, <2>6 DEF ViewInv, RefusedForAReason, QuietViewIsExact
<1>7. ASSUME NEW p \in Paths, Remove(p) PROVE ViewInv'
  <2>1. /\ phase = "copy" /\ p \in names.deleted
        /\ names' = [names EXCEPT !.deleted = @ \ {p}]
        /\ clone' = Edit(clone, p, Absent)
        /\ UNCHANGED <<mode, source, phase, sha, edits, quiet, seen>>
    BY <1>7 DEF Remove
  <2>2. /\ names' \in [changed : SUBSET Paths, deleted : SUBSET Paths]
        /\ names'.changed = names.changed /\ names'.deleted = names.deleted \ {p}
    BY <1>0, <2>1 DEF TypeOK
  <2>3. /\ clone' \in Checkouts /\ clone'.head = clone.head /\ clone'.index = clone.index
        /\ clone'.files = [clone.files EXCEPT ![p] = Absent]
    BY <1>0, <2>1, Edited DEF TypeOK, Values
  <2>4. \A q \in Paths : clone'.files[q] = IF q = p THEN Absent ELSE clone.files[q]
    BY <1>0, <2>3 DEF TypeOK, Checkouts, Trees
  <2>5. TypeOK'
    BY <1>0, <2>1, <2>2, <2>3 DEF TypeOK
  <2>6. CloneIsAtTheCommit' /\ NamesAreApart'
    BY <1>0, <2>1, <2>2, <2>3, <2>4 DEF CloneIsAtTheCommit, NamesAreApart, Cloned, TypeOK
  <2>7. SeenSoFar'
    BY <1>0, <2>1, <2>2, <2>3, <2>4 DEF SeenSoFar, Running, Cloned
  <2>8. QuietSoFar'
    BY <1>0, <2>1, <2>2, <2>4 DEF QuietSoFar, Plain, Known
  <2>9. QED
    BY <2>1, <2>5, <2>6, <2>7, <2>8 DEF ViewInv, RefusedForAReason, QuietViewIsExact
<1>8. ASSUME NEW p \in Paths, Copy(p),
             source.files[p] \in Links \cup {Absent} \/ clone.files[p] \in Links
      PROVE  ViewInv'
  <2>1. /\ phase = "copy" /\ p \in names.changed /\ phase' = "refused"
        /\ UNCHANGED <<mode, source, sha, clone, names, edits, quiet, seen>>
    BY <1>8 DEF Copy
  <2>2. clone.files[p] = sha[p] /\ mode = "snapshot"
    BY <1>0, <2>1 DEF NamesAreApart, CloneIsAtTheCommit, Cloned
  <2>3. quiet => source.files[p] # Absent
    BY <1>0, <2>1 DEF QuietSoFar
  <2>4. RefusedForAReason'
    BY <1>8, <2>1, <2>2, <2>3 DEF RefusedForAReason
  <2>5. QuietSoFar'
    BY <1>0, <2>1 DEF QuietSoFar
  <2>6. TypeOK' /\ SeenSoFar'
    BY <1>0, <2>1 DEF TypeOK, SeenSoFar, Running, Cloned
  <2>7. QED
    BY <2>1, <2>4, <2>5, <2>6 DEF ViewInv, CloneIsAtTheCommit, NamesAreApart,
       QuietViewIsExact, Cloned
<1>9. ASSUME NEW p \in Paths, Copy(p),
             source.files[p] \notin Links \cup {Absent}, clone.files[p] \notin Links
      PROVE  ViewInv'
  <2>1. /\ phase = "copy" /\ p \in names.changed /\ names.deleted = {}
        /\ names' = [names EXCEPT !.changed = @ \ {p}]
        /\ clone' = Edit(clone, p, source.files[p])
        /\ UNCHANGED <<mode, source, phase, sha, edits, quiet, seen>>
    BY <1>9 DEF Copy
  <2>2. /\ names' \in [changed : SUBSET Paths, deleted : SUBSET Paths]
        /\ names'.changed = names.changed \ {p} /\ names'.deleted = {}
    BY <1>0, <2>1 DEF TypeOK
  <2>3. source.files[p] \in Values
    BY <1>0 DEF TypeOK, Checkouts, Trees
  <2>4. /\ clone' \in Checkouts /\ clone'.head = clone.head /\ clone'.index = clone.index
        /\ clone'.files = [clone.files EXCEPT ![p] = source.files[p]]
    BY <1>0, <2>1, <2>3, Edited DEF TypeOK
  <2>5. \A q \in Paths : clone'.files[q] = IF q = p THEN source.files[p] ELSE clone.files[q]
    BY <1>0, <2>4 DEF TypeOK, Checkouts, Trees
  <2>6. TypeOK'
    BY <1>0, <2>1, <2>2, <2>4 DEF TypeOK
  <2>7. CloneIsAtTheCommit' /\ NamesAreApart'
    BY <1>0, <2>1, <2>2, <2>4, <2>5 DEF CloneIsAtTheCommit, NamesAreApart, Cloned, TypeOK
  <2>8. SeenSoFar'
    <3>1. source.files[p] \in seen[p]
      BY <1>0, <2>1 DEF SeenSoFar, Running, Shown
    <3>2. QED
      BY <1>0, <2>1, <2>2, <2>4, <2>5, <3>1 DEF SeenSoFar, Running, Cloned
  <2>9. QuietSoFar'
    BY <1>0, <2>1, <2>2, <2>5 DEF QuietSoFar, Plain, Known
  <2>10. QED
    BY <2>1, <2>6, <2>7, <2>8, <2>9 DEF ViewInv, RefusedForAReason, QuietViewIsExact
<1>10. CASE CommitSnapshot
  <2>1. /\ phase = "copy" /\ names = NoNames /\ phase' = "ready"
        /\ clone' = Commit(Stage(clone))
        /\ UNCHANGED <<mode, source, sha, names, edits, quiet, seen>>
    BY <1>10 DEF CommitSnapshot
  <2>2. clone' \in Checkouts /\ clone'.head = Stage(clone).index
    BY <1>0, <2>1, StagedAll, Committing DEF TypeOK
  <2>3. \A p \in Paths : clone'.head[p] =
          IF p \in Ignored /\ clone.index[p] = Absent THEN Absent ELSE clone.files[p]
    BY <1>0, <2>2, StagedAll DEF TypeOK
  <2>4. clone.index = sha /\ mode = "snapshot"
    BY <1>0, <2>1 DEF CloneIsAtTheCommit, Cloned
  <2>5. TypeOK'
    BY <1>0, <2>1, <2>2 DEF TypeOK
  <2>6. SeenSoFar'
    <3>1. \A p \in Paths : clone'.head[p] \in seen[p]
      BY <1>0, <2>1, <2>3, <2>4 DEF SeenSoFar, Cloned
    <3>2. QED
      BY <1>0, <2>1, <3>1 DEF SeenSoFar, Running, Cloned
  <2>7. QuietSoFar'
    BY <1>0, <2>1 DEF QuietSoFar
  <2>8. QuietViewIsExact'
    <3>1. ASSUME quiet, NEW p \in Plain PROVE clone'.head[p] = source.files[p]
      <4>1. names.changed = {} /\ names.deleted = {} /\ p \in Paths \ Ignored
        BY <2>1 DEF NoNames, Plain
      <4>2. clone.files[p] = source.files[p]
        BY <1>0, <2>1, <3>1, <4>1 DEF QuietSoFar
      <4>3. QED
        BY <2>3, <4>1, <4>2
    <3>2. QED
      BY <2>1, <2>4, <3>1 DEF QuietViewIsExact, View, Plain, Known
  <2>9. QED
    BY <2>1, <2>5, <2>6, <2>7, <2>8 DEF ViewInv, CloneIsAtTheCommit, NamesAreApart,
       RefusedForAReason, Cloned
<1>11. CASE UNCHANGED vars
  BY <1>0, <1>11 DEF vars, ViewInv, TypeOK, CloneIsAtTheCommit, SeenSoFar,
     NamesAreApart, QuietSoFar, RefusedForAReason, QuietViewIsExact, View, Running,
     Modified, Known, Plain, Dirty
<1>12. QED
  BY <1>1, <1>2, <1>3, <1>4, <1>5, <1>6, <1>7, <1>8, <1>9, <1>10, <1>11
  DEF Next, Prepare, Finished

\* Every state of every preparation has it.
THEOREM ViewInvariant == Spec => []ViewInv
  BY ViewInvInit, ViewInvNext, PTL DEF Spec

-------------------------------------------------------------------------------
\* Whatever the user does meanwhile, what comes out is explained by what the
\* repository held while the view was made: no file of the view has a content it
\* never had, and only a dirty repository, a link or a change stops it.
THEOREM ViewIsExplained == Spec => []ViewConsistent
<1>1. ViewInv => ViewConsistent
  BY DEF ViewInv, ViewConsistent, SeenSoFar, NothingInvented, View
<1>2. QED
  BY <1>1, ViewInvariant, PTL

\* If the user keeps still, the view is the commit, or every file git shows as
\* it is on disk, as its mode says.
THEOREM StillUserGetsTheFiles == Spec => []QuietViewIsExact
  BY ViewInvariant, PTL DEF ViewInv

===============================================================================
