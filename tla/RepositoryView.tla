---------------------------- MODULE RepositoryView ----------------------------
(***************************************************************************)
(* prepare_repository_view: the commit a plan and its workers start from.  *)
(* A clean repository is used as it is; otherwise a managed clone of the   *)
(* commit is made, and in snapshot mode the user's uncommitted files are   *)
(* copied into it and committed there.  The user may go on working in the  *)
(* repository between any two git commands and any two copies.             *)
(*                                                                         *)
(* Left out are failing git commands, directories, and a state directory   *)
(* inside the repository, all of which raise.                              *)
(***************************************************************************)
EXTENDS GitTrees, Naturals

CONSTANTS
  Modes,       \* dirty modes: "block", "head", "snapshot"
  FirstTree,   \* the commit the repository starts at
  MaxEdits     \* bound: the user's steps

ASSUME ViewAssumption ==
  Modes \subseteq {"block", "head", "snapshot"} /\ FirstTree \in Trees /\ MaxEdits \in Nat

VARIABLES
  mode,      \* the dirty mode asked for
  source,    \* the user's repository
  phase,     \* "start", "status", "clone", "others", "deleted", "copy", "refused" or "ready"
  sha,       \* the commit read first (by its tree)
  clone,     \* the managed clone
  names,     \* [changed, deleted]: paths git listed and not yet treated
  edits,     \* the user's steps so far
  quiet,     \* the user has not moved since the preparation started
  seen       \* seen[p]: contents path p has had meanwhile (history)

vars == <<mode, source, phase, sha, clone, names, edits, quiet, seen>>

NoNames == [changed |-> {}, deleted |-> {}]

TypeOK ==
  /\ mode \in Modes
  /\ source \in Checkouts /\ clone \in Checkouts /\ sha \in Trees
  /\ phase \in {"start", "status", "clone", "others", "deleted", "copy", "refused", "ready"}
  /\ names \in [changed : SUBSET Paths, deleted : SUBSET Paths]
  /\ edits \in 0..MaxEdits /\ quiet \in BOOLEAN
  /\ seen \in [Paths -> SUBSET Values]

Init ==
  /\ mode \in Modes
  /\ source = Fresh(FirstTree) /\ clone = Fresh(FirstTree) /\ sha = FirstTree
  /\ phase = "start" /\ names = NoNames
  /\ edits = 0 /\ quiet = TRUE
  /\ seen = [p \in Paths |-> {}]

\* The managed clone, checked out at the commit read first.
ManagedClone == Fresh(sha)

Running == phase \notin {"start", "refused", "ready"}

-------------------------------------------------------------------------------
\* What git shows of every path: its file, and nothing for a path the index
\* has lost (or both, as git status does).
Shown(s) ==
  [p \in Paths |-> {s.files[p]} \cup
     (IF s.head[p] # Absent /\ s.index[p] = Absent THEN {Absent} ELSE {})]

\* The user, at any time; what a file had before and has now is remembered
\* while a view is being prepared.
UserStep ==
  /\ phase \notin {"refused", "ready"} /\ edits < MaxEdits
  /\ \/ \E p \in Paths, v \in Values : source' = Edit(source, p, v)
     \/ source' = Stage(source)
     \/ source' = Commit(source)
     \/ \E p \in Paths : source' = Unstage(source, p)
  /\ source' # source
  /\ edits' = edits + 1
  /\ quiet' = (quiet /\ ~Running)
  /\ seen' = IF Running THEN [p \in Paths |-> seen[p] \cup Shown(source')[p]] ELSE seen
  /\ UNCHANGED <<mode, phase, sha, clone, names>>

\* git rev-parse base_ref^{commit}
ReadHead ==
  /\ phase = "start"
  /\ phase' = "status"
  /\ sha' = source.head
  /\ seen' = [p \in Paths |-> {source.head[p]} \cup Shown(source)[p]]
  /\ quiet' = TRUE
  /\ UNCHANGED <<mode, source, clone, names, edits>>

\* git status --porcelain --untracked-files=all
Dirty == Staged(source) \cup Unstaged(source) \cup Untracked(source) # {}

\* Fault: untracked files are not asked for.
ReadStatus_TrackedOnly ==
  /\ phase = "status"
  /\ LET dirty == Staged(source) \cup Unstaged(source) # {} IN
     CASE dirty /\ mode = "block" -> phase' = "refused" /\ UNCHANGED clone
       [] ~dirty /\ mode # "snapshot" -> phase' = "ready" /\ clone' = Fresh(sha)
       [] OTHER -> clone' = ManagedClone /\ phase' = IF mode = "head" THEN "ready" ELSE "clone"
  /\ UNCHANGED <<mode, source, sha, names, edits, quiet, seen>>

\* Blocked, used as it is, or cloned at the commit read before.
ReadStatus ==
  /\ phase = "status"
  /\ CASE Dirty /\ mode = "block" -> phase' = "refused" /\ UNCHANGED clone
       [] ~Dirty /\ mode # "snapshot" -> phase' = "ready" /\ clone' = Fresh(sha)
       [] OTHER -> clone' = ManagedClone /\ phase' = IF mode = "head" THEN "ready" ELSE "clone"
  /\ UNCHANGED <<mode, source, sha, names, edits, quiet, seen>>

\* git diff HEAD compares HEAD with the files git knows, and a path the
\* index has lost counts as deleted, whether or not the file is there.
Known(p) == source.index[p] # Absent
Modified == {p \in Differ(source.head, source.files) : Known(p) /\ source.files[p] # Absent}
Deleted == {p \in Paths : source.head[p] # Absent /\ (~Known(p) \/ source.files[p] = Absent)}

ListChanged ==
  /\ phase = "clone"
  /\ names' = [names EXCEPT !.changed = Modified]
  /\ phase' = "others"
  /\ UNCHANGED <<mode, source, sha, clone, edits, quiet, seen>>
ListOthers ==
  /\ phase = "others"
  /\ names' = [names EXCEPT !.changed = @ \cup Untracked(source)]
  /\ phase' = "deleted"
  /\ UNCHANGED <<mode, source, sha, clone, edits, quiet, seen>>
\* Fault: the filter for deletions is forgotten.
ListDeleted_NoFilter ==
  /\ phase = "deleted"
  /\ LET deleted == Deleted \cup Modified IN
     names' = [changed |-> names.changed \ deleted, deleted |-> deleted]
  /\ phase' = "copy"
  /\ UNCHANGED <<mode, source, sha, clone, edits, quiet, seen>>
ListDeleted ==
  /\ phase = "deleted"
  /\ names' = [changed |-> names.changed \ Deleted, deleted |-> Deleted]
  /\ phase' = "copy"
  /\ UNCHANGED <<mode, source, sha, clone, edits, quiet, seen>>

Remove(p) ==
  /\ phase = "copy" /\ p \in names.deleted
  /\ names' = [names EXCEPT !.deleted = @ \ {p}]
  /\ clone' = Edit(clone, p, Absent)
  /\ UNCHANGED <<mode, source, phase, sha, edits, quiet, seen>>

\* A file that has gone since, and a link on either side, raise.
Copy(p) ==
  /\ phase = "copy" /\ names.deleted = {} /\ p \in names.changed
  /\ IF source.files[p] \in Links \cup {Absent} \/ clone.files[p] \in Links
     THEN phase' = "refused" /\ UNCHANGED <<clone, names>>
     ELSE /\ clone' = Edit(clone, p, source.files[p])
          /\ names' = [names EXCEPT !.changed = @ \ {p}]
          /\ UNCHANGED phase
  /\ UNCHANGED <<mode, source, sha, edits, quiet, seen>>

\* git add --all and git commit, in the clone.
CommitSnapshot ==
  /\ phase = "copy" /\ names = NoNames
  /\ clone' = Commit(Stage(clone))
  /\ phase' = "ready"
  /\ UNCHANGED <<mode, source, sha, names, edits, quiet, seen>>

Finished == phase \in {"refused", "ready"} /\ UNCHANGED vars

Prepare ==
  \/ ReadHead \/ ReadStatus \/ ListChanged \/ ListOthers \/ ListDeleted
  \/ \E p \in Paths : Remove(p) \/ Copy(p)
  \/ CommitSnapshot

Next == UserStep \/ Prepare \/ Finished

Spec == Init /\ [][Next]_vars

-------------------------------------------------------------------------------
\* The commit planner and workers start from.
View == clone.head

\* If the user does not move meanwhile, the view is what its mode says: the
\* commit, with nothing uncommitted left out unless the mode asks for it, or
\* every file git shows as it is on disk.  Paths taken out of the index, and
\* ignored ones, are excepted.
QuietViewIsExact ==
  phase = "ready" /\ quiet =>
    LET plain == {p \in Paths \ Ignored : Known(p) \/ source.head[p] = Absent} IN
    \A p \in plain :
      View[p] = IF mode = "head" THEN source.head[p] ELSE source.files[p]

\* Even when the user does, no file of the view has a content it never had
\* while the view was made.
NothingInvented == phase = "ready" => \A p \in Paths : View[p] \in seen[p]

\* Only a dirty repository, a link or a file that vanished stops the
\* preparation; a user who keeps still and has no link gets a view.
RefusedForAReason ==
  phase = "refused" =>
    \/ mode = "block" /\ (Dirty \/ ~quiet)
    \/ mode = "snapshot" /\ (~quiet \/ \E p \in Paths : {source.files[p], sha[p]} \cap Links # {})

\* Whatever the user does meanwhile, the outcome is explained by what the
\* repository held while the view was made.
ViewConsistent == TypeOK /\ NothingInvented /\ RefusedForAReason

===============================================================================
