SPECIFICATION Spec
CONSTANTS
  root = root
  left = left
  right = right
  free = free
  Delivery = Delivery
  Outside = Outside
  Tasks = {root, left, right, free}
  Deps <- Diamond
  Scope <- Scopes
  Paths = {"f", "g", "l", "out", "pyc"}
  Contents = {"base", "new"}
  Links = {"toF", "toOut", "away"}
  Leads <- LinksLead
  Turn <- ByName
  Ignored = {}
  Filtered = {"pyc"}
  Base <- BaseTree
  Parent <- ParentTree
  Outputs = {"out"}
  Edits <- AnyEdit
  Habits = {"stage", "commit", "reset", "orphan"}
  Failures = {{"diff", "diff --cached", "ls-files --others"}}
  MaxSteps <- Steps
  MaxAttempts <- Attempts
CONSTRAINT OneByOne

  
PROPERTIES
  CarriesVerifiedDiff
  RepairContinues
  RefusedForAReason
  InheritedIsAllowed
