SPECIFICATION Spec
CONSTANTS
  Modes = {"block", "head", "snapshot"}
  Paths = {"f", "g", "log"}
  Contents = {"base", "new"}
  Links = {"link"}
  Ignored = {"log"}
  FirstTree <- OneFile
  MaxEdits = 4
INVARIANTS
  ViewConsistent
  QuietViewIsExact
