SPECIFICATION FairSpec
CONSTANTS
  Configs <- AllConfigs
  MaxOrdinal = 3
  Environment = {"fg_cancel", "interrupt", "run_crash", "crash", "raise", "overlay"}
INVARIANTS
  AttemptsConsistent
  WinnerPassedVerification
  VerifiedIffWinner
  WinnerWorkspaceKept
  NoWorkAfterReturn
  ReturnMatchesRows
  PassNotWasted
PROPERTIES
  ImplementsArbitration
  TaskSettles
