SPECIFICATION Spec
CONSTANTS
  Proposals <- AllProposals
  PathOrder <- SomePaths
  OverlapPercent = 35
  MaxRootSlots = 2
  Files <- SomeFiles
  Dotted = {"x"}
INVARIANTS
  WritersExclusive
  ProposalPreserved
  PolicyIsTheScope
  AutoApprovedAsProposed
  CleanIsKept
  AnalysisIsTrue
