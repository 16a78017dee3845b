SPECIFICATION FairSpec
CONSTANTS
  Tasks = {1, 2, 3}
  Keys = {"db", "api"}
  Workloads <- AllWorkloads
  Environment = {"fg_cancel", "interrupt", "raise", "crash"}
INVARIANTS
  LoopConsistent
  ResourceWaitFree
PROPERTIES
  ImplementsDag
  WorkConserving
  RunSettles
