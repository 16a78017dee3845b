SPECIFICATION Spec
CONSTANTS
  p1 = p1
  p2 = p2
  p3 = p3
  Processes = {p1, p2, p3}
  Commands <- ThreeCommands
  NoPlan = NoPlan
  Proposals = {"split", "knot"}
  MaxHead = 1
  MaxRequests = 2
  MaxEdits = 1
  Environment = {"scan_error"}
INVARIANTS
  PlanningConsistent
  ReviewedIsStored
  ExecutedIsApproved
PROPERTIES
  CacheKeepsItsBytes
CONSTRAINT
  Explored
