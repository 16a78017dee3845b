SPECIFICATION Spec
CONSTANTS
  p1 = p1
  p2 = p2
  a1 = a1
  a2 = a2
  Processes = {p1, p2}
  Attempts = {a1, a2}
  NoAttempt = none
  MaxRounds = 2
  MaxLaunches = 4
  Environment = {}
INVARIANT
  RoundLimit
