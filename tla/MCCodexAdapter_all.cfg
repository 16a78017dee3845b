SPECIFICATION FairSpec
CONSTANTS
  Lines = {"turn.completed", "garbage"}
  MaxLines = 2
  PipeSize = 1
  QueueSize = 1
  Helpers = {"none", "group", "detached"}
  Environment = {"cancel", "ingest_error", "read_error"}
INVARIANTS
  StreamConsistent
  NothingLostInTime
  CancelledChildIsDead
PROPERTIES
  StreamEnds
