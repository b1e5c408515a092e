SPECIFICATION Spec
CONSTANTS
  a = a
  b = b
  None = None
  Foreign = Foreign
  HashingId = HashingId
  VerifyingId = VerifyingId
  Workers = {w1, w2}
  Paths <- MCPaths
  Dropped = {a}
  Renamed <- MCRenamed
  Materialises = {FALSE, TRUE}
  MaxItems = 2
  MaxSessions = 1
  MaxClicks = 2
INVARIANTS OneUploadAtATime ShownBusyIsWorked RefusedNeverFinishes
PROPERTIES OverIsOver QueueMoves
CHECK_DEADLOCK FALSE
