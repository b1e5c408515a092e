SPECIFICATION Spec
CONSTANTS
  a = a
  b = b
  None = None
  Foreign = Foreign
  HashingId = HashingId
  VerifyingId = VerifyingId
  Workers = {w1, w2}
  Paths <- MCPaths
  Dropped = {a}
  Renamed <- MCRenamed
  Materialises = {FALSE}
  MaxItems = 2
  MaxSessions = 2
  MaxClicks = 2
INVARIANT DropsOnlySameTarget
CHECK_DEADLOCK FALSE
