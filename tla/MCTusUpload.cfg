SPECIFICATION UploadSpec
CONSTANTS
  Handlers = {h1, h2}
  Uploads = {u1, u2}
  Targets = {"file"}
  Target <- TheTarget
  Size <- TwoBytes
  OffDevice = {}
  MaxBody = 1
  Chunk = 1
  Tabs = {t1, t2}
  Runs = {}
  MaxTrouble = 3
  None = None
INVARIANTS NeverAhead DoneEndsSession NoSessionIsForgotten
SYMMETRY ClientSymmetry
CHECK_DEADLOCK FALSE
