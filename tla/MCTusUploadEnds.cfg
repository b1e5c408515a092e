SPECIFICATION UploadSpec
CONSTANTS
  Handlers = {h1, h2}
  Uploads = {u1, u2}
  Targets = {"file"}
  Target <- TheTarget
  Size <- OneByte
  OffDevice = {}
  MaxBody = 1
  Chunk = 1
  Tabs = {t1}
  Runs = {r1}
  MaxTrouble = 2
  None = None
PROPERTIES EveryAttemptEnds RequestsAnswered
CHECK_DEADLOCK FALSE
