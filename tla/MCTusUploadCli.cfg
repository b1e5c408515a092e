SPECIFICATION UploadSpec
CONSTANTS
  Handlers = {h1, h2}
  Uploads = {u1, u2}
  Targets = {"file"}
  Target <- TheTarget
  Size <- TwoBytes
  OffDevice = {}
  MaxBody = 1
  Chunk = 1
  Tabs = {}
  Runs = {r1}
  MaxTrouble = 2
  None = None
INVARIANTS DoneMeansPublished
CHECK_DEADLOCK FALSE
