SPECIFICATION Spec
CONSTANTS
  Handlers = {h1, h2}
  Uploads <- TwoUploads
  Targets <- TwoTargets
  Target <- TargetOf
  Size <- SizeOf
  OffDevice = {"far"}
  MaxBody = 2
  None = None
PROPERTIES AppendsAtItsOffset
