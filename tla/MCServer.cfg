SPECIFICATION MCSpec
CONSTANTS
  Handlers = {h1, h2}
  Uploads <- TwoUploads
  Targets <- TwoTargets
  Target <- TargetOf
  Size <- SizeOf
  OffDevice = {"far"}
  MaxBody = 2
  None = None
  ra = ra
  rb = rb
  sa = sa
  sb = sb
  p1 = p1
  p2 = p2
  p3 = p3
  Roots <- MCRoots
  Writable <- MCWritable
  Pids = {p1, p2, p3}
  Commands <- MCCommands
  Plans <- MCPlans
  MaxFaults = 1
  Absent = Absent
  Servers = {sa, sb}
  Tokenless = {}
  Writeless = {sb}
  Lifetime <- MCLifetime
  MaxStarts <- MCMaxStarts
  MaxRequests = 3
  MaxTime = 2
  U64 = 4
  Nil = Nil
  Global = Global
  Missing = Missing
  Torn = Torn
  Unset = Unset
INVARIANTS
  NothingToldIsLost
  CompleteMeansPublished
  PairedUnlessFaulted
  DaemonsAreFound
  ReadOnlyIsHonoured
  AccessLasts
  RangesAreExact
PROPERTIES
  SpoolOnlyGrows
  ImplementsAtomicUpload
SYMMETRY HandlerSymmetry
CHECK_DEADLOCK FALSE
