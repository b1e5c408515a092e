SPECIFICATION MCSpec
CONSTANTS
    na = na
    nb = nb
    meta = meta
    c1 = c1
    c2 = c2
    c3 = c3
    r1 = r1
    r2 = r2
    t1 = t1
    t2 = t2
    i1 = i1
    i2 = i2
    i3 = i3
    i4 = i4
    Names = {na, nb}
    Meta = meta
    Depth = 3
    Contents = {c1, c2, c3}
    Requests = {r1, r2}
    Bodies <- MCBodies
    Trees <- MCTrees
    Dir = Dir
    Nothing = Nothing
    Empty = Empty
    NoName = NoName
    MaxFailures = 1
    EntryNames = {na, nb}
    MaxDepth = 3
    Tabs = {t1, t2}
    Tasks = {r1, r2}
    Missing = Missing
    FileContents = {c1, c2, c3}
    Marker = Marker
    TabOf <- MCTabOf
    Jobs <- MCJobs
    Uploads <- MCUploads
    Looked <- MCLooked
    Buckets <- MCBuckets
    MaxFetches = 1
    MaxMishaps = 1
    Directory = Directory
    BlobIds = {i1, i2, i3, i4}
    Calls <- MCCalls
    Previewed <- MCPreviewed
    Databases <- MCDatabases
    MaxUrls = 2
    MaxAborts = 1
CHECK_DEADLOCK FALSE
INVARIANTS
    ContentIsKept
    ListingsAreAnnounced
    ObjectsAreKept
    
    TreeIsWhole
    UrlsAreCurrent
PROPERTY
    CopiesAreWhole
