SPECIFICATION MCSpec
CONSTANTS
    sub = sub
    file = file
    a = a
    b = b
    z = z
    near = near
    far = far
    q = q
    Dirs <- MCDirs
    File = file
    None = None
    Items = {z, a, b}
    Sorted <- MCSorted
    Folders = {near, far}
    DirOf <- MCDirOf
    Dotted = {z}
    Matches <- MCMatches
    MaxChanges = 1
    Unset = Unset
    Capacity = 1
    MaxCalls = 3
    MaxTrouble = 1
CHECK_DEADLOCK FALSE
INVARIANTS
    StaleListingIsNoticed
    EntriesAreOfThePath
    AddressNamesThePath
    
PROPERTIES
    StaleListingIsRefreshed
    RefreshKeepsSelection
