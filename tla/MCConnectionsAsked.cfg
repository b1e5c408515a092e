SPECIFICATION Spec
CONSTANTS
    Ids = {c1, c2}
    Keys = {k1}
    Browser = Browser
    Link = Link
    NoKeys = NoKeys
    None = None
    MaxCalls = 3
CHECK_DEADLOCK FALSE
INVARIANT
    StoredKeysWereAskedFor
