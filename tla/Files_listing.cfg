\* Listings that ask for pages of a tree.
CONSTANTS
    r1 = r1
    r2 = r2
    r3 = r3
    Requests = {r1, r2, r3}
    Order <- Tree
    Folders <- StartFolders
    Stored <- StartStored
    Asks <- JustList
    Limit = 2
    Crashes = TRUE
    Dir = Dir
    Old = Old
    None = None
SYMMETRY Symmetric
SPECIFICATION Spec
INVARIANT FullResultCached
\* The requests are used up.
CHECK_DEADLOCK FALSE
