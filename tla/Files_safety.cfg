\* A folder with a file and a free name beside it, three requests of any kind.
CONSTANTS
    r1 = r1
    r2 = r2
    r3 = r3
    Requests = {r1, r2, r3}
    Order <- Tree
    Folders <- StartFolders
    Stored <- StartStored
    Asks <- AllAsks
    Limit = 2
    Crashes = TRUE
    Dir = Dir
    Old = Old
    None = None
SYMMETRY Symmetric
SPECIFICATION Spec
INVARIANTS
    TypeOK
    UploadTold
    NothingDangerous
    CopyWhole
    ItemsToldTruly
    BodyAnnounced
\* The requests are used up.
CHECK_DEADLOCK FALSE
