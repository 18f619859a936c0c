CONSTANTS
    Requesters = {p1}
    Janitors = {}
    Users = {u1}
    Names = {n1}
    Folders = {d1}
    Root = Root
    NoName = NoName
    Sizes = {1, 2}
    Encryption = {FALSE}
    Quota = 3
    PageSize = 2
    MaxVersions = 2
    Stamps = {1}
    Ops = {"upload", "delete", "restore", "purge", "empty", "restoreVersion", "deleteVersion"}
    FreshNames = FALSE
    MaxCalls = 5
    MaxUploads = 4
    MaxFaults = 0
    MaxCrashes = 0
SPECIFICATION Spec
CHECK_DEADLOCK FALSE
INVARIANTS BinBacked VersionsBacked VersionsDistinct NoTmpLeft
PROPERTIES RestoreCanBeUndone PrunesOldestFirst
