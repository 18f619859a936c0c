CONSTANTS
    Requesters = {p1, p2}
    Janitors = {j}
    Users = {u1}
    Names = {n1, n2}
    Folders = {}
    Root = Root
    NoName = NoName
    Sizes = {1}
    Encryption = {FALSE}
    Quota = 0
    PageSize = 2
    MaxVersions = 1
    Stamps = {1}
    Ops = {"upload", "delete", "restore", "purge", "empty", "cleanup"}
    FreshNames = TRUE
    MaxCalls = 4
    MaxUploads = 2
    MaxFaults = 1
    MaxCrashes = 1
SPECIFICATION Spec
CHECK_DEADLOCK FALSE
SYMMETRY Symmetric
INVARIANTS NoSilentLoss
