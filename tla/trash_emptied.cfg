CONSTANTS
    Requesters = {p1}
    Janitors = {}
    Users = {u1}
    Names = {n1, n2}
    Folders = {}
    Root = Root
    NoName = NoName
    Sizes = {1}
    Encryption = {FALSE}
    Quota = 0
    PageSize = 1
    MaxVersions = 1
    Stamps = {1}
    Ops = {"upload", "delete", "empty"}
    FreshNames = TRUE
    MaxCalls = 5
    MaxUploads = 2
    MaxFaults = 0
    MaxCrashes = 0
SPECIFICATION Spec
CHECK_DEADLOCK FALSE
INVARIANTS TrashHasNoOrphans
