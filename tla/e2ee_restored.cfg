CONSTANTS
    Requesters = {p1}
    Janitors = {}
    Users = {u1}
    Names = {n1}
    Folders = {}
    Root = Root
    NoName = NoName
    Sizes = {1}
    Encryption = {FALSE, TRUE}
    Quota = 0
    PageSize = 2
    MaxVersions = 1
    Stamps = {1}
    Ops = {"upload", "delete", "restore"}
    FreshNames = TRUE
    MaxCalls = 3
    MaxUploads = 1
    MaxFaults = 0
    MaxCrashes = 0
SPECIFICATION Spec
CHECK_DEADLOCK FALSE
INVARIANTS E2EEFlagMatchesBytes
