CONSTANTS
    Requesters = {p1, p2}
    Janitors = {}
    Users = {u1}
    Names = {n1}
    Folders = {d1}
    Root = Root
    NoName = NoName
    Sizes = {1}
    Encryption = {FALSE}
    Quota = 0
    PageSize = 2
    MaxVersions = 1
    Stamps = {1}
    Ops = {"upload", "restoreVersion", "deleteVersion"}
    FreshNames = FALSE
    MaxCalls = 5
    MaxUploads = 4
    MaxFaults = 0
    MaxCrashes = 0
SPECIFICATION Spec
CHECK_DEADLOCK FALSE
SYMMETRY Symmetric
INVARIANTS TypeOK VersionsBounded
