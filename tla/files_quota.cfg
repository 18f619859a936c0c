CONSTANTS
    Requesters = {p1, p2}
    Janitors = {}
    Users = {u1}
    Names = {n1, n2, n3}
    Folders = {}
    Root = Root
    NoName = NoName
    Sizes = {1, 2}
    Encryption = {FALSE}
    Quota = 3
    PageSize = 2
    MaxVersions = 1
    Stamps = {1}
    Ops = {"upload", "delete", "purge", "empty"}
    FreshNames = TRUE
    MaxCalls = 4
    MaxUploads = 3
    MaxFaults = 0
    MaxCrashes = 0
SPECIFICATION Spec
CHECK_DEADLOCK FALSE
SYMMETRY Symmetric
INVARIANTS UsedMatchesRows QuotaOvershootBounded RowBacked
