CONSTANTS
    Requesters = {p1}
    Janitors = {}
    Users = {u1}
    Names = {n1}
    Folders = {d1}
    Root = Root
    NoName = NoName
    Sizes = {1}
    Encryption = {FALSE}
    Quota = 0
    PageSize = 2
    MaxVersions = 2
    Stamps = {1}
    Ops = {"upload"}
    FreshNames = FALSE
    MaxCalls = 2
    MaxUploads = 2
    MaxFaults = 0
    MaxCrashes = 0
SPECIFICATION Spec
CHECK_DEADLOCK FALSE
PROPERTIES OverwriteKeepsVersion
