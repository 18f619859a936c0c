CONSTANTS
    Sessions = {s1}
    Names = {"a"}
    Drivers = {"local", "object"}
    Types = {"INIT", "OPEN", "CLOSE", "READ", "WRITE", "FSTAT", "SETSTAT", "OPENDIR",
             "READDIR", "REMOVE", "MKDIR", "RMDIR", "REALPATH", "STAT", "RENAME"}
    FlagSets = {{"READ", "WRITE", "CREAT", "TRUNC"}, {"READ"}, {"WRITE"}}
    Offsets = {0, 1}
    Window = 2
    MaxOpens = 1
    MaxWrites = 1
    Calls = {c1}
    Clients = {k1, k2}
    WrappedKeys = {1}
    Secrets = {1}
    TokenLife = 2
    MaxTokens = 1
    Writers = {w1}
    Readers = {r1}
    Files = {f1}
    MaxWritesOfFiles = 1
    MaxVersion = 1
    MaxRestarts = 0
    Visitors = {v1}
    Limits = {1}
    MaxServed = 1
    Addresses = {ip1}
    Rate = 1
    WindowLength = 1
    CleanupInterval = 1
    MaxTime = 1
    Uploaders = {u1, u2}
    Indexers = {i1, i2}
    DocPaths = {p1, p2}
    QueueLength = 1
    MaxDocs = 2
    Faults = FALSE
    GrantPaths <- Granting
    FilePaths <- Filed
SPECIFICATION FairServices
CHECK_DEADLOCK FALSE
INVARIANTS
    AnsweredInOrder
PROPERTIES
    EveryRequestAnswered
    DisabledLosesAccess
    UploadIsIndexed
