CONSTANTS
    Sessions = {s1, s2}
    Names = {"a"}
    Drivers = {"local", "object"}
    Types = {"OPEN", "CLOSE", "WRITE", "REMOVE", "READLINK", "LARGE"}
    FlagSets = {{"WRITE", "CREAT", "TRUNC"}, {"WRITE"}}
    Offsets = {0}
    Window = 1
    MaxOpens = 2
    MaxWrites = 2
    Calls = {c1, c2}
    Clients = {k1}
    WrappedKeys = {1}
    Secrets = {1}
    TokenLife = 1
    MaxTokens = 2
    Writers = {w1, w2}
    Readers = {r1}
    Files = {f1, f2}
    MaxWritesOfFiles = 2
    MaxVersion = 2
    MaxRestarts = 1
    Visitors = {v1, v2}
    Limits = {0, 1, 2}
    MaxServed = 5
    Addresses = {ip1}
    Rate = 2
    WindowLength = 2
    CleanupInterval = 3
    MaxTime = 7
    Uploaders = {u1, u2}
    Indexers = {i1, i2}
    DocPaths = {p1}
    QueueLength = 1
    MaxDocs = 3
    Faults = TRUE
    GrantPaths <- Granting
    FilePaths <- Filed
SPECIFICATION ServicesSpec
SYMMETRY Alike
CONSTRAINTS AstrayAlone ResetsApart
CHECK_DEADLOCK FALSE
INVARIANTS
    AckedIsStored
    WholeUploads
    TargetedColumnsKept
    ResetTokenSpent
    AskedSecretProven
    ClosedFileOpens
    ReaderGetsOneWrite
    ServedWithinLimit
    UnderTwiceTheRate
    EntriesBounded
PROPERTIES
    OpenRowKept
    NearestRowDecides
