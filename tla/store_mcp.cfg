SPECIFICATION Spec
CONSTANTS
    d1 = d1
    d2 = d2
    None = None
    Absent = Absent
    Bare = Bare
    Pending = Pending
    Docs <- MCDocs
    Configs <- MCConfigs
    NoTokens <- MCNoTokens
    Hosts = {"normal", "reindex", "mcp"}
    MaxFaults = 2
INVARIANTS
    OneDimension
    AcceptedStoreIndexed
