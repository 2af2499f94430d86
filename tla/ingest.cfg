SPECIFICATION Spec
CONSTANTS
    Bad = Bad
    NoFile = NoFile
    Defaults <- SomeDefaults
    ModelMax = 4
    ModelDim = 8
    MaxTopK = 3
    Layers <- SomeLayers
    Texts <- SomeTexts
    LineLen = 2
    Growths = {0, 2}
    Requests = {r1, r2}
    Uploads <- SomeUploads
    Slots = 1
    Budget = 1
    Lookup = 1
    MaxRedirects = 1
    Docs = {d1, d2}
    NoDoc = NoDoc
    Bodies <- SomeBodies
    Links <- SomeLinks
    Depth = 3
    Limit = 3
    MaxExpand = 3
    Origins = 2
    FrontierMax = 4
    RowLimit = 3
    BackNames = 2
    BackRows = 4
    MaxWrites = 3
    Calls = {c1, c2}
    Documents = {1, 2, 3, 4}
    Page = 2
    Every = 2
    Cap = 1
    None = None
INVARIANTS
    ChunksCoverText
    EmbeddedUnlessLonger
    JobsBounded
    AnswersInTime
    MentionsFollowTexts
    WalkIsConnected
    ExpansionReaches
    BacklinksAgree
    OneAtATime
    FlagIsOwned
    RebuildsTheStore
    ProgressIncreases
    CompletionDelivered
PROPERTIES
    UploadsAnswered
    HierarchyFollowsText
    EveryoneAnswered
CHECK_DEADLOCK FALSE
