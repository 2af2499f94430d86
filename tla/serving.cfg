SPECIFICATION Spec
CONSTANTS
    Clients = {c1, c2}
    Emails = {e1, e2}
    Invited = {e1}
    NoUser = NoUser
    Ttl = 1
    Leeway = 1
    MaxTime = 2
    MaxSessions = 1
    Docs = {1, 2, 3}
    Size <- SomeSize
    Title <- SomeTitle
    Limits = {1}
    ScanLimit = 3
    Page = 2
    MaxDocs = 2
    MaxDay = 1
    Documents = {1, 2}
    Count <- SomeCount
    Filtered = {1}
    TopK = {0, 1, 2}
    MaxTopK = 2
    RrfK = 1
    Unit = 8400
    Scores <- SomeScores
    MaxChanges = 1
    Starts = 2
    Bodies <- SomeBodies
    FrameMax = 1
    Capacity = 1
    Prompts <- SomePrompts
    Reserved = 4
    CharWidth = 2
    Queries = {q1, q2}
    Empty = Empty
    Quiet = Quiet
    MaxRows = 2
    MaxSeq = 9
    Notes = {n1, n2}
    Slots = {k1, k2}
    MaxEdits = 3
    MaxOpens = 2
    MaxFaults = 1
    None = None
INVARIANTS
    OneAccountPerEmail
    RevokedStaysRevoked
    PagesAreExact
    ReadsAgree
    RankedFairly
    ChatIsTruthful
    PromptFits
    RestShowsTheQuery
    SameNote
    RestIsTruthful
    QueueIsServed
PROPERTIES
    PipelineEnds
    DraftsLeave
CHECK_DEADLOCK FALSE
