\* The parts of the API process side by side.
SPECIFICATION ServicesSpec
CONSTANTS
    Request = {r1, r2, r3}
    Client = {c1, c2}
    None = None
    SerialSteps = 4
    SerialPlans <- Shapes
    SerialRetries = 1
    SerialFailures = 3
    SerialLowGain = 2
    SerialFingerprint = {"f1"}
    RunSteps = 2
    QuickPassSteps = 1
    ChatEdits = 1
    OrchSteps = 3
    OrchRetries = 1
    FlowRetries = 3
    FlowEdits = 1
    FileChunks = 2
    FileCrashes = 1
    WindowSeconds = 2
    RequestsPerWindow = 2
    RateTime = 5
    RatePerSecond = 2
    ServSteps = 3
    ServEvents = 2
    PromptRequest <- PromptRequests
    PromptVersions = 4
    Org <- Orgs4
    DefaultOrg = 1
    OrgUser = {1}
    OrgChanges = 1
    ToolStep = {1, 2}
    ToolDirect <- DirectTools
    ToolRaw = {"timeout"}
    ToolIds = 1
    ToolCallLimit = 2
    ToolLogLimit = 3
    PyPrints = 1
    FindChunk <- FindChunks
    FindDocument <- FindDocuments
    FindEmbedded = {1, 2}
    FindCoverages <- Coverages
    FindSubqueryLimit = 2
    FindRetries = 1
    FindRewrites = 2
    FindTopK = 2
    FindTopN = 2
    LessonServer = "server"
    LessonCases <- BenchmarkCases
    LessonQuestions <- PlannedQuestions
    LessonTopK = 1
    IndexTask <- IndexTasks
    IndexHome <- IndexHomes
    IndexStartup = 1
    IndexFailures = 2
    HistoryLimit = 8
    MaxTokens = 24
    TailWindow = 4
    MaxHistoryMessages = 8
    MaxPairs = 1
    MaxTopics = 1
    Floor = 2
    Overhead = 1
    Clip = 2
    MessageSize = {0, 3}
    Pinned = {2, 15, 23}
    MaxMessages = 9
    PolicyTexts <- SomePolicyTexts
    ShortText = 500
    MinSentences = 5
    LeastSplit = 100
    ChunkMax = 1200
    SmallTail = 200
SYMMETRY Symmetry
CHECK_DEADLOCK FALSE
INVARIANTS
    TypesOK
    PasswordIsLastAcked
    SessionsAgree
    ResultsCoverPlan
    ChatsAgree
    StreamSettles
    UploadsAreServed
    NoticesAgree
    RefusedOnlyAboveLimit
    SerialRun
    ResponseTellsRun
    HistoryKeepsTexts
    TreeStaysWhole
    ToolsAnswer
    RetrievalSound
    LessonsServe
    PromptTells
    DocumentsAreFound
PROPERTIES
    UndoneOnlyByStaleEdit
